---------------------------- MODULE Lz4FrameProofs ----------------------------
(***************************************************************************)
(* Proofs about Lz4Frame, for any window, block sizes, dictionaries and    *)
(* limit: the limit holds over all frames, junk is never passed over, and  *)
(* decoding through a window implements Lz4Stream, which forgets nothing.  *)
(***************************************************************************)
EXTENDS Lz4Frame, SequenceTheorems, TLAPS

-------------------------------------------------------------------------------
(* Sequences.                                                              *)

LEMMA NewestLength ==
  ASSUME NEW s \in Seq(Byte), NEW n \in Nat \ {0}
  PROVE  Newest(s, n) \in Seq(Byte) /\ Len(Newest(s, n)) <= n
  <1>1. CASE Len(s) > n
    BY <1>1 DEF Newest
  <1>2. CASE Len(s) <= n
    BY <1>2 DEF Newest
  <1> QED
    BY <1>1, <1>2

\* A match appends as many bytes as it says, whether or not it overlaps itself.
LEMMA CopiedLength ==
  ASSUME NEW s \in Seq(Byte), NEW offset \in 1..Len(s), NEW mlen \in Nat
  PROVE  Copied(s, offset, mlen) \in Seq(Byte) /\ Len(Copied(s, offset, mlen)) = mlen
  <1> DEFINE start == Len(s) - offset
             seed == SubSeq(s, start + 1, Len(s))
  <1>1. start \in Nat /\ start + offset = Len(s)
    OBVIOUS
  <1>2. CASE offset >= mlen
    <2>1. /\ SubSeq(s, start + 1, start + mlen) \in Seq(Byte)
          /\ Len(SubSeq(s, start + 1, start + mlen)) = mlen
      BY <1>1, <1>2
    <2> QED
      BY <1>2, <2>1 DEF Copied
  <1>3. CASE offset < mlen
    <2>1. seed \in Seq(Byte) /\ Len(seed) = offset
      BY <1>1
    <2> HIDE DEF seed
    <2>2. \A k \in 1..mlen : ((k - 1) % offset) + 1 \in 1..offset
      OBVIOUS
    <2>3. \A k \in 1..mlen : seed[((k - 1) % offset) + 1] \in Byte
      BY <2>1, <2>2
    <2> DEFINE r == [k \in 1..mlen |-> seed[((k - 1) % offset) + 1]]
    <2>4. r \in Seq(Byte) /\ Len(r) = mlen
      BY <2>3
    <2>5. Copied(s, offset, mlen) = r
      <3>1. ~(offset >= mlen)
        BY <1>3
      <3> QED
        BY <3>1, ZenonT(30) DEF Copied, seed
    <2> QED
      BY <2>4, <2>5
  <1> QED
    BY <1>2, <1>3

-------------------------------------------------------------------------------
(* The inductive invariant.                                                *)

TypeInv ==
  /\ dictionary \in Seq(Byte) /\ total \in Seq(Byte) /\ out \in Seq(Byte)
  /\ history \in Seq(Byte) /\ blk \in Seq(Byte)
  /\ base \in 0..Len(blk) /\ allowance \in Nat

\* The history is the window, and what is written fits the limit; only while
\* a block is decoded does it hold anything, within the block's allowance.
BudgetInv ==
  /\ Len(history) <= Window \/ history = dictionary
  /\ Len(total) + Len(out) + Produced <= MaxOutput
  /\ pc \in {"frame", "block", "finish", "done"} => blk = <<>> /\ base = 0
  /\ pc \in {"block", "finish", "stored", "sequence", "match"} =>
       info.block_max \in Nat
  /\ InBlock => /\ allowance <= info.block_max
                /\ Len(total) + Len(out) + allowance <= MaxOutput
                /\ Produced <= allowance
  /\ pc = "stored" => Produced = 0

IInv == TypeInv /\ BudgetInv

-------------------------------------------------------------------------------
(* The steps.                                                              *)

\* Giving up changes nothing that counts.
LEMMA FailStep ==
  ASSUME IInv, NEW why, NEW n, Fail(why, n)
  PROVE  IInv'
  <1>1. /\ pc' = "error"
        /\ UNCHANGED <<dictionary, total, info, out, history, blk, base, allowance, ahead>>
    BY DEF Fail, given
  <1> QED
    BY <1>1 DEF IInv, TypeInv, BudgetInv, InBlock, Produced

\* What is written so far fits the limit.
LEMMA WrittenFits ==
  ASSUME IInv
  PROVE  Len(total) + Len(out) <= MaxOutput /\ Len(total) <= MaxOutput
  <1>1. Len(total) \in Nat /\ Len(out) \in Nat /\ Produced \in Nat
    BY DEF IInv, TypeInv, Produced
  <1>2. Len(total) + Len(out) + Produced <= MaxOutput
    BY DEF IInv, BudgetInv
  <1> QED
    BY <1>1, <1>2, SizeAssumption

\* Between frames, and between the blocks of one.
LEMMA BetweenStep ==
  ASSUME IInv, pc \in {"frame", "block", "finish"}, pc' \in {"frame", "block", "finish"},
         UNCHANGED <<dictionary, blk, base, allowance>>,
         total' \in Seq(Byte), out' \in Seq(Byte),
         Len(total') + Len(out') <= MaxOutput,
         history' \in {history, dictionary, <<>>},
         pc' # "frame" => info'.block_max \in Nat
  PROVE  IInv'
  <1> USE DEF IInv, TypeInv, BudgetInv, InBlock, Produced
  <1>1. blk' = <<>> /\ base' = 0
    OBVIOUS
  <1>2. TypeInv'
    BY <1>1
  <1>3. Len(history') <= Window \/ history' = dictionary'
    BY SizeAssumption
  <1>4. BudgetInv'
    BY <1>1, <1>3
  <1> QED
    BY <1>2, <1>4

LEMMA FrameStep ==
  ASSUME IInv, \/ EndOfInput \/ SkippableFrame \/ LegacyFrame \/ Damaged
               \/ \E independent, needsDictionary \in BOOLEAN, max \in BlockMaxes,
                     size \in {Unknown} \cup 0..(MaxOutput + 1) :
                    ModernFrame(independent, size, max, needsDictionary)
  PROVE  IInv'
  <1>1. CASE EndOfInput
    BY <1>1 DEF EndOfInput, given, IInv, TypeInv, BudgetInv, InBlock, Produced
  <1>2. CASE SkippableFrame
    <2>1. pc = "frame" /\ pc' = "frame"
          /\ UNCHANGED <<dictionary, total, out, history, blk, base, allowance, info>>
      BY <1>2 DEF SkippableFrame, given
    <2> QED
      BY <2>1, BetweenStep DEF IInv, TypeInv, BudgetInv, Produced
  <1>3. CASE LegacyFrame
    <2>1. /\ pc = "frame" /\ pc' = "block" /\ info'.block_max = LegacyMax
          /\ out' = <<>> /\ history' = <<>>
          /\ UNCHANGED <<dictionary, total, blk, base, allowance>>
      BY <1>3 DEF LegacyFrame, given
    <2>2. Len(total') + Len(out') <= MaxOutput /\ out' \in Seq(Byte) /\ total' \in Seq(Byte)
      <3>1. Len(<<>>) = 0 /\ Len(total) \in Nat
        BY DEF IInv, TypeInv
      <3> QED
        BY <2>1, <3>1, WrittenFits DEF IInv, TypeInv
    <2> QED
      BY <2>1, <2>2, BetweenStep, SizeAssumption
  <1>4. CASE Damaged
    BY <1>4, FailStep DEF Damaged
  <1>5. ASSUME NEW independent, NEW needsDictionary, NEW max \in BlockMaxes, NEW size,
               ModernFrame(independent, size, max, needsDictionary)
        PROVE  IInv'
    <2>1. CASE \E why, n : Fail(why, n)
      BY <2>1, FailStep
    <2>2. CASE /\ pc = "frame" /\ pc' = "block" /\ info'.block_max = max
               /\ out' = <<>> /\ history' = dictionary
               /\ UNCHANGED <<dictionary, total, blk, base, allowance>>
      <3>1. Len(total') + Len(out') <= MaxOutput /\ out' \in Seq(Byte) /\ total' \in Seq(Byte)
        <4>1. Len(<<>>) = 0 /\ Len(total) \in Nat
          BY DEF IInv, TypeInv
        <4> QED
          BY <2>2, <4>1, WrittenFits DEF IInv, TypeInv
      <3> QED
        BY <2>2, <3>1, BetweenStep, SizeAssumption
    <2> QED
      BY <1>5, <2>1, <2>2 DEF ModernFrame, given
  <1> QED
    BY <1>1, <1>2, <1>3, <1>4, <1>5

\* A block may grow to what its descriptor and the limit leave.
LEMMA BeginStep ==
  ASSUME IInv, pc = "block", NEW step \in {"sequence", "stored"}, NEW prefix \in Seq(Byte),
         BeginBlock(step, prefix)
  PROVE  IInv'
  <1> USE DEF IInv, TypeInv, BudgetInv, InBlock, Produced
  <1>1. /\ pc' = step /\ allowance' = Allowance
        /\ blk' = Newest(prefix, Window) /\ base' = Len(blk')
        /\ UNCHANGED <<dictionary, total, info, out, history>>
    BY DEF BeginBlock, given
  <1>2. blk' \in Seq(Byte)
    BY <1>1, NewestLength, SizeAssumption
  <1>3. Len(total) + Len(out) <= MaxOutput /\ info.block_max \in Nat
    OBVIOUS
  <1>4. /\ Allowance \in Nat /\ Allowance <= info.block_max
        /\ Len(total) + Len(out) + Allowance <= MaxOutput
    BY <1>3, SizeAssumption DEF Allowance, FrameOutput, Min2
  <1>5. TypeInv'
    BY <1>1, <1>2, <1>4
  <1>6. Produced' = 0
    BY <1>1, <1>2
  <1>7. BudgetInv'
    BY <1>1, <1>3, <1>4, <1>6
  <1> QED
    BY <1>1, <1>5, <1>7

LEMMA BlockStep ==
  ASSUME IInv, CompressedBlock \/ StoredBlock \/ LegacyBlock
  PROVE  IInv'
  <1>1. <<>> \in Seq(Byte) /\ dictionary \in Seq(Byte) /\ history \in Seq(Byte)
    BY DEF IInv, TypeInv
  <1>2. CASE CompressedBlock
    BY <1>1, <1>2, BeginStep DEF CompressedBlock
  <1>3. CASE StoredBlock
    BY <1>1, <1>3, BeginStep DEF StoredBlock
  <1>4. CASE LegacyBlock
    BY <1>1, <1>4, BeginStep DEF LegacyBlock
  <1> QED
    BY <1>2, <1>3, <1>4

\* What a block brought out, within its allowance, becomes the frame's.
LEMMA TakeStep ==
  ASSUME IInv, InBlock, NEW chunk \in Seq(Byte), Len(chunk) <= allowance, TakeChunk(chunk)
  PROVE  IInv'
  <1> USE DEF IInv, TypeInv, BudgetInv, InBlock, Produced
  <1>1. /\ pc' = "block" /\ blk' = <<>> /\ base' = 0 /\ allowance' = 0
        /\ out' = out \o chunk
        /\ history' = IF info.block_independent THEN history ELSE Newest(history \o chunk, Window)
        /\ UNCHANGED <<dictionary, total, info>>
    BY DEF TakeChunk, given
  <1>2. out' \in Seq(Byte) /\ Len(out') = Len(out) + Len(chunk)
    BY <1>1
  <1>3. Newest(history \o chunk, Window) \in Seq(Byte) /\ Len(Newest(history \o chunk, Window)) <= Window
    <2>1. history \o chunk \in Seq(Byte)
      OBVIOUS
    <2> QED
      BY <2>1, NewestLength, SizeAssumption
  <1>4. TypeInv'
    BY <1>1, <1>2, <1>3
  <1>5. Len(history') <= Window \/ history' = dictionary'
    BY <1>1, <1>3
  <1>6. Len(total') + Len(out') + Produced' <= MaxOutput
    BY <1>1, <1>2, SizeAssumption
  <1>7. BudgetInv'
    BY <1>1, <1>5, <1>6
  <1> QED
    BY <1>1, <1>4, <1>7

LEMMA StoredStep ==
  ASSUME IInv, NEW body \in Run(MaxRun), StoredBody(body)
  PROVE  IInv'
  <1>1. body \in Seq(Byte)
    BY SizeAssumption DEF Run
  <1>2. CASE Fail("limit", Len(body))
    BY <1>2, FailStep
  <1>3. CASE Len(body) <= allowance /\ TakeChunk(body)
    BY <1>1, <1>3, TakeStep DEF StoredBody, InBlock
  <1> QED
    BY <1>2, <1>3 DEF StoredBody

\* A run or a match that fits what is left of the block.
LEMMA GrowStep ==
  ASSUME IInv, pc \in {"sequence", "match"}, pc' \in {"sequence", "match"},
         NEW more \in Seq(Byte), Fits(Len(more)), blk' = blk \o more,
         UNCHANGED <<dictionary, total, info, out, history, base, allowance>>
  PROVE  IInv'
  <1> USE DEF IInv, TypeInv, BudgetInv, InBlock, Produced
  <1>1. blk' \in Seq(Byte) /\ Len(blk') = Len(blk) + Len(more)
    OBVIOUS
  <1>2. TypeInv'
    BY <1>1
  <1>3. Produced' <= allowance
    BY <1>1 DEF Fits
  <1>4. Len(total) + Len(out) + Produced' <= MaxOutput
    BY <1>1, <1>3, SizeAssumption
  <1>5. BudgetInv'
    BY <1>3, <1>4
  <1> QED
    BY <1>2, <1>5

LEMMA RunStep ==
  ASSUME IInv, NEW run \in Run(MaxRun), LiteralRun(run)
  PROVE  IInv'
  <1>1. run \in Seq(Byte)
    BY SizeAssumption DEF Run
  <1>2. CASE Fail("limit", Len(run))
    BY <1>2, FailStep
  <1>3. CASE /\ Fits(Len(run)) /\ blk' = blk \o run /\ pc' = "match"
             /\ UNCHANGED <<dictionary, total, info, out, history, base, allowance>>
    BY <1>1, <1>3, GrowStep DEF LiteralRun
  <1> QED
    BY <1>2, <1>3 DEF LiteralRun, given

LEMMA MatchStep ==
  ASSUME IInv, NEW offset \in 0..MaxOffset, NEW mlen \in MinMatch..MaxMatch, Match(offset, mlen)
  PROVE  IInv'
  <1>1. CASE \E why, n : Fail(why, n)
    BY <1>1, FailStep
  <1>2. CASE /\ InReach(offset) /\ Fits(mlen) /\ blk' = blk \o Copied(blk, offset, mlen)
             /\ pc' = "sequence"
             /\ UNCHANGED <<dictionary, total, info, out, history, base, allowance>>
    <2>1. /\ Copied(blk, offset, mlen) \in Seq(Byte)
          /\ Len(Copied(blk, offset, mlen)) = mlen
      BY <1>2, CopiedLength, SizeAssumption DEF InReach, IInv, TypeInv
    <2> QED
      BY <1>2, <2>1, GrowStep DEF Match
  <1> QED
    BY <1>1, <1>2 DEF Match, given

LEMMA EndBlockStep ==
  ASSUME IInv, EndBlock
  PROVE  IInv'
  <1> DEFINE chunk == SubSeq(blk, base + 1, Len(blk))
  <1>1. pc \in {"sequence", "match"} /\ TakeChunk(chunk)
    BY DEF EndBlock, MayEndAfter
  <1>2. chunk \in Seq(Byte) /\ Len(chunk) = Produced
    BY DEF IInv, TypeInv, Produced
  <1>3. Produced <= allowance
    BY <1>1 DEF IInv, BudgetInv, InBlock
  <1> HIDE DEF chunk
  <1> QED
    BY <1>1, <1>2, <1>3, TakeStep DEF InBlock

LEMMA EndFrameStep ==
  ASSUME IInv, \/ EndMark \/ FinishFrame
               \/ \E next \in {"eof", "magic", "junk"} : EndLegacy(next)
  PROVE  IInv'
  <1>1. CASE EndMark
    <2>1. /\ pc = "block" /\ pc' = "finish"
          /\ UNCHANGED <<dictionary, total, out, history, blk, base, allowance, info>>
      BY <1>1 DEF EndMark, given
    <2> QED
      BY <2>1, BetweenStep DEF IInv, TypeInv, BudgetInv, Produced
  <1>2. CASE Fail("malformed", 0)
    BY <1>2, FailStep
  <1>3. CASE pc \in {"block", "finish"} /\ ReturnFrame
    <2>1. /\ pc' = "frame" /\ total' = total \o out /\ out' = <<>> /\ history' = <<>>
          /\ UNCHANGED <<dictionary, blk, base, allowance>>
      BY <1>3 DEF ReturnFrame, given
    <2>2. total' \in Seq(Byte) /\ out' \in Seq(Byte) /\ Len(total') + Len(out') = Len(total) + Len(out)
      BY <2>1 DEF IInv, TypeInv
    <2>3. Len(total) + Len(out) <= MaxOutput
      BY WrittenFits
    <2> QED
      BY <1>3, <2>1, <2>2, <2>3, BetweenStep
  <1> QED
    BY <1>1, <1>2, <1>3 DEF FinishFrame, EndLegacy

-------------------------------------------------------------------------------
(* The theorems.                                                           *)

\* The inductive invariant holds in every reachable state.
THEOREM Invariance == Spec => []IInv
  <1>1. Init => IInv
    BY SizeAssumption, DictionaryAssumption
      DEF Init, IInv, TypeInv, BudgetInv, InBlock, Produced
  <1>2. IInv /\ [Next]_vars => IInv'
    <2> SUFFICES ASSUME IInv, [Next]_vars PROVE IInv'
      OBVIOUS
    <2>1. CASE UNCHANGED vars
      BY <2>1 DEF vars, IInv, TypeInv, BudgetInv, InBlock, Produced
    <2>2. CASE Next
      BY <2>2, FrameStep, BlockStep, StoredStep, RunStep, MatchStep, EndBlockStep, EndFrameStep
        DEF Next
    <2> QED
      BY <2>1, <2>2
  <1> QED
    BY <1>1, <1>2, PTL DEF Spec

\* max_output bounds the bytes of all frames together at every moment, and the
\* history is never longer than a window (decompress, decompress_frame and
\* decompress_block of lz4_frame).
THEOREM LimitHolds == Spec => []WithinBudget
  <1>1. IInv => WithinBudget
    BY DEF IInv, BudgetInv, WithinBudget
  <1> QED
    BY <1>1, Invariance, PTL

-------------------------------------------------------------------------------
(* The ends of sequences.                                                  *)

\* r is the last m bytes of s.
IsEnd(r, s, m) ==
  /\ r \in Seq(Byte) /\ Len(r) = m /\ m \in Nat /\ m <= Len(s) /\ Len(s) \in Nat
  /\ \A k \in 1..m : r[k] = s[Len(s) - m + k]

LEMMA NewestIs ==
  ASSUME NEW s \in Seq(Byte), NEW n \in Nat
  PROVE  IsEnd(Newest(s, n), s, Min2(Len(s), n))
  <1>0. Len(s) \in Nat /\ \A k \in 1..Len(s) : s[k] \in Byte
    BY LenProperties, ElementOfSeq
  <1>1. CASE Len(s) > n
    <2> DEFINE m == Len(s) - n + 1
               r == SubSeq(s, m, Len(s))
    <2>1. m \in Int /\ Len(s) \in Int /\ \A k \in m..Len(s) : s[k] \in Byte
      BY <1>0, <1>1
    <2>2. /\ r \in Seq(Byte) /\ Len(r) = IF m <= Len(s) THEN Len(s) - m + 1 ELSE 0
          /\ \A k \in 1..(Len(s) - m + 1) : r[k] = s[m + k - 1]
      <3> HIDE DEF m
      <3> QED
        BY <2>1, SubSeqProperties
    <2>3. Newest(s, n) = r
      BY <1>1 DEF Newest
    <2>4. Min2(Len(s), n) = n
      BY <1>0, <1>1 DEF Min2
    <2>5. Len(s) - m + 1 = n /\ (m <= Len(s) \/ n = 0) /\ Len(r) = n
      BY <1>0, <1>1, <2>2
    <2>6. \A k \in 1..n : m + k - 1 = Len(s) - n + k
      BY <1>0
    <2>7. n <= Len(s)
      BY <1>0, <1>1
    <2> HIDE DEF m, r
    <2>8. IsEnd(r, s, n)
      BY <1>0, <2>2, <2>5, <2>6, <2>7 DEF IsEnd
    <2> QED
      BY <2>3, <2>4, <2>8
  <1>2. CASE Len(s) <= n
    <2>1. Newest(s, n) = s
      BY <1>0, <1>2 DEF Newest
    <2>2. Min2(Len(s), n) = Len(s)
      BY <1>0, <1>2 DEF Min2
    <2>3. \A k \in 1..Len(s) : Len(s) - Len(s) + k = k
      BY <1>0
    <2>4. IsEnd(s, s, Len(s))
      BY <1>0, <2>3 DEF IsEnd
    <2> QED
      BY <2>1, <2>2, <2>4
  <1> QED
    BY <1>0, <1>1, <1>2

\* s followed by c, byte for byte.
IsConcat(w, s, c) ==
  /\ w \in Seq(Byte) /\ Len(w) = Len(s) + Len(c) /\ Len(s) \in Nat /\ Len(c) \in Nat
  /\ \A k \in 1..(Len(s) + Len(c)) : w[k] = IF k <= Len(s) THEN s[k] ELSE c[k - Len(s)]

LEMMA ConcatIs ==
  ASSUME NEW s \in Seq(Byte), NEW c \in Seq(Byte)
  PROVE  IsConcat(s \o c, s, c)
  <1>1. /\ s \o c \in Seq(Byte) /\ Len(s \o c) = Len(s) + Len(c)
        /\ \A k \in 1..(Len(s) + Len(c)) : (s \o c)[k] = IF k <= Len(s) THEN s[k] ELSE c[k - Len(s)]
    BY ConcatProperties, ZenonT(30)
  <1>2. Len(s) \in Nat /\ Len(c) \in Nat
    BY LenProperties, ZenonT(30)
  <1> QED
    BY <1>1, <1>2, ZenonT(30) DEF IsConcat

LEMMA EndsAgree ==
  ASSUME NEW n \in Nat, NEW s, NEW c, NEW a, NEW x, NEW y, NEW r, NEW t,
         IsEnd(a, s, Min2(Len(s), n)), IsConcat(x, a, c), IsConcat(y, s, c),
         IsEnd(r, x, Min2(Len(x), n)), IsEnd(t, y, Min2(Len(y), n))
  PROVE  r = t
  <1>q. PICK q \in Nat : q = Len(s)
    BY DEF IsEnd
  <1>p. PICK p \in Nat : p = Len(a)
    BY DEF IsEnd
  <1>l. PICK l \in Nat : l = Len(c)
    BY DEF IsConcat
  <1>1. q \in Nat /\ p \in Nat /\ l \in Nat
    BY <1>q, <1>p, <1>l
  <1>2. /\ a \in Seq(Byte) /\ \A k \in 1..p : a[k] = s[q - p + k]
        /\ p = Min2(q, n)
    BY <1>q, <1>p DEF IsEnd
  <1>3. p <= n /\ p <= q
    BY <1>1, <1>2 DEF Min2
  <1>m. PICK m \in Nat : m = Min2(p + l, n)
    BY <1>1 DEF Min2
  <1>4. m \in Nat /\ m <= p + l /\ m <= q + l
    BY <1>1, <1>2, <1>3, <1>m DEF Min2
  <1>5. m = Min2(q + l, n)
    BY <1>1, <1>2, <1>3, <1>m DEF Min2
  <1>6. /\ x \in Seq(Byte) /\ Len(x) = p + l
        /\ \A k \in 1..(p + l) : x[k] = IF k <= p THEN a[k] ELSE c[k - p]
    BY <1>p, <1>l DEF IsConcat
  <1>7. /\ y \in Seq(Byte) /\ Len(y) = q + l
        /\ \A k \in 1..(q + l) : y[k] = IF k <= q THEN s[k] ELSE c[k - q]
    BY <1>q, <1>l DEF IsConcat
  <1>8. IsEnd(r, x, m) /\ IsEnd(t, y, m)
    BY <1>m, <1>5, <1>6, <1>7
  <1>9. ASSUME NEW k \in 1..m PROVE x[(p + l) - m + k] = y[(q + l) - m + k]
    <2>i. PICK i \in Int : i = (p + l) - m + k
      BY <1>1, <1>4
    <2>0. i \in Int /\ i = (p + l) - m + k
      BY <2>i
    <2>1. i \in 1..(p + l) /\ (q + l) - m + k = i + (q - p) /\ i + (q - p) \in 1..(q + l)
      BY <1>1, <1>3, <1>4, <2>0
    <2>2. CASE i <= p
      <3>1. i \in 1..p /\ i + (q - p) <= q /\ q - p + i = i + (q - p)
        BY <1>1, <2>0, <2>1, <2>2
      <3>2. x[i] = a[i] /\ y[i + (q - p)] = s[i + (q - p)]
        BY <1>6, <1>7, <2>1, <2>2, <3>1
      <3>3. a[i] = s[i + (q - p)]
        BY <1>2, <3>1
      <3> QED
        BY <2>0, <2>1, <3>2, <3>3
    <2>3. CASE ~(i <= p)
      <3>1. ~(i + (q - p) <= q) /\ i - p = (i + (q - p)) - q
        BY <1>1, <2>0, <2>3
      <3>2. x[i] = c[i - p] /\ y[i + (q - p)] = c[(i + (q - p)) - q]
        BY <1>6, <1>7, <2>1, <2>3, <3>1
      <3> QED
        BY <2>0, <2>1, <3>1, <3>2
    <2> QED
      BY <2>2, <2>3
  <1>10. /\ r \in Seq(Byte) /\ Len(r) = m /\ t \in Seq(Byte) /\ Len(t) = m
         /\ \A k \in 1..m : r[k] = t[k]
    <2>1. /\ r \in Seq(Byte) /\ Len(r) = m /\ t \in Seq(Byte) /\ Len(t) = m
          /\ \A k \in 1..m : r[k] = x[(p + l) - m + k]
          /\ \A k \in 1..m : t[k] = y[(q + l) - m + k]
      BY <1>6, <1>7, <1>8 DEF IsEnd
    <2> QED
      BY <1>9, <2>1
  <1> QED
    BY <1>10, SeqEqual

\* Forgetting before more is added forgets nothing that would be kept.
LEMMA NewestAbsorbs ==
  ASSUME NEW s \in Seq(Byte), NEW c \in Seq(Byte), NEW n \in Nat
  PROVE  Newest(Newest(s, n) \o c, n) = Newest(s \o c, n)
  <1> PICK a : a = Newest(s, n)
    OBVIOUS
  <1>1. IsEnd(a, s, Min2(Len(s), n))
    BY NewestIs
  <1>2. a \in Seq(Byte)
    BY <1>1 DEF IsEnd
  <1>3. IsConcat(a \o c, a, c) /\ IsConcat(s \o c, s, c)
    BY <1>2, ConcatIs
  <1>4. a \o c \in Seq(Byte) /\ s \o c \in Seq(Byte)
    BY <1>3 DEF IsConcat
  <1>5. /\ IsEnd(Newest(a \o c, n), a \o c, Min2(Len(a \o c), n))
        /\ IsEnd(Newest(s \o c, n), s \o c, Min2(Len(s \o c), n))
    BY <1>4, NewestIs, Zenon
  <1>6. Newest(a \o c, n) = Newest(s \o c, n)
    BY <1>1, <1>3, <1>5, EndsAgree, Zenon
  <1> QED
    BY <1>6

LEMMA NewestTwice ==
  ASSUME NEW s \in Seq(Byte), NEW n \in Nat
  PROVE  Newest(Newest(s, n), n) = Newest(s, n)
  <1>0. IsEnd(Newest(s, n), s, Min2(Len(s), n))
    BY NewestIs
  <1>1. /\ Newest(s, n) \in Seq(Byte) /\ Len(Newest(s, n)) = Min2(Len(s), n)
        /\ Len(s) \in Nat
    BY <1>0 DEF IsEnd
  <1>2. Len(Newest(s, n)) <= n
    BY <1>1 DEF Min2
  <1>3. ~(Len(Newest(s, n)) > n)
    BY <1>1, <1>2 DEF Min2
  <1> PICK r : r = Newest(s, n)
    OBVIOUS
  <1>4. Newest(r, n) = r
    BY <1>3 DEF Newest
  <1> QED
    BY <1>4

LEMMA Remainder ==
  ASSUME NEW x \in Nat, NEW o \in Nat \ {0}
  PROVE  x = o * (x \div o) + (x % o) /\ x \div o \in Int /\ x % o \in 0..(o - 1)
  <1>1. x \div o \in Int /\ x % o \in 0..(o - 1)
    OBVIOUS
  <1>2. x = o * (x \div o) + (x % o)
    BY Z3T(30)
  <1> QED
    BY <1>1, <1>2

LEMMA RemIsSame ==
  ASSUME NEW x \in Nat, NEW o \in Nat \ {0}, x < o
  PROVE  x % o = x
  OBVIOUS

LEMMA RemIsUnique ==
  ASSUME NEW o \in Nat \ {0}, NEW q \in Int, NEW p \in Int,
         NEW r \in 0..(o - 1), NEW s \in 0..(o - 1), o * q + r = o * p + s
  PROVE  r = s
  <1>1. CASE q < p
    <2>1. o * p >= o * (q + 1)
      BY <1>1
    <2>2. o * (q + 1) = o * q + o
      OBVIOUS
    <2> QED
      BY <2>1, <2>2
  <1>2. CASE p < q
    <2>1. o * q >= o * (p + 1)
      BY <1>2
    <2>2. o * (p + 1) = o * p + o
      OBVIOUS
    <2> QED
      BY <2>1, <2>2
  <1>3. CASE p = q
    BY <1>3
  <1> QED
    BY <1>1, <1>2, <1>3

LEMMA RemIsPeriodic ==
  ASSUME NEW x \in Nat, NEW o \in Nat \ {0}, x >= o
  PROVE  (x - o) % o = x % o
  <1> PICK q \in Int : q = x \div o
    BY Remainder
  <1> PICK r \in 0..(o - 1) : r = x % o
    BY Remainder
  <1> PICK p \in Int : p = (x - o) \div o
    BY Remainder, x - o \in Nat
  <1> PICK s \in 0..(o - 1) : s = (x - o) % o
    BY Remainder, x - o \in Nat
  <1>1. x = o * q + r
    BY Remainder
  <1>2. x - o = o * p + s
    BY Remainder, x - o \in Nat
  <1>3. o * (p + 1) = o * p + o
    OBVIOUS
  <1>4. o * q + r = o * (p + 1) + s
    BY <1>1, <1>2, <1>3
  <1>5. p + 1 \in Int
    OBVIOUS
  <1>6. r = s
    BY <1>4, <1>5, RemIsUnique
  <1> QED
    BY <1>6

\* What a match appends repeats what is offset positions before it.
LEMMA CopiedPeriodic ==
  ASSUME NEW s \in Seq(Byte), NEW offset \in 1..Len(s), NEW mlen \in Nat, NEW k \in 1..mlen
  PROVE  LET w == s \o Copied(s, offset, mlen)
         IN  w[Len(s) + k] = w[Len(s) + k - offset]
  <1> PICK ls : ls = Len(s)
    OBVIOUS
  <1> PICK start : start = ls - offset
    OBVIOUS
  <1> PICK c : c = Copied(s, offset, mlen)
    OBVIOUS
  <1> PICK w : w = s \o c
    OBVIOUS
  <1>1. /\ ls \in Nat /\ start \in Nat /\ start + offset = ls /\ offset \in Nat \ {0}
        /\ \A j \in 1..ls : s[j] \in Byte
    BY LenProperties, ElementOfSeq
  <1>2. c \in Seq(Byte) /\ Len(c) = mlen
    BY CopiedLength
  <1>3. \A j \in 1..(ls + mlen) : w[j] = IF j <= ls THEN s[j] ELSE c[j - ls]
    BY <1>2, ConcatProperties
  <1>4. w[ls + k] = c[k]
    <2>1. ls + k \in 1..(ls + mlen) /\ ~(ls + k <= ls) /\ (ls + k) - ls = k
      BY <1>1
    <2> QED
      BY <1>3, <2>1
  <1>5. k - offset <= 0 => w[ls + k - offset] = s[start + k]
    <2>1. k - offset <= 0 =>
            ls + k - offset \in 1..(ls + mlen) /\ ls + k - offset <= ls /\ ls + k - offset = start + k
      BY <1>1
    <2> QED
      BY <1>3, <2>1
  <1>6. k - offset > 0 => w[ls + k - offset] = c[k - offset]
    <2>1. k - offset > 0 =>
            /\ ls + k - offset \in 1..(ls + mlen) /\ ~(ls + k - offset <= ls)
            /\ (ls + k - offset) - ls = k - offset
      BY <1>1
    <2> QED
      BY <1>3, <2>1
  <1>7. CASE offset >= mlen
    <2>1. c = SubSeq(s, start + 1, start + mlen)
      BY <1>7 DEF Copied
    <2>2. /\ start + 1 \in Int /\ start + mlen \in Int
          /\ \A j \in (start + 1)..(start + mlen) : s[j] \in Byte
      BY <1>1, <1>7
    <2>3. \A j \in 1..((start + mlen) - (start + 1) + 1) : c[j] = s[(start + 1) + j - 1]
      BY <2>1, <2>2, SubSeqProperties
    <2>4. /\ k \in 1..((start + mlen) - (start + 1) + 1) /\ (start + 1) + k - 1 = start + k
          /\ k - offset <= 0
      BY <1>1, <1>7
    <2> QED
      BY <1>4, <1>5, <2>3, <2>4
  <1>8. CASE ~(offset >= mlen)
    <2> PICK seed : seed = SubSeq(s, start + 1, ls)
      OBVIOUS
    <2>1. c = [j \in 1..mlen |-> seed[((j - 1) % offset) + 1]]
      BY <1>8, ZenonT(30) DEF Copied
    <2>2. /\ start + 1 \in Int /\ ls \in Int
          /\ \A j \in (start + 1)..ls : s[j] \in Byte
      BY <1>1
    <2>3. \A j \in 1..(ls - (start + 1) + 1) : seed[j] = s[(start + 1) + j - 1]
      BY <2>2, SubSeqProperties
    <2>4. c[k] = seed[((k - 1) % offset) + 1]
      BY <2>1
    <2>5. CASE k - offset <= 0
      <3>1. (k - 1) % offset = k - 1
        <4>1. k - 1 \in Nat /\ k - 1 < offset /\ offset \in Nat \ {0}
          BY <1>1, <2>5
        <4> PICK x \in Nat : x = k - 1
          BY <4>1
        <4>2. x < offset
          BY <4>1
        <4>3. x % offset = x
          BY <4>1, <4>2, RemIsSame
        <4> QED
          BY <4>3
      <3>2. (k - 1) + 1 = k /\ k \in 1..(ls - (start + 1) + 1) /\ (start + 1) + k - 1 = start + k
        BY <1>1, <2>5
      <3>3. c[k] = seed[k]
        BY <2>4, <3>1, <3>2
      <3>4. seed[k] = s[start + k]
        BY <2>3, <3>2
      <3> QED
        BY <1>4, <1>5, <2>5, <3>3, <3>4
    <2>6. CASE k - offset > 0
      <3>1. k - offset \in 1..mlen /\ (k - offset) - 1 = (k - 1) - offset /\ k - 1 \in Nat
            /\ k - 1 >= offset
        BY <1>1, <2>6
      <3>2. c[k - offset] = seed[(((k - offset) - 1) % offset) + 1]
        BY <2>1, <3>1
      <3>3. ((k - 1) - offset) % offset = (k - 1) % offset
        BY <1>1, <3>1, RemIsPeriodic
      <3> QED
        BY <1>4, <1>6, <2>4, <2>6, <3>1, <3>2, <3>3
    <2>7. k - offset <= 0 \/ k - offset > 0
      BY <1>1
    <2> QED
      BY <2>5, <2>6, <2>7, Zenon
  <1> QED
    BY <1>7, <1>8

\* The end of a sequence that is appended to.
LEMMA TailOfConcat ==
  ASSUME NEW s \in Seq(Byte), NEW c \in Seq(Byte), NEW b \in 0..Len(s)
  PROVE  SubSeq(s \o c, b + 1, Len(s \o c)) = SubSeq(s, b + 1, Len(s)) \o c
  <1>w. PICK w : w = s \o c
    OBVIOUS
  <1>1. IsConcat(w, s, c)
    BY <1>w, ConcatIs
  <1>n. PICK n \in Nat : n = Len(s)
    BY <1>1 DEF IsConcat
  <1>l. PICK l \in Nat : l = Len(c)
    BY <1>1 DEF IsConcat
  <1>2. n \in Nat /\ l \in Nat /\ b \in 0..n
    BY <1>n, <1>l
  <1>3. /\ w \in Seq(Byte) /\ Len(w) = n + l
        /\ \A k \in 1..(n + l) : w[k] = IF k <= n THEN s[k] ELSE c[k - n]
    BY <1>1, <1>n, <1>l DEF IsConcat
  <1>t. PICK t : t = SubSeq(s, b + 1, n)
    OBVIOUS
  <1>4. t \in Seq(Byte) /\ Len(t) = n - b /\ \A k \in 1..(n - b) : t[k] = s[b + k]
    <2>1. \A k \in (b + 1)..n : s[k] \in Byte
      <3>1. \A k \in (b + 1)..n : k \in 1..n
        BY <1>2
      <3> QED
        BY <1>n, <3>1, ElementOfSeq
    <2>2. b + 1 \in Int /\ n \in Int
      BY <1>2
    <2>3. /\ SubSeq(s, b + 1, n) \in Seq(Byte)
          /\ Len(SubSeq(s, b + 1, n)) = IF b + 1 <= n THEN n - (b + 1) + 1 ELSE 0
          /\ \A k \in 1..(n - (b + 1) + 1) : SubSeq(s, b + 1, n)[k] = s[(b + 1) + k - 1]
      BY <2>1, <2>2, SubSeqProperties
    <2>4. /\ n - (b + 1) + 1 = n - b /\ (IF b + 1 <= n THEN n - (b + 1) + 1 ELSE 0) = n - b
          /\ \A k \in 1..(n - b) : (b + 1) + k - 1 = b + k
      BY <1>2
    <2> QED
      BY <1>t, <2>3, <2>4
  <1>x. PICK x : x = t \o c
    OBVIOUS
  <1>5. IsConcat(x, t, c)
    BY <1>4, <1>x, ConcatIs
  <1>6. /\ x \in Seq(Byte) /\ Len(x) = (n - b) + l
        /\ \A k \in 1..((n - b) + l) : x[k] = IF k <= n - b THEN t[k] ELSE c[k - (n - b)]
    BY <1>4, <1>5, <1>l DEF IsConcat
  <1>y. PICK y : y = SubSeq(w, b + 1, n + l)
    OBVIOUS
  <1>e. PICK e \in Nat : e = n + l
    BY <1>2
  <1>7. y \in Seq(Byte) /\ Len(y) = (n - b) + l /\ \A k \in 1..((n - b) + l) : y[k] = w[b + k]
    <2>1. \A k \in (b + 1)..(n + l) : w[k] \in Byte
      <3>1. \A k \in (b + 1)..(n + l) : k \in 1..(n + l)
        BY <1>2
      <3> QED
        BY <1>3, <3>1, ElementOfSeq
    <2>2. b + 1 \in Int /\ e \in Int /\ \A k \in (b + 1)..e : w[k] \in Byte
      BY <1>2, <1>e, <2>1
    <2>3. /\ SubSeq(w, b + 1, e) \in Seq(Byte)
          /\ Len(SubSeq(w, b + 1, e)) = IF b + 1 <= e THEN e - (b + 1) + 1 ELSE 0
          /\ \A k \in 1..(e - (b + 1) + 1) : SubSeq(w, b + 1, e)[k] = w[(b + 1) + k - 1]
      BY <2>2, SubSeqProperties
    <2>4. /\ e - (b + 1) + 1 = (n - b) + l
          /\ (IF b + 1 <= e THEN e - (b + 1) + 1 ELSE 0) = (n - b) + l
          /\ \A k \in 1..((n - b) + l) : (b + 1) + k - 1 = b + k
      BY <1>2, <1>e
    <2> QED
      BY <1>y, <1>e, <2>3, <2>4
  <1>8. ASSUME NEW k \in 1..((n - b) + l) PROVE x[k] = w[b + k]
    <2>1. b + k \in 1..(n + l) /\ (b + k) - n = k - (n - b)
      BY <1>2
    <2>2. CASE k <= n - b
      <3>1. b + k <= n /\ k \in 1..(n - b)
        BY <1>2, <2>2
      <3> QED
        BY <1>3, <1>4, <1>6, <2>1, <2>2, <3>1
    <2>3. CASE ~(k <= n - b)
      <3>1. ~(b + k <= n)
        BY <1>2, <2>3
      <3> QED
        BY <1>3, <1>6, <2>1, <2>3, <3>1
    <2> QED
      BY <2>2, <2>3
  <1>9. Len(y) = Len(x) /\ \A k \in 1..Len(y) : y[k] = x[k]
    BY <1>6, <1>7, <1>8
  <1>10. y = x
    BY <1>6, <1>7, <1>9, SeqEqual
  <1> QED
    BY <1>3, <1>10, <1>w, <1>n, <1>t, <1>x, <1>y

LEMMA EndOfConcat ==
  ASSUME NEW a \in Seq(Byte), NEW s \in Seq(Byte), NEW c \in Seq(Byte), NEW m, IsEnd(a, s, m)
  PROVE  IsEnd(a \o c, s \o c, m + Len(c))
  <1>x. PICK x : x = a \o c
    OBVIOUS
  <1>y. PICK y : y = s \o c
    OBVIOUS
  <1>1. IsConcat(x, a, c) /\ IsConcat(y, s, c)
    BY <1>x, <1>y, ConcatIs
  <1>q. PICK q \in Nat : q = Len(s)
    BY DEF IsEnd
  <1>l. PICK l \in Nat : l = Len(c)
    BY <1>1 DEF IsConcat
  <1>2. m \in Nat /\ q \in Nat /\ l \in Nat /\ m <= q
    BY <1>q, <1>l DEF IsEnd
  <1>3. Len(a) = m /\ \A k \in 1..m : a[k] = s[q - m + k]
    BY <1>q DEF IsEnd
  <1>4. /\ x \in Seq(Byte) /\ Len(x) = m + l
        /\ \A k \in 1..(m + l) : x[k] = IF k <= m THEN a[k] ELSE c[k - m]
    BY <1>1, <1>3, <1>l DEF IsConcat
  <1>5. /\ Len(y) = q + l
        /\ \A k \in 1..(q + l) : y[k] = IF k <= q THEN s[k] ELSE c[k - q]
    BY <1>1, <1>q, <1>l DEF IsConcat
  <1>6. ASSUME NEW k \in 1..(m + l) PROVE x[k] = y[(q + l) - (m + l) + k]
    <2>1. /\ (q + l) - (m + l) + k = q - m + k /\ q - m + k \in 1..(q + l)
          /\ (q - m + k) - q = k - m
      BY <1>2
    <2>2. CASE k <= m
      <3>1. q - m + k <= q /\ k \in 1..m
        BY <1>2, <2>2
      <3> QED
        BY <1>3, <1>4, <1>5, <2>1, <2>2, <3>1
    <2>3. CASE ~(k <= m)
      <3>1. ~(q - m + k <= q)
        BY <1>2, <2>3
      <3> QED
        BY <1>4, <1>5, <2>1, <2>3, <3>1
    <2> QED
      BY <2>2, <2>3
  <1>7. m + l \in Nat /\ m + l <= q + l /\ q + l \in Nat
    BY <1>2
  <1>8. IsEnd(x, y, m + l)
    BY <1>4, <1>5, <1>6, <1>7 DEF IsEnd
  <1> QED
    BY <1>8, <1>x, <1>y, <1>l

\* A copy within the end of a sequence repeats the whole sequence.
LEMMA EndCopy ==
  ASSUME NEW v \in Seq(Byte), NEW b \in Seq(Byte), IsEnd(b, v, Len(b)),
         NEW offset \in 1..Len(b), NEW mlen \in Nat,
         NEW k \in (Len(v) + 1)..(Len(v) + mlen)
  PROVE  LET w == v \o Copied(b, offset, mlen) IN w[k] = w[k - offset]
  <1>c. PICK c : c = Copied(b, offset, mlen)
    OBVIOUS
  <1>w. PICK w : w = v \o c
    OBVIOUS
  <1>x. PICK x : x = b \o c
    OBVIOUS
  <1>1. c \in Seq(Byte) /\ Len(c) = mlen
    BY <1>c, CopiedLength
  <1>2. IsEnd(x, w, Len(b) + mlen)
    BY <1>1, <1>w, <1>x, EndOfConcat
  <1>3. IsConcat(w, v, c)
    BY <1>1, <1>w, ConcatIs
  <1>n. PICK n \in Nat : n = Len(v)
    BY <1>3 DEF IsConcat
  <1>b. PICK lb \in Nat : lb = Len(b)
    BY DEF IsEnd
  <1>4. n \in Nat /\ lb \in Nat /\ lb <= n /\ offset \in 1..lb /\ k \in (n + 1)..(n + mlen)
    BY <1>n, <1>b DEF IsEnd
  <1>5. Len(w) = n + mlen
    BY <1>1, <1>3, <1>n DEF IsConcat
  <1>6. \A j \in 1..(lb + mlen) : x[j] = w[(n + mlen) - (lb + mlen) + j]
    BY <1>2, <1>5, <1>b DEF IsEnd
  <1>i. PICK i \in 1..mlen : i = k - n
    BY <1>4
  <1>7. i \in 1..mlen /\ i = k - n
    BY <1>i
  <1>8. /\ lb + i \in 1..(lb + mlen) /\ (n + mlen) - (lb + mlen) + (lb + i) = k
        /\ lb + i - offset \in 1..(lb + mlen)
        /\ (n + mlen) - (lb + mlen) + (lb + i - offset) = k - offset
    BY <1>4, <1>7
  <1>9. x[lb + i] = w[k] /\ x[lb + i - offset] = w[k - offset]
    BY <1>6, <1>8
  <1>10. x[lb + i] = x[lb + i - offset]
    BY <1>7, <1>b, <1>c, <1>x, CopiedPeriodic
  <1> QED
    BY <1>9, <1>10, <1>c, <1>w
-------------------------------------------------------------------------------
(* What ties the decoder's window to the decoder that keeps everything.    *)

\* What the matches of the open block can refer to before the block itself, if
\* nothing is forgotten.
Prior == OpenBlockRecord.prior \o SubSeq(out, OpenBlockRecord.reach + 1, Len(out))

InFrame == pc \in {"block", "finish", "stored", "sequence", "match"}

\* A descriptor is one of the two formats', and legacy blocks are independent.
InfoInv ==
  InFrame => /\ info.kind \in {"frame", "legacy"}
             /\ info.block_max \in BlockMaxes \cup {LegacyMax}
             /\ info.kind = "legacy" => info.block_independent

\* What a block may add is what its descriptor and the limit leave.
AllowanceInv == InBlock => allowance = Min2(info.block_max, MaxOutput - Len(total) - Len(out))

\* What precedes a block's own bytes is the window of what they can refer to.
PrefixInv ==
  /\ pc = "frame" => out = <<>>
  /\ pc = "stored" => blk = <<>>
  /\ pc \in {"sequence", "match"} => SubSeq(blk, 1, base) = Newest(Prior, Window)

\* Between linked blocks the history ends like all that the next can refer to.
HistoryInv ==
  InFrame /\ ~info.block_independent =>
    Newest(history, Window) = Newest(dictionary \o out, Window)

RefInv == InfoInv /\ AllowanceInv /\ PrefixInv /\ HistoryInv

LEMMA RefFail ==
  ASSUME NEW why, NEW n, Fail(why, n)
  PROVE  RefInv'
  <1>1. pc' = "error"
    BY DEF Fail
  <1> QED
    BY <1>1 DEF RefInv, InfoInv, AllowanceInv, PrefixInv, HistoryInv, InFrame, InBlock

\* Outside a block only the descriptor and the history count.
LEMMA RefBetween ==
  ASSUME pc' \notin {"stored", "sequence", "match"}, InfoInv', HistoryInv', pc' = "frame" => out' = <<>>
  PROVE  RefInv'
  BY DEF RefInv, AllowanceInv, PrefixInv, InBlock

LEMMA RefFrame ==
  ASSUME IInv, RefInv,
         \/ EndOfInput \/ SkippableFrame \/ LegacyFrame \/ Damaged
         \/ \E independent, needsDictionary \in BOOLEAN, max \in BlockMaxes,
               size \in {Unknown} \cup 0..(MaxOutput + 1) :
              ModernFrame(independent, size, max, needsDictionary)
  PROVE  RefInv'
  <1> USE DEF InfoInv, HistoryInv, InFrame
  <1>1. CASE EndOfInput
    <2>1. pc' = "done"
      BY <1>1 DEF EndOfInput
    <2> QED
      BY <2>1, RefBetween
  <1>2. CASE SkippableFrame
    <2>1. pc' = "frame" /\ out' = <<>>
      BY <1>2 DEF SkippableFrame, RefInv, PrefixInv
    <2> QED
      BY <2>1, RefBetween
  <1>3. CASE LegacyFrame
    <2>1. /\ pc' = "block"
          /\ info' = [kind |-> "legacy", block_independent |-> TRUE,
                      content_size |-> Unknown, block_max |-> LegacyMax]
      BY <1>3 DEF LegacyFrame
    <2>2. info'.kind = "legacy" /\ info'.block_independent /\ info'.block_max = LegacyMax
      BY <2>1
    <2> QED
      BY <2>1, <2>2, RefBetween
  <1>4. CASE Damaged
    BY <1>4, RefFail DEF Damaged
  <1>5. ASSUME NEW independent, NEW needsDictionary, NEW max \in BlockMaxes, NEW size,
               ModernFrame(independent, size, max, needsDictionary)
        PROVE  RefInv'
    <2>1. CASE \E why, n : Fail(why, n)
      BY <2>1, RefFail
    <2>2. CASE /\ pc' = "block" /\ out' = <<>> /\ history' = dictionary /\ dictionary' = dictionary
               /\ info' = [kind |-> "frame", block_independent |-> independent,
                           content_size |-> size, block_max |-> max]
      <3>1. info'.kind = "frame" /\ info'.block_max = max
        BY <2>2
      <3>2. dictionary \o <<>> = dictionary
        BY ConcatEmptySeq DEF IInv, TypeInv
      <3>3. Newest(history', Window) = Newest(dictionary' \o out', Window)
        BY <2>2, <3>2
      <3> QED
        BY <2>2, <3>1, <3>3, RefBetween
    <2> QED
      BY <1>5, <2>1, <2>2 DEF ModernFrame, given
  <1> QED
    BY <1>1, <1>2, <1>3, <1>4, <1>5

\* What the next block of the frame can refer to.
LEMMA PriorIs ==
  ASSUME IInv, InfoInv, InFrame
  PROVE  /\ info.kind = "legacy" => Prior = <<>>
         /\ info.kind # "legacy" /\ info.block_independent => Prior = dictionary
         /\ info.kind # "legacy" /\ ~info.block_independent => Prior = dictionary \o out
  <1>1. dictionary \in Seq(Byte) /\ out \in Seq(Byte) /\ Len(out) \in Nat
    BY DEF IInv, TypeInv
  <1>2. SubSeq(out, Len(out) + 1, Len(out)) = <<>> /\ SubSeq(out, 0 + 1, Len(out)) = out
    BY <1>1, SubSeqEmpty, SubSeqFull
  <1>3. dictionary \o <<>> = dictionary /\ <<>> \o <<>> = <<>>
    BY <1>1, ConcatEmptySeq, EmptySeq
  <1>4. CASE info.kind = "legacy"
    <2>1. info.block_independent
      BY <1>4 DEF InfoInv
    <2> QED
      BY <1>2, <1>3, <1>4, <2>1 DEF Prior, OpenBlockRecord
  <1>5. CASE info.kind # "legacy"
    BY <1>2, <1>3, <1>5 DEF Prior, OpenBlockRecord
  <1> QED
    BY <1>4, <1>5

LEMMA RefBegin ==
  ASSUME IInv, RefInv, CompressedBlock \/ StoredBlock \/ LegacyBlock
  PROVE  RefInv'
  <1>1. PICK step, prefix : BeginBlock(step, prefix) /\ pc = "block" /\ step \in {"sequence", "stored"}
    BY DEF CompressedBlock, StoredBlock, LegacyBlock
  <1>2. /\ pc' = step /\ allowance' = Allowance
        /\ UNCHANGED <<dictionary, total, info, out, history>>
    BY <1>1 DEF BeginBlock, given
  <1>3. Prior' = Prior
    BY <1>2 DEF Prior, OpenBlockRecord
  <1>4. InfoInv' /\ AllowanceInv' /\ HistoryInv'
    BY <1>1, <1>2 DEF RefInv, InfoInv, HistoryInv, AllowanceInv, Allowance, FrameOutput, InFrame
  <1>5. CASE StoredBlock
    <2>1. blk' = Newest(<<>>, Window) /\ pc' = "stored"
      BY <1>5 DEF StoredBlock, BeginBlock
    <2>2. Newest(<<>>, Window) = <<>>
      <3>1. ~(Len(<<>>) > Window)
        BY SizeAssumption
      <3> QED
        BY <3>1 DEF Newest
    <2>3. PrefixInv'
      BY <2>1, <2>2 DEF PrefixInv
    <2> QED
      BY <1>4, <2>3 DEF RefInv
  <1>6. ASSUME NEW pre, BeginBlock("sequence", pre), pre \in Seq(Byte),
               Newest(pre, Window) = Newest(Prior, Window)
        PROVE  RefInv'
    <2>1. blk' = Newest(pre, Window) /\ pc' = "sequence" /\ base' = Len(blk')
      BY <1>6 DEF BeginBlock
    <2>2. blk' \in Seq(Byte)
      BY <1>6, <2>1, NewestLength, SizeAssumption
    <2>3. SubSeq(blk', 1, base') = blk'
      BY <2>1, <2>2, SubSeqFull
    <2>4. PrefixInv'
      BY <1>3, <1>6, <2>1, <2>3 DEF PrefixInv
    <2> QED
      BY <1>4, <2>4 DEF RefInv
  <1>7. InFrame /\ InfoInv
    BY <1>1 DEF RefInv, InFrame
  <1>8. CASE CompressedBlock
    <2>1. info.kind = "frame"
      BY <1>8 DEF CompressedBlock
    <2>2. CASE info.block_independent
      <3>1. BeginBlock("sequence", dictionary) /\ Prior = dictionary
        BY <1>7, <1>8, <2>1, <2>2, PriorIs DEF CompressedBlock
      <3> QED
        BY <1>6, <3>1 DEF IInv, TypeInv
    <2>3. CASE ~info.block_independent
      <3>1. BeginBlock("sequence", history) /\ Prior = dictionary \o out
        BY <1>7, <1>8, <2>1, <2>3, PriorIs DEF CompressedBlock
      <3>2. Newest(history, Window) = Newest(dictionary \o out, Window)
        BY <1>7, <2>3 DEF RefInv, HistoryInv
      <3> QED
        BY <1>6, <3>1, <3>2 DEF IInv, TypeInv
    <2> QED
      BY <2>2, <2>3
  <1>9. CASE LegacyBlock
    <2>1. BeginBlock("sequence", <<>>) /\ Prior = <<>>
      BY <1>7, <1>9, PriorIs DEF LegacyBlock
    <2>2. <<>> \in Seq(Byte)
      BY EmptySeq
    <2> QED
      BY <1>6, <2>1, <2>2
  <1> QED
    BY <1>5, <1>8, <1>9

LEMMA RefTake ==
  ASSUME IInv, RefInv, InBlock, NEW chunk \in Seq(Byte), TakeChunk(chunk)
  PROVE  RefInv'
  <1>1. /\ pc' = "block" /\ out' = out \o chunk
        /\ history' = IF info.block_independent THEN history ELSE Newest(history \o chunk, Window)
        /\ UNCHANGED <<dictionary, info>>
    BY DEF TakeChunk, given
  <1>2. InFrame
    BY DEF InBlock, InFrame
  <1>3. InfoInv'
    BY <1>1, <1>2 DEF RefInv, InfoInv
  <1>4. HistoryInv'
    <2> SUFFICES ASSUME ~info.block_independent
                 PROVE  Newest(history', Window) = Newest(dictionary \o out', Window)
      BY <1>1 DEF HistoryInv
    <2>1. history' = Newest(history \o chunk, Window)
      BY <1>1
    <2>2. /\ dictionary \in Seq(Byte) /\ out \in Seq(Byte) /\ history \in Seq(Byte)
          /\ dictionary \o out \in Seq(Byte) /\ history \o chunk \in Seq(Byte) /\ Window \in Nat
      BY ConcatProperties, SizeAssumption DEF IInv, TypeInv
    <2>3. Newest(history, Window) = Newest(dictionary \o out, Window)
      BY <1>2 DEF RefInv, HistoryInv
    <2>4. Newest(history \o chunk, Window) = Newest((dictionary \o out) \o chunk, Window)
      <3> PICK u : u = dictionary \o out
        OBVIOUS
      <3>1. u \in Seq(Byte) /\ Newest(history, Window) = Newest(u, Window)
        BY <2>2, <2>3
      <3>2. Newest(Newest(history, Window) \o chunk, Window) = Newest(history \o chunk, Window)
        BY <2>2, NewestAbsorbs, Zenon
      <3>3. Newest(Newest(u, Window) \o chunk, Window) = Newest(u \o chunk, Window)
        BY <2>2, <3>1, NewestAbsorbs, Zenon
      <3> QED
        BY <3>1, <3>2, <3>3
    <2>5. Newest(history', Window) = history'
      BY <2>1, <2>2, NewestTwice
    <2>6. (dictionary \o out) \o chunk = dictionary \o (out \o chunk)
      BY <2>2, ConcatAssociative
    <2> QED
      BY <1>1, <2>1, <2>4, <2>5, <2>6
  <1> QED
    BY <1>1, <1>3, <1>4, RefBetween

LEMMA ChunkIs ==
  ASSUME IInv
  PROVE  Chunk \in Seq(Byte) /\ Len(Chunk) = Produced /\ Produced \in Nat
  BY DEF IInv, TypeInv, Produced, Chunk

\* What is appended to a block leaves what precedes it alone.
LEMMA PrefixKept ==
  ASSUME NEW s \in Seq(Byte), NEW c \in Seq(Byte), NEW b \in 0..Len(s)
  PROVE  SubSeq(s \o c, 1, b) = SubSeq(s, 1, b)
  <1>1. PICK w : w = s \o c
    OBVIOUS
  <1>2. IsConcat(w, s, c)
    BY <1>1, ConcatIs
  <1>3. w \in Seq(Byte) /\ Len(s) \in Nat /\ b \in Int /\ 1 \in Int
        /\ \A k \in 1..b : w[k] = s[k] /\ s[k] \in Byte /\ w[k] \in Byte
    <2>1. w \in Seq(Byte) /\ Len(s) \in Nat /\ Len(c) \in Nat
      BY <1>2 DEF IsConcat
    <2>2. \A k \in 1..b : k \in 1..(Len(s) + Len(c)) /\ k <= Len(s) /\ k \in 1..Len(s)
      BY <2>1
    <2>3. \A k \in 1..b : w[k] = s[k]
      BY <1>2, <2>2 DEF IsConcat
    <2>4. \A k \in 1..b : s[k] \in Byte
      BY <2>2, ElementOfSeq
    <2> QED
      BY <2>1, <2>3, <2>4
  <1>4. /\ SubSeq(w, 1, b) \in Seq(Byte) /\ SubSeq(s, 1, b) \in Seq(Byte)
        /\ Len(SubSeq(w, 1, b)) = Len(SubSeq(s, 1, b)) /\ Len(SubSeq(s, 1, b)) = b
        /\ \A k \in 1..(b - 1 + 1) : SubSeq(w, 1, b)[k] = w[1 + k - 1] /\ SubSeq(s, 1, b)[k] = s[1 + k - 1]
    <2>1. /\ SubSeq(w, 1, b) \in Seq(Byte) /\ Len(SubSeq(w, 1, b)) = IF 1 <= b THEN b - 1 + 1 ELSE 0
          /\ \A k \in 1..(b - 1 + 1) : SubSeq(w, 1, b)[k] = w[1 + k - 1]
      <3>1. 1 \in Int /\ b \in Int /\ \A k \in 1..b : w[k] \in Byte
        BY <1>3
      <3> QED
        BY <3>1, SubSeqProperties
    <2>2. /\ SubSeq(s, 1, b) \in Seq(Byte) /\ Len(SubSeq(s, 1, b)) = IF 1 <= b THEN b - 1 + 1 ELSE 0
          /\ \A k \in 1..(b - 1 + 1) : SubSeq(s, 1, b)[k] = s[1 + k - 1]
      <3>1. 1 \in Int /\ b \in Int /\ \A k \in 1..b : s[k] \in Byte
        BY <1>3
      <3> QED
        BY <3>1, SubSeqProperties
    <2> QED
      BY <2>1, <2>2
  <1>5. \A k \in 1..b : SubSeq(w, 1, b)[k] = SubSeq(s, 1, b)[k]
    <2>1. \A k \in 1..b : k \in 1..(b - 1 + 1) /\ 1 + k - 1 = k
      OBVIOUS
    <2> QED
      BY <1>3, <1>4, <2>1
  <1>6. SubSeq(w, 1, b) = SubSeq(s, 1, b)
    BY <1>4, <1>5, SeqEqual
  <1> QED
    BY <1>1, <1>6

LEMMA RefGrow ==
  ASSUME IInv, RefInv, pc \in {"sequence", "match"}, pc' \in {"sequence", "match"},
         NEW more \in Seq(Byte), blk' = blk \o more,
         UNCHANGED <<dictionary, total, info, out, history, base, allowance>>
  PROVE  RefInv'
  <1>1. blk \in Seq(Byte) /\ base \in 0..Len(blk)
    BY DEF IInv, TypeInv
  <1>2. SubSeq(blk', 1, base') = SubSeq(blk, 1, base)
    BY <1>1, PrefixKept
  <1>3. Prior' = Prior
    BY DEF Prior, OpenBlockRecord
  <1>4. PrefixInv'
    BY <1>2, <1>3 DEF RefInv, PrefixInv
  <1>5. InfoInv' /\ AllowanceInv' /\ HistoryInv'
    BY DEF RefInv, InfoInv, AllowanceInv, HistoryInv, InFrame, InBlock
  <1> QED
    BY <1>4, <1>5 DEF RefInv

LEMMA RefBlock ==
  ASSUME IInv, RefInv,
         \/ \E body \in Run(MaxRun) : StoredBody(body)
         \/ \E run \in Run(MaxRun) : LiteralRun(run)
         \/ \E offset \in 0..MaxOffset, mlen \in MinMatch..MaxMatch : Match(offset, mlen)
         \/ EndBlock
  PROVE  RefInv'
  <1>1. ASSUME NEW body \in Run(MaxRun), StoredBody(body) PROVE RefInv'
    <2>1. body \in Seq(Byte)
      BY SizeAssumption DEF Run
    <2>2. CASE Fail("limit", Len(body))
      BY <2>2, RefFail
    <2>3. CASE TakeChunk(body) /\ pc = "stored"
      BY <2>1, <2>3, RefTake DEF InBlock
    <2> QED
      BY <1>1, <2>2, <2>3 DEF StoredBody
  <1>2. ASSUME NEW run \in Run(MaxRun), LiteralRun(run) PROVE RefInv'
    <2>1. run \in Seq(Byte)
      BY SizeAssumption DEF Run
    <2>2. CASE Fail("limit", Len(run))
      BY <2>2, RefFail
    <2>3. CASE /\ pc = "sequence" /\ blk' = blk \o run /\ pc' = "match"
               /\ UNCHANGED <<dictionary, total, info, out, history, base, allowance>>
      BY <2>1, <2>3, RefGrow
    <2> QED
      BY <1>2, <2>2, <2>3 DEF LiteralRun, given
  <1>3. ASSUME NEW offset \in 0..MaxOffset, NEW mlen \in MinMatch..MaxMatch, Match(offset, mlen)
        PROVE  RefInv'
    <2>1. CASE \E why, n : Fail(why, n)
      BY <2>1, RefFail
    <2>2. CASE /\ pc = "match" /\ blk' = blk \o Copied(blk, offset, mlen) /\ pc' = "sequence"
               /\ InReach(offset)
               /\ UNCHANGED <<dictionary, total, info, out, history, base, allowance>>
      <3>1. Copied(blk, offset, mlen) \in Seq(Byte)
        BY <2>2, CopiedLength, SizeAssumption DEF InReach, IInv, TypeInv
      <3> QED
        BY <2>2, <3>1, RefGrow
    <2> QED
      BY <1>3, <2>1, <2>2 DEF Match, given
  <1>4. CASE EndBlock
    <2>1. InBlock /\ TakeChunk(Chunk)
      BY <1>4 DEF EndBlock, MayEndAfter, InBlock, Chunk
    <2> QED
      BY <2>1, ChunkIs, RefTake
  <1> QED
    BY <1>1, <1>2, <1>3, <1>4

LEMMA RefEnd ==
  ASSUME IInv, RefInv, \/ EndMark \/ FinishFrame
                       \/ \E next \in {"eof", "magic", "junk"} : EndLegacy(next)
  PROVE  RefInv'
  <1>1. CASE EndMark
    <2>1. pc = "block" /\ pc' = "finish" /\ UNCHANGED <<info, dictionary, history, out>>
      BY <1>1 DEF EndMark, given
    <2>2. InfoInv' /\ HistoryInv'
      BY <2>1 DEF RefInv, InfoInv, HistoryInv, InFrame
    <2> QED
      BY <2>1, <2>2, RefBetween
  <1>2. CASE Fail("malformed", 0)
    BY <1>2, RefFail
  <1>3. CASE ReturnFrame
    <2>1. pc' = "frame" /\ out' = <<>>
      BY <1>3 DEF ReturnFrame
    <2>2. InfoInv' /\ HistoryInv'
      BY <2>1 DEF InfoInv, HistoryInv, InFrame
    <2> QED
      BY <2>1, <2>2, RefBetween
  <1> QED
    BY <1>1, <1>2, <1>3 DEF FinishFrame, EndLegacy

\* The window always is the end of what a match may refer to.
THEOREM WindowIsEnough == Spec => []RefInv
  <1>1. Init => RefInv
    BY DEF Init, RefInv, InfoInv, AllowanceInv, PrefixInv, HistoryInv, InFrame, InBlock
  <1>2. IInv /\ RefInv /\ [Next]_vars => RefInv'
    <2> SUFFICES ASSUME IInv, RefInv, [Next]_vars PROVE RefInv'
      OBVIOUS
    <2>1. CASE UNCHANGED vars
      BY <2>1 DEF vars, RefInv, InfoInv, AllowanceInv, PrefixInv, HistoryInv, InFrame, InBlock,
                  Prior, OpenBlockRecord
    <2>2. CASE Next
      BY <2>2, RefFrame, RefBegin, RefBlock, RefEnd DEF Next
    <2> QED
      BY <2>1, <2>2
  <1> QED
    BY <1>1, <1>2, Invariance, PTL DEF Spec
-------------------------------------------------------------------------------
(* The refinement, step by step.                                           *)

\* A block's descriptor, and what is left of its allowance.
LEMMA InOpenBlock ==
  ASSUME IInv, RefInv, InBlock
  PROVE  LS!Open /\ LS!Room = allowance - Produced
  <1>1. BlockRecord = OpenBlockRecord
    BY DEF BlockRecord
  <1>2. /\ OpenBlockRecord.max = info.block_max /\ OpenBlockRecord.begin = Len(out)
        /\ info.block_max \in Nat \ {0}
    BY SizeAssumption DEF OpenBlockRecord, RefInv, InfoInv, InBlock, InFrame
  <1>3. BlockRecord.max # LS!NoBlock.max
    BY <1>1, <1>2 DEF LS!NoBlock
  <1>4. LS!Open
    BY <1>3 DEF LS!Open
  <1>5. Len(Written) = Len(out) + Produced
    BY ChunkIs, ConcatProperties DEF Written, IInv, TypeInv
  <1>6. allowance = Min2(info.block_max, MaxOutput - Len(total) - Len(out))
    BY DEF RefInv, AllowanceInv
  <1>7. Len(out) \in Nat /\ Len(total) \in Nat /\ Produced \in Nat /\ MaxOutput \in Nat
    BY ChunkIs, SizeAssumption DEF IInv, TypeInv
  <1>8. /\ LS!RoomInBlock = info.block_max - Produced
        /\ LS!RoomInTotal = MaxOutput - Len(total) - Len(out) - Produced
    BY <1>1, <1>2, <1>5, <1>7 DEF LS!RoomInBlock, LS!RoomInTotal
  <1> QED
    BY <1>2, <1>4, <1>6, <1>7, <1>8 DEF LS!Room, Min2

\* Outside a block no bytes are kept back.
LEMMA OutsideBlock ==
  ASSUME IInv, pc \in {"frame", "block", "finish", "done"}
  PROVE  Written = out /\ BlockRecord = LS!NoBlock /\ Chunk = <<>>
  <1>1. blk = <<>> /\ base = 0 /\ out \in Seq(Byte)
    BY DEF IInv, BudgetInv, TypeInv
  <1>2. Chunk = <<>>
    BY <1>1, SubSeqEmpty, EmptySeq DEF Chunk
  <1>3. out \o <<>> = out
    BY <1>1, ConcatEmptySeq
  <1> QED
    BY <1>2, <1>3 DEF Written, BlockRecord, InBlock, LS!NoBlock

LEMMA FailStops ==
  ASSUME NEW why, NEW n, Fail(why, n)
  PROVE  LS!Stop(why, n)
  <1>1. pc' = "error" /\ error' = [why |-> why, n |-> n]
        /\ UNCHANGED <<dictionary, total, out, blk, base>>
    BY DEF Fail, given
  <1>2. Verdict' = [why |-> why, n |-> n] /\ BlockRecord' = LS!NoBlock
    BY <1>1 DEF Verdict, BlockRecord, InBlock, LS!NoBlock
  <1>3. Written' = Written
    BY <1>1 DEF Written, Chunk
  <1> QED
    BY <1>1, <1>2, <1>3 DEF LS!Stop

\* A refusal for a limit that really is exceeded.
LEMMA OverLimitStep ==
  ASSUME NEW n, Fail("limit", n), n > LS!Room
  PROVE  LS!OverLimit
  <1>1. LS!Stop("limit", n)
    BY FailStops
  <1>2. Verdict' = [why |-> "limit", n |-> n]
    BY <1>1 DEF LS!Stop
  <1>3. Verdict'.n = n
    BY <1>2
  <1> QED
    BY <1>1, <1>3 DEF LS!OverLimit

LEMMA MalformedStep ==
  ASSUME Fail("malformed", 0)
  PROVE  LS!Malformed
  BY FailStops DEF LS!Malformed

\* Nothing that counts happens between the blocks and the frames.
LEMMA QuietStep ==
  ASSUME IInv, IInv', pc \in {"frame", "block", "finish"}, pc' \in {"frame", "block", "finish"},
         UNCHANGED <<dictionary, total, out>>
  PROVE  UNCHANGED LS!svars
  <1>1. Written' = Written
    <2>1. blk' = <<>> /\ base' = 0 /\ out' = out /\ out \in Seq(Byte)
      BY DEF IInv, BudgetInv, TypeInv
    <2>2. SubSeq(<<>>, 0 + 1, Len(<<>>)) = <<>>
      BY SubSeqEmpty, EmptySeq
    <2>3. Chunk' = <<>>
      BY <2>1, <2>2 DEF Chunk
    <2>4. Written = out
      BY OutsideBlock
    <2> QED
      BY <2>1, <2>3, <2>4, ConcatEmptySeq DEF Written
  <1>2. BlockRecord' = BlockRecord
    BY DEF BlockRecord, InBlock
  <1>3. Verdict' = Verdict
    BY DEF Verdict
  <1> QED
    BY <1>1, <1>2, <1>3 DEF LS!svars

LEMMA FrameRefines ==
  ASSUME IInv, IInv', RefInv,
         \/ EndOfInput \/ SkippableFrame \/ LegacyFrame \/ Damaged
         \/ \E independent, needsDictionary \in BOOLEAN, max \in BlockMaxes,
               size \in {Unknown} \cup 0..(MaxOutput + 1) :
              ModernFrame(independent, size, max, needsDictionary)
  PROVE  LS!Finish \/ LS!Malformed \/ LS!OverLimit \/ UNCHANGED LS!svars
  <1>0. pc = "frame" => out = <<>>
    BY DEF RefInv, PrefixInv
  <1>1. CASE EndOfInput
    <2>1. /\ pc = "frame" /\ pc' = "done"
          /\ UNCHANGED <<dictionary, total, out, blk, base>>
      BY <1>1 DEF EndOfInput, given
    <2>2. Written = <<>> /\ ~LS!Open
      BY <1>0, <2>1, OutsideBlock DEF LS!Open
    <2>3. Written' = Written
      BY <2>1 DEF Written, Chunk
    <2>4. Verdict' = [why |-> "done", n |-> 0] /\ BlockRecord' = LS!NoBlock
      BY <2>1 DEF Verdict, BlockRecord, InBlock, LS!NoBlock
    <2> QED
      BY <2>1, <2>2, <2>3, <2>4 DEF LS!Finish, LS!Stop
  <1>2. CASE SkippableFrame
    <2>1. pc = "frame" /\ pc' = "frame" /\ UNCHANGED <<dictionary, total, out>>
      BY <1>2 DEF SkippableFrame, given
    <2> QED
      BY <2>1, QuietStep
  <1>3. CASE LegacyFrame
    <2>1. pc = "frame" /\ pc' = "block" /\ out' = <<>> /\ UNCHANGED <<dictionary, total>>
      BY <1>3 DEF LegacyFrame, given
    <2> QED
      BY <1>0, <2>1, QuietStep
  <1>4. CASE Damaged
    BY <1>4, MalformedStep DEF Damaged
  <1>5. ASSUME NEW independent, NEW needsDictionary, NEW max, NEW size \in Int,
               ModernFrame(independent, size, max, needsDictionary)
        PROVE  LS!Malformed \/ LS!OverLimit \/ UNCHANGED LS!svars
    <2>0. pc = "frame" /\ out = <<>>
      BY <1>0, <1>5 DEF ModernFrame
    <2>1. CASE size > FrameOutput /\ Fail("limit", size)
      <3>1. Written = <<>> /\ ~LS!Open
        BY <2>0, OutsideBlock DEF LS!Open
      <3>2. Len(<<>>) = 0 /\ Len(total) \in Nat /\ MaxOutput \in Nat
        BY SizeAssumption DEF IInv, TypeInv
      <3>3. LS!Room = FrameOutput
        BY <3>1, <3>2 DEF LS!Room, LS!RoomInTotal, FrameOutput
      <3> QED
        BY <2>1, <3>3, OverLimitStep
    <2>2. CASE Fail("malformed", 0)
      BY <2>2, MalformedStep
    <2>3. CASE pc' = "block" /\ out' = <<>> /\ UNCHANGED <<dictionary, total>>
      BY <2>0, <2>3, QuietStep
    <2> QED
      BY <1>5, <2>1, <2>2, <2>3 DEF ModernFrame, given
  <1>6. \A size \in {Unknown} \cup 0..(MaxOutput + 1) : size \in Int
    BY SizeAssumption DEF Unknown
  <1> QED
    BY <1>1, <1>2, <1>3, <1>4, <1>5, <1>6

LEMMA BeginRefines ==
  ASSUME IInv, IInv', RefInv, RefInv', CompressedBlock \/ StoredBlock \/ LegacyBlock
  PROVE  LS!OpenBlock
  <1>1. PICK step, prefix : BeginBlock(step, prefix) /\ pc = "block" /\ step \in {"sequence", "stored"}
    BY DEF CompressedBlock, StoredBlock, LegacyBlock
  <1>2. /\ pc' = step /\ InBlock' /\ base' = Len(blk')
        /\ UNCHANGED <<dictionary, total, info, out>>
    BY <1>1 DEF BeginBlock, given, InBlock
  <1>3. Written = out /\ ~LS!Open
    BY <1>1, OutsideBlock DEF LS!Open
  <1>4. Written' = out
    <2>1. blk' \in Seq(Byte) /\ out \in Seq(Byte)
      BY DEF IInv, TypeInv
    <2>2. Chunk' = <<>>
      <3>1. Len(blk') \in Nat /\ Len(blk') < Len(blk') + 1
        BY <2>1
      <3> QED
        BY <1>2, <3>1, SubSeqEmpty DEF Chunk
    <2> QED
      BY <1>2, <2>1, <2>2, ConcatEmptySeq DEF Written
  <1>5. BlockRecord' = OpenBlockRecord
    BY <1>2 DEF BlockRecord, OpenBlockRecord
  <1>6. info.block_max \in BlockMaxes \cup {LegacyMax}
    BY <1>1 DEF RefInv, InfoInv, InFrame
  <1>7. \E prior \in {dictionary, <<>>}, reach \in {0, Len(Written)}, max \in BlockMaxes \cup {LegacyMax} :
          BlockRecord' = [prior |-> prior, reach |-> reach, begin |-> Len(Written), max |-> max]
    <2>1. PICK prior \in {dictionary, <<>>} : prior = IF info.kind = "legacy" THEN <<>> ELSE dictionary
      OBVIOUS
    <2>2. PICK reach \in {0, Len(Written)} : reach = IF info.block_independent THEN Len(Written) ELSE 0
      OBVIOUS
    <2>3. BlockRecord' = [prior |-> prior, reach |-> reach, begin |-> Len(Written), max |-> info.block_max]
      BY <1>3, <1>5, <2>1, <2>2 DEF OpenBlockRecord
    <2> QED
      BY <1>6, <2>3
  <1>8. Verdict' = Verdict
    BY <1>1, <1>2 DEF Verdict
  <1> QED
    BY <1>2, <1>3, <1>4, <1>7, <1>8 DEF LS!OpenBlock

\* Bytes that fit the allowance fit what the block has room for.
LEMMA GrownBy ==
  ASSUME IInv, RefInv, InBlock, NEW more \in Seq(Byte), Fits(Len(more)), Written' = Written \o more
  PROVE  LS!Grows
  <1>1. Written \in Seq(Byte) /\ Len(Written) \in Nat /\ Len(more) \in Nat
    BY ChunkIs, ConcatProperties, LenProperties DEF Written, IInv, TypeInv
  <1>2. Len(Written') = Len(Written) + Len(more)
    BY <1>1, ConcatProperties
  <1>3. Len(more) <= LS!Room /\ LS!Room \in Int
    <2>1. LS!Room = allowance - Produced /\ allowance \in Nat /\ Produced \in Nat
      BY InOpenBlock, ChunkIs DEF IInv, TypeInv
    <2> QED
      BY <1>1, <2>1 DEF Fits
  <1>4. Len(Written') \in Len(Written)..(Len(Written) + LS!Room)
    BY <1>1, <1>2, <1>3
  <1>5. SubSeq(Written', 1, Len(Written)) = Written
    <2>1. Len(Written) \in 0..Len(Written)
      BY <1>1
    <2>2. SubSeq(Written \o more, 1, Len(Written)) = SubSeq(Written, 1, Len(Written))
      BY <1>1, <2>1, PrefixKept
    <2>3. SubSeq(Written, 1, Len(Written)) = Written
      BY <1>1, SubSeqFull
    <2> QED
      BY <2>2, <2>3
  <1> QED
    BY <1>4, <1>5 DEF LS!Grows

LEMMA JoinedInAnyOrder ==
  ASSUME NEW p \in Seq(Byte), NEW c \in Seq(Byte), NEW d \in Seq(Byte)
  PROVE  (p \o c) \o d = p \o (c \o d)
  BY ConcatAssociative

\* What a block appends to its own bytes, the frame gets.
LEMMA AppendsToFrame ==
  ASSUME IInv, NEW more \in Seq(Byte), blk' = blk \o more, UNCHANGED <<out, base>>
  PROVE  Written' = Written \o more
  <1>1. out \in Seq(Byte) /\ blk \in Seq(Byte) /\ base \in 0..Len(blk) /\ Chunk \in Seq(Byte)
    BY ChunkIs DEF IInv, TypeInv
  <1>2. Chunk' = Chunk \o more
    BY <1>1, TailOfConcat DEF Chunk
  <1>3. (out \o Chunk) \o more = out \o (Chunk \o more)
    <2>1. out \in Seq(Byte) /\ Chunk \in Seq(Byte)
      BY <1>1
    <2> QED
      BY <2>1, JoinedInAnyOrder, ZenonT(30)
  <1> QED
    BY <1>2, <1>3 DEF Written

\* What the matches of a block can refer to, whatever was appended to it.
LEMMA ViewIs ==
  ASSUME IInv, RefInv, InBlock, NEW c \in Seq(Byte)
  PROVE  LS!View(out \o c) = Prior \o c
  <1>1. out \in Seq(Byte) /\ dictionary \in Seq(Byte) /\ Len(out) \in Nat /\ <<>> \in Seq(Byte)
    BY EmptySeq DEF IInv, TypeInv
  <1>p. PICK p : p = OpenBlockRecord.prior
    OBVIOUS
  <1>r. PICK r : r = OpenBlockRecord.reach
    OBVIOUS
  <1>2. p \in Seq(Byte) /\ r \in 0..Len(out)
    BY <1>1, <1>p, <1>r DEF OpenBlockRecord
  <1>t. PICK t : t = SubSeq(out, r + 1, Len(out))
    OBVIOUS
  <1>3. t \in Seq(Byte)
    BY <1>1, <1>2, <1>t
  <1>4. SubSeq(out \o c, r + 1, Len(out \o c)) = t \o c
    BY <1>1, <1>2, <1>t, TailOfConcat
  <1>5. (p \o t) \o c = p \o (t \o c)
    BY <1>2, <1>3, ConcatAssociative
  <1>6. BlockRecord.prior = p /\ BlockRecord.reach = r
    BY <1>p, <1>r DEF BlockRecord
  <1>7. Prior = p \o t
    BY <1>p, <1>r, <1>t DEF Prior
  <1>8. LS!View(out \o c) = p \o SubSeq(out \o c, r + 1, Len(out \o c))
    BY <1>6 DEF LS!View
  <1> QED
    BY <1>4, <1>5, <1>7, <1>8

LEMMA PriorIsBytes ==
  ASSUME IInv
  PROVE  Prior \in Seq(Byte)
  <1>1. out \in Seq(Byte) /\ dictionary \in Seq(Byte) /\ Len(out) \in Nat /\ <<>> \in Seq(Byte)
    BY EmptySeq DEF IInv, TypeInv
  <1>2. OpenBlockRecord.prior \in Seq(Byte) /\ OpenBlockRecord.reach \in 0..Len(out)
    BY <1>1 DEF OpenBlockRecord
  <1>3. SubSeq(out, OpenBlockRecord.reach + 1, Len(out)) \in Seq(Byte)
    BY <1>1, <1>2
  <1> QED
    BY <1>2, <1>3, ConcatProperties DEF Prior

\* The decoder's output is the end of that, and only the window cuts it.
LEMMA BlkIsEnd ==
  ASSUME IInv, RefInv, pc \in {"sequence", "match"}
  PROVE  /\ Prior \o Chunk \in Seq(Byte) /\ Len(Prior \o Chunk) \in Nat
         /\ IsEnd(blk, Prior \o Chunk, Len(blk))
         /\ Len(blk) = Len(Prior \o Chunk) \/ Len(blk) >= Window
  <1>1. blk \in Seq(Byte) /\ base \in 0..Len(blk) /\ Chunk \in Seq(Byte) /\ Window \in Nat
    BY ChunkIs, SizeAssumption DEF IInv, TypeInv
  <1>a. PICK a : a = Newest(Prior, Window)
    OBVIOUS
  <1>m. PICK m : m = Min2(Len(Prior), Window)
    OBVIOUS
  <1>2. IsEnd(a, Prior, m)
    BY <1>1, <1>a, <1>m, NewestIs, PriorIsBytes
  <1>3. a \in Seq(Byte)
    BY <1>2 DEF IsEnd
  <1>4. SubSeq(blk, 1, base) = a
    BY <1>a DEF RefInv, PrefixInv
  <1>5. blk = a \o Chunk
    <2>1. SubSeq(blk, 1, base) \o SubSeq(blk, base + 1, Len(blk)) = SubSeq(blk, 1, Len(blk))
      <3>1. 1 \in 1..(Len(blk) + 1) /\ base \in (1 - 1)..Len(blk) /\ Len(blk) \in base..Len(blk)
        BY <1>1
      <3> QED
        BY <1>1, <3>1, ConcatAdjacentSubSeq
    <2>2. SubSeq(blk, 1, Len(blk)) = blk
      BY <1>1, SubSeqFull
    <2> QED
      BY <1>4, <2>1, <2>2 DEF Chunk
  <1>6. IsEnd(a \o Chunk, Prior \o Chunk, m + Len(Chunk))
    BY <1>1, <1>2, <1>3, PriorIsBytes, EndOfConcat
  <1>7. Len(a \o Chunk) = m + Len(Chunk)
    BY <1>6 DEF IsEnd
  <1>8. IsEnd(blk, Prior \o Chunk, Len(blk))
    BY <1>5, <1>6, <1>7
  <1>9. IsConcat(Prior \o Chunk, Prior, Chunk)
    BY <1>1, PriorIsBytes, ConcatIs
  <1>10. /\ Prior \o Chunk \in Seq(Byte) /\ Len(Prior \o Chunk) = Len(Prior) + Len(Chunk)
         /\ Len(Prior) \in Nat /\ Len(Chunk) \in Nat
    BY <1>9 DEF IsConcat
  <1>11. Len(blk) = m + Len(Chunk)
    BY <1>5, <1>7
  <1>12. m = Len(Prior) \/ m = Window
    BY <1>m DEF Min2
  <1>13. Len(Prior) + Len(Chunk) \in Nat /\ Window + Len(Chunk) >= Window
    BY <1>1, <1>10
  <1> QED
    BY <1>8, <1>10, <1>11, <1>12, <1>13

LEMMA StoredRefines ==
  ASSUME IInv, IInv', RefInv, NEW body \in Run(MaxRun), StoredBody(body)
  PROVE  LS!Literals \/ LS!OverLimit
  <1>1. body \in Seq(Byte) /\ Len(body) \in Nat
    BY SizeAssumption DEF Run
  <1>2. pc = "stored" /\ InBlock /\ blk = <<>> /\ base = 0
    BY DEF StoredBody, InBlock, RefInv, PrefixInv, IInv, TypeInv
  <1>3. Produced = 0 /\ Chunk = <<>>
    <2>1. Len(<<>>) = 0 /\ SubSeq(<<>>, 0 + 1, Len(<<>>)) = <<>>
      BY SubSeqEmpty, EmptySeq
    <2> QED
      BY <1>2, <2>1 DEF Produced, Chunk
  <1>4. allowance \in Nat /\ LS!Open /\ LS!Room = allowance
    BY <1>2, <1>3, InOpenBlock DEF IInv, TypeInv
  <1>5. CASE Len(body) > allowance /\ Fail("limit", Len(body))
    BY <1>4, <1>5, OverLimitStep
  <1>6. CASE Len(body) <= allowance /\ TakeChunk(body)
    <2>1. /\ pc' = "block" /\ blk' = <<>> /\ base' = 0 /\ out' = out \o body
          /\ UNCHANGED <<dictionary, total>>
      BY <1>6 DEF TakeChunk, given
    <2>2. Written' = Written \o body
      <3>1. out \in Seq(Byte) /\ out \o body \in Seq(Byte)
        BY <1>1, ConcatProperties DEF IInv, TypeInv
      <3>2. Chunk' = Chunk
        BY <1>2, <2>1 DEF Chunk
      <3>3. (out \o body) \o <<>> = out \o body /\ out \o <<>> = out
        BY <3>1, ConcatEmptySeq
      <3> QED
        BY <1>3, <2>1, <3>2, <3>3 DEF Written
    <2>3. Fits(Len(body))
      BY <1>1, <1>3, <1>6 DEF Fits
    <2>4. LS!Grows
      BY <1>1, <1>2, <2>2, <2>3, GrownBy
    <2>5. BlockRecord' = LS!NoBlock
      BY <2>1 DEF BlockRecord, InBlock, LS!NoBlock
    <2>6. Verdict' = Verdict
      BY <1>2, <2>1 DEF Verdict
    <2> QED
      BY <1>4, <2>1, <2>4, <2>5, <2>6 DEF LS!Literals
  <1> QED
    BY <1>5, <1>6 DEF StoredBody

\* Inside a block only its bytes change.
LEMMA InsideBlock ==
  ASSUME pc \in {"sequence", "match"}, pc' \in {"sequence", "match"},
         UNCHANGED <<dictionary, info, out>>
  PROVE  BlockRecord' = BlockRecord /\ Verdict' = Verdict
  BY DEF BlockRecord, OpenBlockRecord, InBlock, Verdict

LEMMA TooLong ==
  ASSUME IInv, RefInv, InBlock, NEW n \in Nat, ~Fits(n)
  PROVE  n > LS!Room
  <1>1. LS!Room = allowance - Produced /\ allowance \in Nat /\ Produced \in Nat
    BY InOpenBlock, ChunkIs DEF IInv, TypeInv
  <1> QED
    BY <1>1 DEF Fits

LEMMA RunRefines ==
  ASSUME IInv, RefInv, NEW run \in Run(MaxRun), LiteralRun(run)
  PROVE  LS!Literals \/ LS!OverLimit
  <1>1. run \in Seq(Byte) /\ Len(run) \in Nat
    BY SizeAssumption DEF Run
  <1>2. pc = "sequence" /\ InBlock /\ LS!Open
    BY InOpenBlock DEF LiteralRun, InBlock
  <1>3. CASE ~Fits(Len(run)) /\ Fail("limit", Len(run))
    BY <1>1, <1>2, <1>3, TooLong, OverLimitStep
  <1>4. CASE /\ Fits(Len(run)) /\ blk' = blk \o run /\ pc' = "match"
             /\ UNCHANGED <<dictionary, total, info, out, base>>
    <2>1. Written' = Written \o run
      BY <1>1, <1>4, AppendsToFrame
    <2>2. LS!Grows
      BY <1>1, <1>2, <1>4, <2>1, GrownBy
    <2>3. BlockRecord' = BlockRecord /\ Verdict' = Verdict
      BY <1>2, <1>4, InsideBlock
    <2> QED
      BY <1>2, <1>4, <2>2, <2>3 DEF LS!Literals
  <1> QED
    BY <1>3, <1>4 DEF LiteralRun, given

LEMMA OutsideOf ==
  ASSUME NEW o \in Nat, NEW n \in Nat, o \notin 1..n
  PROVE  o = 0 \/ o > n
  OBVIOUS

LEMMA MatchRefines ==
  ASSUME IInv, RefInv, NEW offset \in 0..MaxOffset, NEW mlen \in MinMatch..MaxMatch,
         Match(offset, mlen)
  PROVE  LS!Copy \/ LS!OutOfReach \/ LS!OverLimit
  <1>1. pc = "match" /\ InBlock /\ LS!Open
    BY InOpenBlock DEF Match, InBlock
  <1>2. /\ mlen \in Nat /\ offset \in Nat /\ offset <= MaxOffset
        /\ MaxOffset \in Nat /\ MaxOffset <= Window /\ Window \in Nat
    BY SizeAssumption
  <1>v. PICK v : v = Prior \o Chunk
    OBVIOUS
  <1>3. /\ v \in Seq(Byte) /\ Len(v) \in Nat /\ IsEnd(blk, v, Len(blk))
        /\ Len(blk) = Len(v) \/ Len(blk) >= Window
    BY <1>1, <1>v, BlkIsEnd
  <1>4. blk \in Seq(Byte) /\ Chunk \in Seq(Byte) /\ out \in Seq(Byte) /\ Len(blk) \in Nat
    BY ChunkIs DEF IInv, TypeInv
  <1>5. LS!View(Written) = v
    BY <1>1, <1>4, <1>v, ViewIs DEF Written
  <1>6. CASE ~InReach(offset) /\ Fail("offset", offset)
    <2>1. offset = 0 \/ offset > Len(v)
      <3>b. PICK lb \in Nat : lb = Len(blk)
        BY <1>4
      <3>v. PICK lv \in Nat : lv = Len(v)
        BY <1>3
      <3>1. lb \in Nat /\ lv \in Nat /\ (lb = lv \/ lb >= Window) /\ offset \notin 1..lb
        BY <1>3, <1>6, <3>b, <3>v DEF InReach
      <3>3. offset = 0 \/ offset > lb
        BY <1>2, <3>1, OutsideOf
      <3>4. offset > lb => ~(lb >= Window)
        BY <1>2, <3>1
      <3>2. offset = 0 \/ offset > lv
        BY <3>1, <3>3, <3>4
      <3> QED
        BY <3>2, <3>v
    <2>2. LS!Stop("offset", offset)
      BY <1>6, FailStops
    <2> QED
      BY <1>1, <1>5, <2>1, <2>2 DEF LS!OutOfReach
  <1>7. CASE ~Fits(mlen) /\ Fail("limit", mlen)
    BY <1>1, <1>2, <1>7, TooLong, OverLimitStep
  <1>8. CASE /\ InReach(offset) /\ Fits(mlen) /\ blk' = blk \o Copied(blk, offset, mlen)
             /\ pc' = "sequence" /\ UNCHANGED <<dictionary, total, info, out, base>>
    <2>c. PICK c : c = Copied(blk, offset, mlen)
      OBVIOUS
    <2>1. offset \in 1..Len(blk)
      BY <1>8 DEF InReach
    <2>2. c \in Seq(Byte) /\ Len(c) = mlen
      BY <1>2, <1>4, <2>1, <2>c, CopiedLength
    <2>3. blk' = blk \o c
      BY <1>8, <2>c
    <2>4. Written' = Written \o c
      BY <1>8, <2>2, <2>3, AppendsToFrame
    <2>5. LS!Grows
      BY <1>1, <1>8, <2>2, <2>4, GrownBy
    <2>6. BlockRecord' = BlockRecord /\ Verdict' = Verdict
      BY <1>1, <1>8, InsideBlock
    <2>7. LS!View(Written') = v \o c
      <3>1. Chunk \o c \in Seq(Byte)
        BY <1>4, <2>2, ConcatProperties
      <3>2. (out \o Chunk) \o c = out \o (Chunk \o c)
        BY <1>4, <2>2, JoinedInAnyOrder
      <3>3. (Prior \o Chunk) \o c = Prior \o (Chunk \o c)
        <4>1. Prior \in Seq(Byte)
          BY PriorIsBytes
        <4> QED
          BY <1>4, <2>2, <4>1, JoinedInAnyOrder
      <3>4. LS!View(out \o (Chunk \o c)) = Prior \o (Chunk \o c)
        BY <1>1, <3>1, ViewIs
      <3>5. Written' = out \o (Chunk \o c)
        BY <2>4, <3>2 DEF Written
      <3> QED
        BY <1>v, <3>3, <3>4, <3>5
    <2>8. Len(v \o c) = Len(v) + mlen
      BY <1>3, <2>2, ConcatProperties
    <2>9. \A k \in (Len(v) + 1)..(Len(v) + mlen) : (v \o c)[k] = (v \o c)[k - offset]
      <3> TAKE k \in (Len(v) + 1)..(Len(v) + mlen)
      <3>1. /\ v \in Seq(Byte) /\ blk \in Seq(Byte) /\ IsEnd(blk, v, Len(blk))
            /\ offset \in 1..Len(blk) /\ mlen \in Nat
            /\ k \in (Len(v) + 1)..(Len(v) + mlen)
        BY <1>2, <1>3, <1>4, <2>1
      <3>2. LET w == v \o Copied(blk, offset, mlen) IN w[k] = w[k - offset]
        BY <3>1, EndCopy, Zenon
      <3> QED
        BY <3>2, <2>c
    <2>10. offset \in 1..MaxOffset /\ offset <= Len(v)
      BY <1>2, <1>3, <1>4, <2>1 DEF IsEnd
    <2>11. \A k \in (Len(LS!View(Written)) + 1)..Len(LS!View(Written')) :
              LS!View(Written')[k] = LS!View(Written')[k - offset]
      BY <1>5, <2>7, <2>8, <2>9
    <2> QED
      BY <1>1, <1>5, <1>8, <2>5, <2>6, <2>10, <2>11 DEF LS!Copy
  <1> QED
    BY <1>6, <1>7, <1>8 DEF Match, given

LEMMA EndBlockRefines ==
  ASSUME IInv, RefInv, EndBlock
  PROVE  LS!CloseBlock
  <1>1. pc \in {"sequence", "match"} /\ InBlock /\ TakeChunk(Chunk)
    BY DEF EndBlock, MayEndAfter, InBlock, Chunk
  <1>2. /\ pc' = "block" /\ blk' = <<>> /\ base' = 0 /\ out' = out \o Chunk
        /\ UNCHANGED <<dictionary, total>>
    BY <1>1 DEF TakeChunk, given
  <1>3. Written' = Written
    <2>1. out \o Chunk \in Seq(Byte)
      BY ChunkIs, ConcatProperties DEF IInv, TypeInv
    <2>2. Chunk' = <<>>
      <3>1. SubSeq(<<>>, 0 + 1, Len(<<>>)) = <<>>
        BY SubSeqEmpty, EmptySeq
      <3> QED
        BY <1>2, <3>1 DEF Chunk
    <2> QED
      BY <1>2, <2>1, <2>2, ConcatEmptySeq DEF Written
  <1>4. BlockRecord' = LS!NoBlock /\ Verdict' = Verdict
    BY <1>1, <1>2 DEF BlockRecord, InBlock, LS!NoBlock, Verdict
  <1> QED
    BY <1>1, <1>2, <1>3, <1>4, InOpenBlock DEF LS!CloseBlock

LEMMA EndRefines ==
  ASSUME IInv, IInv', \/ EndMark \/ FinishFrame
                      \/ \E next \in {"eof", "magic", "junk"} : EndLegacy(next)
  PROVE  LS!EndFrame \/ LS!Malformed \/ UNCHANGED LS!svars
  <1>1. CASE EndMark
    <2>1. pc = "block" /\ pc' = "finish" /\ UNCHANGED <<dictionary, total, out>>
      BY <1>1 DEF EndMark, given
    <2> QED
      BY <2>1, QuietStep
  <1>2. CASE Fail("malformed", 0)
    BY <1>2, MalformedStep
  <1>3. CASE pc \in {"block", "finish"} /\ ReturnFrame
    <2>1. /\ pc' = "frame" /\ total' = total \o out /\ out' = <<>>
          /\ UNCHANGED <<dictionary, blk, base>>
      BY <1>3 DEF ReturnFrame, given
    <2>2. Written = out /\ Chunk = <<>> /\ BlockRecord = LS!NoBlock
      BY <1>3, OutsideBlock
    <2>3. Written' = <<>>
      <3>1. Chunk' = Chunk
        BY <2>1 DEF Chunk
      <3>2. <<>> \o <<>> = <<>>
        BY EmptySeq, ConcatEmptySeq
      <3> QED
        BY <2>1, <2>2, <3>1, <3>2 DEF Written
    <2>4. BlockRecord' = BlockRecord /\ Verdict' = Verdict
      BY <1>3, <2>1, <2>2 DEF BlockRecord, InBlock, LS!NoBlock, Verdict
    <2> QED
      BY <2>1, <2>2, <2>3, <2>4 DEF LS!EndFrame, LS!Open
  <1> QED
    BY <1>1, <1>2, <1>3 DEF FinishFrame, EndLegacy

LEMMA StepRefines ==
  ASSUME IInv, IInv', RefInv, RefInv', Next
  PROVE  LS!Next \/ UNCHANGED LS!svars
  <1>1. Verdict.why = "running"
    <2>1. pc \notin {"done", "error"}
      BY DEF Next, EndOfInput, SkippableFrame, LegacyFrame, Damaged, ModernFrame, CompressedBlock,
             StoredBlock, LegacyBlock, StoredBody, LiteralRun, Match, EndBlock, MayEndAfter,
             EndMark, FinishFrame, EndLegacy
    <2> QED
      BY <2>1 DEF Verdict
  <1>2. \/ LS!OpenBlock \/ LS!Literals \/ LS!Copy \/ LS!CloseBlock \/ LS!EndFrame \/ LS!Finish
        \/ LS!Malformed \/ LS!OutOfReach \/ LS!OverLimit \/ UNCHANGED LS!svars
    BY FrameRefines, BeginRefines, StoredRefines, RunRefines, MatchRefines, EndBlockRefines,
       EndRefines DEF Next
  <1> QED
    BY <1>1, <1>2 DEF LS!Next

\* Decoding with a window, a fresh history for every frame and slices produces
\* and accepts what the decoder that keeps everything does (decompress_frame,
\* _decompress_legacy and decompress_block of lz4_frame).
THEOREM Refinement == Spec => ImplementsStream
  <1>1. Init => LS!Init
    <2> SUFFICES ASSUME Init PROVE LS!Init
      OBVIOUS
    <2>1. /\ pc = "frame" /\ total = <<>> /\ out = <<>> /\ blk = <<>> /\ base = 0
          /\ dictionary \in Seq(Byte)
      BY DictionaryAssumption DEF Init
    <2>2. Written = <<>>
      <3>1. SubSeq(<<>>, 0 + 1, Len(<<>>)) = <<>> /\ <<>> \o <<>> = <<>>
        BY SubSeqEmpty, EmptySeq, ConcatEmptySeq
      <3> QED
        BY <2>1, <3>1 DEF Written, Chunk
    <2>3. BlockRecord = LS!NoBlock /\ Verdict = [why |-> "running", n |-> 0]
      BY <2>1 DEF BlockRecord, InBlock, LS!NoBlock, Verdict
    <2> QED
      BY <2>1, <2>2, <2>3 DEF LS!Init
  <1>2. IInv /\ IInv' /\ RefInv /\ RefInv' /\ [Next]_vars => [LS!Next]_(LS!svars)
    <2> SUFFICES ASSUME IInv, IInv', RefInv, RefInv', [Next]_vars
                 PROVE  LS!Next \/ UNCHANGED LS!svars
      OBVIOUS
    <2>1. CASE UNCHANGED vars
      <3>1. Written' = Written /\ BlockRecord' = BlockRecord /\ Verdict' = Verdict
        BY <2>1 DEF vars, Written, Chunk, BlockRecord, OpenBlockRecord, InBlock, Verdict
      <3> QED
        BY <2>1, <3>1 DEF vars, LS!svars
    <2>2. CASE Next
      BY <2>2, StepRefines
    <2> QED
      BY <2>1, <2>2
  <1> QED
    BY <1>1, <1>2, Invariance, WindowIsEnough, PTL DEF Spec, LS!Spec, ImplementsStream
==============
