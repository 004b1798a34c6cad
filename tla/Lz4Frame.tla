------------------------------- MODULE Lz4Frame -------------------------------
(***************************************************************************)
(* The LZ4 decoder: src/src/lz4_frame.py, decompress, decompress_frame,    *)
(* _decompress_legacy and decompress_block.                                *)
(*                                                                         *)
(* The input is not fixed in advance: every read chooses what the stream   *)
(* holds next (a frame, a block, a literal run, a match, the end, or       *)
(* something malformed), so that all streams are covered.  Bytes are       *)
(* members of Byte; a checksum is right or wrong.  Sizes are parameters:   *)
(* in the code Window = 65536, MaxOffset = 65535 (an offset has two        *)
(* bytes), BlockMaxes = 64 KiB, 256 KiB, 1 MiB and 4 MiB, LegacyMax =      *)
(* 8 MiB and MinMatch = 4.                                                 *)
(***************************************************************************)
EXTENDS Integers, Sequences

CONSTANTS
  Byte,         \* byte values
  Dictionaries, \* dictionaries a caller can supply, <<>> for none
  Window,       \* bytes of history kept
  MaxOffset,    \* largest offset of a match
  MinMatch,     \* shortest match
  BlockMaxes,   \* the block sizes a descriptor can declare
  LegacyMax,    \* block size of the legacy format
  MaxOutput,    \* decompress' max_output
  MaxFrames,    \* bound: frames per stream
  MaxBlocks,    \* bound: blocks per frame
  MaxRun,       \* bound: bytes of a literal run or a stored block
  MaxMatch      \* bound: length of a match

ASSUME SizeAssumption ==
  /\ Window \in Nat \ {0} /\ MaxOffset \in 1..Window
  /\ MinMatch \in Nat \ {0} /\ MaxMatch \in Nat /\ MaxRun \in Nat
  /\ BlockMaxes \subseteq Nat \ {0} /\ LegacyMax \in Nat \ {0}
  /\ MaxOutput \in Nat /\ MaxFrames \in Nat /\ MaxBlocks \in Nat

ASSUME DictionaryAssumption == Dictionaries \subseteq Seq(Byte)

VARIABLES
  backend,    \* which block decoder: "python" or "native"
  dictionary, \* the caller's dictionary
  pc,         \* where the decoder is
  total,      \* decompress: out
  info,       \* FrameInfo: kind, block_independent, content_size, block_max
  out,        \* decompress_frame: out
  history,    \* decompress_frame: history
  blk,        \* decompress_block: out, prefix included
  base,       \* decompress_block: base
  allowance,  \* decompress_block: max_out
  ahead,      \* what a legacy frame stopped at
  error,      \* why decoding was given up, with the number that was too large
  frames,     \* frames begun (bounded by MaxFrames)
  blocks      \* n_blocks of the frame (bounded by MaxBlocks)

given == <<backend, dictionary>>
vars  == <<backend, dictionary, pc, total, info, out, history, blk, base,
           allowance, ahead, error, frames, blocks>>

Min2(m, n) == IF m < n THEN m ELSE n

\* s[-n:]
Newest(s, n) == IF Len(s) > n THEN SubSeq(s, Len(s) - n + 1, Len(s)) ELSE s

Unknown == -1  \* no content size in the descriptor
Run(n)  == UNION {[1..k -> Byte] : k \in 0..n}
NoInfo  == [kind |-> "none", block_independent |-> TRUE,
            content_size |-> Unknown, block_max |-> 0]

\* Faulty variant: every frame gets the whole limit.
FrameOutputWhole == MaxOutput

\* max_output of the frame being decoded.
FrameOutput == MaxOutput - Len(total)

Init ==
  /\ backend \in {"python", "native"}
  /\ dictionary \in Dictionaries
  /\ pc = "frame"
  /\ total = <<>> /\ info = NoInfo
  /\ out = <<>> /\ history = <<>>
  /\ blk = <<>> /\ base = 0 /\ allowance = 0
  /\ ahead = "unread"
  /\ error = [why |-> "none", n |-> 0]
  /\ frames = 0 /\ blocks = 0

Fail(why, n) ==
  /\ pc' = "error"
  /\ error' = [why |-> why, n |-> n]
  /\ UNCHANGED <<given, total, info, out, history, blk, base, allowance,
                 ahead, frames, blocks>>

-----------------------------------------------------------------------------
(* Between frames: the loop of decompress, and the magic.                  *)

\* "while i < len(buf)" ends.
EndOfInput ==
  /\ pc = "frame" /\ ahead \in {"unread", "eof"}
  /\ pc' = "done"
  /\ UNCHANGED <<given, total, info, out, history, blk, base, allowance,
                 ahead, error, frames, blocks>>

\* A frame of its own that yields b"".
SkippableFrame ==
  /\ pc = "frame" /\ ahead \in {"unread", "magic"} /\ frames < MaxFrames
  /\ ahead' = "unread"
  /\ frames' = frames + 1
  /\ UNCHANGED <<given, pc, total, info, out, history, blk, base,
                 allowance, error, blocks>>

\* Magic and descriptor, and the checks decompress_frame makes on it.
ModernFrame(independent, size, max, needsDictionary) ==
  /\ pc = "frame" /\ ahead \in {"unread", "magic"} /\ frames < MaxFrames
  /\ \/ /\ size > FrameOutput
        /\ Fail("limit", size)
     \/ /\ size <= FrameOutput /\ needsDictionary /\ dictionary = <<>>
        /\ Fail("malformed", 0)
     \/ /\ size <= FrameOutput /\ ~(needsDictionary /\ dictionary = <<>>)
        /\ info' = [kind |-> "frame", block_independent |-> independent,
                    content_size |-> size, block_max |-> max]
        /\ pc' = "block"
        /\ history' = dictionary
        /\ out' = <<>>
        /\ ahead' = "unread"
        /\ frames' = frames + 1 /\ blocks' = 0
        /\ UNCHANGED <<given, total, blk, base, allowance, error>>

LegacyFrame ==
  /\ pc = "frame" /\ ahead \in {"unread", "magic"} /\ frames < MaxFrames
  /\ info' = [kind |-> "legacy", block_independent |-> TRUE,
              content_size |-> Unknown, block_max |-> LegacyMax]
  /\ pc' = "block"
  /\ out' = <<>> /\ history' = <<>>
  /\ ahead' = "unread"
  /\ frames' = frames + 1 /\ blocks' = 0
  /\ UNCHANGED <<given, total, blk, base, allowance, error>>

\* Whatever else is there, and every truncation, reserved bit and wrong
\* checksum of a header, a block or a frame.
Damaged ==
  /\ \/ pc = "frame" /\ ahead # "eof"
     \/ pc = "block" /\ info.kind = "frame"
     \/ pc \in {"sequence", "match", "finish"}
  /\ Fail("malformed", 0)

-----------------------------------------------------------------------------
(* Blocks.                                                                 *)

Allowance == Min2(info.block_max, FrameOutput - Len(out))

\* A block header: prefix is what decompress_block keeps of its argument.
BeginBlock(step, prefix) ==
  /\ blocks < MaxBlocks
  /\ allowance' = Allowance
  /\ blk' = Newest(prefix, Window)
  /\ base' = Len(blk')
  /\ pc' = step
  /\ blocks' = blocks + 1
  /\ UNCHANGED <<given, total, info, out, history, ahead, error, frames>>

CompressedBlock ==
  /\ pc = "block" /\ info.kind = "frame"
  /\ BeginBlock("sequence",
                IF info.block_independent THEN dictionary ELSE history)

StoredBlock ==
  /\ pc = "block" /\ info.kind = "frame"
  /\ BeginBlock("stored", <<>>)

\* No prefix: a legacy block knows no dictionary.
LegacyBlock ==
  /\ pc = "block" /\ info.kind = "legacy"
  /\ BeginBlock("sequence", <<>>)

\* out += chunk; a linked frame slides its window.
TakeChunk(chunk) ==
  /\ out' = out \o chunk
  /\ history' = IF info.block_independent THEN history
                ELSE Newest(history \o chunk, Window)
  /\ blk' = <<>> /\ base' = 0 /\ allowance' = 0
  /\ pc' = "block"
  /\ UNCHANGED <<given, total, info, ahead, error, frames, blocks>>

\* Faulty variant: stored bytes do not enter the history.
StoredBodyForgotten(body) ==
  /\ pc = "stored"
  /\ Len(body) <= info.block_max
  /\ \/ Len(body) > allowance /\ Fail("limit", Len(body))
     \/ /\ Len(body) <= allowance
        /\ out' = out \o body
        /\ pc' = "block" /\ allowance' = 0
        /\ UNCHANGED <<given, total, info, history, blk, base, ahead, error,
                       frames, blocks>>

StoredBody(body) ==
  /\ pc = "stored"
  /\ Len(body) <= info.block_max
  /\ \/ Len(body) > allowance /\ Fail("limit", Len(body))
     \/ Len(body) <= allowance /\ TakeChunk(body)

-----------------------------------------------------------------------------
(* decompress_block: sequences of a literal run and a match.               *)

Produced == Len(blk) - base

\* What both decoders hold a length and an offset against.
Fits(n)         == Produced + n <= allowance
InReach(offset) == offset \in 1..Len(blk)

\* native_lz4 is given the blocks of frames, and wants a block to end with
\* literals.
Native == backend = "native" /\ info.kind # "legacy"
MayEndAfter(step) == step = "match" \/ (step = "sequence" /\ Produced > 0 /\ ~Native)

LiteralRun(run) ==
  /\ pc = "sequence"
  /\ \/ /\ ~Fits(Len(run))
        /\ Fail("limit", Len(run))
     \/ /\ Fits(Len(run))
        /\ blk' = blk \o run
        /\ pc' = "match"
        /\ UNCHANGED <<given, total, info, out, history, base, allowance,
                       ahead, error, frames, blocks>>

\* The bytes a match appends: a slice, or the periodic seed repeated.
Copied(s, offset, mlen) ==
  LET start == Len(s) - offset
      seed  == SubSeq(s, start + 1, Len(s))
  IN  IF offset >= mlen THEN SubSeq(s, start + 1, start + mlen)
      ELSE [k \in 1..mlen |-> seed[((k - 1) % offset) + 1]]

Match(offset, mlen) ==
  /\ pc = "match"
  /\ \/ /\ ~InReach(offset)
        /\ Fail("offset", offset)
     \/ /\ InReach(offset)
        /\ ~Fits(mlen)
        /\ Fail("limit", mlen)
     \/ /\ InReach(offset)
        /\ Fits(mlen)
        /\ blk' = blk \o Copied(blk, offset, mlen)
        /\ pc' = "sequence"
        /\ UNCHANGED <<given, total, info, out, history, base, allowance,
                       ahead, error, frames, blocks>>

\* The body is used up (it had at least one token) after a literal run, or,
\* where Python decodes the block, after a match.
EndBlock ==
  /\ MayEndAfter(pc)
  /\ TakeChunk(SubSeq(blk, base + 1, Len(blk)))

-----------------------------------------------------------------------------
(* The end of a frame.                                                     *)

\* data returned to decompress: out += data.
ReturnFrame ==
  /\ total' = total \o out
  /\ out' = <<>> /\ history' = <<>>
  /\ info' = NoInfo
  /\ pc' = "frame"
  /\ blocks' = 0
  /\ UNCHANGED <<given, blk, base, allowance, error, frames>>

EndMark ==
  /\ pc = "block" /\ info.kind = "frame"
  /\ pc' = "finish"
  /\ UNCHANGED <<given, total, info, out, history, blk, base, allowance,
                 ahead, error, frames, blocks>>

\* The content checksum was right or absent (else Damaged); the size.
FinishFrame ==
  /\ pc = "finish"
  /\ \/ /\ info.content_size \notin {Unknown, Len(out)}
        /\ Fail("malformed", 0)
     \/ /\ info.content_size \in {Unknown, Len(out)}
        /\ ReturnFrame
        /\ UNCHANGED ahead

\* No EndMark: the input ends, another magic follows, or something that is
\* neither a block size nor a magic, or a block that is cut short.
EndLegacy(next) ==
  /\ pc = "block" /\ info.kind = "legacy"
  /\ ahead' = next
  /\ ReturnFrame

-----------------------------------------------------------------------------

Next ==
  \/ EndOfInput \/ SkippableFrame \/ LegacyFrame \/ Damaged
  \/ \E independent, needsDictionary \in BOOLEAN, max \in BlockMaxes,
        size \in {Unknown} \cup 0..(MaxOutput + 1) :
       ModernFrame(independent, size, max, needsDictionary)
  \/ CompressedBlock \/ StoredBlock \/ LegacyBlock
  \/ \E body \in Run(MaxRun) : StoredBody(body)
  \/ \E run \in Run(MaxRun) : LiteralRun(run)
  \/ \E offset \in 0..MaxOffset, mlen \in MinMatch..MaxMatch : Match(offset, mlen)
  \/ EndBlock \/ EndMark \/ FinishFrame
  \/ \E next \in {"eof", "magic", "junk"} : EndLegacy(next)

Spec == Init /\ [][Next]_vars
-----------------------------------------------------------------------------
(* Correctness.                                                            *)

InBlock == pc \in {"stored", "sequence", "match"}

(* max_output bounds the bytes of all frames together at every moment, the *)
(* block being decoded included, although each of decompress,              *)
(* decompress_frame and decompress_block only sees what is left for it;    *)
(* so no allowance is ever negative, and no block outgrows its descriptor. *)
(* The history kept between blocks is a window, however long the frame     *)
(* gets (a dictionary longer than that is only cut by the first block).    *)
WithinBudget ==
  /\ Len(history) <= Window \/ history = dictionary
  /\ Len(total) + Len(out) + Produced <= MaxOutput
  /\ InBlock => /\ allowance <= info.block_max
                /\ Len(total) + Len(out) + allowance <= MaxOutput
                /\ Produced <= allowance

-----------------------------------------------------------------------------
(* Refinement: the decoder that keeps everything.                          *)

Chunk == SubSeq(blk, base + 1, Len(blk))

\* A legacy frame knows no dictionary, and its blocks are independent.
OpenBlockRecord ==
  [prior |-> IF info.kind = "legacy" THEN <<>> ELSE dictionary,
   reach |-> IF info.block_independent THEN Len(out) ELSE 0,
   begin |-> Len(out), max |-> info.block_max]

\* The bytes of the current frame, its block, and how decoding stands.
Written     == out \o Chunk
BlockRecord == IF InBlock THEN OpenBlockRecord
               ELSE [prior |-> <<>>, reach |-> 0, begin |-> 0, max |-> 0]
Verdict     == IF pc = "done" THEN [why |-> "done", n |-> 0]
               ELSE IF pc = "error" THEN error
               ELSE [why |-> "running", n |-> 0]

LS == INSTANCE Lz4Stream WITH
        BlockMaxes <- BlockMaxes \cup {LegacyMax},
        before <- total, frame <- Written, block <- BlockRecord, status <- Verdict

(* Decoding with a window of Window bytes, a fresh history for every frame *)
(* and slices instead of byte-wise copies produces what the decoder that   *)
(* keeps everything produces, and refuses nothing that one would accept.   *)
ImplementsStream == LS!Spec
=============================================================================
