------------------------------ MODULE Lz4Stream ------------------------------
(***************************************************************************)
(* What decoding LZ4 frames means: the decoder remembers everything it has *)
(* produced, a match may reach back to the start of its frame (of its      *)
(* block, if blocks are independent) and into the dictionary before it,    *)
(* and a copy repeats the byte "offset" positions back, one byte after     *)
(* another.  A stream is refused for an offset or a limit only when it     *)
(* really is out of reach or over the limit, and what it produces is only  *)
(* accepted to the end of the input.                                       *)
(***************************************************************************)
EXTENDS Integers, Sequences

CONSTANTS
  Byte,       \* byte values
  BlockMaxes, \* limits a frame can put on the size of its blocks
  MaxOffset,  \* largest offset a match can name
  MaxOutput   \* limit on the bytes of all frames together

VARIABLES
  dictionary, \* bytes that precede every frame
  before,     \* bytes of the frames already decoded
  frame,      \* bytes of the current frame
  block,      \* the open block: what precedes the bytes its matches reach,
              \* where those bytes begin, where the block begins, its limit
  status      \* "running", "done" or the reason of a refusal, and its number

svars == <<dictionary, before, frame, block, status>>

NoBlock == [prior |-> <<>>, reach |-> 0, begin |-> 0, max |-> 0]
Open    == block # NoBlock

\* What a match of the open block may refer to.
View(f) == block.prior \o SubSeq(f, block.reach + 1, Len(f))

\* How much more may be produced.
RoomInTotal == MaxOutput - Len(before) - Len(frame)
RoomInBlock == block.max - (Len(frame) - block.begin)
Room == IF Open /\ RoomInBlock < RoomInTotal THEN RoomInBlock ELSE RoomInTotal

Grows == /\ Len(frame') \in Len(frame)..(Len(frame) + Room)
         /\ SubSeq(frame', 1, Len(frame)) = frame

Init ==
  /\ dictionary \in Seq(Byte)
  /\ before = <<>> /\ frame = <<>>
  /\ block = NoBlock
  /\ status = [why |-> "running", n |-> 0]

OpenBlock ==
  /\ ~Open
  /\ \E prior \in {dictionary, <<>>}, reach \in {0, Len(frame)}, max \in BlockMaxes :
       block' = [prior |-> prior, reach |-> reach, begin |-> Len(frame), max |-> max]
  /\ UNCHANGED <<dictionary, before, frame, status>>

\* Bytes of the stream itself; a stored block ends with them.
Literals ==
  /\ Open /\ Grows
  /\ block' \in {block, NoBlock}
  /\ UNCHANGED <<dictionary, before, status>>

\* Every new byte equals the one offset positions before it.
Copy ==
  /\ Open /\ Grows
  /\ \E offset \in 1..MaxOffset :
       /\ offset <= Len(View(frame))
       /\ \A k \in (Len(View(frame)) + 1)..Len(View(frame')) :
            View(frame')[k] = View(frame')[k - offset]
  /\ UNCHANGED <<dictionary, before, block, status>>

CloseBlock ==
  /\ Open
  /\ block' = NoBlock
  /\ UNCHANGED <<dictionary, before, frame, status>>

EndFrame ==
  /\ ~Open
  /\ before' = before \o frame
  /\ frame' = <<>>
  /\ UNCHANGED <<dictionary, block, status>>

Stop(why, n) ==
  /\ status' = [why |-> why, n |-> n]
  /\ block' = NoBlock
  /\ UNCHANGED <<dictionary, before, frame>>

Finish == ~Open /\ frame = <<>> /\ Stop("done", 0)

\* The stream itself is not well-formed.
Malformed == Stop("malformed", 0)

OutOfReach ==
  /\ Open
  /\ \E offset \in 0..MaxOffset :
       /\ offset = 0 \/ offset > Len(View(frame))
       /\ Stop("offset", offset)

OverLimit == Stop("limit", status'.n) /\ status'.n > Room

Next ==
  /\ status.why = "running"
  /\ \/ OpenBlock \/ Literals \/ Copy \/ CloseBlock \/ EndFrame \/ Finish
     \/ Malformed \/ OutOfReach \/ OverLimit

Spec == Init /\ [][Next]_svars
=============================================================================
