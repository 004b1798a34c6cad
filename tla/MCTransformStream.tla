--------------------------- MODULE MCTransformStream ---------------------------
(* Streams of up to MCLength bytes, each of which yields up to MCYield. *)
EXTENDS TransformStream

CONSTANTS MCLength, MCYield

MCStreams == UNION {[1..n -> 0..MCYield] : n \in 1..MCLength}
=============================================================================
