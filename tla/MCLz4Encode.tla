---------------------------- MODULE MCLz4Encode ----------------------------
(* Every block of up to MaxLen bytes.                                      *)
EXTENDS Lz4Encode

CONSTANT MaxLen

MCInputs == UNION {[1..m -> Byte] : m \in 0..MaxLen}
=============================================================================
