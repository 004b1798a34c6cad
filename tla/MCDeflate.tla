------------------------------ MODULE MCDeflate ------------------------------
(***************************************************************************)
(* Deflate on every stream of up to MCBytes two-bit bytes.  The fixed      *)
(* codes are complete; one length and one distance symbol are reserved, as *)
(* 286, 287, 30 and 31 are; lengths and distances have symbols with and    *)
(* without extra bits, and lengths longer than distances.                  *)
(***************************************************************************)
EXTENDS Deflate

CONSTANT MCBytes

\* Symbols: literals 0 and 1, end of block 2, lengths 3 and 4, reserved 5.
MCLenBase   == <<2, 3>>
MCLenExtra  == <<0, 1>>
MCDistBase  == <<1, 2>>
MCDistExtra == <<0, 1>>
MCFixedLit  == (0 :> 2) @@ (1 :> 3) @@ (2 :> 3) @@ (3 :> 2) @@ (4 :> 3) @@ (5 :> 3)
MCFixedDist == (0 :> 1) @@ (1 :> 2) @@ (2 :> 2)

Len1(l)  == <<"len", l>>
Zeros(n) == <<"zero", n>>
Again(n) == <<"copy", n>>

H(lit, dist, runs) == [lit |-> lit, dist |-> dist, runs |-> runs]

MCHeaders ==
  { H(5, 2, <<Len1(1), Zeros(1), Len1(3), Again(1), Len1(2), Zeros(1), Len1(1)>>),  \* complete
    H(4, 2, <<Len1(3), Zeros(1), Len1(2), Again(3)>>),     \* incomplete; a run crosses over
    H(3, 1, <<Len1(1), Len1(1), Len1(1), Len1(1)>>),       \* too many codes
    H(4, 1, <<Len1(1), Len1(2), Len1(3), Len1(3), Zeros(1)>>),  \* no distance has a code
    H(4, 1, <<Len1(1), Zeros(2), Len1(1), Len1(1)>>),      \* no end of block
    H(6, 1, <<Len1(1), Len1(3), Len1(2), Zeros(3), Len1(1)>>),  \* reserved length symbol counted
    H(3, 1, <<Again(2), Len1(1), Len1(1)>>),               \* nothing to copy
    H(3, 1, <<Len1(1), Len1(2), Again(3)>>),               \* a run too long
    H(3, 1, <<Len1(1), Len1(1)>>) }                        \* too few lengths

Plain == H(3, 1, <<Zeros(2), Len1(1), Len1(1)>>)

MCStreams == UNION {[1..2 * n -> {0, 1}] : n \in 0..MCBytes}

\* The header matters only to streams whose first block is dynamic.
MCInputs ==
  {<<d, h>> \in MCStreams \X (MCHeaders \cup {Plain}) :
     h = Plain \/ (Len(d) >= 3 /\ d[2] = 0 /\ d[3] = 1)}
=============================================================================
