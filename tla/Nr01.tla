--------------------------------- MODULE Nr01 ---------------------------------
(***************************************************************************)
(* The NR01 container of geex_nr01.py: encode, then decode, of one board.  *)
(* The gaps are placed, the board is tiled (one action for each rectangle  *)
(* greedy_rects takes out), painted and packed, and unpacked again.  The   *)
(* container is a record of its fields; those written as one byte are cut  *)
(* to one.  zlib over the residual, and the digest, are exact.             *)
(***************************************************************************)
EXTENDS Windmill, Bitwise

CONSTANT NrCases     \* the inputs: [board, n, how, klass]

VARIABLES nrCase,    \* the input
          nrPc,      \* "place", "tile", "packed", "decoded" or "mismatch"
          nrPi,      \* the row of each column's gap
          nrTiles,   \* the tiles so far
          nrMask,    \* cells in no tile yet
          nrBlob,    \* the container
          nrOut      \* the board decode returns

nrVars == <<nrCase, nrPc, nrPi, nrTiles, nrMask, nrBlob, nrOut>>

n == nrCase.n
k == CHOOSE r \in 0..n : r * r - r < n /\ n <= r * r + r      \* round(sqrt(n))
OfficialPi == nrCase.how = "official" /\ k * k = n
NoBlob == [n |-> 0]

NrInit ==
  /\ nrCase \in NrCases
  /\ nrPc = "place"
  /\ nrPi = <<>> /\ nrTiles = <<>> /\ nrMask = {} /\ nrBlob = NoBlob /\ nrOut = <<>>

\* official_tiles up to its leftover, or data_perm and tiles_from_perm.
NrPlace ==
  /\ nrPc = "place"
  /\ \E pi \in IF OfficialPi THEN {official_perm(k)} ELSE data_perms(nrCase.board, n) :
       LET tiles == IF OfficialPi THEN Interior(k, pi, 0, <<>>) ELSE <<>>
       IN /\ nrPi' = pi
          /\ nrTiles' = tiles
          /\ nrMask' = Cells(n) \ (Gaps(pi) \cup UNION {CellsOf(tiles[i]) : i \in DOMAIN tiles})
  /\ nrPc' = "tile"
  /\ UNCHANGED <<nrCase, nrBlob, nrOut>>

NrCarve ==
  /\ nrPc = "tile" /\ nrMask # {}
  /\ \E t \in {greedy_rect(nrMask, n)} :
       nrTiles' = Append(nrTiles, t) /\ nrMask' = nrMask \ CellsOf(t)
  /\ UNCHANGED <<nrCase, nrPc, nrPi, nrBlob, nrOut>>

-------------------------------------------------------------------------------
(* encode.                                                                 *)

Block(board, t) == [c \in (0..t.h - 1) \X (0..t.w - 1) |-> board[<<t.y + c[1], t.x + c[2]>>]]
Fill(board, r) == ModeOn(board, {c \in Cells(n) : c[1] = r})

\* The motif of each tile, with the block it predicts.
Motifs(board) == [i \in DOMAIN nrTiles |->
  LET t == nrTiles[i]
      m == choose_motif(Block(board, t), t.h, t.w)
  IN [kind |-> m[1], params |-> m[2], pred |-> apply_motif(m[1], m[2], t.h, t.w)]] \o <<>>

\* A recipe for each row or each tile, or none.
Recipes(route, board, motifs) ==
  CASE route = "skip" -> <<>>
    [] route = "axis" -> [r \in 1..n |-> [x |-> 0, y |-> r - 1, w |-> n, h |-> 1, kind |-> CONST,
                                          params |-> <<Fill(board, r - 1)>>]] \o <<>>
    [] OTHER -> [i \in DOMAIN nrTiles |->
         LET t == nrTiles[i]
         IN [x |-> t.x, y |-> t.y, w |-> t.w, h |-> t.h,
             kind |-> motifs[i].kind, params |-> motifs[i].params]] \o <<>>

\* What the encoder predicts: rows filled or tiles painted, and then the gaps.
paint_gaps_first(route, board, motifs, pi) ==
  LET Tiled(c) == LET over == {i \in DOMAIN nrTiles : c \in CellsOf(nrTiles[i])}
                      i == Greatest(over)
                  IN IF over = {} THEN 0
                     ELSE motifs[i].pred[<<c[1] - nrTiles[i].y, c[2] - nrTiles[i].x>>]
      fills == IF route = "axis" THEN [r \in 0..n - 1 |-> Fill(board, r)] ELSE <<>>
  IN [c \in Cells(n) |-> IF pi[c[2]] = c[1] THEN board[c]
                         ELSE CASE route = "skip" -> 0
                                [] route = "axis" -> fills[c[1]]
                                [] OTHER          -> Tiled(c)]

GapBytes(board, pi) == [c \in DOMAIN pi |-> board[<<pi[c], c>>]]
Residual(board, pred) == [c \in Cells(n) |-> board[c] ^^ pred[c]]

\* agree is whether the tiles' motifs are right about two cells in five.
es_route(pi, agree) ==
  LET seq == [i \in 1..n |-> pi[i - 1]]
      A == lis_len(seq)
      B == lds_len(seq)
  IN IF nrCase.klass = "noise" \/ ~agree THEN "skip"
     ELSE IF nrCase.klass = "planar" \/ A >= n - 1 \/ B >= n - 1 THEN "axis"
     ELSE IF A * B >= n THEN "official" ELSE "axis"

\* A recipe as it is written, every field in one byte.
Written(r) == [x |-> r.x % Level, y |-> r.y % Level, w |-> r.w % Level, h |-> r.h % Level,
               kind |-> r.kind, plen |-> Len(r.params) % Level, params |-> r.params]

NrEncode ==
  /\ nrPc = "tile" /\ nrMask = {}
  /\ LET board == nrCase.board
     IN \E motifs \in {Motifs(board)} :
        LET Pred(route) == paint_gaps_first(route, board, motifs, nrPi)
        IN \E try \in {Cardinality({c \in Cells(n) : Pred("official")[c] = board[c]})} :
           \E route \in {es_route(nrPi, 100 * try >= 40 * n * n)} :
           \E recipes \in {Recipes(route, board, motifs)} :
             nrBlob' = [n |-> n, k |-> k, route |-> route, official_pi |-> OfficialPi,
                        pi |-> IF OfficialPi THEN <<>> ELSE [c \in DOMAIN nrPi |-> nrPi[c] % Level],
                        gaps |-> GapBytes(board, nrPi),
                        recipes |-> [i \in DOMAIN recipes |-> Written(recipes[i])],
                        residual |-> Residual(board, Pred(route)), sha |-> board]
  /\ nrPc' = "packed"
  /\ UNCHANGED <<nrCase, nrPi, nrTiles, nrMask, nrOut>>

-------------------------------------------------------------------------------
(* decode.  It has nothing but the container.                              *)

\* Faulty variant: the gaps first, and the recipes over them.
RepaintedGapsFirst(b, pi) ==
  [c \in Cells(b.n) |->
     LET over == IF b.route = "skip" THEN {}
                 ELSE {i \in DOMAIN b.recipes : c \in CellsOf(b.recipes[i])}
         r == b.recipes[Greatest(over)]
     IN IF over # {} THEN apply_motif(r.kind, r.params, r.h, r.w)[<<c[1] - r.y, c[2] - r.x>>]
        ELSE IF pi[c[2]] = c[1] THEN b.gaps[c[2]] ELSE 0]

\* The recipes in their order, and then the gaps.
Repainted(b, pi) ==
  [c \in Cells(b.n) |->
     LET over == IF b.route = "skip" THEN {}
                 ELSE {i \in DOMAIN b.recipes : c \in CellsOf(b.recipes[i])}
         r == b.recipes[Greatest(over)]
     IN IF pi[c[2]] = c[1] THEN b.gaps[c[2]]
        ELSE IF over = {} THEN 0
        ELSE apply_motif(r.kind, r.params, r.h, r.w)[<<c[1] - r.y, c[2] - r.x>>]]

\* Parameters longer than their length byte says put the reading out of step,
\* which ends in an error of one kind or another.
InStep(b) == \A i \in DOMAIN b.recipes : b.recipes[i].plen = Len(b.recipes[i].params)

NrDecode ==
  /\ nrPc = "packed"
  /\ LET b == nrBlob
     IN \E pi \in {IF b.official_pi THEN official_perm(b.k) ELSE b.pi} :
        \E board \in {Residual(b.residual, Repainted(b, pi))} :
          IF InStep(b) /\ board = b.sha THEN nrPc' = "decoded" /\ nrOut' = board
          ELSE nrPc' = "mismatch" /\ UNCHANGED nrOut
  /\ UNCHANGED <<nrCase, nrPi, nrTiles, nrMask, nrBlob>>

NrNext == NrPlace \/ NrCarve \/ NrEncode \/ NrDecode

-------------------------------------------------------------------------------
(***************************************************************************)
(* Properties.                                                             *)
(***************************************************************************)

\* Wherever the gaps are, there is one in every row and column, and the tiles
\* are disjoint, miss the gaps and with the cells still to do cover all others
\* (official_tiles' ok); the next rectangle lies in what is left, and none in
\* it is larger (greedy_rects); the staircase takes k^2 + 2k - 3 tiles, as
\* docs/WINDMILL.md has it.
NrPartition ==
  nrPc # "place" =>
    /\ {nrPi[c] : c \in DOMAIN nrPi} = 0..n - 1
    /\ \A i, j \in DOMAIN nrTiles : i < j => CellsOf(nrTiles[i]) \cap CellsOf(nrTiles[j]) = {}
    /\ UNION {CellsOf(nrTiles[i]) : i \in DOMAIN nrTiles} = Cells(n) \ (Gaps(nrPi) \cup nrMask)
    /\ nrMask \cap Gaps(nrPi) = {}
    /\ nrMask # {} => \E t \in {greedy_rect(nrMask, n)} :
         /\ CellsOf(t) \subseteq nrMask
         /\ \A p, q \in nrMask :
              LET r == [y |-> p[1], x |-> p[2], h |-> q[1] - p[1] + 1, w |-> q[2] - p[2] + 1]
              IN r.h > 0 /\ r.w > 0 /\ r.h * r.w > t.h * t.w => ~(CellsOf(r) \subseteq nrMask)
    /\ nrMask = {} /\ OfficialPi /\ k > 1 => Len(nrTiles) = k * k + 2 * k - 3

\* A value that its byte in the container cannot hold.
FieldCut ==
  \/ ~OfficialPi /\ \E c \in DOMAIN nrPi : nrPi[c] >= Level
  \/ \E r \in {Recipes(nrBlob.route, nrCase.board, Motifs(nrCase.board))} :
       \E i \in DOMAIN r : {r[i].x, r[i].y, r[i].w, r[i].h, Len(r[i].params)} \ (0..Level - 1) # {}

\* What the decoder repaints from the container is what the encoder painted
\* from the board, by whichever route, with gaps that rows are filled over,
\* tiles that end anywhere and any motif, so every board comes back as it was,
\* except where a field of the container was cut to a byte: there decode refuses
\* it (docs/MOTIF.md:17 has "Always lossless").
NrRoundTrip ==
  /\ nrPc = "decoded" => nrOut = nrCase.board
  /\ nrPc = "mismatch" => FieldCut
===============================================================================
