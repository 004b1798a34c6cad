------------------------------- MODULE Windmill -------------------------------
(***************************************************************************)
(* Pure parts of the NR01 container: the gap permutations and tilings of   *)
(* geex_windmill_v1.py and the motifs of geex_motif.py.  A board of side n *)
(* maps <<row, column>>, both from 0, to a byte in 0..Level-1.  A tile is  *)
(* [x, y, w, h] with x its first column and y its first row.  RECURSIVE    *)
(* operators: this module is for TLC only.                                 *)
(***************************************************************************)
EXTENDS Integers, Sequences, FiniteSets

CONSTANT Level       \* number of byte values (256)

Cells(n) == (0..n - 1) \X (0..n - 1)
CellsOf(t) == (t.y..t.y + t.h - 1) \X (t.x..t.x + t.w - 1)
Greatest(S) == CHOOSE m \in S : \A k \in S : k <= m

(***************************************************************************)
(* Permutations.                                                           *)
(***************************************************************************)

\* Length of the longest rising subsequence, by patience: tails[k] is the least
\* end of one of length k, and x replaces the first that is not less.
RECURSIVE Tails(_, _)
Tails(seq, tails) ==
  IF seq = <<>> THEN tails
  ELSE LET x == Head(seq)
           lo == 1 + Cardinality({k \in DOMAIN tails : tails[k] < x})
       IN Tails(Tail(seq), IF lo > Len(tails) THEN Append(tails, x)
                           ELSE [tails EXCEPT ![lo] = x])
lis_len(seq) == Len(Tails(seq, <<>>))
lds_len(seq) == lis_len([k \in DOMAIN seq |-> -seq[k]])

\* pi[c] is the row of the gap in column c.  A row out of range, or used
\* already, would be replaced by the first unused one.
RECURSIVE PermFrom(_, _, _)
PermFrom(k, a, pi) ==
  LET n == k * k
      r == (k * (a + 1)) % (n + 1)
      b == IF r = 0 THEN n ELSE r - 1
      unused == {i \in 0..n - 1 : \A c \in 0..a - 1 : pi[c] # i}
  IN IF a = n THEN pi
     ELSE PermFrom(k, a + 1, [pi EXCEPT ![a] = IF b \in unused THEN b
                                ELSE CHOOSE i \in unused : \A j \in unused : i <= j])
official_perm(k) == PermFrom(k, 0, [c \in 0..k * k - 1 |-> 0])

\* The most frequent byte on a set of cells, the least among equals.
ModeOn(board, cells) ==
  LET Count(v) == Cardinality({c \in cells : board[c] = v})
  IN CHOOSE v \in 0..Level - 1 :
       \A u \in 0..Level - 1 : Count(u) < Count(v) \/ (Count(u) = Count(v) /\ v <= u)

\* data_perm: column by column, an unused row whose byte is farthest from the
\* column's mode; argsort leaves the order of equals open.
Away(board, c, r) ==
  LET m == ModeOn(board, {<<i, c>> : i \in {p[1] : p \in DOMAIN board}})
  IN IF board[<<r, c>>] > m THEN board[<<r, c>>] - m ELSE m - board[<<r, c>>]
data_perms(board, n) ==
  {pi \in [0..n - 1 -> 0..n - 1] :
     \A c \in 0..n - 1 :
       LET unused == (0..n - 1) \ {pi[d] : d \in 0..c - 1}
       IN pi[c] \in unused /\ \A r \in unused : Away(board, c, r) <= Away(board, c, pi[c])}

(***************************************************************************)
(* Tilings.                                                                *)
(***************************************************************************)
Gaps(pi) == {<<pi[c], c>> : c \in DOMAIN pi}

\* The k by k tiles beside the gaps, as far as they fit and are free.
RECURSIVE Interior(_, _, _, _)
Interior(k, pi, c, tiles) ==
  LET n == k * k
      t == [x |-> c + 1, y |-> pi[c], w |-> k, h |-> k]
      taken == Gaps(pi) \cup UNION {CellsOf(tiles[i]) : i \in DOMAIN tiles}
  IN IF c = n THEN tiles
     ELSE Interior(k, pi, c + 1,
            IF c + 1 + k <= n /\ pi[c] + k <= n /\ CellsOf(t) \cap taken = {}
              THEN Append(tiles, t) ELSE tiles)

\* One row of the search for the largest rectangle in a set of cells: columns
\* with their heights pass over a stack of [x, h], lowest last.
Height(mask, y, x) ==
  Greatest({h \in 0..y + 1 : \A r \in (y - h + 1)..y : <<r, x>> \in mask})

\* Faulty variant: a lower column starts at itself, not where the higher ones it
\* ends did.
RECURSIVE PopShort(_, _, _, _, _, _)
PopShort(stack, x, y, h, start, best) ==
  IF stack = <<>> \/ (stack # <<>> /\ stack[1].h <= h)
    THEN [stack |-> <<[x |-> start, h |-> h]>> \o stack, best |-> best]
  ELSE LET top == stack[1]
           found == [x |-> top.x, y |-> y - top.h + 1, w |-> x - top.x, h |-> top.h]
       IN PopShort(Tail(stack), x, y, h, start,
                   IF found.w * found.h > best.w * best.h THEN found ELSE best)

RECURSIVE Pop(_, _, _, _, _, _)
Pop(stack, x, y, h, start, best) ==
  IF stack = <<>> \/ (stack # <<>> /\ stack[1].h <= h)
    THEN [stack |-> <<[x |-> start, h |-> h]>> \o stack, best |-> best]
  ELSE LET top == stack[1]
           area == top.h * (x - top.x)
           found == [x |-> top.x, y |-> y - top.h + 1, w |-> x - top.x, h |-> top.h]
       IN Pop(Tail(stack), x, y, h, top.x, IF area > best.w * best.h THEN found ELSE best)

RECURSIVE SweepRow(_, _, _, _, _, _)
SweepRow(mask, n, y, x, stack, best) ==
  LET h == IF x < n THEN Height(mask, y, x) ELSE 0
      r == Pop(stack, x, y, h, x, best)
  IN IF x = n THEN r.best ELSE SweepRow(mask, n, y, x + 1, r.stack, r.best)

\* One turn of greedy_rects: the rectangle it takes out of the mask, the first
\* row's among equals.
greedy_rect(mask, n) ==
  LET none == [x |-> 0, y |-> 0, w |-> 0, h |-> 0]
      best == [y \in 0..n - 1 |-> SweepRow(mask, n, y, 0, <<>>, none)]
      Area(y) == best[y].w * best[y].h
  IN best[CHOOSE y \in 0..n - 1 : \A z \in 0..n - 1 :
            Area(z) < Area(y) \/ (Area(z) = Area(y) /\ y <= z)]

(***************************************************************************)
(* Motifs: a kind and parameters that paint a block of h rows, w columns.  *)
(***************************************************************************)
CONST == 0
CHECKER == 1
STRIPE_X == 2
STRIPE_Y == 3
CELL2 == 4
AXIS_ROW == 5
AXIS_COL == 6
BCHK == 7

apply_motif(kind, params, h, w) ==
  LET p == IF params = <<>> THEN <<0>> ELSE params
      a == p[1]
      At(k) == IF k <= Len(p) THEN p[k] ELSE a
      Or0(k) == IF k <= Len(params) THEN params[k] ELSE 0
      phase == IF Len(p) > 2 THEN p[3] ELSE 0
      Value(y, x) ==
        CASE kind = CHECKER  -> IF (x + y) % 2 = 0 THEN a ELSE At(2)
          [] kind = BCHK     -> IF (x + y + phase) % 2 = 0 THEN a ELSE At(2)
          [] kind = STRIPE_X -> IF x % 2 = 0 THEN a ELSE At(2)
          [] kind = STRIPE_Y -> IF y % 2 = 0 THEN a ELSE At(2)
          [] kind = CELL2    -> At(1 + 2 * (y % 2) + (x % 2))
          [] kind = AXIS_ROW -> Or0(y + 1)
          [] kind = AXIS_COL -> Or0(x + 1)
          [] OTHER           -> a
  IN [c \in (0..h - 1) \X (0..w - 1) |-> Value(c[1], c[2])]

\* The candidate that saves most bytes; then the shorter, the lower kind, the
\* first.
choose_motif(block, h, w) ==
  LET all == (0..h - 1) \X (0..w - 1)
      a == ModeOn(block, all)
      On(S) == ModeOn(block, S)
      Else(S) == IF S = {} THEN a ELSE On(S)
      Par(m) == {c \in all : (c[1] + c[2]) % 2 = m}
      Col(m) == {c \in all : c[2] % 2 = m}
      Row(m) == {c \in all : c[1] % 2 = m}
      cands == <<
        <<CONST, <<a>>>>,
        <<CHECKER, <<On(Par(0)), Else(Par(1))>>>>,
        <<BCHK, <<On(Par(0)), Else(Par(1)), 0>>>>,
        <<BCHK, <<Else(Par(1)), On(Par(0)), 1>>>>,
        <<STRIPE_X, <<On(Col(0)), Else(Col(1))>>>>,
        <<STRIPE_Y, <<On(Row(0)), Else(Row(1))>>>>,
        <<CELL2, <<On(Row(0) \cap Col(0)), Else(Row(0) \cap Col(1)),
                   Else(Row(1) \cap Col(0)), Else(Row(1) \cap Col(1))>>>>,
        <<AXIS_ROW, [r \in 1..h |-> On({c \in all : c[1] = r - 1})]>>,
        <<AXIS_COL, [x \in 1..w |-> On({c \in all : c[2] = x - 1})]>> >>
      Agreed(m) == Cardinality({c \in all : apply_motif(m[1], m[2], h, w)[c] = block[c]})
      key == [i \in DOMAIN cands |-> <<Agreed(cands[i]) - Len(cands[i][2]),
                                       -Len(cands[i][2]), -cands[i][1], -i>>] \o <<>>
      Less(u, v) == \E k \in 1..4 : u[k] < v[k] /\ \A j \in 1..k - 1 : u[j] = v[j]
  IN cands[CHOOSE i \in DOMAIN cands : \A j \in DOMAIN cands \ {i} : Less(key[j], key[i])]
===============================================================================
