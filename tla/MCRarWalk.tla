------------------------------ MODULE MCRarWalk ------------------------------
(* Archives of up to MaxBlocks blocks after the main header, some of them  *)
(* with an archive in a block's data, some behind a stub, some cut short.  *)
EXTENDS RarWalk

CONSTANT MaxBlocks

F(d) == Block("file", d)

Nested(v) == <<Marker(v)>> \o Layout(F(<<Data("n")>>))

Files == {F(<<>>), F(<<Data("x"), Data("y")>>),
          [F(<<Data("x")>>) EXCEPT !.crc = FALSE],
          [F(<<Data("x")>>) EXCEPT !.unp = "zero"],
          [F(<<Data("x")>>) EXCEPT !.unp = "other"],
          [F(<<Data("x")>>) EXCEPT !.enc = TRUE],
          [F(<<Data("x")>>) EXCEPT !.good = FALSE]}

Others(v) == {F(Nested(4)), F(Nested(v)), Block("service", Nested(v)),
              [F(<<>>) EXCEPT !.dir = TRUE], [F(<<Data("x")>>) EXCEPT !.split = TRUE],
              [F(<<Data("x")>>) EXCEPT !.stored = FALSE],
              Block("other", <<>>), Block("end", <<>>), Block("crypt", <<>>)}

Named(bs) == [k \in 1..Len(bs) |-> [bs[k] EXCEPT !.name = k]]

MCArchives ==
  {Create(ds) : ds \in {<<>>, <<<<Data("x")>>>>, <<Nested(5), <<Data("x")>>>>}} \cup
  UNION {{[version |-> v, stub |-> st, blocks |-> Named(<<Block("main", <<>>)>> \o bs)] :
            st \in {<<>>, <<Data("s")>>},
            bs \in UNION {[1..m -> Files \cup Others(v)] : m \in 0..MaxBlocks}} :
         v \in {4, 5}}
=============================================================================
