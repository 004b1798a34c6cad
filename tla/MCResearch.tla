------------------------------ MODULE MCResearch -------------------------------
(***************************************************************************)
(* One instance for the research side of the program: the stream transform *)
(* (TransformStream), the commands that make and undo files (Commands),    *)
(* the AV01 codec (Av01) and the NR01 container (Nr01).  They share no     *)
(* state in the code, so a behaviour is about one of them, the subject,    *)
(* while the others rest.                                                  *)
(***************************************************************************)
EXTENDS MCTransformStream, Av01, Nr01, Commands, TLC

VARIABLE subject     \* "stream", "commands", "av01" or "nr01"

-------------------------------------------------------------------------------
(* AV01.  The options are compress_gated's; the pairs of different options *)
(* stand for a different choice for each block.                            *)

Opts(proj, curve, hilbert, ngram, a, b) ==
  [use_proj |-> proj, use_curve |-> curve, hilbert2d |-> hilbert, use_ngram |-> ngram,
   curve_a |-> a, curve_b |-> b, min_n |-> 2, max_n |-> 3, min_count |-> 3]

MCOpts == {Opts(TRUE, TRUE, FALSE, TRUE, 5, 17), Opts(FALSE, TRUE, TRUE, TRUE, 1, 0),
           Opts(TRUE, FALSE, FALSE, FALSE, 3, 11), Opts(FALSE, TRUE, FALSE, TRUE, 2, 1)}

\* An empty input, escapes, runs, phrases, and blocks of one byte.
MCData == {<<>>, <<20>>, <<1, 20, 1, 20, 1, 20, 1, 20>>, <<9, 9, 9, 9, 9>>,
           <<31, 30, 16, 15, 0, 3>>, <<1, 2, 3, 1, 2, 3, 1, 2, 3, 1, 2, 3>>}

AvCase(d, size, opts, harm) == [data |-> d, block_size |-> size, opts |-> opts, harm |-> harm]

MCAvCases ==
  {AvCase(d, 8, <<o, q>>, FALSE) : d \in MCData, o \in MCOpts, q \in MCOpts}
  \cup {AvCase(d, 27, <<o>>, FALSE) : d \in MCData \cup {[i \in 1..27 |-> (i * i) % 32]}, o \in MCOpts}
  \cup {AvCase([i \in 1..64 |-> 9], 64, <<o>>, FALSE) : o \in MCOpts}
  \cup {AvCase([i \in 1..d |-> 9], 64, <<o, o>>, FALSE) : d \in {70, 71}, o \in MCOpts}
  \cup {AvCase(<<1, 20, 1, 20, 1, 20, 1, 20>>, 8, <<o>>, TRUE) : o \in MCOpts}
  \cup {AvCase(<<20, 3>>, 1, <<o, o>>, TRUE) : o \in MCOpts}
  \cup {AvCase(<<>>, 1, <<>>, TRUE)}

-------------------------------------------------------------------------------
(* NR01.  Two columns of every kind, three with every pair of values, four *)
(* and nine for the staircase, sixteen for the side a byte cannot hold.    *)

NrCaseOf(side, board, how, klass) == [board |-> board, n |-> side, how |-> how, klass |-> klass]
Klass == {"noise", "planar", "other"}

MCNrCases ==
  {NrCaseOf(2, b, how, kl) : b \in [Cells(2) -> {0, 5, 15}], how \in {"official", "data"}, kl \in Klass}
  \cup {NrCaseOf(3, b, "data", "other") : b \in [Cells(3) -> {0, 6}]}
  \cup {NrCaseOf(4, [c \in Cells(4) |-> IF c \in S THEN 9 ELSE c[1]], how, "other") :
          S \in {{}, Cells(4), {<<1, 1>>, <<1, 2>>, <<3, 0>>}, {c \in Cells(4) : (c[1] + c[2]) % 2 = 0}},
          how \in {"official", "data"}}
  \cup {NrCaseOf(4, b, "official", kl) :
          b \in {[c \in Cells(4) |-> (7 * c[1] + 5 * c[2] * c[2]) % 16], [c \in Cells(4) |-> c[2] % 2],
                 [c \in Cells(4) |-> 4 * (c[1] % 2) + (c[2] % 2)]},
          kl \in Klass}
  \cup {NrCaseOf(9, [c \in Cells(9) |-> (c[1] * c[2]) % 16], "official", "other"),
        NrCaseOf(9, [c \in Cells(9) |-> IF c[1] < 4 THEN 1 ELSE 2], "official", "other"),
        NrCaseOf(16, [c \in Cells(16) |-> c[1]], "official", "planar"),
        NrCaseOf(16, [c \in Cells(16) |-> c[1]], "official", "noise"),
        NrCaseOf(1, [c \in Cells(1) |-> 3], "official", "other")}

-------------------------------------------------------------------------------
(* Commands.                                                               *)

MCInputs == ("s" :> <<1, 0, 1>>) @@ ("d/s" :> <<>>) @@ ("l" :> <<1, 1, 0, 1, 0>>)
MCBase == ("s" :> "s") @@ ("d/s" :> "s") @@ ("l" :> "l") @@ ("a" :> "a") @@ ("b" :> "b")

Job(cmd, codec, ins, out, key, max) ==
  [cmd |-> cmd, codec |-> codec, ins |-> ins, out |-> out, key |-> key, max |-> max]

MCJobs ==
  {Job("compress", c, <<"s">>, "a", 0, 3) : c \in {"deflate", "zlib", "adaptive"}}
  \cup {Job("compress", "adaptive", <<"d/s">>, "a", 0, 3), Job("compress", "store", <<"l">>, "a", 0, 3)}
  \cup {Job("decompress", c, <<"a">>, "b", 0, 3) : c \in {"deflate", "zlib", "adaptive", "store"}}
  \cup {Job("decompress", "adaptive", <<"a">>, "b", 0, m) : m \in {2, 5}}
  \cup {Job("encrypt", "adaptive", <<i>>, "a", 1, 3) : i \in {"s", "d/s"}}
  \cup {Job("encrypt", "store", <<"l">>, "a", 1, 3), Job("encrypt", "store", <<"s">>, "a", 0, 3)}
  \cup {Job("decrypt", "adaptive", <<"a">>, "b", key, 3) : key \in {1, 2}}
  \cup {Job("create", "zip", is, "b", 0, 3) : is \in {<<"s", "d/s">>, <<"s", "l">>, <<"a">>}}

Symm == Permutations(Proc)

-------------------------------------------------------------------------------
(* At rest.                                                                *)

AvRest == avCase = [data |-> <<>>] /\ avBlob = <<>> /\ avFate = "whole" /\ avPc = "rest"
          /\ avAt = 1 /\ avTotal = 0 /\ avLeft = 0 /\ avBlock = NoBlock /\ avOut = <<>>
NrRest == nrCase = [n |-> 1, board |-> <<>>, how |-> "none"] /\ nrPc = "place"
          /\ nrPi = <<>> /\ nrTiles = <<>> /\ nrMask = {} /\ nrBlob = NoBlob /\ nrOut = <<>>

StreamRest ==
  /\ file = [mode |-> "none"] /\ chunk_size = 1 /\ max_output = 0 /\ pc = "rest"
  /\ at = 0 /\ chunk = 0 /\ engine = [fed |-> 0, pending |-> 0, eof |-> FALSE]
  /\ total = 0 /\ sink = 0 /\ why = "none"

AnyInit ==
  \/ subject = "stream" /\ Init /\ CmdInit /\ AvRest /\ NrRest
  \/ subject = "commands" /\ StreamRest /\ CmdInit /\ AvRest /\ NrRest
  \/ subject = "av01" /\ StreamRest /\ CmdInit /\ AvInit /\ NrRest
  \/ subject = "nr01" /\ StreamRest /\ CmdInit /\ AvRest /\ NrInit

AnyNext ==
  \/ subject = "stream" /\ Next /\ UNCHANGED <<subject, cmdVars, avVars, nrVars>>
  \/ subject = "commands" /\ CmdNext /\ UNCHANGED <<subject, vars, avVars, nrVars>>
  \/ subject = "av01" /\ AvNext /\ UNCHANGED <<subject, vars, cmdVars, nrVars>>
  \/ subject = "nr01" /\ NrNext /\ UNCHANGED <<subject, vars, cmdVars, avVars>>

AnySpec == AnyInit /\ [][AnyNext]_<<subject, vars, cmdVars, avVars, nrVars>>
===============================================================================
