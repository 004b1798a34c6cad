---------------------------- MODULE SevenZipFolder ----------------------------
(***************************************************************************)
(* A folder of a 7z archive: coders that feed each other.  sevenzip.py,    *)
(* decode_folder, with the recursion of out_stream on a stack, and the     *)
(* folders _read_folder yields.  What a coder computes is a term over its  *)
(* inputs; the codecs themselves are libraries.                            *)
(***************************************************************************)
EXTENDS Integers, Sequences, FiniteSets, SequencesExt, FiniteSetsExt, TLC

CONSTANTS
  Coders,    \* the coders of a folder: lists of members of Coder
  MaxDepth   \* 64

\* "raises": LZMAError, OSError, EOFError; "crashes": zlib.error.
Does == {"decodes", "refuses", "encrypted", "short", "raises", "crashes"}

VARIABLES
  folder,
  pc,        \* "idle", "start", "run", "check", or how the call ended
  stack,     \* calls of out_stream: [out, args]
  depth,
  produced,  \* output stream -> data
  runs       \* history: how often a coder ran for an output stream

vars == <<folder, pc, stack, depth, produced, runs>>

\* "crashed": IndexError or zlib.error, which no caller expects.
Ends == {"done", "SevenZError", "SevenZRefused", "raised", "crashed"}

-----------------------------------------------------------------------------
(* Streams are numbered through all coders, from 0.                        *)

\* How many streams the first n coders have.
upto(f, n, field) ==
  LET sum[k \in 0..n] == IF k = 0 THEN 0 ELSE sum[k - 1] + f.coders[k][field]
  IN  sum[n]

total_in(f)         == upto(f, Len(f.coders), "n_in")
total_out(f)        == upto(f, Len(f.coders), "n_out")
first(f, ci, field) == upto(f, ci - 1, field)

\* The coder an output stream belongs to.
out_of(f, o) ==
  CHOOSE ci \in DOMAIN f.coders :
    o \in first(f, ci, "n_out")..(first(f, ci, "n_out") + f.coders[ci].n_out - 1)

Coder  == [n_in : Nat, n_out : Nat, does : Does]
Folder == [coders : Seq(Coder), bind_pairs : Seq(Nat \X Nat), packed_indices : Seq(Nat)]

NoFolder == [coders |-> <<>>, bind_pairs |-> <<>>, packed_indices |-> <<>>]
WithCoders(cs) == [NoFolder EXCEPT !.coders = cs]

\* What _read_folder reads after the coders: one pair less than there are
\* outputs, and the inputs that are packed, of which a single one is not
\* listed: it is the first without a pair.  A pair or a list may name a stream
\* that does not exist.
bind_pairs(cs) ==
  [1..Max({0, total_out(WithCoders(cs)) - 1}) ->
     (0..total_in(WithCoders(cs))) \X (0..total_out(WithCoders(cs)))]
packed_indices(cs, b) ==
  LET ins == total_in(WithCoders(cs))
  IN  IF ins - Len(b) = 1
      THEN {<<Min((0..ins - 1) \ {x[1] : x \in Range(b)})>>}
      ELSE [1..Max({0, ins - Len(b)}) -> 0..ins]

\* dict(...): of several entries for a stream the last one counts.
bind(i) ==
  LET at == {k \in DOMAIN folder.bind_pairs : folder.bind_pairs[k][1] = i}
  IN  IF at = {} THEN {} ELSE {folder.bind_pairs[Max(at)][2]}

packed_for(i) ==
  LET at == {k \in DOMAIN folder.packed_indices : folder.packed_indices[k] = i}
  IN  IF at = {} THEN {} ELSE {<<"packed", Max(at)>>}

Unbound == (0..total_out(folder) - 1) \ {p[2] : p \in Range(folder.bind_pairs)}
main_out == Min(Unbound)

-----------------------------------------------------------------------------

Init ==
  /\ folder = NoFolder /\ pc = "idle"
  /\ stack = <<>> /\ depth = 0
  /\ produced = <<>> /\ runs = <<>>

\* A folder with coders cs, as _read_folder has read it, is to be decoded.
Load(cs) ==
  /\ pc = "idle"
  /\ \E b \in bind_pairs(cs) : \E p \in packed_indices(cs, b) :
       folder' = [coders |-> cs, bind_pairs |-> b, packed_indices |-> p]
  /\ pc' = "start"
  /\ runs' = [o \in 0..total_out(folder') - 1 |-> 0]
  /\ UNCHANGED <<stack, depth, produced>>

Raise(e) == pc' = e /\ UNCHANGED <<folder, stack, depth, produced, runs>>

encrypted == \E c \in Range(folder.coders) : c.does = "encrypted"

\* Fault: the limit is met one call early.
CallEarly(o, below) ==
  IF depth + 1 >= MaxDepth THEN Raise("SevenZError")
  ELSE IF o \notin 0..total_out(folder) - 1 THEN Raise("crashed")
  ELSE /\ stack' = Append(below, [out |-> o, args |-> <<>>])
       /\ depth' = depth + 1
       /\ pc' = "run"
       /\ UNCHANGED <<folder, produced, runs>>

\* A call of out_stream that does not find its stream in produced.
Call(o, below) ==
  IF depth + 1 > MaxDepth THEN Raise("SevenZError")
  ELSE IF o \notin 0..total_out(folder) - 1 THEN Raise("crashed")
  ELSE /\ stack' = Append(below, [out |-> o, args |-> <<>>])
       /\ depth' = depth + 1
       /\ pc' = "run"
       /\ UNCHANGED <<folder, produced, runs>>

\* enough: the caller has all the packed streams that packed_indices lists.
Begin(enough) ==
  /\ pc = "start"
  /\ IF encrypted THEN Raise("SevenZRefused")
     ELSE IF ~enough THEN Raise("crashed")
     ELSE IF Unbound = {} THEN Raise("SevenZError")
     ELSE Call(main_out, <<>>)

Frame == Last(stack)
Ci    == out_of(folder, Frame.out)
coder == folder.coders[Ci]

Give(x) == stack' = [stack EXCEPT ![Len(stack)].args = Append(@, x)]

\* The next input of the coder at hand: gi.
gi == first(folder, Ci, "n_in") + Len(Frame.args)

\* Fault: an output that is being produced already is waited for.
InputWaits ==
  /\ pc = "run" /\ Len(Frame.args) < coder.n_in
  /\ \/ \E x \in packed_for(gi) : Give(x) /\ UNCHANGED <<folder, pc, depth, produced, runs>>
     \/ packed_for(gi) = {} /\ bind(gi) = {} /\ Raise("SevenZError")
     \/ /\ packed_for(gi) = {}
        /\ \E o \in bind(gi) :
             IF o \in DOMAIN produced
             THEN Give(produced[o]) /\ UNCHANGED <<folder, pc, depth, produced, runs>>
             ELSE IF \E f \in Range(stack) : f.out = o THEN UNCHANGED vars
             ELSE Call(o, stack)

Input ==
  /\ pc = "run" /\ Len(Frame.args) < coder.n_in
  /\ \/ \E x \in packed_for(gi) : Give(x) /\ UNCHANGED <<folder, pc, depth, produced, runs>>
     \/ packed_for(gi) = {} /\ bind(gi) = {} /\ Raise("SevenZError")
     \/ /\ packed_for(gi) = {}
        /\ \E o \in bind(gi) :
             IF o \in DOMAIN produced
             THEN Give(produced[o]) /\ UNCHANGED <<folder, pc, depth, produced, runs>>
             ELSE Call(o, stack)

Data == <<Ci, Frame.out, Frame.args>>

\* run_coder: every method looks at its first input, and may refuse, raise an
\* exception of its library, or return another length than the header gives.
Coding ==
  IF coder.does = "refuses" THEN "SevenZRefused"
  ELSE IF coder.n_in = 0 \/ coder.does = "crashes" THEN "crashed"
  ELSE IF coder.does = "raises" THEN "raised"
  ELSE IF coder.does = "short" THEN "SevenZError" ELSE "decoded"

CoderFails ==
  /\ pc = "run" /\ Len(Frame.args) = coder.n_in /\ Coding # "decoded"
  /\ runs' = [runs EXCEPT ![Frame.out] = @ + 1]
  /\ pc' = Coding
  /\ UNCHANGED <<folder, stack, depth, produced>>

\* Fault: data is filed under the coder's first output, whichever was asked for.
ReturnUnder ==
  /\ pc = "run" /\ Len(Frame.args) = coder.n_in /\ Coding = "decoded"
  /\ produced' = (first(folder, Ci, "n_out") :> Data) @@ produced
  /\ runs' = [runs EXCEPT ![Frame.out] = @ + 1]
  /\ depth' = depth - 1
  /\ LET below == Front(stack)
     IN  stack' = IF below = <<>> THEN <<>>
                  ELSE [below EXCEPT ![Len(below)].args = Append(@, Data)]
  /\ pc' = IF Len(stack) = 1 THEN "check" ELSE "run"
  /\ UNCHANGED folder

\* out_stream returns its data to the call below it.
Return ==
  /\ pc = "run" /\ Len(Frame.args) = coder.n_in /\ Coding = "decoded"
  /\ produced' = [o \in DOMAIN produced \cup {Frame.out} |->
                    IF o = Frame.out THEN Data ELSE produced[o]]
  /\ runs' = [runs EXCEPT ![Frame.out] = @ + 1]
  /\ depth' = depth - 1
  /\ LET below == Front(stack)
     IN  stack' = IF below = <<>> THEN <<>>
                  ELSE [below EXCEPT ![Len(below)].args = Append(@, Data)]
  /\ pc' = IF Len(stack) = 1 THEN "check" ELSE "run"
  /\ UNCHANGED folder

\* The folder's checksum is right, or not.
Check(good) ==
  /\ pc = "check"
  /\ IF good THEN pc' = "done" ELSE pc' = "SevenZError"
  /\ UNCHANGED <<folder, stack, depth, produced, runs>>

\* The caller has the result.
Leave ==
  /\ pc \in Ends
  /\ folder' = NoFolder /\ pc' = "idle"
  /\ stack' = <<>> /\ depth' = 0
  /\ produced' = <<>> /\ runs' = <<>>

Next ==
  \/ \E cs \in Coders : Load(cs)
  \/ \E b \in BOOLEAN : Begin(b) \/ Check(b)
  \/ Input \/ CoderFails \/ Return \/ Leave

Spec == Init /\ [][Next]_vars

-----------------------------------------------------------------------------
(* Correctness.                                                            *)

\* What input stream i is given once it is.
Source(i) ==
  IF packed_for(i) # {} THEN packed_for(i)
  ELSE {produced[o] : o \in bind(i) \cap DOMAIN produced}

\* The data of every output solves the folder's graph: it is its coder's
\* term over what the coder's inputs are bound to, in their order, whichever
\* way the recursion came by and however often a stream is used; and when
\* decoding succeeds the main stream is among them.  No coder runs twice for
\* the same stream: the work is bounded by the number of streams although the
\* recursion could visit a stream along every path to it.
Solved ==
  /\ \A o \in DOMAIN runs : runs[o] <= 1
  /\ pc \in {"check", "done"} => main_out \in DOMAIN produced
  /\ \A o \in DOMAIN produced :
       LET ci == out_of(folder, o)
       IN  /\ produced[o][1] = ci /\ produced[o][2] = o
           /\ Len(produced[o][3]) = folder.coders[ci].n_in
           /\ \A k \in 1..folder.coders[ci].n_in :
                produced[o][3][k] \in Source(first(folder, ci, "n_in") + k - 1)

\* The output streams an output stream is made from.
Feeds(o) == LET ci == out_of(folder, o)
            IN  UNION {IF packed_for(i) # {} THEN {} ELSE bind(i) :
                         i \in first(folder, ci, "n_in")..
                               (first(folder, ci, "n_in") + folder.coders[ci].n_in - 1)}

\* A folder a packer writes: coders that decode, with inputs; each input
\* either packed or bound to an output there is; and the bindings descend.
WellFormed ==
  /\ \A c \in Range(folder.coders) : c.does = "decodes" /\ c.n_in > 0
  /\ folder.coders # <<>> /\ Unbound # {}
  /\ \A i \in 0..total_in(folder) - 1 :
       packed_for(i) # {} \/ (bind(i) # {} /\ bind(i) \subseteq DOMAIN runs)
  /\ \E rank \in [DOMAIN runs -> 1..MaxDepth] :
       \A o \in DOMAIN runs : \A p \in Feeds(o) : rank[p] < rank[o]

\* decode_folder turns no well-formed folder down before its checksum: neither
\* the depth limit nor a missing stream is met.  (It cannot begin without the
\* packed streams.)
SoundFoldersDecode ==
  WellFormed => \/ pc \in {"start", "run", "check", "done"}
                \/ main_out \in DOMAIN produced
                \/ pc = "crashed" /\ stack = <<>>
-----------------------------------------------------------------------------
(* The inductive invariant behind both.                                     *)

\* What coders may be given: packed streams, and what was produced.
Packed   == UNION {packed_for(i) : i \in 0..total_in(folder) - 1}
Produced == {produced[o] : o \in DOMAIN produced}
Given    == Packed \cup Produced

Types ==
  /\ folder.coders \in Seq(Coder)
  /\ pc \in {"idle", "start", "run", "check"} \cup Ends
  /\ DOMAIN runs = 0..total_out(folder) - 1
  /\ DOMAIN produced \subseteq DOMAIN runs
  /\ stack \in Seq([out : DOMAIN runs, args : Seq(Given)])
  /\ depth = Len(stack)

\* Call j of out_stream has no result yet; its coder has been given its first
\* inputs, and it waits for the next one, which the call above it produces.
CallOk(j) ==
  LET ci == out_of(folder, stack[j].out)
      in == first(folder, ci, "n_in")
      n  == Len(stack[j].args)
  IN  /\ stack[j].out \notin DOMAIN produced
      /\ n <= folder.coders[ci].n_in
      /\ \A k \in 1..n : stack[j].args[k] \in Source(in + (k - 1))
      /\ j < Len(stack) => /\ n < folder.coders[ci].n_in
                           /\ packed_for(in + n) = {}
                           /\ stack[j + 1].out \in bind(in + n)

\* A coder ran for what is produced, and for nothing else until one fails.
RunsOk ==
  \A o \in DOMAIN runs :
    /\ runs[o] \in {0, 1}
    /\ pc \notin Ends => runs[o] = IF o \in DOMAIN produced THEN 1 ELSE 0

FolderInv ==
  /\ Types
  /\ pc = "idle" => folder = NoFolder
  /\ pc \in {"idle", "start"} => stack = <<>> /\ produced = <<>>
  /\ pc = "run" => stack # <<>>
  /\ stack # <<>> => stack[1].out = main_out
  /\ \A j \in 1..Len(stack) : CallOk(j)
  /\ RunsOk
  /\ Solved

\* The calls on the stack go down in every order the bindings go down in.
Descending ==
  \A rank \in [DOMAIN runs -> 1..MaxDepth] :
    (\A o \in DOMAIN runs : \A p \in Feeds(o) \cap DOMAIN runs : rank[p] < rank[o]) =>
      \A j \in 1..Len(stack) : rank[stack[j].out] + j <= MaxDepth + 1

SoundInv == FolderInv /\ Descending /\ SoundFoldersDecode

=============================================================================
