---------------------------- MODULE MCSevenZipRead ----------------------------
(* An encoded header with every folder of up to MCStreams inputs and       *)
(* outputs; headers of two folders of OutSize bytes with up to two streams *)
(* each, whose sizes add up or do not; the number of files and of packed   *)
(* streams may be off by one.                                              *)
EXTENDS SevenZipRead

CONSTANTS MaxFolders, OutSize, MCStreams

\* A folder that unpacks to two streams, and one that unpacks to fewer.
TwoStreams(crc, first) ==
  [size |-> OutSize, crc |-> crc, packs |-> 1, count |-> 2, listed |-> <<first>>]
OneOrNone(crc, count) ==
  [size |-> OutSize, crc |-> crc, packs |-> 1 + count, count |-> count, listed |-> <<>>]

MCFolders == {TwoStreams(c, n) : c \in BOOLEAN, n \in {1, OutSize + 1}} \cup
             {OneOrNone(c, n) : c \in BOOLEAN, n \in {0, 1}}

\* Files of m streams: with one empty file in front, in the middle or nowhere,
\* or with one file too many or too few.
Files(m) == {[e \in 1..n |-> FALSE] : n \in {m, m + 1} \cup (IF m > 0 THEN {m - 1} ELSE {})} \cup
            {[e \in 1..(m + 1) |-> e = p] : p \in {1, 2} \cap 1..(m + 1)}

\* What SubStreamsInfo has, if there is one.
SubStreams == {<<FALSE, FALSE, FALSE>>, <<TRUE, FALSE, FALSE>>, <<TRUE, TRUE, FALSE>>,
               <<TRUE, TRUE, TRUE>>}

HeadersOf(fs) ==
  LET packs == Sum([f \in 1..Len(fs) |-> fs[f].packs])
      count == Sum([f \in 1..Len(fs) |-> fs[f].count])
      Made(es, sub, missing) ==
        [folders |-> fs, empty |-> es, packed |-> packs - missing,
         substreams |-> sub[1], sizes |-> sub[2], digests |-> sub[3]]
  IN  {Made(es, sub, 0) : es \in Files(count), sub \in SubStreams} \cup
      (IF fs = <<>> THEN {} ELSE {Made([e \in 1..count |-> FALSE], <<TRUE, TRUE, TRUE>>, 1)})

MCHeaders == UNION {HeadersOf(fs) : fs \in UNION {[1..m -> MCFolders] : m \in 0..MaxFolders}}

List(s, does, bad) ==
  [i \in DOMAIN s |-> [n_in |-> s[i][1], n_out |-> s[i][2],
                       does |-> IF i = bad THEN does ELSE "decodes"]]

MCDecoding ==
  {List(s, "decodes", 0) :
     s \in {x \in UNION {[1..n -> (0..2) \X (0..2)] : n \in 0..3} :
             /\ Sum([i \in DOMAIN x |-> x[i][1]]) <= MCStreams
             /\ Sum([i \in DOMAIN x |-> x[i][2]]) <= MCStreams}}

MCDoes == {"decodes", "refuses", "encrypted", "short", "raises", "crashes"}

\* A coder that fails, in a chain of one or two.
MCFailing == {List(s, does, bad) : s \in UNION {[1..n -> {<<1, 1>>}] : n \in 1..2},
                                   does \in MCDoes, bad \in 1..2}

\* One header without files will do.
MCHeaderCoders(x) == IF x.folders = <<>> /\ x.empty = <<>> /\ ~x.substreams
                     THEN MCDecoding \cup MCFailing ELSE {}

\* One coder: with one input, or with two, which may be packed or not.
MCFolderCoders(x) ==
  {List(<<<<1, 1>>>>, d, 1) : d \in {"decodes", "encrypted", "crashes"}}
    \cup {List(<<<<2, 1>>>>, "decodes", 1)}
=============================================================================
