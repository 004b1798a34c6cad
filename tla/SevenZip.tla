------------------------------- MODULE SevenZip -------------------------------
(***************************************************************************)
(* How the built-in 7z reader gives every file of an archive its bytes:    *)
(* src/src/sevenzip.py, _read_substreams, _read_files_info and             *)
(* _parse_header.  The header lists, in three places and with defaults     *)
(* for what it leaves out, the packed streams, the folders with the sizes  *)
(* and digests of the streams each unpacks to, and the files.              *)
(*                                                                         *)
(* A payload is named by the place in a folder's output it was cut from,   *)
(* a digest by the stream it was computed of.  Decoding one folder is      *)
(* SevenZipFolder; here it succeeds, fails, or yields damaged bytes.       *)
(***************************************************************************)
EXTENDS Integers, Sequences, FiniteSets

CONSTANT
  Headers   \* headers an archive can have

Folder == [size : Nat,           \* of its output
           crc : BOOLEAN,        \* UnpackInfo has a digest of it
           packs : Nat,          \* packed streams it reads
           count : Nat,          \* streams it unpacks to
           listed : Seq(Nat)]    \* the sizes of all of them but the last

Header == [folders : Seq(Folder),
           empty : Seq(BOOLEAN),    \* for every file, whether it has a stream
           packed : Nat,            \* packed streams
           substreams : BOOLEAN,    \* there is a SubStreamsInfo,
           sizes : BOOLEAN,         \* ... with the listed sizes,
           digests : BOOLEAN]       \* ... with digests

ASSUME HeaderAssumption ==
  /\ Headers \subseteq Header
  /\ \A x \in Headers : \A f \in 1..Len(x.folders) :
       x.folders[f].count > 0 => Len(x.folders[f].listed) = x.folders[f].count - 1

VARIABLES
  h,            \* the header
  pc,           \* "sizes", "digests", "folder", "attach", "done" or "crashed"
  fi,           \* folder at hand
  sizes, crcs,  \* substream_sizes, substream_crcs
  it,           \* digests taken so far
  ei, pi,       \* files with a stream, packed streams, taken so far
  off, k,       \* place in the folder's output, stream at hand
  damaged,      \* the folder's output is not what was packed
  fed,          \* history: first packed stream and outcome of every folder
  payload,      \* e.payload of the files with a stream, in order
  error         \* e.error of them

vars == <<h, pc, fi, sizes, crcs, it, ei, pi, off, k, damaged, fed, payload, error>>

\* The first m members of s, added up.
Total(s, m) ==
  LET sum[w \in 0..m] == IF w = 0 THEN 0 ELSE sum[w - 1] + s[w]
  IN  sum[m]
Sum(s) == Total(s, Len(s))

\* The m-th of all where there are counts[f] of every f.
Place(counts, m) ==
  CHOOSE s \in (1..Len(counts)) \X (1..m) :
    s[2] <= counts[s[1]] /\ Total(counts, s[1] - 1) + s[2] = m

Min2(a, b) == IF a < b THEN a ELSE b

folder   == h.folders[fi]
streamed == Cardinality({e \in DOMAIN h.empty : ~h.empty[e]})

-----------------------------------------------------------------------------
(* What the packer meant, by the format.                                   *)

Start(f, j) == Total(h.folders[f].listed, j - 1)
Size(f, j)  == IF j < h.folders[f].count THEN h.folders[f].listed[j]
               ELSE h.folders[f].size - Start(f, j)

Counts == [f \in 1..Len(h.folders) |-> h.folders[f].count]
Packs  == [f \in 1..Len(h.folders) |-> h.folders[f].packs]

\* The stream <<f, j>> of the e-th file that has one.
Stream(e) == Place(Counts, e)

Known(f) == h.folders[f].count = 1 /\ h.folders[f].crc

\* The digests of SubStreamsInfo: of the streams that have none in UnpackInfo.
Unlisted   == [f \in 1..Len(h.folders) |-> IF Known(f) THEN 0 ELSE h.folders[f].count]
Unknown(m) == Place(Unlisted, m)

\* data[lo:hi] of the output of folder f.
Piece == [of : Nat, lo : Nat, hi : Nat, damaged : BOOLEAN]
Empty == [of |-> 0, lo |-> 0, hi |-> 0, damaged |-> FALSE]
None  == [of |-> 0, lo |-> 0, hi |-> 0, damaged |-> TRUE]
Cut(f, lo, hi, d) ==
  LET top == Min2(hi, h.folders[f].size)
  IN  IF lo >= top THEN Empty ELSE [of |-> f, lo |-> lo, hi |-> top, damaged |-> d]

Meant(s) == Cut(s[1], Start(s[1], s[2]), Start(s[1], s[2]) + Size(s[1], s[2]), FALSE)

\* A header a packer writes.
Consistent ==
  /\ Sum(Counts) = streamed
  /\ h.packed = Sum(Packs)
  /\ \A f \in 1..Len(h.folders) :
       /\ h.folders[f].count > 0 => Sum(h.folders[f].listed) <= h.folders[f].size
       /\ h.folders[f].count # 1 => h.substreams
       /\ h.folders[f].count > 1 => h.sizes

-----------------------------------------------------------------------------

Init ==
  /\ h \in Headers
  /\ pc = IF h.substreams THEN "sizes" ELSE "folder"
  /\ fi = 1
  /\ sizes = <<>> /\ crcs = <<>>
  /\ it = 0 /\ ei = 0 /\ pi = 0
  /\ off = 0 /\ k = 1
  /\ damaged = FALSE
  /\ fed = <<>>
  /\ payload = [e \in 1..streamed |-> None]
  /\ error = [e \in 1..streamed |-> FALSE]

\* The next folder in this loop, or the next part of the reader.
NextFolder(then) ==
  IF fi < Len(h.folders) THEN fi' = fi + 1 /\ UNCHANGED pc ELSE fi' = 1 /\ pc' = then

Reading == UNCHANGED <<h, ei, pi, off, k, damaged, fed, payload, error>>

\* Every size but the last of a folder is listed (or taken for 0), the last is
\* what is left of the folder's output.
Told(f) ==
  LET got == [j \in 1..Len(h.folders[f].listed) |-> IF h.sizes THEN h.folders[f].listed[j] ELSE 0]
  IN  IF h.folders[f].count = 0 THEN <<>> ELSE Append(got, h.folders[f].size - Sum(got))

\* _read_substreams: the sizes ...
ReadSizes ==
  /\ pc = "sizes"
  /\ \/ /\ fi <= Len(h.folders)
        /\ sizes' = Append(sizes, Told(fi))
        /\ NextFolder("digests")
     \/ fi > Len(h.folders) /\ pc' = "digests" /\ UNCHANGED <<fi, sizes>>
  /\ UNCHANGED <<crcs, it>>
  /\ Reading

\* Faulty variant: a folder whose digest is known takes one from the list, too.
ReadDigestsOfAll ==
  /\ pc = "digests" /\ h.digests /\ fi <= Len(h.folders)
  /\ crcs' = Append(crcs, [j \in 1..folder.count |->
                             IF it + j <= Sum(Unlisted) THEN Unknown(it + j) ELSE <<>>])
  /\ it' = Min2(it + folder.count, Sum(Unlisted))
  /\ NextFolder("folder")
  /\ UNCHANGED sizes
  /\ Reading

\* ... and the digests, which are listed only where UnpackInfo has none, and
\* may be undefined there.
ReadDigests ==
  /\ pc = "digests" /\ h.digests /\ fi <= Len(h.folders)
  /\ IF Known(fi) THEN crcs' = Append(crcs, <<<<fi, 1>>>>) /\ UNCHANGED it
     ELSE /\ \E defined \in SUBSET (1..folder.count) :
               crcs' = Append(crcs, [j \in 1..folder.count |->
                                       IF j \in defined THEN Unknown(it + j) ELSE <<>>])
          /\ it' = it + folder.count
  /\ NextFolder("folder")
  /\ UNCHANGED sizes
  /\ Reading

\* Without digests nothing is known, not even what UnpackInfo has.
NoDigests ==
  /\ pc = "digests" /\ (~h.digests \/ h.folders = <<>>)
  /\ crcs' = [f \in 1..Len(h.folders) |-> [j \in 1..h.folders[f].count |-> <<>>]]
  /\ pc' = "folder" /\ fi' = 1
  /\ UNCHANGED <<sizes, it>>
  /\ Reading

-----------------------------------------------------------------------------
(* _parse_header.                                                          *)

Attaching == UNCHANGED <<h, sizes, crcs, it>>

Szs  == IF sizes # <<>> THEN sizes[fi] ELSE <<folder.size>>
Wants == IF crcs # <<>> THEN crcs[fi]
         ELSE <<IF folder.crc THEN <<fi, 1>> ELSE <<>>>>

\* The packed streams of a folder are taken whatever becomes of it.
Fed(outcome) ==
  /\ pi + folder.packs <= h.packed
  /\ pi' = pi + folder.packs
  /\ fed' = Append(fed, [from |-> pi + 1, outcome |-> outcome])

AtFolder == pc = "folder" /\ fi <= Len(h.folders)

\* pack_at[pi]: IndexError.
MissingPack ==
  /\ AtFolder /\ pi + folder.packs > h.packed
  /\ pc' = "crashed"
  /\ UNCHANGED <<fi, ei, pi, off, k, damaged, fed, payload, error>>
  /\ Attaching

\* zlib.error is none of the exceptions that are handled.
UncaughtError ==
  /\ AtFolder /\ pi + folder.packs <= h.packed
  /\ pc' = "crashed"
  /\ pi' = pi + folder.packs
  /\ UNCHANGED <<fi, ei, off, k, damaged, fed, payload, error>>
  /\ Attaching

\* Faulty variant: the files of the folder are not passed over.
FolderFailsInPlace ==
  /\ AtFolder
  /\ Fed("fails")
  /\ error' = [e \in DOMAIN error |-> error[e] \/ e \in (ei + 1)..(ei + Len(Szs))]
  /\ NextFolder("done")
  /\ UNCHANGED <<ei, off, k, damaged, payload>>
  /\ Attaching

\* Faulty variant: more streams than files are counted, too.
FolderFailsPast ==
  /\ AtFolder
  /\ Fed("fails")
  /\ error' = [e \in DOMAIN error |-> error[e] \/ e \in (ei + 1)..(ei + Len(Szs))]
  /\ ei' = ei + Len(Szs)
  /\ NextFolder("done")
  /\ UNCHANGED <<off, k, damaged, payload>>
  /\ Attaching

\* decode_folder raises; so it does where the output does not match the
\* folder's digest.
FolderFails ==
  /\ AtFolder
  /\ Fed("fails")
  /\ error' = [e \in DOMAIN error |-> error[e] \/ e \in (ei + 1)..(ei + Len(Szs))]
  /\ ei' = Min2(ei + Len(Szs), streamed)
  /\ NextFolder("done")
  /\ UNCHANGED <<off, k, damaged, payload>>
  /\ Attaching

FolderDecoded(d) ==
  /\ AtFolder
  /\ d => ~folder.crc
  /\ Fed(IF d THEN "damaged" ELSE "good")
  /\ damaged' = d
  /\ off' = 0 /\ k' = 1
  /\ pc' = "attach"
  /\ UNCHANGED <<fi, ei, payload, error>>
  /\ Attaching

\* zlib.crc32(bytes) = want
Matches(bytes, want) == want = <<>> \/ bytes = Meant(want)

Attach ==
  /\ pc = "attach" /\ k <= Len(Szs) /\ ei < streamed
  /\ LET bytes == Cut(fi, off, off + Szs[k], damaged)
         want  == IF k <= Len(Wants) THEN Wants[k] ELSE <<>>
     IN  /\ payload' = [payload EXCEPT ![ei + 1] = IF Matches(bytes, want) THEN bytes ELSE None]
         /\ error' = [error EXCEPT ![ei + 1] = ~Matches(bytes, want)]
  /\ off' = off + Szs[k]
  /\ ei' = ei + 1 /\ k' = k + 1
  /\ UNCHANGED <<pc, fi, pi, damaged, fed>>
  /\ Attaching

EndFolder ==
  /\ pc = "attach" /\ (k > Len(Szs) \/ ei >= streamed)
  /\ IF fi < Len(h.folders) THEN fi' = fi + 1 /\ pc' = "folder"
     ELSE fi' = 1 /\ pc' = "done"
  /\ UNCHANGED <<ei, pi, off, k, damaged, fed, payload, error>>
  /\ Attaching

NoFolders ==
  /\ pc = "folder" /\ h.folders = <<>>
  /\ pc' = "done"
  /\ UNCHANGED <<fi, ei, pi, off, k, damaged, fed, payload, error>>
  /\ Attaching

Next ==
  \/ ReadSizes \/ ReadDigests \/ NoDigests
  \/ MissingPack \/ UncaughtError \/ FolderFails \/ (\E d \in BOOLEAN : FolderDecoded(d))
  \/ Attach \/ EndFolder \/ NoFolders

Spec == Init /\ [][Next]_vars

-----------------------------------------------------------------------------
(* Correctness.                                                            *)

\* Not the same bytes of the same folder's output.
Apart(a, b) == a.of = b.of /\ a.of # 0 => a.hi <= b.lo \/ b.hi <= a.lo

(* Each file has the bytes the packer put into its stream, or none, and    *)
(* each folder its own packed streams: no failing folder and no missing    *)
(* digest shifts the ones that follow.  Sizes that do not add up give no   *)
(* byte of a folder's output to two files.                                 *)
OwnBytes ==
  /\ Consistent => \A e \in DOMAIN payload :
       payload[e] # None => [payload[e] EXCEPT !.damaged = FALSE] = Meant(Stream(e))
  /\ \A f \in 1..Len(fed) :
       fed[f].from = 1 + Total(Packs, f - 1)
  /\ \A d, e \in DOMAIN payload : d # e => Apart(payload[d], payload[e])

\* What the archive holds a digest of that the reader has taken notice of.
Checked(e) ==
  LET s == Stream(e)
  IN  \/ crcs # <<>> /\ crcs[s[1]][s[2]] # <<>>
      \/ crcs = <<>> /\ h.folders[s[1]].crc

\* Its own folder could not be decoded, or its own digest does not match.
Fails(e) ==
  LET outcome == fed[Stream(e)[1]].outcome
  IN  outcome = "fails" \/ (outcome = "damaged" /\ Checked(e) /\ Meant(Stream(e)) # Empty)

(* A file is reported without its bytes exactly if its own folder could    *)
(* not be decoded, or its own digest does not match.                       *)
OnlyOwnFailure ==
  Consistent /\ pc = "done" => \A e \in DOMAIN payload :
    error[e] = Fails(e) /\ (payload[e] = None) = Fails(e)

-----------------------------------------------------------------------------
(* The inductive invariant of SevenZipReadProofs.                          *)

\* How far the tables are read, and how many folders have been fed.
SizesRead   == IF pc = "sizes" THEN fi - 1 ELSE IF h.substreams THEN Len(h.folders) ELSE 0
DigestsRead == IF pc = "sizes" THEN 0 ELSE IF pc = "digests" THEN fi - 1
               ELSE IF h.substreams THEN Len(h.folders) ELSE 0
FoldersFed  == IF pc \in {"sizes", "digests"} THEN 0 ELSE IF pc = "attach" THEN fi
               ELSE IF pc = "done" THEN Len(h.folders) ELSE fi - 1

TablesInv ==
  /\ pc \in {"sizes", "digests", "folder", "attach", "done", "crashed"}
  /\ fi \in 1..Len(h.folders) \/ (fi = 1 /\ h.folders = <<>> /\ pc # "attach")
  /\ pc \in {"sizes", "digests"} => h.substreams
  /\ sizes = [f \in 1..SizesRead |-> Told(f)]
  /\ crcs \in Seq(Seq({<<>>} \cup (Nat \X Nat))) /\ Len(crcs) = DigestsRead
  /\ \A f \in 1..Len(crcs) : Len(crcs[f]) = h.folders[f].count /\
       \A j \in 1..Len(crcs[f]) : crcs[f][j] \in {<<>>, <<f, j>>}
  /\ pc = "sizes" => it = 0
  /\ pc = "digests" => it = Total(Unlisted, fi - 1)

FedInv ==
  /\ fed \in Seq([from : Nat, outcome : {"fails", "good", "damaged"}]) /\ Len(fed) = FoldersFed
  /\ \A f \in 1..Len(fed) : fed[f].from = 1 + Total(Packs, f - 1)
  /\ pc # "crashed" => pi = Total(Packs, Len(fed))

\* The bytes attached so far: each from a folder that was fed, none twice, and
\* none of the folder at hand from beyond off.
PiecesInv ==
  /\ ei \in 0..streamed
  /\ payload \in [1..streamed -> Piece]
  /\ error \in [1..streamed -> BOOLEAN]
  /\ damaged \in BOOLEAN
  /\ \A e \in (ei + 1)..streamed : payload[e] = None /\ ~error[e]
  /\ \A e \in 1..streamed : payload[e].of <= Len(fed)
  /\ \A d, e \in 1..streamed : d # e => Apart(payload[d], payload[e])
  /\ pc = "attach" =>
       /\ k \in Nat \ {0}
       /\ k <= Len(Szs) =>
            off \in Nat /\ \A e \in 1..streamed : payload[e].of = fi => payload[e].hi <= off

Settled(e) ==
  /\ Stream(e) \in (1..Len(fed)) \X Nat
  /\ error[e] = Fails(e) /\ (payload[e] = None) = Fails(e)
  /\ payload[e] # None => [payload[e] EXCEPT !.damaged = FALSE] = Meant(Stream(e))

\* With a consistent header the files go with the streams.
SettledInv ==
  Consistent =>
    /\ pc \notin {"attach", "crashed"} => ei = Total(Counts, Len(fed))
    /\ pc = "attach" =>
         /\ k \in 1..(folder.count + 1) /\ ei = Total(Counts, fi - 1) + k - 1
         /\ k <= folder.count => off = Start(fi, k)
         /\ fed[fi].outcome = IF damaged THEN "damaged" ELSE "good"
    /\ \A e \in 1..ei : Settled(e)

FilesInv == h \in Headers /\ TablesInv /\ FedInv /\ PiecesInv /\ SettledInv

=============================================================================
