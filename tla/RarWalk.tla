------------------------------- MODULE RarWalk -------------------------------
(***************************************************************************)
(* The walk over the blocks of a RAR archive: src/src/rar_reader.py, read, *)
(* read_rar4, read_rar5 and _finish, over what src/src/rar_store.py and    *)
(* other writers write, damaged on its way.                                *)
(*                                                                         *)
(* A file is a sequence of cells.  A header is two of them (the fixed part *)
(* with checksum and size, and the rest), a marker or a unit of data one.  *)
(* Data may be an archive in its turn, so a walk that loses its place      *)
(* finds headers all the same.  A checksum is right exactly for what it    *)
(* was computed of.                                                        *)
(***************************************************************************)
EXTENDS Integers, Sequences, SequencesExt

CONSTANTS
  Archives,   \* archives to read: [version, stub, blocks]
  Sniff       \* the first megabyte, in cells

IsASequence(s) == s \in Seq({s[j] : j \in DOMAIN s})

ASSUME ArchivesAssumption ==
  \A a \in Archives :
    /\ a.version \in {4, 5} /\ IsASequence(a.stub)
    /\ IsASequence(a.blocks) /\ a.blocks # <<>>     \* the main header
    /\ \A k \in DOMAIN a.blocks : LET b == a.blocks[k]
         IN  IsASequence(b.data) /\ {b.good, b.enc, b.split, b.dir, b.stored, b.crc} \subseteq BOOLEAN

VARIABLES
  archive,      \* history: what was written
  damage,       \* history: what happened to it, as <<kind, cell, fits>>: whether the
                \* size in a changed header is still one a header can have there
  blob,         \* the file
  version,      \* of the reader at work, 0 while none is
  pc,           \* "read", "walk", "done" or "raised"
  i,            \* i
  members,      \* arch.members, as [name, payload, error]
  note,         \* the last of arch.notes that tells why the walk ended
  header_encrypted

vars == <<archive, damage, blob, version, pc, i, members, note, header_encrypted>>

-----------------------------------------------------------------------------
(* What is written.                                                        *)

Marker(v)  == [t |-> "marker", v |-> v]
Fixed(b)   == [t |-> "head", b |-> b, ok |-> TRUE, fits |-> TRUE]
Body       == [t |-> "body", ok |-> TRUE]
Data(x)    == [t |-> "data", x |-> x]
Zero       == [t |-> "zero"]
Junk       == [t |-> "junk"]

Layout(b) == <<Fixed(b), Body>> \o b.data
File(a)   == a.stub \o <<Marker(a.version)>> \o FlattenSeq([k \in 1..Len(a.blocks) |-> Layout(a.blocks[k])])

Block(kind, data) ==
  [kind |-> kind, data |-> data, name |-> 0, good |-> TRUE, enc |-> FALSE, split |-> FALSE,
   dir |-> FALSE, stored |-> TRUE, crc |-> TRUE, unp |-> "same"]

\* rar_store.create: the members one after the other, stored, with checksums.
Create(datas) ==
  [version |-> 5, stub |-> <<>>,
   blocks |-> <<Block("main", <<>>)>>
              \o [k \in 1..Len(datas) |-> [Block("file", datas[k]) EXCEPT !.name = k + 1]]
              \o <<Block("end", <<>>)>>]

\* What may happen to the file: cut off, one cell changed, or lost from one
\* cell on and filled with zeros.  A changed fixed part has a wrong checksum, or
\* a wrong size: one that is within the file, or one that is not.
Changed(c, fits) ==
  CASE c.t = "head" -> [c EXCEPT !.ok = FALSE, !.fits = fits]
    [] c.t = "body" -> [c EXCEPT !.ok = FALSE]
    [] OTHER        -> Junk

Damaged(s, d) ==
  CASE d[1] = "none"   -> s
    [] d[1] = "cut"    -> SubSeq(s, 1, d[2] - 1)
    [] d[1] = "change" -> [s EXCEPT ![d[2]] = Changed(s[d[2]], d[3])]
    [] d[1] = "zeros"  -> [k \in 1..Len(s) |-> IF k < d[2] THEN s[k] ELSE Zero]

Damages(a) ==
  LET cells == (Len(a.stub) + 1)..Len(File(a))
      heads == {p \in cells : File(a)[p].t = "head"}
  IN  {<<"none", 0, TRUE>>} \cup ({"cut", "change", "zeros"} \X cells \X {TRUE})
                            \cup ({"change"} \X heads \X {FALSE})

Init ==
  /\ archive \in Archives /\ damage \in Damages(archive)
  /\ blob = Damaged(File(archive), damage)
  /\ version = 0 /\ pc = "read" /\ i = 1
  /\ members = <<>> /\ note = "none"
  /\ header_encrypted = FALSE

-----------------------------------------------------------------------------

n == Len(blob)
Places(v) == {p \in 1..n : blob[p] = Marker(v)}
FirstOf(ps) == CHOOSE p \in ps : \A q \in ps : p <= q

\* read: a RAR5 marker anywhere in the first megabyte decides.
Read(v) ==
  /\ pc = "read"
  /\ \E p \in Places(v) : p <= Sniff
  /\ v = 4 => \A p \in Places(5) : p > Sniff
  /\ version' = v
  /\ i' = FirstOf(Places(v)) + 1
  /\ pc' = "walk"
  /\ UNCHANGED <<archive, damage, blob, members, note, header_encrypted>>

NoMarker ==
  /\ pc = "read"
  /\ \A p \in Places(4) \cup Places(5) : p > Sniff
  /\ pc' = "raised"
  /\ UNCHANGED <<archive, damage, blob, version, i, members, note, header_encrypted>>

Walking == UNCHANGED <<archive, damage, blob, version>>
Still   == UNCHANGED <<i, members, header_encrypted>>

cell == blob[i]
AtHeader == pc = "walk" /\ i <= n

Stop(why) == pc' = "done" /\ note' = why /\ Still /\ Walking
Raise == pc' = "raised" /\ UNCHANGED note /\ Still /\ Walking

\* while i + 7 <= n: no note is taken.
EndOfFile == pc = "walk" /\ i > n /\ Stop("none")

\* Faulty variant: a size of zero is none to stop at.  Nothing is left to take
\* the checksum of, so zero is right, and the block has no length.
BadSizeUnchecked ==
  /\ AtHeader
  /\ cell.t = "head" => i = n \/ ~cell.fits
  /\ IF cell.t = "zero" /\ version = 4 THEN UNCHANGED vars ELSE Stop("bad header size")

\* Before the checksum is looked at: the header size is too small (zeros are),
\* runs past the end, or is cut short itself; so would be, if the walk lost its
\* place, whatever else is read for one.
BadSize ==
  /\ AtHeader
  /\ cell.t = "head" => i = n \/ ~cell.fits
  /\ Stop("bad header size")

Whole == AtHeader /\ cell.t = "head" /\ i < n /\ cell.fits

\* Faulty variant: a damaged header is passed over for the next block.
BadChecksumPassed ==
  /\ Whole /\ ~(cell.ok /\ blob[i + 1] = Body)
  /\ i' = i + 2 + Len(cell.b.data)
  /\ UNCHANGED <<archive, damage, blob, version, pc, members, note, header_encrypted>>

BadChecksum ==
  /\ Whole /\ ~(cell.ok /\ blob[i + 1] = Body)
  /\ Raise

Header == Whole /\ cell.ok /\ blob[i + 1] = Body
block == cell.b
data_off == i + 2
Goto(p) == i' = p /\ UNCHANGED <<pc, note, header_encrypted>> /\ Walking

\* RAR4's main header with a password, RAR5's encryption header.
Encrypted ==
  /\ Header /\ block.kind = "crypt"
  /\ header_encrypted' = TRUE
  /\ pc' = "done" /\ note' = "encryption header"
  /\ UNCHANGED <<i, members>> /\ Walking

EndBlock == Header /\ block.kind = "end" /\ Stop("end-of-archive block")

\* Only RAR5 looks whether a block's data is there.
OutOfBounds ==
  /\ Header /\ block.kind \notin {"crypt", "end"}
  /\ version = 5 /\ data_off + Len(block.data) > n + 1
  /\ Raise

InBounds == Header /\ block.kind \notin {"crypt", "end"} /\
            (version = 5 => data_off + Len(block.data) <= n + 1)

\* Faulty variant: only a file block has data.
SkipDataless ==
  /\ InBounds /\ block.kind # "file"
  /\ Goto(data_off)
  /\ UNCHANGED members

\* Main, service and unknown blocks.
Skip ==
  /\ InBounds /\ block.kind # "file"
  /\ Goto(data_off + Len(block.data))
  /\ UNCHANGED members

\* A file header that does not hold together: RAR4 gives up, RAR5 goes on.
BadFile ==
  /\ InBounds /\ block.kind = "file" /\ ~block.good
  /\ IF version = 4 THEN Raise
     ELSE Goto(data_off + Len(block.data)) /\ UNCHANGED members

\* _finish.  pack_size is what the header says, the slice may be shorter;
\* unp_size is the same for a stored file, or 0 where it is not known.
slice ==
  LET last == data_off + Len(block.data) - 1
  IN  SubSeq(blob, data_off, IF last <= n THEN last ELSE n)

\* Faulty variant: the checks of a member are skipped where it has no unp_size.
FinishedUnsized ==
  IF block.enc \/ block.split \/ (~block.dir /\ ~block.stored) THEN [payload |-> <<>>, error |-> TRUE]
  ELSE IF block.dir THEN [payload |-> <<>>, error |-> FALSE]
  ELSE IF block.unp # "zero" /\ (Len(slice) # Len(block.data) \/ block.unp = "other" \/
                                (block.crc /\ slice # block.data))
       THEN [payload |-> <<>>, error |-> TRUE]
  ELSE [payload |-> slice, error |-> FALSE]

Finished ==
  IF block.enc \/ block.split \/ (~block.dir /\ ~block.stored) THEN [payload |-> <<>>, error |-> TRUE]
  ELSE IF block.dir THEN [payload |-> <<>>, error |-> FALSE]
  ELSE IF Len(slice) # Len(block.data) \/ block.unp = "other" \/ (block.crc /\ slice # block.data)
       THEN [payload |-> <<>>, error |-> TRUE]
  ELSE [payload |-> slice, error |-> FALSE]

FileBlock ==
  /\ InBounds /\ block.kind = "file" /\ block.good
  /\ members' = Append(members, [name |-> block.name, payload |-> Finished.payload,
                                 error |-> Finished.error])
  /\ Goto(data_off + Len(block.data))

Next ==
  \/ (\E v \in {4, 5} : Read(v)) \/ NoMarker
  \/ EndOfFile \/ BadSize \/ BadChecksum \/ OutOfBounds
  \/ Encrypted \/ EndBlock \/ Skip \/ BadFile \/ FileBlock

Spec == Init /\ [][Next]_vars
FairSpec == Spec /\ WF_vars(Next)

-----------------------------------------------------------------------------
(* Correctness, of archives that are taken for themselves.  The marker of  *)
(* one that is stored in a member comes first where the outer marker is    *)
(* damaged, or where the inner one is RAR5's and the outer one RAR4's.     *)

OwnMarker ==
  /\ version = archive.version
  /\ FirstOf(Places(version)) = Len(archive.stub) + 1

\* Where block k of archive a starts, and where it ends.
Start(a, k) == Len(a.stub) + 2 + Len(FlattenSeq([j \in 1..(k - 1) |-> Layout(a.blocks[j])]))
End(a, k)   == Start(a, k) + 1 + Len(a.blocks[k].data)

\* The files of an archive: an end or an encryption header hides what follows,
\* a bad file header itself, or for RAR4 what follows, too.
Hides(a, k) == LET c == a.blocks[k]
               IN  c.kind \in {"end", "crypt"} \/ (c.kind = "file" /\ ~c.good /\ a.version = 4)
Visible(a, k) == /\ a.blocks[k].kind = "file" /\ a.blocks[k].good
                 /\ \A j \in 1..k : ~Hides(a, j)
FilesUpTo(a, k) ==
  LET files[j \in 0..k] ==
        IF j = 0 THEN <<>> ELSE IF Visible(a, j) THEN Append(files[j - 1], j) ELSE files[j - 1]
  IN  files[k]
Blocks  == 1..Len(archive.blocks)
Written(a) == FilesUpTo(a, Len(a.blocks))

\* What _finish promises for a member that arrives as it was written.
Outcome(c) ==
  IF c.enc \/ c.split \/ (~c.dir /\ (~c.stored \/ c.unp = "other"))
  THEN [name |-> c.name, payload |-> <<>>, error |-> TRUE]
  ELSE [name |-> c.name, payload |-> IF c.dir THEN <<>> ELSE c.data, error |-> FALSE]

\* Damage d does not reach block k, or lies in the data of one.
Sound(a, d, k) == \/ d[1] = "none"
                  \/ d[2] > End(a, k)
                  \/ d[1] = "change" /\ d[2] < Start(a, k)
DataChanged(a, d) ==
  d[1] = "change" /\ \E k \in 1..Len(a.blocks) : d[2] \in (Start(a, k) + 2)..End(a, k)

(* Whatever happened to the file, the members found are the archive's, in  *)
(* its order, never those of an archive inside it; and no payload differs  *)
(* from what was written unless its header has no checksum.                *)
OwnData ==
  OwnMarker =>
    /\ Len(members) <= Len(Written(archive))
    /\ \A m \in 1..Len(members) :
         LET c == archive.blocks[Written(archive)[m]]
         IN  /\ members[m].name = c.name
             /\ ~members[m].error => /\ Len(members[m].payload) = Len(Outcome(c).payload)
                                     /\ c.crc => members[m] = Outcome(c)

\* Damage d is to the size in the header of block k.
SizeLost(a, d, k) == d[1] = "change" /\ d[2] = Start(a, k) /\ ~d[3]
Unreached(a, d, why, k) == why = "bad header size" /\ \E j \in 1..k : SizeLost(a, d, j)

(* A walk that returns has read every member the damage did not reach,     *)
(* except those behind a header whose size was damaged, where it stops and *)
(* notes that; and damage inside the data of one member costs no other:    *)
(* only a damaged header or a missing end makes the reader give up the     *)
(* archive.                                                                *)
SoundMembersRead ==
  OwnMarker =>
    /\ pc = "done" => \A m \in 1..Len(Written(archive)) :
         LET k == Written(archive)[m]
         IN  Sound(archive, damage, k) =>
               \/ m <= Len(members) /\ members[m] = Outcome(archive.blocks[k])
               \/ Unreached(archive, damage, note, k)
    /\ pc = "raised" =>
         \/ damage[1] # "none" /\ ~DataChanged(archive, damage)
         \/ version = 4 /\ \E k \in Blocks : archive.blocks[k].kind = "file" /\ ~archive.blocks[k].good

(* A walk that notes the end-of-archive block has found every member: what *)
(* damage costs the archive is never hidden behind that note.  (Without it *)
(* members may be missing, and cmd_extract, which reads no notes, does not *)
(* say so.)  Conversely a whole archive that has one is so noted.          *)
EndNoteMeansAll ==
  OwnMarker /\ pc = "done" =>
    /\ note = "end-of-archive block" => Len(members) = Len(Written(archive))
    /\ damage[1] = "none" /\ archive.blocks[Len(archive.blocks)].kind = "end"
         /\ (\A j \in 1..Len(archive.blocks) - 1 : ~Hides(archive, j))
         => note = "end-of-archive block"

(* The walk ends, zeros to the end of the file included.                   *)
WalkEnds == <>(pc \in {"done", "raised"})

-----------------------------------------------------------------------------
(* The inductive invariant of RarWalkProofs: the walk stands at the start  *)
(* of a block k, and has found the files of those before.                  *)

MemberOk(a, d, r, k) ==
  LET c == a.blocks[k]
  IN  /\ r.name = c.name
      /\ ~r.error => Len(r.payload) = Len(Outcome(c).payload) /\ (c.crc => r = Outcome(c))
      /\ Sound(a, d, k) => r = Outcome(c)

Reached(a, d, ms, k) ==
  LET files == FilesUpTo(a, k - 1)
  IN  /\ \A j \in 1..(k - 1) : ~Hides(a, j)
      /\ IsASequence(ms) /\ Len(ms) = Len(files)
      /\ \A m \in 1..Len(ms) : MemberOk(a, d, ms[m], files[m])

\* Why a walk that stands at block k stops, or gives up.
Ended(a, d, why, k) ==
  \/ why = "none" /\ k = Len(a.blocks) + 1
  \/ /\ why # "end-of-archive block" /\ d[1] # "none"
     /\ \A j \in k..Len(a.blocks) : ~Sound(a, d, j)
  \/ why = "bad header size" /\ k <= Len(a.blocks) /\ SizeLost(a, d, k)
  \/ /\ k <= Len(a.blocks)
     /\ <<a.blocks[k].kind, why>> \in {<<"end", "end-of-archive block">>, <<"crypt", "encryption header">>}

GaveUp(a, d) ==
  \/ d[1] # "none" /\ ~DataChanged(a, d)
  \/ a.version = 4 /\ \E k \in 1..Len(a.blocks) : a.blocks[k].kind = "file" /\ ~a.blocks[k].good

RarInv ==
  /\ archive \in Archives /\ damage \in Damages(archive)
  /\ blob = Damaged(File(archive), damage)
  /\ pc = "read" => version = 0 /\ members = <<>>
  /\ OwnMarker => \E k \in 1..(Len(archive.blocks) + 1) :
       /\ Reached(archive, damage, members, k)
       /\ pc = "walk" => i = Start(archive, k)
       /\ pc = "done" => Ended(archive, damage, note, k)
       /\ pc = "raised" => GaveUp(archive, damage)
=============================================================================
