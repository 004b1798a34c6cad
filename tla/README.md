# NovelRAR in TLA+

TLA+ models of NovelRAR, the TLC runs that check them on small instances, and
theorems about them that TLAPS has proved. Paths are relative to the
repository (`src/safe_output.py` is its file of that name; in `PROJECT.json`
the repository's root is called `src/`).

Contents: [the system](#the-system), [plan](#plan), [modules](#modules),
[runs](#runs), [proofs](#proofs), [findings](#findings),
[observations](#observations), [not modelled](#not-modelled).

## The system

NovelRAR is a command-line program and a library in Python with an optional
native part in C. It opens archives, decodes what it can in-tree, delegates the
rest to extractors of the host, and writes the members below a directory. It is
sequential; concurrency comes from outside: other processes in the directory it
extracts into, extractors it starts, kills and starts again, and its own reruns.

    novelrar_cli.cmd_extract
      -> unarchive.open_archive -> read_zip / read_7z / read_lz4 / read_rar
           read_7z  -> sevenzip.read | optional_sevenzip.read
           read_lz4 -> lz4_frame.decompress [-> native_lz4]
           read_rar -> rar_reader.read, license_broker.host_extract
                         [host_handoff.extract -> host_isolate.run]
      -> license_broker.LicensePolicy.permits   which lanes may be used
      -> safe_output.write_member               one member to disk

    novelrar_cli.cmd_codec, cmd_create
      -> research_codec.compress / decompress / encrypt / decrypt
      -> zipfile, optional_sevenzip.create, rar_store.create
      -> open(output, 'xb')                     one file

    geex_nr01.encode / decode, avccnmp_codec.compress_av01 / decompress_av01
                                                libraries, called by tests and reports

Members are passed on as records of an `Archive`; receipts, which say by what
lane a member was decoded, accumulate in one global list.

| Component | State | Operations | What is hard | What makes it correct |
|---|---|---|---|---|
| Member writer, `safe_output.py` | the directory tree, descriptors | `member_parts`, `write_member` | another process between any two system calls; failures, interrupts, kills and the clean-up after them; a rerun | stays below the root, leaves alone what it did not create, removes what it could not finish, leaks no descriptor |
| HOST delegation, `host_handoff.py`, `host_isolate.py` | a directory all attempts share | `extract`, `extract_all`, `run` | timeouts that leave fragments, a ladder of ever weaker attempts | no fragment is handed over where the tool replaces what it finds, nothing that answered runs twice, isolation only descends, the call ends |
| Front end, `unarchive.py`, `license_broker.py`, `novelrar_cli.py` | archive, receipts, exit status, disk | `open_archive`, readers, `host_extract`, `cmd_extract`, `audit` | the lanes' checks lie in three files; several archives, any of which may fail | what is on disk was verified and permitted, exit status 0 hides nothing, audit and extraction agree |
| LZ4 decoder, `lz4_frame.py`, `native_lz4.py` | output, history, limits | `decompress`, `decompress_frame`, `decompress_block` | three nested limits, linked blocks, a cut window, concatenated frames | decodes what a decoder with all of the output would, within the limit over all frames |
| LZ4 encoder, `lz4_encode.py` | hash table, anchor | `compress_block`, `compress` | overlapping matches, the format's end rules | the round trip |
| 7z reader, `sevenzip.py` | header lists, iterators, coder graph | `read`, `decode_folder`, `_read_substreams`, `_parse_header` | iterators that must stay in step when a folder fails; graphs with cycles | each file has its own bytes or an error of its own |
| RAR reader and store writer, `rar_reader.py`, `rar_store.py` | position in the file | `read`, two walks, `_finish`, `create` | damage; archives inside archives | the walk keeps its place and ends; damage stays local |
| DEFLATE, `deflate.c`, `deflate_ir.py`, `geex_unpack.py`, `expand.h` | bit buffer, tables, plan | `nr_deflate`, `tokenize`, `execute`, `inflate_trace` | three readers with different buffering, copies that overlap | all three decode what the format says |
| Streams, `research_codec.py` | decoder object, sink, limit | `transform_stream`, `decompress`, `adaptive_decompress` | output the decoder holds back; short reads and writes; the limit | whole streams, all of their output, nothing over the limit |
| py7zr adapter, `optional_sevenzip.py` | bounded sinks | `read`, `create` | limits inside another library | seen from outside only |
| Codecs, NA01, NRX1, `research_codec.py` | none | `compress`, `decompress`, `adaptive_compress`, `adaptive_decompress`, `encrypt`, `decrypt` | a length that is limit and promise; damage in any field | what is accepted is what was put in |
| Commands that write one file, `novelrar_cli.py` | input and output files, exit status | `cmd_codec`, `cmd_create` | two commands at once, one reading what the other still writes; failing writes, kills | no file is overwritten, status 0 means the whole output |
| NR01, `geex_nr01.py`, `geex_windmill_v1.py`, `geex_motif.py` | none | `encode`, `decode`, tilings, motifs | order of painting, fields cut to a byte, the largest-rectangle search | tiles partition the board, the board comes back |
| AV01, `avccnmp_codec.py` | position in stream and block | `compress_av01`, `compress_gated`, `decompress_av01` | curves that are no permutation, three nested lengths | the round trip, no more than was declared |
| Other geometry (`geex_eval_extract.py`, `geex_latin3d.py`, `avccnmp_cortex.py`) | none | floating-point measurements, reports | | not modelled |
| `scripts/`, `tests/` | none | build, benchmark, test | | not modelled |

`PROJECT.json` lists the hazards, each at its line with the properties that
would show it going wrong.

## Plan

Order, the most important behaviour first. *Done* means modelled and checked.

1. **Done, proved:** `ExclusivePublish` (abstract), `SafeOutput`: what the
   program does to a user's disk.
2. **Done, proved:** `Extract`, from the command line to the disk; `HostRun`,
   the processes started on the way.
3. **Done, proved:** `Lz4Stream` (abstract), `Lz4Frame`; `Lz4Encode`.
4. **Done, proved:** `SevenZip`, `SevenZipFolder` and their composition
   `SevenZipRead`; `RarWalk`.
5. **Done, proved:** `DeflateFormat`, `Inflate` (abstract), `Deflate`.
6. **Done, proved:** `TransformStream`; `Commands`, the commands that write one
   file.
7. **Done:** `Av01Format`, `Av01`; `Windmill`, `Nr01`.
8. **Done, proved:** that `SafeOutput` implements `ExclusivePublish` and
   `Lz4Frame` implements `Lz4Stream`.
9. **Done, proved:** that `Deflate` implements `Inflate`.
10. Open: BCJ and delta filters and the byte grammar of 7z's header; removal
   and replacement of entries by other programs in `SafeOutput`; `list`,
   `audit` and the probe of host tools.

Abstract specifications worth stating: `ExclusivePublish` (a name is taken,
then published or withdrawn), `Lz4Stream` (a decoder with unlimited memory),
`Inflate` (a decoder one bit and one symbol at a time). The others are checked
against reference definitions inside their module: `SevenZip`'s `Meant`,
`SevenZipFolder`'s `Solved`, `RarWalk`'s `Outcome`, `TransformStream`'s `Whole`.

Parameters are CONSTANTS with named assumptions, the formats' sizes included
(a window of 65535 bytes is a constant `Window`, checked at 2), one action
stands for one step of the code. Loops that matter are steps, the others folds
or recursive functions. Only `Av01Format`, `Av01` and `Windmill`, which hold
pure algorithms and no theorem, use RECURSIVE operators.
Definitions commented as a *faulty variant* or *fault* are never part of a
specification. They are what a mistake in the code would be, and `PROJECT.json`
pairs each with the property that tells it apart.

## Modules

### SafeOutput, ExclusivePublish (`safe_output.py`)

State: the directory entries `links` with `kind` and `data` of their inodes,
and for each writer the local variables of `write_member` (`fd`, `target`, the
loop index `at`), its open descriptors and the exception in flight. One action
is one system call and the Python around it up to the next: `MakeRoot`,
`OpenRoot`, `MakeDir`, `OpenDir` (with the close of the parent), `Create`,
`FdOpen`, `Write`, `CloseTarget`, `WriteFails`, `Unlink`, `UnlinkFails`,
`CloseDir`. `member_parts` is an operator on the components between a name's
slashes. `Refuse` and `Begin` are the two ways a call starts, `SyscallFails`
any call's failure, `Interrupt` a KeyboardInterrupt, `Kill` the end of the
process at any point, `Restart` the next run, and `Foreign` another program
that creates a directory, a file or a symbolic link anywhere at any time.

`ExclusivePublish` knows slots (a directory and a name) that are free, held by
somebody, or settled. Writing a member takes a free slot and publishes or
withdraws it; nothing settled changes. `SafeOutput` implements it under the
mapping at its end. Other programs do not remove or replace entries in the
model, so `Confined` says nothing of a directory that is swapped between its
`mkdir` and its `open`; a link put there is met as one planted before. The
ancestors of the root do not change (`docs/BOUNDARY.md` puts those outside the
mechanism).

### HostRun (`host_handoff.py`, `host_isolate.py`, `license_broker.py`)

One delegation. `caller` is one of `extract`, `extract_all` and the broker's
`host_extract`; the world (policy, selector, tool, `unshare`, what namespaces
the kernel grants, what the extractor makes of the archive) is chosen in
`Init`. `Ladder` is the list of attempts `host_isolate.run` makes, `try` the
attempt at hand. `CannotStart`, `UnshareRefused`, `TimesOut`, `ExtractorFails`
and `ExtractorSucceeds` are an attempt's outcomes; a killed or failed extractor
leaves any part of its files. The next one finds them there: a tool that
`host_command` tells to replace files (7z and unrar by `-y`; bsdtar does it
unasked) replaces them, one that it does not (`keeps`: unar, unzip) may leave
each as it is and still end with status 0. `Pick`, `PickAll` and `TooLarge` are what the
callers do with the directory afterwards.

### Extract (`unarchive.py`, `license_broker.py`, `novelrar_cli.py`)

`cmd_extract` over a list of archives. A reader is seen by its results: one
operator for each (`ZipMember`, `SevenzMember`, `Lz4Member`, `RarMember`,
`RarHostMember`, `Py7zrMember`) says what member, lane and receipt an entry
leads to; the entries range over what the reader tells apart (encryption,
checksum present, data right or wrong, and so on). `handoff` says whether some
module imported `host_handoff`, whose import replaces the broker's function.
HOST calls are recorded in `calls`; what they do is `HostRun`; an OSError out
of either `host_extract` is `HostRaises`. Writing is one
step here; how it goes about it is `SafeOutput`.

### Lz4Frame, Lz4Stream (`lz4_frame.py`, `native_lz4.py`)

`decompress`, `decompress_frame`, `_decompress_legacy` and `decompress_block`
with their variables. The stream is not given beforehand: each step takes the
next element (a frame with its flags, a block, a literal run, a match), so that
every stream there is gets decoded. `Fail` covers each error the code raises,
with the number that was too large. `Lz4Stream` is a decoder that keeps the
dictionary and all output, copies byte by byte and knows only the room left;
`ImplementsStream` says the windowed one computes the same and gives up only
where that one would. `backend` is the Python block decoder or the native one,
which differ in what may end a block.

### Lz4Encode (`lz4_encode.py`)

`compress_block`: `Probe` (one round of the outer loop that finds no match, or
the start of one), `Extend`, `Emit`, and `Last` for the final literals. A decoder
runs along: after each match it copies byte by byte (`CopyByte`), from the
offset and length the encoder has written. `size` counts the bytes written, and
`Stored` is `compress`' choice of the raw block.

### SevenZip, SevenZipFolder, SevenZipRead (`sevenzip.py`)

`SevenZip` takes a header apart: `ReadSizes`, `ReadDigests` and `NoDigests` are
`_read_substreams`, the others `_parse_header`'s loop over folders, with its
iterators `fi`, `ei`, `pi` and `off`. A folder decodes (right or wrong bytes),
fails, or raises something nobody catches. `SevenZipFolder` is
`decode_folder`: `stack` is the recursion of `out_stream`, `produced` its
memory, a coder's result a term over its inputs. `SevenZipRead` composes the
two as `read` does: a plain header, or an encoded one, which is a folder to be
decoded first; then every folder of the header, with its coders, through the
same `decode_folder`.

### RarWalk (`rar_reader.py`, `rar_store.py`)

A file is a sequence of cells: markers, two cells for a header (its fixed part
and the rest), data. `Init` writes any archive of `Archives` and then cuts it,
changes one cell or zeroes it from a cell on. A header that is changed may get a
size that runs past the end of the file or is too small (`fits` is false):
`BadSize` comes before `BadChecksum`, as in the code, and stops with a note
instead of raising. `Read` finds a marker, the others are the branches of
`read_rar4` and `read_rar5`, and `Finished` is `_finish`.
`Create` is the store writer.

### DeflateFormat, Inflate, Deflate (`deflate.c`, `deflate_ir.py`, `geex_unpack.py`, `expand.h`)

`DeflateFormat` has the format's tables as constants and what a code is.
`Inflate` is the abstract decoder: a place in a string of bits, the codes in
use, the output. `Deflate` is each of the repository's three decoders: a reader
`r` that takes bytes ahead and gives them back (`refill`, `align`), tables
filled as the code fills them, and the copies of `nr_expand` in all its modes.
`tokenize` writes a plan that `Execute` carries out command by command as
`nr_execute` does. The header of a dynamic block is a list of run lengths, not
bits.

### TransformStream (`research_codec.py`)

A compressed stream is the number of bytes each of its bytes brings out.
`Decompress` is zlib's `decompress(data, max_length)`: it takes input while it
has room, and keeps what it took but had no room for. `Read`, `Inflate` and
`EndOfSource` are the loop of `transform_stream`, `Compress` and `Flush` the
encoding half, `Once` and `Adaptive` the two functions that decode in one call.

### Commands (`novelrar_cli.py`, `research_codec.py`)

`compress`, `decompress`, `encrypt`, `decrypt` and `create-*`, each a job that a
process runs: `Start`, `ReadInput` for each input, `Compute`, `Open` (the
exclusive open), `Write` twice, with `WriteFails` and `Kill` in between and
`Damage` of one finished file. Content is a term: what was packed by which
codec, an NA01 container with its fields, an NRX1 envelope with its key. A
reader may see half of a file another command is writing. The codecs with a
checksum are one codec, the one without (raw DEFLATE) is another, since damage
shows in the first and may not in the second. Which of the candidates of
`adaptive_compress` is the shortest is left open. The commands that take any
bytes (`compress`, `encrypt`, `create-*` and `decompress --codec store`) are
given plain content only; packing what is packed already is left out.

### Av01Format, Av01 (`avccnmp_codec.py`)

`Av01Format` is the encoder as an operator from data and options to a sequence
of bytes: cube, maps of modes, residual, curve, phrases and their codes. `Av01`
decodes such a stream, whole, changed in a byte, cut or grown, one step for
each part: `AvOpen`, `AvBlockBody`, `AvBlockHead`, `AvPayload`, `AvPhrase` (one
turn of `phrase_decode`), `AvBlockEnd`, `AvFinish`. `compress_gated` picks the
options of each block by measurements; here the options of each block are part
of the input. A byte has `Byte` values, which moves the ranges of the operation
codes with it.

### Windmill, Nr01 (`geex_windmill_v1.py`, `geex_motif.py`, `geex_nr01.py`)

`Windmill` has the gap permutations, `greedy_rect` as the code finds it with a
stack over heights of columns, the tiles around the staircase, and the motifs
with their scores. `Nr01` encodes a board and decodes it: `NrPlace` the gaps,
`NrCarve` one rectangle after the other, `NrEncode`, `NrDecode`. The encoder's
prediction is `paint_gaps_first`, from the board and the tiles; the decoder's is
`Repainted`, its own loops over the container's fields, which `Written` has cut
to a byte (`Level` values). What decides the route
(`es_route`, from a class given by the caller and the share of cells painted
right) is modelled as the code computes it.

### MCResearch

`TransformStream`, `Commands`, `Av01` and `Nr01` share no state in the code.
Each behaviour of `MCResearch` is about one of them, while the others rest.

## Runs

| Run | Bounds | What it shows |
|---|---|---|
| `writers` | two writers, one call each, one foreign entry, five inodes, six members | Nothing is created or opened outside the root (`Confined`); no descriptor is leaked (`FdDiscipline`); fragments stay only where the clean-up failed, was interrupted or was killed (`NoPartialLeft`); success means the bytes are there (`WroteIsOnDisk`); nothing a running call did not create changes (`SettledUntouched`); each call ends (`CallEnds`); writing implements `ExclusivePublish`, so that of all calls for a name at most one succeeds |
| `host` | every kind of host, two files, the whole ladder | A fragment is handed over only where a killed attempt left it and the tool may keep what it finds (`WholeOrNothing`), a file of another name only by the handoff and where the extractor makes none of the member's (`SubstituteOnly`), nothing that ended runs again (in `TypeOK`), isolation is given up step by step (`IsolationDescends`), the call returns (`CallReturns`) |
| `extract` | two archives of two members, each option | What is written was verified (`WrittenIsVerified`), exit status 0 hides no skipped member or failed archive (`RcHonest`), nothing barred is written and the audit reports what was held back (`PolicyKept`) |
| `lz4` | two frames of three blocks, output of four bytes, a window of two | The limit holds over all frames and the history is bounded (`WithinBudget`), and the decoder implements one that forgets nothing (`ImplementsStream`) |
| `encode` | every block of up to eleven bytes of two values | The decoder gets back what was encoded (`RoundTrip`), the encoder ends (`EncoderEnds`) |
| `sevenzip` | coder graphs of three streams, headers of two folders, files off by one | Files: each has its own bytes (`OwnBytes`), or fails for a reason of its own (`OnlyOwnFailure`). Graphs: results are put together as the graph says (`Solved`), no sound graph is refused (`SoundFoldersDecode`), every call ends (`DecodeEnds`) |
| `rar` | a main header and two blocks, every single damage | Members are the archive's own (`OwnData`), none is lost that the damage did not reach, except behind a header whose size no longer fits, and damaged data costs only its member (`SoundMembersRead`); a walk that notes the end of the archive has found every member (`EndNoteMeansAll`); the walk ends (`WalkEnds`) |
| `deflate` | every stream of six two-bit bytes, nine dynamic headers | The three decoders in all modes implement the bit-by-bit one (`ImplementsInflate`), their readers hold the right bits (in `TypeOK`), a plan is carried out to what it stands for (`PlanCarriedOut`), and each step takes something (`Further`) |
| `research` | streams of three bytes that yield up to two, chunks of two, a limit of three; three commands of two processes over five files; AV01 blocks of up to 64 bytes of 32 values, up to 71 bytes in all; NR01 boards of up to nine columns, and one of sixteen, of 16 values | Streams: what is returned is whole (`Complete`), refusals are for cause and nothing goes over the limit (`RefusedForCause`). Commands: no file is overwritten or shared by two writers (`CmdExclusive`), status 0 means the whole output, a checked output is what went in, and what was made can be undone (`CmdUndone`). AV01: the round trip with any options, up to the decoder's limit (`AvRoundTrip`), and lengths kept on damaged streams (`AvHeaderKept`). NR01: tiles and gaps partition the board, and each rectangle is the largest left (`NrPartition`); boards come back unless a field was cut (`NrRoundTrip`) |
| `host_rejected`, `handoff`, `stream_raw` | as above | the [findings](#findings) |

A type invariant is checked where it says something of the code; those of
`SafeOutput`, `Lz4Encode`, `HostRun` and `Deflate` are proved.

**Why the bounds are enough.** They are chosen so that each size the code
compares with is passed by the data: a window shorter than the output and than
one dictionary, offsets and limits of which one more is too many, blocks that
fill their maximum, a word of six bits for bytes of two so that a refill takes
several bytes and a stored block gives some back, codes longer than the
shortest bit read. Two writers make every race there is between a pair of
steps, and with `Kill` and `Restart` also the rerun of a killed extraction. One
foreign entry is enough to put a link, a file or a directory at any place
between any two system calls. Two archives are enough for a status to be
forgotten, two folders for an iterator to be out of step, two blocks after the
main header for a walk to lose its place. In `rar`, `Sniff` is large enough
that the markers are within the first megabyte.
Two processes and three commands are enough for a command to make a file, a
second to undo it and a third to get in the way of either. AV01's `Byte` is 32
rather than 256, the least that leaves unknown flags; a block of 64 bytes fills
a cube of side four, the least with three layers between the corners, and 27
leave cells of the walk outside the cube; `MaxTotal` is 70, so that 70 bytes
pass and 71 do not. NR01's `Level` is 16, so that the
side a byte cannot hold is 16, and nine columns are the first with a staircase
of three.
In `extract`, options are taken one at a time (`--strict` also with py7zr,
which it turns down), since they act on different
containers. `MaxDepth` is 2 rather than 64, so that it is met.

**Fairness.** Liveness is checked for calls, not for the system:
- `writers`: a writer's next step is its next system call, and system calls
  return, if only with an error; weak fairness of `Advance \/ SyscallFails`
  for each writer. Nothing is assumed of other programs, of interrupts, kills
  or restarts.
- `host`: weak fairness of `Next`: `subprocess.run` has a timeout on every
  attempt, so each ends.
- `encode`, `rar`: one thread runs on.
- `sevenzip`: weak fairness of the steps inside `decode_folder`, again one
  thread.
- `research` has no fairness and no liveness property; its loops are over
  finite inputs.
- `deflate` has no fairness: termination is the action property `Further`, that
  each step takes bits or commands that no earlier step has taken.

`CHECK_DEADLOCK FALSE` stands where calls return and nothing follows; `deflate`
has an explicit stuttering step after the return and is checked for deadlock.

## Proofs

The theorems of the eight modules `*Proofs` hold for any number of writers,
calls, inodes and names, for any input and any sizes of the formats, and for
any files, archives, jobs and options. `ExtractProofs` is about `Extract` and
`HostRun`, `ResearchProofs` about `TransformStream` and `Commands`,
`SevenZipReadProofs` about `SevenZip`, `SevenZipFolder` and their composition;
the others are about the module of their name.

The library's induction theorems cannot be used (they take an operator). Where
a proof needs induction over positions in a stream or a header, it takes the
least number of a set that would be a counterexample (`LeastNat`, from
`WFMin`), and a recursive function is unfolded by exhibiting the function that
satisfies its definition.

**SafeOutput.** Assumptions: `FreshAssumption` (the file system hands out free
inodes), `InodeAssumption` (the constants are distinct), `MemberAssumption`
(members have sizes), `PartsAssumption` (the legal paths are non-empty
sequences of names). `Confined`, `FdDiscipline` and `NoPartialLeft` are not
inductive: whether an open descriptor can lead outside depends on what the
directory entries are, and whether a fragment is held by a call depends on
where that call is. `IInv` adds that the entries form a tree without an entry
to or in `Outside` (`TreeInv`), what the local variables and descriptors of a
writer are at each step (`LocalOk`, `OwnOk`: before `FdOpen` the file is empty,
while it is written it is in the directory `fd` still refers to), and that no
two calls hold the same file (`DistinctTargets`). One lemma for each action
proves `IInv /\ Action => IInv'`; `QuietStep` does so for all actions that
change no entry, `EnterStep` for the ones that add one. `Invariance` combines
them; `Confinement`, `NoDescriptorLeak`, `NoPartialFiles` and `TypeCorrect`
follow, and `NeverOverwrites` is the action property `SettledUntouched`
from the same invariant.

`ReportedIsOnDisk` (`WroteIsOnDisk`) rests on `DiskInv`. A call reports success
at its end, long after it linked its file, while others make directories, links
and files around it. `DescentOk` says that `fd` is the directory which the
components passed so far lead to, entry by entry, all of them directories, and
that a call about to return well has its whole file linked there. `ReportedOk`
says that what was reported is bound to its name with its bytes and held by
nobody. Each keeps the other: entries are only taken away by `Unlink`, by the
call that holds the inode, and no inode on a descent is a held file.

**SafeOutput implements ExclusivePublish** (`Refinement` in `SafeOutputProofs`).
The mapping reads a slot off the directory entry: free, held by the call whose
`target` is the inode, or kept with the inode's kind and data (`ViewsHold`
says so in terms of entries). `RInv` adds to `IInv` that a call that is about
to return without an exception has its whole file linked under its name
(`CloseOk`), without which the last step would report something unpublished,
and that what was reported is linked and held by nobody (`WroteOk`), so that no
later step moves its place. `SameSlot` shows that a slot keeps its abstract
state when neither its entry nor the owner or the data behind it changes; with
it each system call is shown to be a stutter (`QuietSim`, `WriteSim`: bytes in
a held slot are not visible) or one step: `Create` a Take, `Unlink` a Withdraw,
a new directory or foreign entry an Occupy (`EnterSim`), and the end of a call
or process a Publish or a Desert (`GiveUp`).

**Extract.** Assumptions: the bad name is no legal one, the bounds are numbers,
and the options are records of switches. The three properties need that whatever a reader
hands over is a member whose checksum, where it has one, was right
(`MembersInv`), that what was reported is still on disk under its name
(`DiskInv`), that a skip or failure has set the exit status (`RcInv`), and,
for the agreement of audit and extraction, that a receipt outside the policy
is either a member already held back or one of the members still to come
(`LaneInv`). `OnlyVerified`, `HonestStatus` and `PolicyHolds` follow.

**Lz4Frame.** Assumptions on sizes only. `WithinBudget` is nearly inductive;
`BudgetInv` adds that outside a block nothing is being produced and that a
block being set up knows its maximum. `CopiedLength` is the lemma that a match
adds as many bytes as it says, overlapping itself or not. `LimitHolds`
follows.

**Lz4Frame implements Lz4Stream** (`Refinement` in `Lz4FrameProofs`). The
abstract decoder keeps the dictionary and all it has put out; the code keeps
`Window` bytes of history and forgets the rest when a block begins. `RefInv`
ties them: the descriptor is one of the two formats' (`InfoInv`), the allowance
of the open block is what the descriptor and the limit leave (`AllowanceInv`),
what stands before a block's own bytes is the window of all they may refer to
(`PrefixInv`), and between linked blocks the history ends like the dictionary
and the output together (`HistoryInv`). `WindowIsEnough` shows it invariant. It
is kept because forgetting before something is added forgets nothing that would
be kept after it (`NewestAbsorbs`). The code copies a match as one slice or as a
repeated seed, the abstract decoder byte by byte: `CopiedPeriodic` says the
copy has the period `offset`, and `EndCopy` that the same bytes come out
whether one looks back in the window or in everything. With these each step is
mapped: beginning a block is OpenBlock, a stored body or a literal run
Literals, a match Copy, `EndBlock` CloseBlock, returning a frame EndFrame,
`EndOfInput` Finish, an error Malformed, OverLimit or OutOfReach, and the
others stutter.

**TransformStream.** Assumptions: a stream is a non-empty sequence of numbers
(`StreamAssumption`), and the chunk size, limit and size are numbers, the chunk
not 0 (`BoundAssumption`). `Complete` and `RefusedForCause` speak of the end of
a call; `StreamInv` of the way there. `Flow`: what is in the sink and what the
decoder holds back are together what the bytes fed to it yield, each byte read
is fed or in the chunk, and a decoder that has been fed a whole stream with a
trailer is at its end. This last part is what raw DEFLATE lacks, hence
[finding 3](#findings). `StreamComplete` and `StreamRefused` follow.

**Commands.** Assumptions: inputs are data (`InputsAssumption`), limits and
strides are numbers (`LimitAssumption`), and a command other than `create-*`
has one input (`JobsAssumption`). That a file has one writer needs that two
commands never write one file (`CmdApart`), that a file somebody writes is not
whole (`CmdOwn`) and that a reported one is (`CmdWhole`, the first part of
`CmdUndone`): together `CmdInv`. `NothingOverwritten` and `WrittenStays` follow.
`WhatIsMadeCanBeUndone` is all of `CmdUndone`. It needs `CmdData`: each file is
an input or what its job computed from what it read, perhaps damaged once it
was whole; a command read plain data, or a *face* (whole, cut off, altered) of
what made its input; and where a checksum or tag covers the data, a result is
only ever what the input was made from.

**Lz4Encode.** Assumptions on the sizes only, all met by the format's. The
invariant says that the table holds positions behind `i` with their key
(`TableInv`), that what a match covers equals what it is matched with
(`MatchInv`), and that in the middle of a copy each byte left equals the byte
`offset` before it (`DecoderInv`), which is what makes overlapping matches
work. `LengthSurvives` is the lemma that the nibble and its continuation bytes
code every length exactly. `RoundTripCorrect`, `AlwaysDecodable`,
`KeepsEndRules` and `TypeCorrect` follow.

**HostRun.** One assumption: the file that is asked for is one of the files.
`WholeOrNothing` is not inductive: it needs that after an attempt which ended
with status 0 a fragment is only there if the tool keeps what it finds and an
attempt was killed (`DestOK`). That in turn needs that before an attempt
fragments come from killed ones, that only what the extractor produces is ever
in the directory, and that before an attempt is accepted nothing has ended or
been handed over (`HostPending`); and that a broker has one attempt, so that it
finds the directory empty. `SubstituteOnly` needs that a success leaves a file
or a link for each that the extractor makes. `LadderBelow` says that the attempts left ask for no
more namespaces than the last start had, and is kept because of
`LadderDescends`, the lemma about the ladder itself. `NoFragments`,
`NoMistakenMember`, `IsolationKept` and `HostTypeCorrect` follow.

**RarWalk.** One assumption (`ArchivesAssumption`): archives are RAR4 or RAR5
with a main header, and a block's data and flags are what their names say. The
walk only has an offset; `RarInv` says that there is a block `k` at which it
stands and whose predecessors' files are the members found (`Reached`). Of each
member, `MemberOk`: it has its block's name, the data of its block where it has
a checksum, and all of it right where the damage did not reach. `Ended` says
why a walk may stop at `k` (the end, an encrypted header, a header whose size
no longer fits, or damage after which no block is sound), `GaveUp` why it may
raise. The work is in the lemmas about `Start`, the offsets of the blocks in a
file of any length, and about what one damage can do to the cells at such an
offset (`SizeDamaged` for a size). `OwnMembersOnly`, `SoundMembersFound` and
`EndNoteTrue` follow.

**SevenZipFolder, in SevenZipRead.** Assumptions: coders have numbers of
streams and the rest of what a header says of them (`CodersAssumption`), and
`MaxDepth` is not 0. The stack of `out_stream` calls is the state that matters.
`FolderInv`: each call waits for the input that the call above it produces, and
has been given the first inputs its coder asks for, each from where the graph
says (`CallOk`); a coder has run once for what is produced, and for nothing
else until one fails (`RunsOk`). `Solved` is part of it, and `FoldersSolved`
follows. That no sound graph is refused needs that the recursion stays below
`MaxDepth`: whenever the outputs can be ranked so that inputs have lower ranks,
the stack descends in rank (`Descending`). `SoundFoldersPass` follows. Both
hold in the composition, for the encoded header and for each folder after it.

**SevenZip.** One assumption (`HeaderAssumption`): a folder with `count` > 0
files lists `count` - 1 sizes, which is how many `_read_substreams` reads.
`OwnBytes` and `OnlyOwnFailure` relate a file to its place in the header, the
code only has iterators that it moves along: `FilesInv` says where each must
stand. The tables hold the folders before `fi` (`TablesInv`), folders take
packed streams one after the other (`FedInv`), pieces attached so far are apart
from each other and behind `off` in the folder at hand (`PiecesInv`), and,
where the header is consistent, the files before `ei` have what is theirs
(`SettledInv`). `BytesAreOwn` and `FailuresAreOwn` follow.

**Deflate.** Assumptions: a native word holds a code and a byte's remaining
bits, and the sizes are numbers (`SizesAssumption`); a length or distance has
extra bits that one refill brings (`MatchAssumption`); the fixed codes are not
oversubscribed (`FixedAssumption`); a stream is whole bytes, and a dynamic
header has lengths a code can have and runs that are not empty
(`InputsAssumption`). `DeflateInv` says that the bits in the buffer are those of
the stream before the next byte (`ReaderOk`), that no code in use begins
another (`TreeOk`), that each command of a plan can be carried out after those
before it and that the plan's size is that of what it comes to (`PlanOk`), and
that the buffer holds what the commands carried out come to (`OutOk`).

- *Readers.* `At(x, p)` says that the reader `x` is at bit `p`. Each of
  `refill`, `bits`, `Drop` and `align` takes such a reader to such a reader, and
  what it brings is `Value(p, k)`, the number in the stream's next `k` bits,
  whichever decoder asks (`BitsAre`, `AlignIs`).
- *Codes.* The tables are filled by counting codes of each length, the format
  defines a code by the share of all codes that precedes it. `WiresIs` says that
  the tables hold the format's codes, `NativeTables` and `PythonTables` that the
  tests of `huff_build` and the one of `codes_lsb` say the same of a set of
  lengths: not oversubscribed. For such lengths `PrefixFree` holds, so that the
  native look-up of a full set of bits, with zeros past the end of the stream,
  and the reading bit by bit find the one symbol that is there (`NativeSymbol`,
  `PythonSymbol`).
- *Copies.* `periodic`, the growing `memcpy`, 16 bytes at a time and byte by
  byte all yield the sequence whose new bytes repeat with the period `distance`,
  which is `Repeat`, overlapping or not (`CopyIs`).
- *Plans.* What a plan comes to depends on its commands and on the literals
  before its anchor only, so that literals added later and a command added at
  the end change nothing before them.

With these, the sets a step chooses from are characterised by the stream alone
(`StoredAre`, `CompressedAre`, `SymbolsNext`, `MatchesAre`): when they are empty,
and what is in them. One lemma per action then serves both the invariant
(`Invariance`, hence `Typed` and `Carries`) and the action property (`GoesOn`).
`Implements` maps `pos` to the reader's place, the output to the buffer or, for
`tokenize`, to what the plan comes to, and the end of `tokenize` to the end of
the abstract decoder, so that `nr_execute` only stutters. `Reject` is the
hardest step: that the code finds nothing to go on with has to mean that the
abstract decoder finds nothing either, which the characterised sets give in
both directions.

Only model-checked:
- every liveness property, since fairness is beyond the prover;
- `AvRoundTrip`, `AvHeaderKept`, `NrPartition`, `NrRoundTrip`: what `Av01` and
  `Nr01` compute is defined with RECURSIVE operators, which the prover cannot
  unfold.

## Findings

1. **A rejected namespace is fatal** (`host_rejected`, `RejectionNotFatal`).
   `host_isolate.py:4-5` says "absence of unshare or a rejected unprivileged
   namespace is not a hard failure", but `run` returns the first process that
   ends, whatever its status. An `unshare` the kernel turns down exits 1, and
   that is reported as the extractor's answer although no extractor ran.
2. **The isolated handoff is never used** (`handoff`, `HandoffKept`).
   `docs/FOLLOWUP.md:8-9` says "Production handoff is src/host_handoff.py,
   which calls host_isolate.run" and line 19 "password is forwarded when
   supplied". Nothing the program imports imports `host_handoff`, so
   `read_rar` calls the broker's own function: no isolation, no password.
3. **Whole raw DEFLATE streams are refused as truncated** (`stream_raw`,
   `OnlyCutIsTruncated`). The inner loop of `transform_stream` ends when no
   input is left, though the decoder may hold output it had no room for.
   zlib's and gzip's trailers hold input back until it is out; raw DEFLATE has
   none. 65537 equal bytes and the default `chunk_size` show it.

## Observations

What else the models showed of the code. The first two differ from what a
document says.

- `host_handoff.extract` takes the only file there is, whatever its name, where
  the requested path is no file (`SubstituteOnly` says when).
  `docs/BOUNDARY.md:49-50` says the HOST path "checks exit status, selectors,
  exact member paths and returned symlinks" and `docs/RESEARCH_REPORT.md:79`
  "HOST extraction requires a successful exit, exact output identity and no
  output symlinks". (`lz4` always writes `out.bin`; for the other tools it is
  another member.) The broker's own `host_extract` refuses.
- Wide NR01 boards do not come back. `encode` cuts a recipe's fields to a byte,
  so on a board of 256 columns a row's width is written as 0, and `decode`
  refuses the container ("SHA mismatch"). `docs/MOTIF.md:17` says "Residual is
  XOR. Always lossless." `NrRoundTrip` says that nothing else is refused; the
  `research` run has boards on both sides of the limit.
- The write that a kill interrupts leaves a fragment under the final name, and
  later runs report it as existing (`NoPartialLeft` excepts killed calls).
- A timed-out unar or unzip may leave a fragment that the next attempt keeps
  and reports with status 0 (`FragmentKept`). In `read_rar` a member's checksum
  would show it; callers of `host_handoff` get it as the member.
- A RAR5 marker in the first megabyte makes a RAR4 archive be read as what is
  stored in it (`OwnMarker` excludes it from the properties of `RarWalk`).
- Damage to the size in a RAR header ends the walk with a note, the sound
  members behind it are lost, and the exit status is 0; other damage to a
  header is an error. (`unarchive.read_rar` passes notes on, `cmd_extract` reads
  none.)
- A legacy LZ4 frame ends silently at a block size that does not fit; what
  follows is then read as a frame, and refused if it is none.
- The Python LZ4 block decoder accepts a block that ends in a match, the native
  one refuses it.
- `nr_deflate` accepts bytes after the last block and headers that give the end
  of block no code, and refuses headers with more than 286 literal lengths;
  `tokenize` does the opposite in each. `Inflate`'s `rules` are these
  differences.
- `zlib.error` and `IndexError` in a 7z folder are caught by nobody and end the
  command; neither `zlib.error` nor `LZMAError` is among what `main` reports.
- A command whose write fails, or that is killed, leaves a fragment under its
  output's name, and is refused when it is run again.
- `compress` takes inputs above 256 MiB, which no `decompress` gives back.
- `cubic_twist` is no permutation: with the default parameters the walk of a
  cube of side eight meets 256 of its 512 cells. The branch for missed cells,
  which "shouldn't happen" (`avccnmp_codec.py:133`), is what keeps AV01
  lossless.
- `compress_av01` takes inputs above 64 MiB, which `decompress_av01` refuses
  (`avccnmp_codec.py:578`; `AvRoundTrip` is about the others).
- AV01 stores `curve_a` and `curve_b` as bytes, but encodes with the values it
  was given; larger ones do not decode.

## Not modelled

- Checksums (xxHash, CRC-32, SHA-256) and cryptography: a digest matches or not.
- The codecs of Python's library and py7zr: decoders with a result.
- Header fields' byte encodings (7z's numbers, RAR5's variable-length integers,
  names' encodings), the bits of a dynamic DEFLATE header, LZ4's frame header.
- The 64 MiB sum over a 7z header's sizes, BCJ and delta filters.
- `list`, `audit` and `capabilities`, which print; `host_command`'s argument
  lists, but for what they say of files that exist, and the probe for host tools; loading of the native library.
- `geex_eval_extract.py` and `avccnmp_cortex.py`: floating-point measurements
  that end in reports or in a choice the models leave open;
  `geex_latin3d.py`, which only its own report calls; NR01 containers that were
  damaged; `dispatch_decompress`, which forwards to the readers.
- Build and benchmark scripts; tests.
