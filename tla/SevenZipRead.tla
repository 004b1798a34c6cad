----------------------------- MODULE SevenZipRead -----------------------------
(***************************************************************************)
(* sevenzip.py, read: the built-in reader from the signature to the last   *)
(* file.  The header may be packed itself, in a folder of its own; then    *)
(* SevenZip reads it and takes what each of its folders decodes to, for    *)
(* which SevenZipFolder runs, coder by coder.                              *)
(***************************************************************************)
EXTENDS SevenZip

CONSTANTS
  HeaderCoders(_),  \* the coders a header may be encoded with
  FolderCoders(_),  \* those its folders may have
  MaxDepth          \* 64

VARIABLES
  stage,     \* "open", "encoded", "header"; "withheld", "empty", "refused", "crashed"
  packed_header, \* the header was encoded
  graph, gpc, stack, depth, produced, runs   \* of SevenZipFolder

G == INSTANCE SevenZipFolder
       WITH folder <- graph, pc <- gpc,
            Coders <- UNION {HeaderCoders(x) \cup FolderCoders(x) : x \in Headers}

ASSUME DepthAssumption == MaxDepth \in Nat \ {0}
ASSUME CodersAssumption ==
  \A x \in Headers : HeaderCoders(x) \cup FolderCoders(x) \subseteq Seq(G!Coder)

coding == <<graph, gpc, stack, depth, produced, runs>>
all    == <<vars, stage, packed_header, coding>>

Opening  == UNCHANGED <<vars, packed_header>>
Decoding == UNCHANGED <<vars, stage, packed_header>>

Opened ==
  /\ Init
  /\ G!Init
  /\ stage = "open" /\ packed_header = FALSE

-----------------------------------------------------------------------------
(* Before the header is read.                                              *)

\* Signature, digest of the start header, bounds and digest of the next one.
Malformed ==
  /\ stage = "open"
  /\ stage' = "refused"
  /\ Opening /\ UNCHANGED coding

EmptyArchive ==
  /\ stage = "open"
  /\ stage' = "empty"
  /\ Opening /\ UNCHANGED coding

Plain ==
  /\ stage = "open"
  /\ stage' = "header"
  /\ Opening /\ UNCHANGED coding

Encrypted(cs) == \E j \in DOMAIN cs : cs[j].does = "encrypted"

\* The names are in an encrypted header: the archive is reported without any.
Withheld ==
  /\ stage = "open"
  /\ \E cs \in HeaderCoders(h) : Encrypted(cs)
  /\ stage' = "withheld" /\ packed_header' = TRUE
  /\ UNCHANGED <<vars, coding>>

Encoded ==
  /\ stage = "open"
  /\ \E cs \in HeaderCoders(h) : ~Encrypted(cs) /\ G!Load(cs)
  /\ stage' = "encoded" /\ packed_header' = TRUE
  /\ UNCHANGED vars

\* Whatever decode_folder raises ends the reading.
HeaderDecoded ==
  /\ stage = "encoded" /\ G!Leave
  /\ stage' = CASE gpc = "done" -> "header"
                [] gpc = "crashed" -> "crashed"
                [] OTHER -> "refused"
  /\ Opening

-----------------------------------------------------------------------------
(* Folder by folder.                                                       *)

\* The packed streams there are for the folder at hand.
AtCall == stage = "header" /\ AtFolder /\ pi + folder.packs <= h.packed

\* A folder without a main stream has no size, and was refused before.
Decode ==
  /\ AtCall
  /\ \E cs \in FolderCoders(h) : G!Load(cs)
  /\ Len(graph'.packed_indices) = folder.packs
  /\ G!Unbound' # {}
  /\ Decoding

Calling == stage = "encoded" \/ AtCall

\* An encoded header is given what packed streams there are.
Begin == Calling /\ \E enough \in BOOLEAN :
           (AtCall => enough) /\ G!Begin(enough) /\ Decoding
Input      == Calling /\ G!Input /\ Decoding
CoderFails == Calling /\ G!CoderFails /\ Decoding
Return     == Calling /\ G!Return /\ Decoding

\* Without a digest in UnpackInfo nothing is found wrong.
Check == Calling /\ \E good \in BOOLEAN :
           (AtCall /\ ~folder.crc => good) /\ G!Check(good) /\ Decoding

Caught == {"SevenZError", "SevenZRefused", "raised"}

\* What the coders made of damaged streams is damaged, and passes where there
\* is no digest.
Decoded ==
  /\ AtCall /\ gpc = "done"
  /\ \E d \in BOOLEAN : FolderDecoded(d)
  /\ G!Leave /\ UNCHANGED <<stage, packed_header>>

Failed ==
  /\ AtCall /\ gpc \in Caught
  /\ FolderFails
  /\ G!Leave /\ UNCHANGED <<stage, packed_header>>

Crashed ==
  /\ AtCall /\ gpc = "crashed"
  /\ UncaughtError
  /\ G!Leave /\ UNCHANGED <<stage, packed_header>>

ReadHeader ==
  /\ stage = "header"
  /\ ReadSizes \/ ReadDigests \/ NoDigests \/ MissingPack \/ Attach \/ EndFolder \/ NoFolders
  /\ UNCHANGED <<stage, packed_header, coding>>

Coding == Begin \/ Input \/ CoderFails \/ Return \/ Check

ReadNext ==
  \/ Malformed \/ EmptyArchive \/ Plain \/ Withheld \/ Encoded \/ HeaderDecoded
  \/ Decode \/ Coding \/ Decoded \/ Failed \/ Crashed
  \/ ReadHeader

\* One thread runs on, inside decode_folder as elsewhere.
ReadSpec == Opened /\ [][ReadNext]_all /\ WF_all(Coding)

-----------------------------------------------------------------------------
(* Correctness.                                                            *)

\* decode_folder, wherever it is called, gives every coder its own inputs ...
Solved == G!Solved

\* ... and refuses no folder whose graph is sound.
SoundFoldersDecode == G!SoundFoldersDecode

\* Every decode_folder ends, also where a folder's coders feed each other.
DecodeEnds == gpc = "start" ~> gpc \in G!Ends
=============================================================================
