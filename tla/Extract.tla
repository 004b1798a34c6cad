------------------------------- MODULE Extract -------------------------------
(***************************************************************************)
(* One run of "novelrar extract": novelrar_cli.cmd_extract over several    *)
(* archives, unarchive.open_archive and its readers, the lanes and         *)
(* receipts of license_broker, and the audit of those receipts.            *)
(*                                                                         *)
(* What an archive holds is chosen while it is read.  A payload is "true"  *)
(* (what the archive's creator stored), "wrong", or absent; decoding       *)
(* itself and the file system below the destination are other modules      *)
(* (Lz4Frame, HostRun, SafeOutput), seen here by their results.            *)
(***************************************************************************)
EXTENDS Integers, Sequences, FiniteSets

CONSTANTS
  Name,         \* member names that stay below the destination
  BadName,      \* one that member_parts refuses
  Options,      \* options a command is given, and whether host_handoff has
                \* been imported: never in the command-line program
  MaxArchives,  \* bound: archives on the command line
  MaxMembers    \* bound: members of an archive

ASSUME NameAssumption == BadName \notin Name
ASSUME BoundAssumption == MaxArchives \in Nat /\ MaxMembers \in Nat
ASSUME OptionAssumption ==
  Options \subseteq [strict : BOOLEAN, password : BOOLEAN,
                     backend : {"builtin", "py7zr"}, handoff : BOOLEAN]

VARIABLES
  strict,    \* --strict
  password,  \* --password
  backend,   \* --backend: "builtin" or "py7zr"
  handoff,   \* license_broker.host_extract is host_handoff's
  pc,        \* "archive", "read", "write", "done" or "crashed"
  opened,    \* archives opened so far
  kind,      \* container of the archive at hand
  members,   \* arch.members
  at,        \* index of the member cmd_extract is at
  rc,        \* exit status so far
  disk,      \* name -> what the destination holds under it, or "free"
  receipts,  \* history: lanes of the receipts that are ok
  calls,     \* history: HOST calls, as [isolated, password]
  wrote,     \* history: members written
  skipped,   \* history: why members were skipped: "lane" or "other"
  aborted    \* history: an exception ended the run

options == <<strict, password, backend, handoff>>
vars == <<strict, password, backend, handoff, pc, opened, kind, members, at, rc,
          disk, receipts, calls, wrote, skipped, aborted>>

-----------------------------------------------------------------------------
(* Lanes and receipts.                                                     *)

Lane == {"STDLIB", "CLEANROOM", "HOST", "OPTIONAL", "REFUSED"}

Allowed == {"STDLIB", "CLEANROOM"}
             \cup (IF strict THEN {} ELSE {"HOST", "OPTIONAL"})

permits(lane) == lane \in Allowed

\* capability(): a codec that is not registered is refused by default.
LaneOf(registered, lane) == IF registered THEN lane ELSE "REFUSED"

\* license_broker.audit looks at the lane of a receipt, if the receipt is ok.
AuditedLane(m) == IF m.ok THEN {m.lane} ELSE {}

Violations == {lane \in receipts : ~permits(lane)}

-----------------------------------------------------------------------------
(* What the readers make of an entry: a Member and its Receipt.  "checked" *)
(* says that the entry has a CRC, which a payload has then passed.         *)

Member == [name : Name \cup {BadName}, dir : BOOLEAN,
           payload : {"none", "true", "wrong"}, error : BOOLEAN,
           lane : Lane, ok : BOOLEAN, checked : BOOLEAN]

Made(name, dir, payload, error, lane, ok, checked) ==
  [name |-> name, dir |-> dir, payload |-> payload, error |-> error,
   lane |-> lane, ok |-> ok, checked |-> checked]

Bad(name, dir, lane) == Made(name, dir, "none", TRUE, lane, FALSE, FALSE)

\* read_zip.  zipfile checks the CRC itself while it reads, so an entry is
\* read well or not at all, by whichever methods this CPython has.
ZipEntry == [enc : {"none", "weak", "strong"}, dir : BOOLEAN,
             registered : BOOLEAN, good : BOOLEAN]

ZipMember(name, e) ==
  LET lane == LaneOf(e.enc = "weak" \/ e.registered, "STDLIB")
  IN  CASE e.enc = "strong" \/ (e.enc = "weak" /\ ~password) ->
             Bad(name, e.dir, "REFUSED")
        [] e.enc # "strong" /\ (e.enc = "weak" => password) /\ e.dir ->
             Made(name, TRUE, "true", FALSE, "CLEANROOM", TRUE, TRUE)
        [] OTHER -> IF e.good THEN Made(name, FALSE, "true", FALSE, lane, TRUE, TRUE)
                    ELSE Bad(name, FALSE, LaneOf(e.registered, "STDLIB"))

\* read_7z.  Entries without a stream (empty files, directories) never get a
\* payload, nor do those of a folder that cannot be decoded or fail their CRC.
SevenzEntry == [stream : BOOLEAN, dir : BOOLEAN, crc : BOOLEAN,
                registered : BOOLEAN, data : {"true", "wrong", "none"}]

SevenzMember(name, e) ==
  LET lane == LaneOf(e.registered, "STDLIB")
  IN  CASE ~e.stream -> Made(name, e.dir, "none", FALSE, "CLEANROOM", FALSE, FALSE)
        [] e.stream /\ (e.data = "none" \/ (e.crc /\ e.data = "wrong")) ->
             Bad(name, FALSE, lane)
        [] OTHER -> Made(name, FALSE, e.data, FALSE, lane, TRUE, e.crc)

\* read_lz4: one member, named after the archive; inspect reports an error
\* and what it had decoded before it, which is dropped.
Lz4Entry == [whole : BOOLEAN, check : BOOLEAN, data : {"true", "wrong"}]

Lz4Member(name, e) ==
  IF ~e.whole \/ (e.check /\ e.data = "wrong") THEN Bad(name, FALSE, "CLEANROOM")
  ELSE Made(name, FALSE, e.data, FALSE, "CLEANROOM", TRUE, e.check)

\* read_rar, where no external extractor is involved.
RarEntry == [encrypted : BOOLEAN, split : BOOLEAN, dir : BOOLEAN, stored : BOOLEAN,
             crc : BOOLEAN, data : {"true", "wrong", "none"}]

InTree(e) == e.encrypted \/ e.stored \/ e.dir

RarMember(name, e) ==
  CASE e.encrypted -> Bad(name, e.dir, "REFUSED")
    [] ~e.encrypted /\ e.split -> Bad(name, e.dir, "CLEANROOM")
    [] ~e.encrypted /\ ~e.split /\ e.dir ->
         Made(name, TRUE, "true", FALSE, "CLEANROOM", TRUE, FALSE)
    [] OTHER -> IF e.data = "none" \/ (e.crc /\ e.data = "wrong")
                THEN Bad(name, FALSE, "CLEANROOM")
                ELSE Made(name, FALSE, e.data, FALSE, "CLEANROOM", TRUE, e.crc)

\* Faulty variant: the payload of a HOST tool is taken as it comes.
RarHostMemberUnchecked(name, e, got) ==
  IF got = "none" THEN Bad(name, FALSE, "HOST")
  ELSE Made(name, FALSE, got, FALSE, "HOST", TRUE, e.crc)

\* ... and where the payload came from one ("none" if it did not).  Even of a
\* member that is split over volumes, whose error is cleared.
RarHostMember(name, e, got) ==
  IF got = "none" \/ (e.crc /\ got = "wrong") THEN Bad(name, FALSE, "HOST")
  ELSE Made(name, FALSE, got, FALSE, "HOST", TRUE, e.crc)

-----------------------------------------------------------------------------

Init ==
  /\ \E o \in Options :
       /\ strict = o.strict /\ password = o.password
       /\ backend = o.backend /\ handoff = o.handoff
  /\ pc = "archive"
  /\ opened = 0
  /\ kind = "none"
  /\ members = <<>> /\ at = 1
  /\ rc = 0
  /\ disk = [n \in Name |-> "free"]
  /\ receipts = {} /\ calls = {} /\ wrote = {} /\ skipped = {}
  /\ aborted = FALSE

\* The run ends in main's handler (ValueError, OSError, RuntimeError) or, for
\* any other exception (zlib.error, struct.error, LZMAError), in a traceback.
Abort(end) ==
  /\ pc' = end
  /\ rc' = 1
  /\ aborted' = TRUE
  /\ UNCHANGED <<options, kind, members, at, disk, receipts, calls, wrote, skipped>>

\* A container whose members can be read; a refused or damaged container, an
\* encrypted header and an unknown kind leave only notes behind.
OpenArchive(k) ==
  /\ pc = "archive" /\ opened < MaxArchives
  /\ opened' = opened + 1
  /\ \/ /\ ~(k = "7z" /\ backend = "py7zr" /\ strict)
        /\ kind' = k
        /\ pc' = IF k = "other" THEN "write" ELSE "read"
        /\ members' = <<>> /\ at' = 1
        /\ rc' = IF k = "other" THEN 1 ELSE rc
        /\ UNCHANGED <<options, disk, receipts, calls, wrote, skipped, aborted>>
     \/ /\ k = "7z" /\ backend = "py7zr"
        /\ Abort("done")
     \/ /\ k = "7z" \/ k = "lz4"
        /\ Abort("crashed")

\* The file cannot be read at all.
Unreadable ==
  /\ pc = "archive" /\ opened < MaxArchives
  /\ opened' = opened + 1
  /\ Abort("done")

Add(m) ==
  /\ members' = Append(members, m)
  /\ receipts' = receipts \cup AuditedLane(m)
  /\ UNCHANGED <<options, pc, opened, kind, at, rc, disk, wrote, skipped, aborted>>

More(k) == pc = "read" /\ kind = k /\ Len(members) < MaxMembers

ReadZip(name, e) == More("zip") /\ Add(ZipMember(name, e)) /\ UNCHANGED calls

Read7z(name, e) ==
  /\ More("7z") /\ backend = "builtin"
  /\ Add(SevenzMember(name, e))
  /\ UNCHANGED calls

\* optional_sevenzip.read: every entry is whole and checked, no name twice and
\* none unsafe, or nothing is returned at all.
Py7zrReturns(name) == \A k \in 1..Len(members) : members[k].name # name

Py7zrMember(name) == Made(name, FALSE, "true", FALSE, "OPTIONAL", TRUE, TRUE)

ReadPy7zr(name) ==
  /\ More("7z") /\ backend = "py7zr"
  /\ Py7zrReturns(name)
  /\ Add(Py7zrMember(name))
  /\ UNCHANGED calls

ReadLz4(name, e) ==
  /\ More("lz4") /\ members = <<>>
  /\ Add(Lz4Member(name, e))
  /\ UNCHANGED calls

ReadRar(name, e) ==
  /\ More("rar") /\ InTree(e)
  /\ Add(RarMember(name, e))
  /\ UNCHANGED calls

\* A compressed member: LB.host_extract("rar", blob, name, policy), without the
\* password, through whichever host_extract is registered.
ReadRarHost(name, e, got) ==
  /\ More("rar") /\ ~InTree(e)
  /\ ~permits("HOST") => got = "none"
  /\ Add(RarHostMember(name, e, got))
  /\ calls' = IF permits("HOST")
              THEN calls \cup {[isolated |-> handoff, password |-> FALSE]}
              ELSE calls

\* Either host_extract lets an OSError through (writing the archive out, reading
\* the member), host_handoff's a ValueError, too (a file beyond 64 MiB).
HostRaises ==
  /\ More("rar") /\ permits("HOST")
  /\ Abort("done")
  /\ UNCHANGED opened

\* The reader returns; without members cmd_extract reports the notes.
EndRead ==
  /\ pc = "read"
  /\ kind = "lz4" => members # <<>>
  /\ pc' = "write"
  /\ rc' = IF members = <<>> THEN 1 ELSE rc
  /\ UNCHANGED <<options, opened, kind, members, at, disk, receipts, calls, wrote,
                 skipped, aborted>>

-----------------------------------------------------------------------------
(* The loop of cmd_extract over the members.                               *)

Current == members[at]
AtMember == pc = "write" /\ at <= Len(members)

\* Faulty variant: the lane is left to the audit.
WithheldLaneless(m) == m.payload = "none" \/ m.error \/ ~m.ok

\* What makes cmd_extract leave a member out.
Withheld(m) == \/ m.payload = "none" \/ ~permits(m.lane)
               \/ m.error \/ ~m.ok

Skip ==
  /\ rc' = 1
  /\ skipped' = skipped \cup
       {IF Current.payload # "none" /\ ~permits(Current.lane) THEN "lane" ELSE "other"}
  /\ UNCHANGED <<disk, wrote>>

Advance ==
  /\ at' = at + 1
  /\ UNCHANGED <<options, pc, opened, kind, members, receipts, calls, aborted>>

Withhold == AtMember /\ Withheld(Current) /\ Skip /\ Advance

\* write_member: an unsafe name, a name that is taken (a directory may be
\* there already), or a failing system call.
WriteRefused ==
  /\ AtMember /\ ~Withheld(Current)
  /\ Skip /\ Advance

WriteMember ==
  /\ AtMember /\ ~Withheld(Current)
  /\ Current.name \in Name
  /\ IF Current.dir THEN disk[Current.name] \in {"free", "dir"}
     ELSE disk[Current.name] = "free"
  /\ disk' = [disk EXCEPT ![Current.name] =
                IF Current.dir THEN "dir" ELSE Current.payload]
  /\ wrote' = wrote \cup {Current}
  /\ UNCHANGED <<rc, skipped>>
  /\ Advance

\* Faulty variant: the exit status is the last archive's.
NextArchiveForgets ==
  /\ pc = "write" /\ at > Len(members)
  /\ pc' = "archive"
  /\ members' = <<>> /\ at' = 1 /\ kind' = "none" /\ rc' = 0
  /\ UNCHANGED <<options, opened, disk, receipts, calls, wrote, skipped, aborted>>

NextArchive ==
  /\ pc = "write" /\ at > Len(members)
  /\ pc' = "archive"
  /\ members' = <<>> /\ at' = 1 /\ kind' = "none"
  /\ UNCHANGED <<options, opened, rc, disk, receipts, calls, wrote, skipped, aborted>>

Finish ==
  /\ pc = "archive" /\ opened > 0
  /\ pc' = "done"
  /\ UNCHANGED <<options, opened, kind, members, at, rc, disk, receipts, calls,
                 wrote, skipped, aborted>>

Next ==
  \/ \E k \in {"zip", "7z", "lz4", "rar", "other"} : OpenArchive(k)
  \/ Unreadable
  \/ \E name \in Name \cup {BadName} :
       \/ \E e \in ZipEntry : ReadZip(name, e)
       \/ \E e \in SevenzEntry : Read7z(name, e)
       \/ \E e \in Lz4Entry : ReadLz4(name, e)
       \/ \E e \in RarEntry : ReadRar(name, e)
       \/ \E e \in RarEntry, got \in {"true", "wrong", "none"} : ReadRarHost(name, e, got)
  \/ \E name \in Name : ReadPy7zr(name)
  \/ HostRaises \/ EndRead
  \/ Withhold \/ WriteRefused \/ WriteMember \/ NextArchive \/ Finish

Spec == Init /\ [][Next]_vars

-----------------------------------------------------------------------------
(* Correctness.                                                            *)

(* What "wrote" reported stays under its name whatever later members and   *)
(* archives are called, and a payload the archive holds a checksum of is   *)
(* on disk only as its creator stored it, whichever lane decoded it.       *)
WrittenIsVerified ==
  \A m \in wrote :
    /\ disk[m.name] = (IF m.dir THEN "dir" ELSE m.payload)
    /\ m.checked => m.payload = "true"

(* Exit status 0 means that every member the readers found in every        *)
(* archive was written: no skip and no failing archive is forgotten by the *)
(* archives that follow it.                                                *)
RcHonest ==
  pc \in {"done", "crashed"} /\ rc = 0 => skipped = {} /\ ~aborted

(* The policy is kept along the whole path: nothing written comes from a   *)
(* lane it bars or is what license_broker.audit would report, and --strict *)
(* starts no program.  What audit reports in the end, going by the receipts,*)
(* is what cmd_extract, going by the members, held back for their lane.    *)
PolicyKept ==
  /\ \A m \in wrote : permits(m.lane) /\ AuditedLane(m) \cap Violations = {}
  /\ strict => calls = {}
  /\ pc = "done" /\ ~aborted => (Violations # {} <=> "lane" \in skipped)

(* Claimed: "Production handoff is src/host_handoff.py, which calls        *)
(* host_isolate.run" (docs/FOLLOWUP.md:8), and "password is forwarded when *)
(* supplied" (:19).                                                        *)
HandoffKept == \A c \in calls : c.isolated /\ (password => c.password)
=============================================================================
