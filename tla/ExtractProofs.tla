----------------------------- MODULE ExtractProofs -----------------------------
(***************************************************************************)
(* Proofs about an extraction and the processes it starts.                 *)
(* Extract, for any member names, any options and any number of archives   *)
(* and members: what is on disk was verified, exit status 0 hides nothing, *)
(* and the policy is kept.  HostRun, for any files: no fragment is handed  *)
(* over and isolation only descends.                                       *)
(***************************************************************************)
EXTENDS Extract, HostRun, TLAPS

-------------------------------------------------------------------------------
(* The inductive invariant.                                                *)

\* What the readers hand over: a member with a payload and nothing else is
\* receipted as ok, and one whose checksum passed is as it was stored.
Sound == {m \in Member : /\ m.ok <=> m.payload # "none"
                         /\ m.checked => m.payload = "true"}

MembersInv ==
  /\ members \in Seq(Sound)
  /\ at \in Nat \ {0} /\ at <= Len(members) + 1
  /\ pc = "archive" \/ (pc = "done" /\ ~aborted) => members = <<>>

\* Whatever was written is still there, under a name of its own.
DiskInv ==
  /\ disk = [n \in Name |-> disk[n]]
  /\ \A m \in wrote : /\ m \in Sound /\ m.name \in Name /\ permits(m.lane)
                      /\ disk[m.name] = IF m.dir THEN "dir" ELSE m.payload

RcInv == skipped # {} \/ aborted => rc = 1

\* The members at hand that cmd_extract has still to hold back for their lane.
Pending == \E j \in at..Len(members) : members[j].ok /\ ~permits(members[j].lane)

LaneInv ==
  /\ \A j \in 1..Len(members) : members[j].ok => members[j].lane \in receipts
  /\ "lane" \in skipped => Violations # {}
  /\ Violations # {} => "lane" \in skipped \/ Pending

CallsInv == strict => calls = {}

IInv == MembersInv /\ DiskInv /\ RcInv /\ LaneInv /\ CallsInv

\* The policy never changes.
LEMMA SamePolicy ==
  ASSUME UNCHANGED options
  PROVE  \A lane : permits(lane)' <=> permits(lane)
  BY DEF options, permits, Allowed

-------------------------------------------------------------------------------
(* The readers.                                                            *)

\* Every member that a reader makes is sound.
LEMMA MadeSound ==
  ASSUME NEW name \in Name \cup {BadName}
  PROVE  /\ \A e \in ZipEntry : ZipMember(name, e) \in Sound
         /\ \A e \in SevenzEntry : SevenzMember(name, e) \in Sound
         /\ \A e \in Lz4Entry : Lz4Member(name, e) \in Sound
         /\ \A e \in RarEntry : RarMember(name, e) \in Sound
         /\ \A e \in RarEntry, got \in {"true", "wrong", "none"} :
              RarHostMember(name, e, got) \in Sound
         /\ Py7zrMember(name) \in Sound
  <1> USE DEF Sound, Member, Lane, Made, Bad, LaneOf
  <1>1. ASSUME NEW e \in ZipEntry PROVE ZipMember(name, e) \in Sound
    BY DEF ZipEntry, ZipMember
  <1>2. ASSUME NEW e \in SevenzEntry PROVE SevenzMember(name, e) \in Sound
    BY DEF SevenzEntry, SevenzMember
  <1>3. ASSUME NEW e \in Lz4Entry PROVE Lz4Member(name, e) \in Sound
    BY DEF Lz4Entry, Lz4Member
  <1>4. ASSUME NEW e \in RarEntry PROVE RarMember(name, e) \in Sound
    BY DEF RarEntry, RarMember
  <1>5. ASSUME NEW e \in RarEntry, NEW got \in {"true", "wrong", "none"}
        PROVE  RarHostMember(name, e, got) \in Sound
    BY DEF RarEntry, RarHostMember
  <1>6. Py7zrMember(name) \in Sound
    BY DEF Py7zrMember
  <1> QED
    BY <1>1, <1>2, <1>3, <1>4, <1>5, <1>6

\* Adding a sound member while reading.
LEMMA AddStep ==
  ASSUME IInv, NEW m \in Sound, pc = "read", Add(m), CallsInv'
  PROVE  IInv'
  <1> USE DEF IInv
  <1>1. /\ members' = Append(members, m) /\ receipts' = receipts \cup AuditedLane(m)
        /\ UNCHANGED <<options, pc, at, rc, disk, wrote, skipped, aborted>>
    BY DEF Add
  <1>2. \A lane : permits(lane)' <=> permits(lane)
    BY <1>1, SamePolicy
  <1>3. MembersInv'
    BY <1>1 DEF MembersInv
  <1>4. DiskInv' /\ RcInv'
    BY <1>1, <1>2 DEF DiskInv, RcInv
  <1>5. /\ Len(members') = Len(members) + 1
        /\ \A j \in 1..Len(members) : members'[j] = members[j]
        /\ members'[Len(members) + 1] = m
    BY <1>1 DEF MembersInv
  <1>6. \A j \in 1..Len(members') : members'[j].ok => members'[j].lane \in receipts'
    BY <1>1, <1>5 DEF LaneInv, AuditedLane, MembersInv
  <1>7. Violations \subseteq Violations'
    BY <1>1, <1>2 DEF Violations
  <1>8. ASSUME Violations' # {}, "lane" \notin skipped
        PROVE  Pending'
    <2>1. CASE Violations # {}
      <3>1. PICK j \in at..Len(members) : members[j].ok /\ ~permits(members[j].lane)
        BY <1>8, <2>1 DEF LaneInv, Pending
      <3> QED
        BY <1>1, <1>2, <1>5, <3>1 DEF Pending, MembersInv
    <2>2. CASE Violations = {}
      <3>1. m.ok /\ ~permits(m.lane)
        BY <1>1, <1>2, <1>8, <2>2 DEF Violations, AuditedLane
      <3>2. Len(members) + 1 \in at'..Len(members')
        BY <1>1, <1>5 DEF MembersInv
      <3> QED
        BY <1>2, <1>5, <3>1, <3>2 DEF Pending
    <2> QED
      BY <2>1, <2>2
  <1>9. LaneInv'
    BY <1>1, <1>6, <1>7, <1>8 DEF LaneInv
  <1> QED
    BY <1>3, <1>4, <1>9

LEMMA ReadStep ==
  ASSUME IInv, NEW name \in Name \cup {BadName},
         \/ \E e \in ZipEntry : ReadZip(name, e)
         \/ \E e \in SevenzEntry : Read7z(name, e)
         \/ \E e \in Lz4Entry : ReadLz4(name, e)
         \/ \E e \in RarEntry : ReadRar(name, e)
         \/ \E e \in RarEntry, got \in {"true", "wrong", "none"} : ReadRarHost(name, e, got)
         \/ ReadPy7zr(name)
  PROVE  IInv'
  <1>1. PICK m \in Sound : Add(m)
    BY MadeSound DEF ReadZip, Read7z, ReadLz4, ReadRar, ReadRarHost, ReadPy7zr
  <1>2. pc = "read"
    BY DEF ReadZip, Read7z, ReadLz4, ReadRar, ReadRarHost, ReadPy7zr, More
  <1>3. UNCHANGED options
    BY <1>1 DEF Add
  <1>4. strict' = strict
    BY <1>3 DEF options
  <1>5. strict => ~permits("HOST")
    BY DEF permits, Allowed
  <1>6. strict => UNCHANGED calls
    BY <1>5 DEF ReadZip, Read7z, ReadLz4, ReadRar, ReadRarHost, ReadPy7zr
  <1>7. CallsInv'
    BY <1>4, <1>6 DEF IInv, CallsInv
  <1> QED
    BY <1>1, <1>2, <1>7, AddStep

-------------------------------------------------------------------------------
(* Steps that touch no member: the archives' beginnings and ends.          *)

\* What is written, held back and receipted stays, and members are either
\* kept or, none being left to do, dropped.
LEMMA CalmStep ==
  ASSUME IInv, UNCHANGED <<options, disk, receipts, calls, wrote, skipped>>,
         \/ UNCHANGED <<members, at>>
         \/ ~Pending /\ members' = <<>> /\ at' = 1,
         pc' = "archive" \/ (pc' = "done" /\ ~aborted') => members' = <<>>,
         RcInv'
  PROVE  IInv'
  <1> USE DEF IInv
  <1>1. \A lane : permits(lane)' <=> permits(lane)
    BY SamePolicy
  <1>2. MembersInv'
    <2>1. /\ members' \in Seq(Sound) /\ at' \in Nat \ {0} /\ at' <= Len(members') + 1
      <3>1. CASE UNCHANGED <<members, at>>
        BY <3>1 DEF MembersInv
      <3>2. CASE members' = <<>> /\ at' = 1
        BY <3>2
      <3> QED
        BY <3>1, <3>2
    <2> QED
      BY <2>1 DEF MembersInv
  <1>3. DiskInv'
    BY <1>1 DEF DiskInv
  <1>4. Violations' = Violations
    BY <1>1 DEF Violations
  <1>5. LaneInv'
    <2>1. CASE UNCHANGED <<members, at>>
      <3>1. Pending' <=> Pending
        BY <1>1, <2>1 DEF Pending
      <3> QED
        BY <1>4, <2>1, <3>1 DEF LaneInv
    <2>2. CASE ~Pending /\ members' = <<>> /\ at' = 1
      BY <1>4, <2>2 DEF LaneInv
    <2> QED
      BY <2>1, <2>2
  <1>6. CallsInv'
    BY DEF CallsInv, options
  <1> QED
    BY <1>2, <1>3, <1>5, <1>6

LEMMA AbortStep ==
  ASSUME IInv, NEW end \in {"done", "crashed"}, Abort(end)
  PROVE  IInv'
  <1>1. RcInv'
    BY DEF Abort, RcInv
  <1>2. pc' # "archive" /\ aborted' /\ UNCHANGED <<options, members, at, disk, receipts, calls, wrote, skipped>>
    BY DEF Abort
  <1>3. pc' = "archive" \/ (pc' = "done" /\ ~aborted') => members' = <<>>
    BY <1>2
  <1> QED
    BY <1>1, <1>2, <1>3, CalmStep

LEMMA OpenStep ==
  ASSUME IInv, NEW kd, OpenArchive(kd) \/ Unreadable
  PROVE  IInv'
  <1>1. CASE \E end \in {"done", "crashed"} : Abort(end)
    BY <1>1, AbortStep
  <1>2. CASE /\ pc = "archive" /\ pc' \in {"read", "write"}
             /\ members' = <<>> /\ at' = 1 /\ rc' \in {1, rc}
             /\ UNCHANGED <<options, disk, receipts, calls, wrote, skipped, aborted>>
    <2>1. ~Pending
      BY <1>2 DEF IInv, MembersInv, Pending
    <2>2. RcInv'
      BY <1>2 DEF IInv, RcInv
    <2>3. ~(pc' = "archive" \/ (pc' = "done" /\ ~aborted'))
      BY <1>2
    <2> QED
      BY <1>2, <2>1, <2>2, <2>3, CalmStep
  <1> QED
    BY <1>1, <1>2 DEF OpenArchive, Unreadable

LEMMA EndReadStep ==
  ASSUME IInv, EndRead
  PROVE  IInv'
  <1>1. /\ UNCHANGED <<options, members, at, disk, receipts, calls, wrote, skipped, aborted>>
        /\ pc' = "write" /\ rc' \in {1, rc}
    BY DEF EndRead
  <1>2. RcInv'
    BY <1>1 DEF IInv, RcInv
  <1> QED
    BY <1>1, <1>2, CalmStep

LEMMA NextArchiveStep ==
  ASSUME IInv, NextArchive
  PROVE  IInv'
  <1>1. /\ members' = <<>> /\ at' = 1 /\ at > Len(members)
        /\ UNCHANGED <<options, rc, disk, receipts, calls, wrote, skipped, aborted>>
    BY DEF NextArchive
  <1>2. ~Pending
    BY <1>1 DEF IInv, MembersInv, Pending
  <1>3. RcInv'
    BY <1>1 DEF IInv, RcInv
  <1> QED
    BY <1>1, <1>2, <1>3, CalmStep

LEMMA FinishStep ==
  ASSUME IInv, Finish
  PROVE  IInv'
  <1>1. /\ pc = "archive"
        /\ UNCHANGED <<options, members, at, rc, disk, receipts, calls, wrote, skipped, aborted>>
    BY DEF Finish
  <1>2. members' = <<>>
    BY <1>1 DEF IInv, MembersInv
  <1>3. RcInv'
    BY <1>1 DEF IInv, RcInv
  <1> QED
    BY <1>1, <1>2, <1>3, CalmStep

-------------------------------------------------------------------------------
(* The loop over the members.                                              *)

\* A member held back: the lane is noted exactly if it is what bars it.
LEMMA SkipStep ==
  ASSUME IInv, AtMember, Skip, Advance
  PROVE  IInv'
  <1> USE DEF IInv
  <1>1. /\ pc = "write" /\ at \in 1..Len(members)
        /\ rc' = 1 /\ at' = at + 1
        /\ UNCHANGED <<options, pc, members, disk, receipts, calls, wrote, aborted>>
    BY DEF AtMember, Skip, Advance, MembersInv
  <1>2. \A lane : permits(lane)' <=> permits(lane)
    BY <1>1, SamePolicy
  <1>3. Current \in Sound
    BY <1>1 DEF MembersInv, Current
  <1>4. Violations' = Violations
    BY <1>1, <1>2 DEF Violations
  <1>5. MembersInv' /\ DiskInv' /\ CallsInv' /\ RcInv'
    BY <1>1, <1>2 DEF MembersInv, DiskInv, CallsInv, RcInv, options
  <1>6. CASE Current.ok /\ ~permits(Current.lane)
    <2>1. "lane" \in skipped'
      BY <1>3, <1>6 DEF Skip, Sound
    <2>2. Violations # {}
      BY <1>1, <1>6 DEF LaneInv, Violations, Current
    <2> QED
      BY <1>1, <1>4, <1>5, <2>1, <2>2 DEF LaneInv
  <1>7. CASE ~(Current.ok /\ ~permits(Current.lane))
    <2>1. "lane" \in skipped' <=> "lane" \in skipped
      BY <1>3, <1>7 DEF Skip, Sound
    <2>2. Pending => Pending'
      BY <1>1, <1>2, <1>7 DEF Pending, Current, MembersInv
    <2> QED
      BY <1>1, <1>4, <1>5, <2>1, <2>2 DEF LaneInv
  <1> QED
    BY <1>6, <1>7

\* A member written: its name was free, or a directory before and after.
LEMMA WriteStep ==
  ASSUME IInv, WriteMember
  PROVE  IInv'
  <1> USE DEF IInv
  <1>1. /\ pc = "write" /\ at \in 1..Len(members) /\ at' = at + 1
        /\ UNCHANGED <<options, pc, members, receipts, calls, aborted, rc, skipped>>
    BY DEF WriteMember, AtMember, Advance, MembersInv
  <1>2. \A lane : permits(lane)' <=> permits(lane)
    BY <1>1, SamePolicy
  <1>3. Current \in Sound
    BY <1>1 DEF MembersInv, Current
  <1>4. permits(Current.lane) /\ Current.name \in Name /\ wrote' = wrote \cup {Current}
    BY DEF WriteMember, Withheld
  <1>5. MembersInv' /\ CallsInv' /\ RcInv'
    BY <1>1 DEF MembersInv, CallsInv, RcInv, options
  <1>6. DiskInv'
    <2> DEFINE now == IF Current.dir THEN "dir" ELSE Current.payload
    <2>1. disk' = [disk EXCEPT ![Current.name] = now]
      BY DEF WriteMember
    <2>2. /\ disk'[Current.name] = now
          /\ \A n \in Name \ {Current.name} : disk'[n] = disk[n]
          /\ disk' = [n \in Name |-> disk'[n]]
      BY <1>4, <2>1 DEF DiskInv
    <2>3. disk[Current.name] = "free" \/ (Current.dir /\ disk[Current.name] = "dir")
      BY DEF WriteMember
    <2>4. ASSUME NEW m \in wrote
          PROVE  disk'[m.name] = IF m.dir THEN "dir" ELSE m.payload
      <3>1. /\ m.name \in Name /\ m.payload \in {"none", "true", "wrong"}
            /\ disk[m.name] = IF m.dir THEN "dir" ELSE m.payload
        BY <2>4 DEF DiskInv, Sound, Member
      <3> QED
        BY <2>2, <2>3, <3>1
    <2>5. \A m \in wrote' : /\ m \in Sound /\ m.name \in Name /\ permits(m.lane)
                            /\ disk'[m.name] = IF m.dir THEN "dir" ELSE m.payload
      BY <1>3, <1>4, <2>2, <2>4 DEF DiskInv
    <2> QED
      BY <1>2, <2>2, <2>5 DEF DiskInv
  <1>7. LaneInv'
    <2>1. Violations' = Violations
      BY <1>1, <1>2 DEF Violations
    <2>2. Pending => Pending'
      BY <1>1, <1>2, <1>4 DEF Pending, Current, MembersInv
    <2> QED
      BY <1>1, <2>1, <2>2 DEF LaneInv
  <1> QED
    BY <1>5, <1>6, <1>7

-------------------------------------------------------------------------------
(* The theorems.                                                           *)

\* The inductive invariant holds in every reachable state.
THEOREM Invariance == Spec => []IInv
  <1>1. Init => IInv
    <2> SUFFICES ASSUME Init PROVE IInv
      OBVIOUS
    <2>1. /\ members = <<>> /\ at = 1 /\ pc = "archive" /\ disk = [n \in Name |-> "free"]
          /\ receipts = {} /\ calls = {} /\ wrote = {} /\ skipped = {} /\ aborted = FALSE
      BY DEF Init
    <2>2. Violations = {}
      BY <2>1 DEF Violations
    <2>3. MembersInv
      BY <2>1 DEF MembersInv
    <2>4. DiskInv /\ RcInv /\ CallsInv
      BY <2>1 DEF DiskInv, RcInv, CallsInv
    <2>5. LaneInv
      BY <2>1, <2>2 DEF LaneInv
    <2> QED
      BY <2>3, <2>4, <2>5 DEF IInv
  <1>2. IInv /\ [Next]_vars => IInv'
    <2> SUFFICES ASSUME IInv, [Next]_vars PROVE IInv'
      OBVIOUS
    <2>1. CASE \E k \in {"zip", "7z", "lz4", "rar", "other"} : OpenArchive(k)
      BY <2>1, OpenStep
    <2>2. CASE Unreadable
      BY <2>2, OpenStep
    <2>3. CASE \E name \in Name \cup {BadName} :
                 \/ \E e \in ZipEntry : ReadZip(name, e)
                 \/ \E e \in SevenzEntry : Read7z(name, e)
                 \/ \E e \in Lz4Entry : ReadLz4(name, e)
                 \/ \E e \in RarEntry : ReadRar(name, e)
                 \/ \E e \in RarEntry, got \in {"true", "wrong", "none"} :
                      ReadRarHost(name, e, got)
      BY <2>3, ReadStep
    <2>4. CASE \E name \in Name : ReadPy7zr(name)
      BY <2>4, ReadStep
    <2>5. CASE HostRaises
      <3>1. Abort("done")
        BY <2>5 DEF HostRaises
      <3> QED
        BY <3>1, AbortStep
    <2>6. CASE EndRead \/ NextArchive \/ Finish
      BY <2>6, EndReadStep, NextArchiveStep, FinishStep
    <2>7. CASE Withhold \/ WriteRefused
      BY <2>7, SkipStep DEF Withhold, WriteRefused
    <2>8. CASE WriteMember
      BY <2>8, WriteStep
    <2>9. CASE UNCHANGED vars
      <3>1. UNCHANGED <<options, members, at, disk, receipts, calls, wrote, skipped, rc, pc, aborted>>
        BY <2>9 DEF vars, options
      <3>2. RcInv' /\ (pc' = "archive" \/ (pc' = "done" /\ ~aborted') => members' = <<>>)
        BY <3>1 DEF IInv, RcInv, MembersInv
      <3> QED
        BY <3>1, <3>2, CalmStep
    <2> QED
      BY <2>1, <2>2, <2>3, <2>4, <2>5, <2>6, <2>7, <2>8, <2>9 DEF Next
  <1> QED
    BY <1>1, <1>2, PTL DEF Spec

\* A payload with a checksum is on disk only as it was stored, and what was
\* written stays under its name (cmd_extract and the readers' checks).
THEOREM OnlyVerified == Spec => []WrittenIsVerified
  <1>1. IInv => WrittenIsVerified
    BY DEF IInv, DiskInv, Sound, WrittenIsVerified
  <1> QED
    BY <1>1, Invariance, PTL

\* Exit status 0 hides no skipped member and no failed archive (rc in
\* cmd_extract).
THEOREM HonestStatus == Spec => []RcHonest
  <1>1. IInv => RcHonest
    BY DEF IInv, RcInv, RcHonest
  <1> QED
    BY <1>1, Invariance, PTL

\* Nothing barred is written, --strict starts no program, and the audit of the
\* receipts finds a violation exactly if a member was held back for its lane.
THEOREM PolicyHolds == Spec => []PolicyKept
  <1>1. IInv => PolicyKept
    <2> SUFFICES ASSUME IInv PROVE PolicyKept
      OBVIOUS
    <2>1. \A m \in wrote : permits(m.lane) /\ AuditedLane(m) \cap Violations = {}
      BY DEF IInv, DiskInv, AuditedLane, Violations
    <2>2. pc = "done" /\ ~aborted => ~Pending
      BY DEF IInv, MembersInv, Pending
    <2> QED
      BY <2>1, <2>2 DEF IInv, CallsInv, LaneInv, PolicyKept
  <1> QED
    BY <1>1, Invariance, PTL

-------------------------------------------------------------------------------
(* HostRun, for any set of files.  What makes its proofs work is that      *)
(* until an attempt is accepted nothing is handed over and no extractor    *)
(* has ended, that the directory is empty until an attempt was killed, so  *)
(* that one that succeeds leaves no fragment unless it may keep an older   *)
(* one, and that the ladder only ever descends.                            *)

WorldOK ==
  /\ caller \in {"extract", "extract_all", "broker"}
  /\ unshare \in BOOLEAN
  /\ produces \in SUBSET File

\* Only what the extractor produces is ever in the directory, nothing before
\* an attempt was killed, and after a success no fragment that none has kept.
DestOK ==
  /\ \A f \in File \ produces : dest[f] = "none"
  /\ phase \in {"check", "attempt"} /\ ~ran.killed => \A f \in File : dest[f] = "none"
  /\ phase \in {"check", "attempt"} /\ ran.killed => try > 1
  /\ phase = "ended" /\ status = 0 => \A f \in File : dest[f] = "partial" => FragmentKept
  /\ phase = "ended" /\ status = 0 => \A f \in produces : dest[f] # "none"

\* Nothing has been accepted yet.
HostPending ==
  /\ phase \in {"check", "attempt"} => ran.answers = 0
  /\ phase = "check" => try = 1 /\ ran.ns = All
  /\ phase # "returned" => result.files = Nothing

\* The attempts that are left ask for no more namespaces than any start had.
LadderBelow ==
  phase \in {"check", "attempt"} =>
    \A k \in 1..Len(Ladder) : k >= try => Ladder[k].ns \subseteq ran.ns

HostInv == TypeOK /\ WorldOK /\ DestOK /\ HostPending /\ LadderBelow
           /\ WholeOrNothing /\ SubstituteOnly

-----------------------------------------------------------------------------
(* The ladder.                                                             *)

(* Its length.                                                             *)
LEMMA LadderLength ==
  ASSUME WorldOK
  PROVE  Len(Ladder) = IF caller = "broker" THEN 1 ELSE IF unshare THEN 16 ELSE 4
  <1>1. CASE caller = "broker"
    BY <1>1 DEF Ladder
  <1>2. CASE caller # "broker" /\ unshare
    <2>1. Len(Prefixes) = 4
      BY <1>2 DEF Prefixes
    <2> QED
      BY <1>2, <2>1 DEF Ladder
  <1>3. CASE caller # "broker" /\ ~unshare
    <2>1. Len(Prefixes) = 1
      BY <1>3 DEF Prefixes
    <2> QED
      BY <1>3, <2>1 DEF Ladder
  <1> QED
    BY <1>1, <1>2, <1>3 DEF WorldOK

(* The namespaces of the attempts: each asks for at most those of the one  *)
(* before, and only the last four of sixteen for none.                     *)
LEMMA LadderDescends ==
  ASSUME WorldOK
  PROVE  /\ \A k \in 1..Len(Ladder) : Ladder[k].ns \in SUBSET All
         /\ \A j, k \in 1..Len(Ladder) : j <= k => Ladder[k].ns \subseteq Ladder[j].ns
         /\ \A k \in 1..Len(Ladder) :
              unshare /\ caller # "broker" /\ Ladder[k].ns = {} => k > 12
  <1>1. CASE caller = "broker"
    <2>1. Len(Ladder) = 1 /\ Ladder[1].ns = {}
      BY <1>1 DEF Ladder
    <2> QED
      BY <1>1, <2>1
  <1>2. CASE caller # "broker" /\ unshare
    <2>1. \A k \in 1..16 : Ladder[k].ns = Prefixes[((k - 1) \div 4) + 1]
      BY <1>2, LadderLength DEF Ladder, Prefixes
    <2>2. /\ Prefixes[1] = All /\ Prefixes[2] = {"user", "net"}
          /\ Prefixes[3] = {"user"} /\ Prefixes[4] = {}
      BY <1>2 DEF Prefixes
    <2>3. \A k \in 1..16 : /\ ((k - 1) \div 4) + 1 \in 1..4
                           /\ ((k - 1) \div 4) + 1 = 4 => k > 12
      OBVIOUS
    <2>4. \A j, k \in 1..16 : j <= k => (j - 1) \div 4 <= (k - 1) \div 4
      OBVIOUS
    <2>5. \A p \in 1..4 : Prefixes[p] \in SUBSET All /\ (Prefixes[p] = {} => p = 4)
      BY <2>2 DEF All
    <2>6. \A p, q \in 1..4 : p <= q => Prefixes[q] \subseteq Prefixes[p]
      BY <2>2 DEF All
    <2>7. Len(Ladder) = 16
      BY <1>2, LadderLength
    <2>8. \A k \in 1..16 : Ladder[k].ns \in SUBSET All /\ (Ladder[k].ns = {} => k > 12)
      BY <2>1, <2>3, <2>5
    <2>9. \A j, k \in 1..16 : j <= k => Ladder[k].ns \subseteq Ladder[j].ns
      <3> SUFFICES ASSUME NEW j \in 1..16, NEW k \in 1..16, j <= k
                   PROVE  Ladder[k].ns \subseteq Ladder[j].ns
        OBVIOUS
      <3>1. ((j - 1) \div 4) + 1 <= ((k - 1) \div 4) + 1
        BY <2>4, <2>3
      <3> HIDE DEF All
      <3> QED
        BY <2>1, <2>3, <2>6, <3>1
    <2> QED
      BY <2>7, <2>8, <2>9
  <1>3. CASE caller # "broker" /\ ~unshare
    <2>1. \A k \in 1..4 : Ladder[k].ns = {}
      BY <1>3 DEF Ladder, Prefixes
    <2> QED
      BY <1>3, <2>1, LadderLength
  <1> QED
    BY <1>1, <1>2, <1>3 DEF WorldOK

(* The ladder is the same throughout a call.                               *)
LEMMA WorldStays ==
  ASSUME UNCHANGED world
  PROVE  /\ Ladder' = Ladder /\ (WorldOK => WorldOK')
         /\ unshare' = unshare /\ caller' = caller /\ produces' = produces /\ tool' = tool
  BY DEF world, Ladder, Prefixes, WorldOK

-----------------------------------------------------------------------------
(* The invariant.                                                          *)

LEMMA HostInitInv == HostInit => HostInv
  <1> SUFFICES ASSUME HostInit PROVE HostInv
    OBVIOUS
  <1> USE DEF HostInit
  <1>1. WorldOK
    BY DEF WorldOK
  <1>2. Len(Ladder) \in Nat
    BY <1>1, LadderLength
  <1>3. TypeOK
    BY <1>2 DEF TypeOK, Nothing, All, Unset
  <1>4. DestOK
    BY DEF DestOK
  <1>5. HostPending
    BY DEF HostPending
  <1>6. LadderBelow
    BY <1>1, LadderDescends DEF LadderBelow
  <1>7. WholeOrNothing /\ SubstituteOnly
    BY DEF WholeOrNothing, SubstituteOnly, Nothing
  <1> QED
    BY <1>1, <1>3, <1>4, <1>5, <1>6, <1>7 DEF HostInv

(* An attempt in which an extractor runs, if only for a while.             *)
LEMMA StartFacts ==
  ASSUME HostInv, phase = "attempt", try <= Len(Ladder), NEW n \in 0..1, Started(n)
  PROVE  /\ ran' \in [started : BOOLEAN, ns : SUBSET All, answers : 0..1, killed : BOOLEAN]
         /\ ran'.ns = Ladder[try].ns /\ ran'.answers = n
         /\ ran'.killed <=> ran.killed \/ n = 0
         /\ ran'.ns \subseteq ran.ns
  <1>1. try \in 1..Len(Ladder) /\ Ladder[try].ns \in SUBSET All
    BY LadderLength, LadderDescends DEF HostInv, TypeOK, WorldOK
  <1>2. ran' = [started |-> TRUE, ns |-> Ladder[try].ns, answers |-> ran.answers + n,
                killed |-> ran.killed \/ n = 0]
    BY DEF Started
  <1>3. ran.answers = 0 /\ Ladder[try].ns \subseteq ran.ns
    BY <1>1 DEF HostInv, HostPending, LadderBelow
  <1>4. ran'.killed \in BOOLEAN /\ (ran'.killed <=> ran.killed \/ n = 0)
    BY <1>2
  <1> QED
    BY <1>1, <1>2, <1>3, <1>4

(* Where nothing is handed over there is nothing to go wrong.              *)
LEMMA NothingFacts == DOMAIN Nothing = {}
  BY DEF Nothing

(* What a call returns.                                                    *)
LEMMA ReturnFacts ==
  ASSUME NEW files, NEW why, Return(files, why)
  PROVE  phase' = "returned" /\ result'.files = files /\ result'.why = why
  BY DEF Return

(* The environment's habits do not change.                                 *)
LEMMA NextWorld ==
  ASSUME HostInv, HostNext
  PROVE  /\ UNCHANGED <<caller, unshare, produces, tool>> /\ Ladder' = Ladder
         /\ WorldOK' /\ Len(Ladder) \in Nat
  <1>1. UNCHANGED world
    BY DEF HostNext, Check, CannotStart, UnshareRefused, TimesOut, ExtractorFails,
           ExtractorSucceeds, Exhausted, ReportStatus, Pick, PickAll, TooLarge
  <1> QED
    BY <1>1, WorldStays, LadderLength DEF HostInv, world

(* Every step keeps the types.                                             *)
LEMMA NextTypes == HostInv /\ HostNext => TypeOK'
  <1> SUFFICES ASSUME HostInv, HostNext PROVE TypeOK'
    OBVIOUS
  <1> USE NextWorld DEF HostInv, TypeOK
  <1>1. CASE Check
    <2>1. UNCHANGED <<try, dest, ran, status>> /\ phase' \in {"attempt", "returned"}
      BY <1>1 DEF Check, Return
    <2>2. result' = result \/ result'.files = Nothing
      BY <1>1, ReturnFacts DEF Check
    <2> QED
      BY <2>1, <2>2, NothingFacts
  <1>2. CASE CannotStart
    BY <1>2 DEF CannotStart, Raised
  <1>3. CASE UnshareRefused
    BY <1>3 DEF UnshareRefused, Ended
  <1>4. CASE TimesOut
    BY <1>4, StartFacts DEF TimesOut, Raised, Halfway
  <1>5. CASE ExtractorFails
    BY <1>5, StartFacts DEF ExtractorFails, Ended, Halfway
  <1>6. CASE ExtractorSucceeds
    BY <1>6, StartFacts DEF ExtractorSucceeds, Ended
  <1>7. CASE Exhausted
    BY <1>7 DEF Exhausted, Return, Nothing
  <1>8. CASE ReportStatus
    BY <1>8 DEF ReportStatus, Return, Nothing
  <1>9. CASE Pick
    <2>1. UNCHANGED <<try, dest, ran, status>> /\ phase' = "returned"
      BY <1>9 DEF Pick, Return
    <2>2. \/ result'.files = Nothing
          \/ \E fs \in SUBSET File : result'.files = Take(fs)
      <3>1. CASE Return(Nothing, "symlink") \/ Return(Nothing, "not produced")
        BY <3>1, ReturnFacts
      <3>2. CASE Return(Take({Asked}), "rc=0")
        BY <3>2, ReturnFacts, AskedAssumption
      <3>3. CASE Return(Take(Regular), "rc=0")
        BY <3>3, ReturnFacts DEF Regular
      <3> QED
        BY <1>9, <3>1, <3>2, <3>3 DEF Pick
    <2> QED
      BY <2>1, <2>2, NothingFacts DEF Take
  <1>10. CASE PickAll
    BY <1>10 DEF PickAll, Return, Take, Regular
  <1>11. CASE TooLarge
    BY <1>11 DEF TooLarge, Return, Nothing
  <1> QED
    BY <1>1, <1>2, <1>3, <1>4, <1>5, <1>6, <1>7, <1>8, <1>9, <1>10, <1>11 DEF HostNext

(* Of the directory: a fragment is left only by an attempt that timed out  *)
(* or did not end with status 0.                                           *)
LEMMA NextDest == HostInv /\ HostNext => DestOK'
  <1> SUFFICES ASSUME HostInv, HostNext PROVE DestOK'
    OBVIOUS
  <1> USE NextWorld DEF HostInv, TypeOK, DestOK, FragmentKept
  <1>1. CASE Check
    BY <1>1 DEF Check, Return
  <1>2. CASE CannotStart
    BY <1>2 DEF CannotStart, Raised
  <1>3. CASE UnshareRefused
    BY <1>3 DEF UnshareRefused, Ended
  <1>4. CASE TimesOut
    <2>1. ran'.killed /\ try' = try + 1 /\ phase' = "attempt" /\ try \in Nat \ {0}
      BY <1>4, StartFacts, LadderLength DEF TimesOut, Raised
    <2> QED
      BY <1>4, <2>1 DEF TimesOut, Halfway
  <1>5. CASE ExtractorFails
    BY <1>5 DEF ExtractorFails, Ended, Halfway
  <1>6. CASE ExtractorSucceeds
    <2>1. /\ phase = "attempt" /\ try <= Len(Ladder) /\ phase' = "ended"
          /\ ran'.killed <=> ran.killed
      BY <1>6, StartFacts DEF ExtractorSucceeds, Ended
    <2>2. \A f \in File : dest'[f] \in IF f \in produces THEN Extracted(f) ELSE {dest[f]}
      BY <1>6 DEF ExtractorSucceeds
    <2>3. ASSUME NEW f \in File, dest'[f] = "partial" PROVE FragmentKept'
      <3>1. f \in produces /\ dest'[f] \in Extracted(f)
        BY <2>2, <2>3
      <3>2. tool = "keeps" /\ dest[f] = "partial"
        BY <2>3, <3>1 DEF Extracted, Fresh
      <3>3. ran.killed
        BY <2>1, <3>2
      <3>4. try > 1
        BY <2>1, <3>3
      <3>5. caller # "broker"
        <4> SUFFICES ASSUME caller = "broker" PROVE FALSE
          OBVIOUS
        <4>1. Len(Ladder) = 1
          BY LadderLength
        <4> QED
          BY <2>1, <3>4, <4>1
      <3> QED
        BY <2>1, <3>2, <3>3, <3>5
    <2>4. \A f \in File \ produces : dest'[f] = "none"
      BY <2>2
    <2>5. \A f \in produces : dest'[f] # "none"
      <3> SUFFICES ASSUME NEW f \in produces PROVE dest'[f] # "none"
        OBVIOUS
      <3>1. f \in File
        BY DEF WorldOK
      <3> QED
        BY <2>2, <3>1 DEF Extracted, Fresh
    <2> QED
      BY <2>1, <2>3, <2>4, <2>5
  <1>7. CASE Exhausted
    BY <1>7 DEF Exhausted, Return
  <1>8. CASE ReportStatus
    BY <1>8 DEF ReportStatus, Return
  <1>9. CASE Pick
    BY <1>9 DEF Pick, Return
  <1>10. CASE PickAll
    BY <1>10 DEF PickAll, Return
  <1>11. CASE TooLarge
    BY <1>11 DEF TooLarge, Return
  <1> QED
    BY <1>1, <1>2, <1>3, <1>4, <1>5, <1>6, <1>7, <1>8, <1>9, <1>10, <1>11 DEF HostNext

(* Before an attempt is accepted nothing has ended or been handed over,    *)
(* and the attempts left are below the last.                               *)
LEMMA NextPending == HostInv /\ HostNext => HostPending' /\ LadderBelow'
  <1> SUFFICES ASSUME HostInv, HostNext PROVE HostPending' /\ LadderBelow'
    OBVIOUS
  <1> USE NextWorld DEF HostInv, TypeOK, HostPending, LadderBelow
  <1>1. CASE Check
    BY <1>1 DEF Check, Return
  <1>2. CASE CannotStart
    BY <1>2 DEF CannotStart, Raised
  <1>3. CASE UnshareRefused
    BY <1>3 DEF UnshareRefused, Ended
  <1>4. CASE TimesOut
    <2>1. /\ ran'.ns = Ladder[try].ns /\ ran'.answers = 0
          /\ try' = try + 1 /\ UNCHANGED <<phase, result>> /\ try \in 1..Len(Ladder)
      BY <1>4, StartFacts DEF TimesOut, Raised
    <2>2. \A k \in 1..Len(Ladder) : k >= try => Ladder[k].ns \subseteq Ladder[try].ns
      BY <2>1, LadderDescends
    <2> QED
      BY <1>4, <2>1, <2>2 DEF TimesOut
  <1>5. CASE ExtractorFails
    BY <1>5 DEF ExtractorFails, Ended
  <1>6. CASE ExtractorSucceeds
    BY <1>6 DEF ExtractorSucceeds, Ended
  <1>7. CASE Exhausted
    BY <1>7 DEF Exhausted, Return
  <1>8. CASE ReportStatus
    BY <1>8 DEF ReportStatus, Return
  <1>9. CASE Pick
    BY <1>9 DEF Pick, Return
  <1>10. CASE PickAll
    BY <1>10 DEF PickAll, Return
  <1>11. CASE TooLarge
    BY <1>11 DEF TooLarge, Return
  <1> QED
    BY <1>1, <1>2, <1>3, <1>4, <1>5, <1>6, <1>7, <1>8, <1>9, <1>10, <1>11 DEF HostNext

(* Fragments are not handed over.                                          *)
LEMMA NextWhole == HostInv /\ HostNext => WholeOrNothing'
  <1> SUFFICES ASSUME HostInv, HostNext PROVE WholeOrNothing'
    OBVIOUS
  <1> USE NothingFacts, NextWorld DEF HostInv, TypeOK, WholeOrNothing
  <1>1. CASE Check
    BY <1>1, ReturnFacts DEF Check, HostPending
  <1>2. CASE CannotStart
    BY <1>2 DEF CannotStart, HostPending
  <1>3. CASE UnshareRefused
    BY <1>3 DEF UnshareRefused, HostPending
  <1>4. CASE TimesOut
    BY <1>4 DEF TimesOut, HostPending
  <1>5. CASE ExtractorFails
    BY <1>5 DEF ExtractorFails, HostPending
  <1>6. CASE ExtractorSucceeds
    BY <1>6 DEF ExtractorSucceeds, HostPending
  <1>7. CASE Exhausted
    BY <1>7, ReturnFacts DEF Exhausted, HostPending
  <1>8. CASE ReportStatus
    BY <1>8, ReturnFacts DEF ReportStatus, HostPending
  <1>9. CASE Pick
    <2>5. FragmentKept' <=> FragmentKept
      BY <1>9 DEF Pick, world, FragmentKept
    <2>1. \A f \in Regular : dest[f] = "whole" \/ FragmentKept
      BY <1>9 DEF Pick, DestOK, Regular
    <2>2. \/ result'.files = Nothing
          \/ \E fs \in SUBSET Regular : result'.files = Take(fs)
      <3>1. CASE Return(Nothing, "symlink") \/ Return(Nothing, "not produced")
        BY <3>1, ReturnFacts
      <3>2. CASE Asked \in Regular /\ Return(Take({Asked}), "rc=0")
        BY <3>2, ReturnFacts
      <3>3. CASE Return(Take(Regular), "rc=0")
        BY <3>3, ReturnFacts
      <3> QED
        BY <1>9, <3>1, <3>2, <3>3 DEF Pick
    <2>3. CASE result'.files = Nothing
      BY <2>3
    <2>4. CASE \E fs \in SUBSET Regular : result'.files = Take(fs)
      <3>1. PICK fs \in SUBSET Regular : result'.files = [f \in fs |-> dest[f]]
        BY <2>4 DEF Take
      <3> QED
        BY <2>1, <2>5, <3>1
    <2> QED
      BY <2>2, <2>3, <2>4
  <1>10. CASE PickAll
    <2>5. FragmentKept' <=> FragmentKept
      BY <1>10 DEF PickAll, world, FragmentKept
    <2>1. \A f \in Regular : dest[f] = "whole" \/ FragmentKept
      BY <1>10 DEF PickAll, DestOK, Regular
    <2>2. \/ result'.files = Nothing
          \/ \E fs \in SUBSET Regular : result'.files = Take(fs)
      BY <1>10, ReturnFacts DEF PickAll
    <2>3. CASE result'.files = Nothing
      BY <2>3
    <2>4. CASE \E fs \in SUBSET Regular : result'.files = Take(fs)
      <3>1. PICK fs \in SUBSET Regular : result'.files = [f \in fs |-> dest[f]]
        BY <2>4 DEF Take
      <3> QED
        BY <2>1, <2>5, <3>1
    <2> QED
      BY <2>2, <2>3, <2>4
  <1>11. CASE TooLarge
    BY <1>11, ReturnFacts DEF TooLarge, HostPending
  <1> QED
    BY <1>1, <1>2, <1>3, <1>4, <1>5, <1>6, <1>7, <1>8, <1>9, <1>10, <1>11 DEF HostNext

(* A file of another name is handed over only where there is none of the   *)
(* member's.                                                               *)
LEMMA NextSubstitute == HostInv /\ HostNext => SubstituteOnly'
  <1> SUFFICES ASSUME HostInv, HostNext PROVE SubstituteOnly'
    OBVIOUS
  <1>1. UNCHANGED <<caller, produces>>
    BY NextWorld
  <1>2. CASE result'.files = result.files
    BY <1>1, <1>2 DEF HostInv, SubstituteOnly
  <1>3. CASE result'.files = Nothing
    BY <1>3, NothingFacts DEF SubstituteOnly
  <1>4. CASE Pick
    <2>1. CASE Return(Nothing, "symlink") \/ Return(Nothing, "not produced")
      BY <1>3, <2>1, ReturnFacts
    <2>2. CASE Return(Take({Asked}), "rc=0")
      <3>1. DOMAIN result'.files = {Asked}
        BY <2>2, ReturnFacts DEF Take
      <3> QED
        BY <3>1 DEF SubstituteOnly
    <2>3. CASE /\ dest[Asked] = "none" /\ caller = "extract" /\ Cardinality(Regular) = 1
               /\ Return(Take(Regular), "rc=0")
      <3>1. DOMAIN result'.files = Regular
        BY <2>3, ReturnFacts DEF Take
      <3>2. Asked \notin produces
        BY <1>4, <2>3 DEF Pick, HostInv, DestOK
      <3> QED
        BY <1>1, <2>3, <3>1, <3>2 DEF SubstituteOnly
    <2> QED
      BY <1>4, <2>1, <2>2, <2>3 DEF Pick
  <1>5. CASE PickAll
    BY <1>1, <1>5 DEF PickAll, SubstituteOnly
  <1>6. CASE ~Pick /\ ~PickAll
    <2>1. UNCHANGED result \/ \E why : Return(Nothing, why)
      BY <1>6 DEF HostNext, Check, CannotStart, UnshareRefused, TimesOut, ExtractorFails,
                  ExtractorSucceeds, Exhausted, ReportStatus, TooLarge
    <2> QED
      BY <1>2, <1>3, <2>1, ReturnFacts
  <1> QED
    BY <1>4, <1>5, <1>6

-----------------------------------------------------------------------------
(* The theorems.                                                           *)

(* The inductive invariant holds in every reachable state.                 *)
THEOREM HostInvariance == HostSpec => []HostInv
  <1>1. HostInv /\ UNCHANGED hostVars => HostInv'
    BY WorldStays DEF hostVars, world, HostInv, TypeOK, WorldOK, DestOK, HostPending,
                      LadderBelow, WholeOrNothing, FragmentKept, SubstituteOnly
  <1>2. HostInv /\ HostNext => HostInv'
    BY NextWorld, NextTypes, NextDest, NextPending, NextWhole, NextSubstitute DEF HostInv
  <1> QED
    BY HostInitInv, <1>1, <1>2, PTL DEF HostSpec

(* Types; and an extractor that has ended is not run again.                *)
THEOREM HostTypeCorrect == HostSpec => []TypeOK
  BY HostInvariance, PTL DEF HostInv

(* What host_handoff and license_broker hand over is never a fragment, but *)
(* one that an earlier attempt was killed over and a tool has kept.        *)
THEOREM NoFragments == HostSpec => []WholeOrNothing
  BY HostInvariance, PTL DEF HostInv

(* host_handoff hands over a file of another name only if the extractor    *)
(* made none of the member's, and license_broker never does.               *)
THEOREM NoMistakenMember == HostSpec => []SubstituteOnly
  BY HostInvariance, PTL DEF HostInv

(* Isolation only descends, and is given up only at the end of the ladder. *)
THEOREM IsolationKept == HostSpec => IsolationDescends
  <1>1. HostInv /\ [HostNext]_hostVars =>
          [/\ ran'.ns \subseteq ran.ns
           /\ ran # ran' /\ unshare /\ caller # "broker" /\ ran'.ns = {} => try > 12]_hostVars
    <2> SUFFICES ASSUME HostInv, HostNext
                 PROVE  /\ ran'.ns \subseteq ran.ns
                        /\ ran # ran' /\ unshare /\ caller # "broker" /\ ran'.ns = {}
                             => try > 12
      OBVIOUS
    <2>1. CASE ran' = ran
      BY <2>1
    <2>2. CASE TimesOut \/ ExtractorFails \/ ExtractorSucceeds
      <3>1. phase = "attempt" /\ try <= Len(Ladder) /\ (Started(0) \/ Started(1))
        BY <2>2 DEF TimesOut, ExtractorFails, ExtractorSucceeds
      <3>2. ran'.ns = Ladder[try].ns /\ ran'.ns \subseteq ran.ns
        BY <3>1, StartFacts
      <3>3. try \in 1..Len(Ladder)
        BY <3>1, LadderLength DEF HostInv, TypeOK
      <3> QED
        BY <3>2, <3>3, LadderDescends DEF HostInv
    <2> QED
      BY <2>1, <2>2 DEF HostNext, Check, CannotStart, UnshareRefused, Exhausted, ReportStatus,
                        Pick, PickAll, TooLarge
  <1> QED
    BY HostInvariance, <1>1, PTL DEF HostSpec, IsolationDescends
===============================================================================
