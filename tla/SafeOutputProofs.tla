-------------------------- MODULE SafeOutputProofs --------------------------
(***************************************************************************)
(* Proofs about SafeOutput, for any writers, members, names and inodes and *)
(* every bound: its safety properties, that what a call reported is on     *)
(* disk, and that it implements ExclusivePublish.                          *)
(***************************************************************************)
EXTENDS SafeOutput, WellFoundedInduction, TLAPS

(* What the file system hands out next was free.                           *)
LEMMA NewFacts == New \subseteq Free
  BY FreshAssumption DEF New, Free

(* The path of a member, and the part of it the descent walks.              *)
LEMMA PathFacts ==
  ASSUME NEW m \in Member, Parts(m) # Refused
  PROVE  /\ Parts(m) \in Seq(Name)
         /\ Len(Parts(m)) \in Nat \ {0}
         /\ DirCount(m) \in Nat
         /\ m.is_dir \in BOOLEAN
         /\ DirCount(m) = Len(Parts(m)) - IF m.is_dir THEN 0 ELSE 1
         /\ \A k \in 1..Len(Parts(m)) : Parts(m)[k] \in Name
  <1>1. Parts(m) \in Seq(Name) /\ Parts(m) # <<>>
    BY PartsAssumption
  <1>2. Len(Parts(m)) \in Nat \ {0}
    BY <1>1
  <1>3. m.is_dir \in BOOLEAN
    BY MemberAssumption
  <1> QED
    BY <1>1, <1>2, <1>3 DEF DirCount

LEMMA InitInv == Init => IInv
  <1> SUFFICES ASSUME Init PROVE IInv
    OBVIOUS
  <1> USE InodeAssumption DEF Init
  <1>1. TypeOK
    BY BoundAssumption DEF TypeOK, NoData, Active
  <1>2. TreeInv
    BY DEF TreeInv
  <1>3. WriterInv
    BY DEF WriterInv, LocalOk, OwnOk, Active, Descending, Owning
  <1>4. DistinctTargets
    BY DEF DistinctTargets
  <1>5. NoPartialLeft
    BY DEF NoPartialLeft
  <1> QED
    BY <1>1, <1>2, <1>3, <1>4, <1>5 DEF IInv

-----------------------------------------------------------------------------
(* Every step is a step of one writer w, or of the environment.  What it    *)
(* does to the other writers and to the disk has few forms.                 *)

\* The local variables of v stay as they are.
Same(v) == /\ pc'[v] = pc[v] /\ call'[v] = call[v] /\ at'[v] = at[v]
           /\ fd'[v] = fd[v] /\ target'[v] = target[v] /\ fds'[v] = fds[v]
           /\ exc'[v] = exc[v]

\* The disk changes only by adding entries and inodes.
Grows == /\ links \subseteq links'
         /\ \A i \in Inode : kind[i] # "free" => kind'[i] = kind[i]
         /\ \A l \in links' \ links : l[3] \in Free
         /\ \A i \in foreign' \ foreign : i \in Free
         /\ orphan \subseteq orphan'

(* A writer that does not move keeps its invariant when the disk grows and  *)
(* nobody writes to its file.                                               *)
LEMMA OthersKeep ==
  ASSUME IInv, Grows, NEW v \in Writer, Same(v),
         target[v] # None => data'[target[v]] = data[target[v]]
  PROVE  LocalOk(v)' /\ OwnOk(v)'
  <1> USE DEF Same
  <1>1. LocalOk(v) /\ OwnOk(v)
    BY DEF IInv, WriterInv
  <1>2. LocalOk(v)'
    BY <1>1 DEF LocalOk, Grows
  <1>3. target[v] # None => target[v] \in Inode /\ target[v] \notin Free
    BY <1>1 DEF OwnOk, Free, IInv, TypeOK
  <1>4. Last(v)' = Last(v)
    BY DEF Last
  <1>5. OwnOk(v)'
    <2>1. pc'[v] \in Owning => target'[v] \in Inode /\ <<fd'[v], Last(v)', target'[v]>> \in links'
      BY <1>1, <1>4 DEF OwnOk, Grows
    <2>2. target'[v] # None =>
            /\ kind'[target'[v]] = "file"
            /\ data'[target'[v]].src = call'[v]
            /\ data'[target'[v]].len <= call'[v].size
      BY <1>1, <1>3 DEF OwnOk, Grows
    <2>3. pc'[v] = "close" /\ target'[v] # None =>
            \/ \A l \in links' : l[3] # target'[v]
            \/ target'[v] \in orphan'
            \/ data'[target'[v]].len = call'[v].size
      BY <1>1, <1>3 DEF OwnOk, Grows
    <2> QED
      BY <2>1, <2>2, <2>3 DEF OwnOk
  <1> QED
    BY <1>2, <1>5

(* A step of w that leaves the disk alone.                                  *)
LEMMA QuietStep ==
  ASSUME IInv, TypeOK', NEW w \in Writer,
         UNCHANGED <<disk, foreign>>, orphan \subseteq orphan',
         \A v \in Writer \ {w} : Same(v),
         LocalOk(w)', OwnOk(w)',
         \/ target'[w] = target[w]
         \/ /\ target'[w] = None
            /\ \/ \A l \in links : l[3] # target[w]
               \/ target[w] \in orphan'
               \/ target[w] # None /\ data[target[w]].len = call[w].size
  PROVE  IInv'
  <1> USE DEF disk
  <1>1. TreeInv'
    BY DEF IInv, TreeInv
  <1>2. Grows
    BY DEF Grows
  <1>3. WriterInv'
    <2> SUFFICES ASSUME NEW v \in Writer PROVE LocalOk(v)' /\ OwnOk(v)'
      BY DEF WriterInv
    <2>1. CASE v = w
      BY <2>1
    <2>2. CASE v # w
      BY <1>2, <2>2, OthersKeep
    <2> QED
      BY <2>1, <2>2
  <1>4. DistinctTargets'
    BY DEF IInv, DistinctTargets, Same
  <1>5. NoPartialLeft'
    <2> SUFFICES ASSUME NEW l \in links
                 PROVE  \/ kind[l[3]] # "file" \/ l[3] \in foreign \cup orphan' \/ Held(l[3])'
                        \/ data[l[3]].len = data[l[3]].src.size
      BY DEF NoPartialLeft
    <2>1. CASE ~Held(l[3])
      BY <2>1 DEF IInv, NoPartialLeft
    <2>2. CASE Held(l[3])
      <3>1. PICK v \in Writer : target[v] = l[3]
        BY <2>2 DEF Held
      <3>2. CASE target'[v] = target[v]
        BY <3>1, <3>2 DEF Held
      <3>3. CASE target'[v] # target[v]
        <4>1. v = w /\ target'[w] = None
          BY <3>3 DEF Same
        <4>2. OwnOk(w)
          BY DEF IInv, WriterInv
        <4> QED
          BY <3>1, <3>3, <4>1, <4>2 DEF OwnOk
      <3> QED
        BY <3>2, <3>3
    <2> QED
      BY <2>1, <2>2
  <1> QED
    BY <1>1, <1>3, <1>4, <1>5 DEF IInv

-----------------------------------------------------------------------------
(* The steps that leave the disk alone.                                     *)

(* What the invariant says of the writer that moves.                        *)
MoverOk(w) ==
  /\ LocalOk(w) /\ OwnOk(w) /\ TypeOK
  /\ pc[w] \in Active \cup {"idle", "gone"}
  /\ pc[w] \in Active => /\ call[w] \in Member
                         /\ Len(Parts(call[w])) \in Nat \ {0}
                         /\ DirCount(call[w]) \in Nat
                         /\ DirCount(call[w]) = Len(Parts(call[w])) -
                                                  IF call[w].is_dir THEN 0 ELSE 1
                         /\ call[w].is_dir \in BOOLEAN
                         /\ call[w].size \in Nat

LEMMA MoverFacts ==
  ASSUME IInv, NEW w \in Writer
  PROVE  MoverOk(w)
  <1>1. LocalOk(w) /\ OwnOk(w) /\ TypeOK
    BY DEF IInv, WriterInv
  <1>2. pc[w] \in Active \cup {"idle", "gone"}
    BY <1>1 DEF TypeOK
  <1>3. pc[w] \in Active => call[w] \in Member /\ Parts(call[w]) # Refused
    BY <1>1 DEF LocalOk
  <1> QED
    BY <1>1, <1>2, <1>3, PathFacts, MemberAssumption DEF MoverOk

LEMMA RefuseInv ==
  ASSUME IInv, NEW w \in Writer, NEW m \in Member, Refuse(w, m)
  PROVE  IInv'
  <1> MoverOk(w)
    BY MoverFacts
  <1> USE DEF MoverOk, Refuse, disk, local
  <1>1. TypeOK'
    BY BoundAssumption DEF TypeOK
  <1>2. LocalOk(w)'
    BY DEF LocalOk, OwnOk, Last
  <1>3. OwnOk(w)'
    BY DEF LocalOk, OwnOk, Last
  <1> QED
    BY <1>1, <1>2, <1>3, QuietStep DEF Same

LEMMA BeginInv ==
  ASSUME IInv, NEW w \in Writer, NEW m \in Member, Begin(w, m)
  PROVE  IInv'
  <1> MoverOk(w)
    BY MoverFacts
  <1> USE DEF MoverOk, Begin, disk, Goto
  <1>1. TypeOK'
    BY BoundAssumption, PathFacts DEF TypeOK, Active
  <1>2. LocalOk(w)'
    BY DEF LocalOk, OwnOk, TypeOK, Active, Descending, Owning
  <1>3. OwnOk(w)'
    BY DEF LocalOk, OwnOk, TypeOK, Active, Descending, Owning
  <1> QED
    BY <1>1, <1>2, <1>3, QuietStep DEF Same, TypeOK

LEMMA LeaveInv ==
  ASSUME IInv, NEW w \in Writer, NEW l \in {"idle", "gone"}, Leave(w, l),
         pc[w] \in {"makeroot", "openroot"}
  PROVE  IInv'
  <1> MoverOk(w)
    BY MoverFacts
  <1> USE DEF MoverOk, Leave, disk, Goto
  <1>1. TypeOK'
    BY DEF TypeOK, Active
  <1>2. LocalOk(w)'
    BY DEF LocalOk, OwnOk, TypeOK, Active, Descending, Owning
  <1>3. OwnOk(w)'
    BY DEF LocalOk, OwnOk, TypeOK, Active, Descending, Owning
  <1> QED
    BY <1>1, <1>2, <1>3, QuietStep DEF Same, TypeOK

LEMMA RaiseInv ==
  ASSUME IInv, NEW w \in Writer, NEW e \in {"oserror", "interrupt"}, Raise(w, e),
         orphan \subseteq orphan', orphan' \subseteq Inode,
         pc[w] = "created" => e = "interrupt",
         \/ pc[w] \in Descending
         \/ pc[w] \in {"created", "unlink"} /\ target[w] \in orphan'
  PROVE  IInv'
  <1> MoverOk(w)
    BY MoverFacts
  <1> USE DEF MoverOk, Raise, disk, Goto
  <1>1. TypeOK'
    BY DEF TypeOK, Active, Descending
  <1>2. LocalOk(w)'
    BY InodeAssumption DEF LocalOk, OwnOk, TypeOK, Active, Descending, Owning
  <1>3. OwnOk(w)'
    BY InodeAssumption DEF LocalOk, OwnOk, TypeOK, Active, Descending, Owning
  <1> QED
    BY <1>1, <1>2, <1>3, QuietStep DEF Same, TypeOK

LEMMA FdOpenInv ==
  ASSUME IInv, NEW w \in Writer, FdOpen(w)
  PROVE  IInv'
  <1> MoverOk(w)
    BY MoverFacts
  <1> USE DEF MoverOk, FdOpen, disk, Goto
  <1>1. TypeOK'
    BY DEF TypeOK, Active
  <1>2. LocalOk(w)'
    BY DEF LocalOk, OwnOk, TypeOK, Active, Descending, Owning, Last
  <1>3. OwnOk(w)'
    BY DEF LocalOk, OwnOk, TypeOK, Active, Descending, Owning, Last
  <1> QED
    BY <1>1, <1>2, <1>3, QuietStep DEF Same, TypeOK

LEMMA CloseTargetInv ==
  ASSUME IInv, NEW w \in Writer, CloseTarget(w)
  PROVE  IInv'
  <1> MoverOk(w)
    BY MoverFacts
  <1> USE DEF MoverOk, CloseTarget, disk, Goto
  <1>1. TypeOK'
    BY DEF TypeOK, Active
  <1>2. LocalOk(w)'
    BY InodeAssumption DEF LocalOk, OwnOk, TypeOK, Active, Descending, Owning
  <1>3. OwnOk(w)'
    BY InodeAssumption DEF LocalOk, OwnOk, TypeOK, Active, Descending, Owning
  <1> QED
    BY <1>1, <1>2, <1>3, QuietStep DEF Same, TypeOK

LEMMA WriteFailsInv ==
  ASSUME IInv, NEW w \in Writer, NEW e \in {"oserror", "interrupt"}, WriteFails(w, e)
  PROVE  IInv'
  <1> MoverOk(w)
    BY MoverFacts
  <1> USE DEF MoverOk, WriteFails, disk, Goto
  <1>1. TypeOK'
    BY DEF TypeOK, Active
  <1>2. fd[w] # target[w]
    BY InodeAssumption DEF LocalOk, OwnOk, Owning
  <1>3. LocalOk(w)' /\ OwnOk(w)'
    BY <1>2, InodeAssumption DEF LocalOk, OwnOk, TypeOK, Active, Descending, Owning, Last
  <1> QED
    BY <1>1, <1>3, QuietStep DEF Same, TypeOK

LEMMA OpenRootInv ==
  ASSUME IInv, NEW w \in Writer, OpenRoot(w)
  PROVE  IInv'
  <1>1. CASE OpenDirAt(Top, Out) = {}
    BY <1>1, LeaveInv DEF OpenRoot
  <1>2. CASE OpenDirAt(Top, Out) # {}
    <2>1. PICK i \in OpenDirAt(Top, Out) :
            /\ pc[w] = "openroot"
            /\ fd' = [fd EXCEPT ![w] = i]
            /\ fds' = [fds EXCEPT ![w] = {i}]
            /\ pc' = [pc EXCEPT ![w] = AfterDir(call[w], 1)]
            /\ UNCHANGED <<disk, call, at, target, exc, calls, foreign, orphan, wrote>>
      BY <1>2 DEF OpenRoot, Goto
    <2> HIDE <1>2
    <2> MoverOk(w)
      BY MoverFacts
    <2> USE <2>1 DEF MoverOk, disk
    <2>2. i \in Inode \ {Outside} /\ kind[i] = "dir"
      BY DEF OpenDirAt, At, IInv, TreeInv, TypeOK
    <2>3. AfterDir(call[w], 1) \in {"mkdir", "create", "close"}
      BY DEF AfterDir, Active
    <2>4. TypeOK'
      BY <2>2, <2>3 DEF TypeOK, Active
    <2>5. pc'[w] = AfterDir(call[w], 1) /\ fd'[w] = i /\ fds'[w] = {i} /\ at'[w] = 1
      BY DEF TypeOK, LocalOk
    <2>6. LocalOk(w)'
      BY <2>2, <2>3, <2>5, InodeAssumption
         DEF AfterDir, LocalOk, Active, Descending, Owning
    <2>7. OwnOk(w)'
      BY <2>3, <2>5 DEF LocalOk, OwnOk, Owning
    <2> QED
      BY <2>4, <2>6, <2>7, QuietStep DEF Same, TypeOK
  <1> QED
    BY <1>1, <1>2


LEMMA OpenDirInv ==
  ASSUME IInv, NEW w \in Writer, OpenDir(w)
  PROVE  IInv'
  <1>1. CASE OpenDirAt(fd[w], Part(w)) = {}
    BY <1>1, RaiseInv DEF OpenDir, Descending, IInv, TypeOK
  <1>2. CASE OpenDirAt(fd[w], Part(w)) # {}
    <2>1. PICK i \in OpenDirAt(fd[w], Part(w)) :
            /\ pc[w] = "opendir"
            /\ fds' = [fds EXCEPT ![w] = (@ \ {fd[w]}) \cup {i}]
            /\ fd' = [fd EXCEPT ![w] = i]
            /\ at' = [at EXCEPT ![w] = @ + 1]
            /\ pc' = [pc EXCEPT ![w] = AfterDir(call[w], at[w] + 1)]
            /\ UNCHANGED <<disk, call, target, exc, calls, foreign, orphan, wrote>>
      BY <1>2 DEF OpenDir, Goto
    <2> HIDE <1>2
    <2> MoverOk(w)
      BY MoverFacts
    <2> USE <2>1 DEF MoverOk, disk
    <2>2. i \in Inode \ {Outside} /\ kind[i] = "dir"
      BY DEF OpenDirAt, At, IInv, TreeInv, TypeOK
    <2>3. AfterDir(call[w], at[w] + 1) \in {"mkdir", "create", "close"}
      BY DEF AfterDir, Active
    <2>4. /\ pc'[w] = AfterDir(call[w], at[w] + 1) /\ fd'[w] = i
          /\ fds'[w] = {i} /\ at'[w] = at[w] + 1
      BY DEF TypeOK, LocalOk, Descending
    <2>5. at[w] \in Nat \ {0} /\ at[w] <= DirCount(call[w])
      BY DEF TypeOK, LocalOk
    <2>6. TypeOK'
      BY <2>2, <2>3, <2>5 DEF TypeOK, Active
    <2>7. LocalOk(w)'
      BY <2>2, <2>3, <2>4, <2>5, InodeAssumption
         DEF AfterDir, LocalOk, Active, Descending, Owning
    <2>8. OwnOk(w)'
      BY <2>3, <2>4 DEF LocalOk, OwnOk, Owning, Descending
    <2> QED
      BY <2>6, <2>7, <2>8, QuietStep DEF Same, TypeOK
  <1> QED
    BY <1>1, <1>2

LEMMA CloseDirInv ==
  ASSUME IInv, NEW w \in Writer, CloseDir(w)
  PROVE  IInv'
  <1> MoverOk(w)
    BY MoverFacts
  <1> USE DEF MoverOk, CloseDir, disk, Goto
  <1>1. TypeOK'
    BY DEF TypeOK, Active
  <1>2. fds'[w] = {}
    BY DEF LocalOk, TypeOK
  <1>3. LocalOk(w)'
    BY <1>2 DEF LocalOk, TypeOK, Active, Descending, Owning
  <1>4. OwnOk(w)'
    BY DEF OwnOk, TypeOK, Owning
  <1> QED
    BY <1>1, <1>3, <1>4, QuietStep DEF Same, TypeOK, OwnOk

LEMMA UnlinkFailsInv ==
  ASSUME IInv, NEW w \in Writer, UnlinkFails(w)
  PROVE  IInv'
  <1> MoverOk(w)
    BY MoverFacts
  <1> QED
    BY RaiseInv DEF UnlinkFails, MoverOk, OwnOk, Owning, TypeOK

LEMMA SyscallFailsInv ==
  ASSUME IInv, NEW w \in Writer, SyscallFails(w)
  PROVE  IInv'
  <1> orphan \subseteq Inode
    BY DEF IInv, TypeOK
  <1> QED
    BY RaiseInv, LeaveInv DEF SyscallFails, Descending

LEMMA InterruptInv ==
  ASSUME IInv, NEW w \in Writer, Interrupt(w)
  PROVE  IInv'
  <1> MoverOk(w)
    BY MoverFacts
  <1>1. CASE pc[w] \in {"makeroot", "openroot"} /\ Leave(w, "gone")
    BY <1>1, LeaveInv
  <1>2. CASE pc[w] \in Descending /\ Raise(w, "interrupt") /\ UNCHANGED orphan
    BY <1>2, RaiseInv DEF MoverOk, TypeOK
  <1>3. CASE /\ pc[w] \in {"created", "unlink"} /\ Raise(w, "interrupt")
             /\ orphan' = orphan \cup {target[w]}
    BY <1>3, RaiseInv DEF MoverOk, TypeOK, OwnOk, Owning
  <1> QED
    BY <1>1, <1>2, <1>3 DEF Interrupt, Descending

LEMMA KillInv ==
  ASSUME IInv, NEW w \in Writer, Kill(w)
  PROVE  IInv'
  <1> MoverOk(w)
    BY MoverFacts
  <1> USE DEF MoverOk, Kill, disk, Goto
  <1>1. TypeOK'
    BY DEF TypeOK, Active, OwnOk, Owning
  <1>2. LocalOk(w)'
    BY DEF LocalOk, TypeOK, Active, Descending, Owning
  <1>3. OwnOk(w)'
    BY DEF OwnOk, TypeOK, Owning
  <1>4. \/ target[w] = None
        \/ \A l \in links : l[3] # target[w]
        \/ target[w] \in orphan'
        \/ target[w] # None /\ data[target[w]].len = call[w].size
    BY DEF OwnOk, LocalOk, TypeOK, Active, Descending, Owning
  <1>5. target'[w] = None
    BY DEF TypeOK
  <1>6. orphan \subseteq orphan'
    OBVIOUS
  <1>7. \A v \in Writer \ {w} : Same(v)
    BY DEF Same, TypeOK
  <1> QED
    BY <1>1, <1>2, <1>3, <1>4, <1>5, <1>6, <1>7, QuietStep

LEMMA RestartInv ==
  ASSUME IInv, NEW w \in Writer, Restart(w)
  PROVE  IInv'
  <1> MoverOk(w)
    BY MoverFacts
  <1> USE DEF MoverOk, Restart, disk, Goto
  <1>1. TypeOK'
    BY DEF TypeOK, Active
  <1>2. LocalOk(w)'
    BY DEF LocalOk, TypeOK, Active, Descending, Owning
  <1>3. OwnOk(w)'
    BY DEF OwnOk, LocalOk, TypeOK, Owning
  <1> QED
    BY <1>1, <1>2, <1>3, QuietStep DEF Same, TypeOK

-----------------------------------------------------------------------------
(* The steps that change the disk.                                          *)

(* A new entry: in a directory other than Outside, under a name that is     *)
(* free there, for an inode that was not in use.                            *)
LEMMA EnterTree ==
  ASSUME IInv, NEW d \in Inode \ {Outside}, NEW n \in Name \cup {Out}, ~Bound(d, n),
         NEW i \in Free, NEW k \in {"dir", "file", "link"},
         NEW c \in [src : Member \cup {None, ForeignData}, len : Nat],
         Enter(d, n, i, k, c), orphan \subseteq orphan', foreign' \subseteq foreign \cup {i}
  PROVE  /\ TreeInv'
         /\ Grows
         /\ links' \subseteq Inode \X (Name \cup {Out}) \X Inode
         /\ kind' \in [Inode -> {"free", "dir", "file", "link"}]
         /\ data' \in [Inode -> [src : Member \cup {None, ForeignData}, len : Nat]]
         /\ links' = links \cup {<<d, n, i>>} /\ kind'[i] = k /\ data'[i] = c
         /\ \A j \in Inode \ {i} : kind'[j] = kind[j] /\ data'[j] = data[j]
         /\ \A l \in links : l[3] # i
         /\ \A v \in Writer : target[v] # i
  <1>1. i \in Inode /\ kind[i] = "free" /\ i \notin {Top, Outside}
    BY InodeAssumption DEF Free, IInv, TreeInv
  <1>2. /\ links' = links \cup {<<d, n, i>>}
        /\ kind' = [kind EXCEPT ![i] = k] /\ data' = [data EXCEPT ![i] = c]
    BY DEF Enter
  <1>3. \A l \in links : l[3] # i /\ ~(l[1] = d /\ l[2] = n)
    BY <1>1 DEF Bound, At, IInv, TreeInv
  <1>4. TypeOK
    BY DEF IInv
  <1>5. TreeInv'
    <2>1. kind'[Outside] = "dir" /\ kind'[Top] = "dir"
      BY <1>1, <1>2, <1>4, InodeAssumption DEF IInv, TreeInv, TypeOK
    <2>2. \A l, m \in links' : l[1] = m[1] /\ l[2] = m[2] => l = m
      BY <1>2, <1>3 DEF IInv, TreeInv
    <2>3. \A l, m \in links' : l[3] = m[3] => l = m
      BY <1>2, <1>3 DEF IInv, TreeInv
    <2>4. \A l \in links' : l[1] # Outside /\ l[3] \notin {Top, Outside}
      BY <1>1, <1>2 DEF IInv, TreeInv
    <2>5. \A l \in links' : kind'[l[3]] # "free"
      BY <1>1, <1>2, <1>3, <1>4 DEF IInv, TreeInv, TypeOK
    <2> QED
      BY <2>1, <2>2, <2>3, <2>4, <2>5 DEF TreeInv
  <1>6. Grows
    BY <1>1, <1>2, <1>4 DEF Grows, Free, TypeOK
  <1>7. ASSUME NEW v \in Writer PROVE target[v] # i
    <2>1. OwnOk(v)
      BY DEF IInv, WriterInv
    <2> QED
      BY <1>1, <2>1, InodeAssumption DEF OwnOk
  <1> QED
    BY <1>1, <1>2, <1>3, <1>4, <1>5, <1>6, <1>7 DEF TypeOK

(* A step of w (or of nobody) that adds an entry for an inode it does not   *)
(* hold: a directory, or another program's entry.                           *)
LEMMA EnterStep ==
  ASSUME IInv, TypeOK', NEW d \in Inode \ {Outside}, NEW n \in Name \cup {Out},
         ~Bound(d, n), NEW i \in Free, NEW k \in {"dir", "file", "link"},
         NEW c \in [src : Member \cup {None, ForeignData}, len : Nat],
         Enter(d, n, i, k, c),
         UNCHANGED <<orphan, target>>,
         (foreign' = foreign /\ k = "dir") \/ foreign' = foreign \cup {i},
         NEW W \in SUBSET Writer, \A v \in Writer \ W : Same(v),
         \A w \in W : LocalOk(w)' /\ OwnOk(w)'
  PROVE  IInv'
  <1>1. /\ TreeInv' /\ Grows
        /\ links' = links \cup {<<d, n, i>>} /\ kind'[i] = k /\ data'[i] = c
        /\ \A j \in Inode \ {i} : kind'[j] = kind[j] /\ data'[j] = data[j]
        /\ \A v \in Writer : target[v] # i
        /\ \A l \in links : l[3] # i
    BY EnterTree
  <1>2. WriterInv'
    <2> SUFFICES ASSUME NEW v \in Writer PROVE LocalOk(v)' /\ OwnOk(v)'
      BY DEF WriterInv
    <2>1. CASE v \in W
      BY <2>1
    <2>2. CASE v \notin W
      <3>1. target[v] # None => data'[target[v]] = data[target[v]]
        BY <1>1 DEF IInv, TypeOK
      <3> QED
        BY <1>1, <2>2, <3>1, OthersKeep
    <2> QED
      BY <2>1, <2>2
  <1>3. DistinctTargets'
    BY DEF IInv, DistinctTargets
  <1>4. NoPartialLeft'
    <2> SUFFICES ASSUME NEW l \in links'
                 PROVE  \/ kind'[l[3]] # "file" \/ l[3] \in foreign' \cup orphan'
                        \/ Held(l[3])' \/ data'[l[3]].len = data'[l[3]].src.size
      BY DEF NoPartialLeft
    <2>1. CASE l = <<d, n, i>>
      BY <1>1, <2>1
    <2>2. CASE l \in links
      <3>1. l[3] \in Inode \ {i}
        BY <1>1, <2>2 DEF IInv, TypeOK
      <3>2. Held(l[3])' <=> Held(l[3])
        BY DEF Held
      <3> QED
        BY <1>1, <2>2, <3>1, <3>2 DEF IInv, NoPartialLeft
    <2> QED
      BY <1>1, <2>1, <2>2
  <1> QED
    BY <1>1, <1>2, <1>3, <1>4 DEF IInv

LEMMA ForeignInv ==
  ASSUME IInv, NEW d \in Inode, NEW n \in Name \cup {Out},
         NEW k \in {"dir", "file", "link"}, Foreign(d, n, k)
  PROVE  IInv'
  <1> DEFINE c == IF k = "file" THEN [src |-> ForeignData, len |-> 0] ELSE NoData
  <1>1. c \in [src : Member \cup {None, ForeignData}, len : Nat]
    BY DEF NoData
  <1>2. PICK i \in Free : Enter(d, n, i, k, c) /\ foreign' = foreign \cup {i}
    BY NewFacts DEF Foreign
  <1>3. ~Bound(d, n) /\ d \in Inode \ {Outside}
    BY InodeAssumption DEF Foreign
  <1>4. UNCHANGED <<pc, call, at, fd, target, fds, exc, calls, orphan, wrote>>
    BY DEF Foreign, local
  <1> HIDE DEF c
  <1>5. TypeOK'
    <2>1. /\ links' \subseteq Inode \X (Name \cup {Out}) \X Inode
          /\ kind' \in [Inode -> {"free", "dir", "file", "link"}]
          /\ data' \in [Inode -> [src : Member \cup {None, ForeignData}, len : Nat]]
      BY <1>1, <1>2, <1>3, <1>4, EnterTree
    <2> QED
      BY <2>1, <1>2, <1>4 DEF TypeOK, IInv, Free
  <1>6. \A v \in Writer : Same(v)
    BY <1>4 DEF Same
  <1> DEFINE W == {}
  <1>7. W \in SUBSET Writer /\ \A v \in Writer \ W : Same(v)
    BY <1>6
  <1>8. \A w \in W : LocalOk(w)' /\ OwnOk(w)'
    OBVIOUS
  <1> HIDE DEF W
  <1> QED
    BY <1>1, <1>2, <1>3, <1>4, <1>5, <1>7, <1>8, EnterStep

LEMMA NoDataType == NoData \in [src : Member \cup {None, ForeignData}, len : Nat]
  BY DEF NoData

LEMMA MakeRootInv ==
  ASSUME IInv, NEW w \in Writer, MakeRoot(w)
  PROVE  IInv'
  <1> MoverOk(w)
    BY MoverFacts
  <1>1. CASE /\ ~Bound(Top, Out)
             /\ \E i \in New : Enter(Top, Out, i, "dir", NoData)
             /\ Goto(w, "openroot")
             /\ UNCHANGED <<call, at, fd, target, fds, exc, calls, foreign, orphan, wrote>>
    <2>1. PICK i \in Free : Enter(Top, Out, i, "dir", NoData)
      BY <1>1, NewFacts
    <2>2. Top \in Inode \ {Outside}
      BY InodeAssumption
    <2>3. /\ pc' = [pc EXCEPT ![w] = "openroot"] /\ pc[w] = "makeroot"
          /\ UNCHANGED <<call, at, fd, target, fds, exc, calls, foreign, orphan, wrote>>
      BY <1>1 DEF Goto, MakeRoot
    <2>4. TypeOK'
      <3>1. /\ links' \subseteq Inode \X (Name \cup {Out}) \X Inode
            /\ kind' \in [Inode -> {"free", "dir", "file", "link"}]
            /\ data' \in [Inode -> [src : Member \cup {None, ForeignData}, len : Nat]]
        BY <1>1, <2>1, <2>2, <2>3, NoDataType, EnterTree
      <3> QED
        BY <2>3, <3>1 DEF TypeOK, MoverOk, Active
    <2>5. LocalOk(w)' /\ OwnOk(w)'
      BY <2>3 DEF LocalOk, OwnOk, MoverOk, TypeOK, Active, Descending, Owning
    <2>6. \A v \in Writer \ {w} : Same(v)
      BY <2>3 DEF Same, MoverOk, TypeOK
    <2>7. \A v \in {w} : LocalOk(v)' /\ OwnOk(v)'
      BY <2>5
    <2> DEFINE W == {w}
    <2> HIDE DEF W
    <2>8. /\ W \in SUBSET Writer /\ \A v \in Writer \ W : Same(v)
          /\ \A v \in W : LocalOk(v)' /\ OwnOk(v)'
      BY <2>6, <2>7 DEF W
    <2> QED
      BY <1>1, <2>1, <2>2, <2>3, <2>4, <2>8, NoDataType, EnterStep
  <1>2. CASE UNCHANGED disk /\ Goto(w, "openroot")
             /\ UNCHANGED <<call, at, fd, target, fds, exc, calls, foreign, orphan, wrote>>
    <2> USE <1>2 DEF MoverOk, MakeRoot, disk, Goto
    <2>1. pc[w] = "makeroot"
      OBVIOUS
    <2> HIDE DEF MakeRoot
    <2>2. TypeOK'
      BY <2>1 DEF TypeOK, Active
    <2>3. LocalOk(w)'
      BY <2>1 DEF LocalOk, TypeOK, Active, Descending, Owning
    <2>4. OwnOk(w)'
      BY <2>1 DEF LocalOk, OwnOk, TypeOK, Owning
    <2> QED
      BY <2>2, <2>3, <2>4, QuietStep DEF Same, TypeOK
  <1>3. CASE Leave(w, "idle")
    BY <1>3, LeaveInv DEF MakeRoot
  <1> QED
    BY <1>1, <1>2, <1>3 DEF MakeRoot

LEMMA MakeDirInv ==
  ASSUME IInv, NEW w \in Writer, MakeDir(w)
  PROVE  IInv'
  <1> MoverOk(w)
    BY MoverFacts
  <1>1. /\ pc[w] = "mkdir" /\ pc' = [pc EXCEPT ![w] = "opendir"]
        /\ UNCHANGED <<call, at, fd, target, fds, exc, calls, foreign, orphan, wrote>>
    BY DEF MakeDir, Goto
  <1>2. OwnOk(w)'
    BY <1>1 DEF MoverOk, LocalOk, OwnOk, TypeOK, Owning, Descending
  <1>3. \A v \in Writer \ {w} : Same(v)
    BY <1>1 DEF MoverOk, Same, TypeOK
  <1>4. CASE UNCHANGED disk
    <2> USE <1>1, <1>4 DEF MoverOk, disk
    <2>1. TypeOK'
      BY DEF TypeOK, Active
    <2>2. LocalOk(w)'
      BY DEF LocalOk, TypeOK, Active, Descending, Owning
    <2> QED
      BY <1>2, <1>3, <2>1, <2>2, QuietStep
  <1>5. CASE /\ ~Bound(fd[w], Part(w))
             /\ \E i \in New : Enter(fd[w], Part(w), i, "dir", NoData)
    <2>1. PICK i \in Free : Enter(fd[w], Part(w), i, "dir", NoData)
      BY <1>5, NewFacts
    <2>2. fd[w] \in Inode \ {Outside}
      BY <1>1 DEF MoverOk, LocalOk, Descending
    <2>3. Part(w) \in Name \cup {Out}
      <3>1. call[w] \in Member /\ Parts(call[w]) # Refused /\ at[w] \in 1..Len(Parts(call[w]))
        BY <1>1 DEF MoverOk, LocalOk, Active, TypeOK
      <3> QED
        BY <3>1, PathFacts DEF Part
    <2>4. /\ links' \subseteq Inode \X (Name \cup {Out}) \X Inode
          /\ kind' \in [Inode -> {"free", "dir", "file", "link"}]
          /\ data' \in [Inode -> [src : Member \cup {None, ForeignData}, len : Nat]]
          /\ Grows
      BY <1>1, <1>5, <2>1, <2>2, <2>3, NoDataType, EnterTree
    <2>5. TypeOK'
      BY <1>1, <2>4 DEF TypeOK, MoverOk, Active
    <2>6. LocalOk(w)'
      BY <1>1, <2>4 DEF LocalOk, Grows, MoverOk, TypeOK, Active, Descending, Owning
    <2> DEFINE W == {w}
    <2>7. /\ W \in SUBSET Writer /\ \A v \in Writer \ W : Same(v)
          /\ \A v \in W : LocalOk(v)' /\ OwnOk(v)'
      BY <1>2, <1>3, <2>6
    <2> HIDE DEF W
    <2> QED
      BY <1>1, <1>5, <2>1, <2>2, <2>3, <2>5, <2>7, NoDataType, EnterStep
  <1> QED
    BY <1>4, <1>5 DEF MakeDir

LEMMA WriteInv ==
  ASSUME IInv, NEW w \in Writer, Write(w)
  PROVE  IInv'
  <1> MoverOk(w)
    BY MoverFacts
  <1>1. /\ pc[w] = "write" /\ UNCHANGED <<links, kind, foreign, orphan>>
        /\ UNCHANGED <<pc, call, at, fd, target, fds, exc, calls, wrote>>
        /\ data[target[w]].len < call[w].size
        /\ data' = [data EXCEPT ![target[w]].len = @ + 1]
    BY DEF Write, local
  <1>2. target[w] \in Inode /\ target[w] # None
    BY <1>1, InodeAssumption DEF MoverOk, OwnOk, Owning
  <1>4. data[target[w]] \in [src : Member \cup {None, ForeignData}, len : Nat]
    BY <1>2 DEF MoverOk, TypeOK
  <1>3. /\ data'[target[w]] = [data[target[w]] EXCEPT !.len = @ + 1]
        /\ \A j \in Inode : j # target[w] => data'[j] = data[j]
        /\ data' \in [Inode -> [src : Member \cup {None, ForeignData}, len : Nat]]
    <2>1. data'[target[w]] = [data[target[w]] EXCEPT !.len = @ + 1]
      BY <1>1, <1>2 DEF MoverOk, TypeOK
    <2>2. \A j \in Inode : j # target[w] => data'[j] = data[j]
      BY <1>1, <1>2 DEF MoverOk, TypeOK
    <2>3. data'[target[w]] \in [src : Member \cup {None, ForeignData}, len : Nat]
      BY <1>4, <2>1
    <2>4. data' = [j \in Inode |-> data'[j]]
      BY <1>1 DEF MoverOk, TypeOK
    <2>5. \A j \in Inode : data'[j] \in [src : Member \cup {None, ForeignData}, len : Nat]
      BY <2>2, <2>3 DEF MoverOk, TypeOK
    <2> QED
      BY <2>1, <2>2, <2>4, <2>5
  <1>5. /\ data'[target[w]].src = data[target[w]].src
        /\ data'[target[w]].len = data[target[w]].len + 1
    BY <1>3, <1>4
  <1>6. TypeOK'
    BY <1>1, <1>3 DEF TypeOK, MoverOk, Active
  <1>7. TreeInv'
    BY <1>1 DEF TreeInv, IInv
  <1>8. LocalOk(w)' /\ OwnOk(w)'
    <2>1. LocalOk(w)'
      BY <1>1 DEF MoverOk, LocalOk
    <2>2. data'[target[w]].src = call[w] /\ data'[target[w]].len <= call[w].size
      BY <1>1, <1>2, <1>4, <1>5 DEF MoverOk, OwnOk, Active
    <2>3. OwnOk(w)'
      BY <1>1, <1>2, <2>2 DEF MoverOk, OwnOk, Last
    <2> QED
      BY <2>1, <2>3
  <1>9. WriterInv'
    <2> SUFFICES ASSUME NEW v \in Writer PROVE LocalOk(v)' /\ OwnOk(v)'
      BY DEF WriterInv
    <2>1. CASE v = w
      BY <1>8, <2>1
    <2>2. CASE v # w
      <3>1. target[v] # None => data'[target[v]] = data[target[v]]
        BY <1>2, <1>3, <2>2 DEF IInv, DistinctTargets, TypeOK
      <3>2. Grows /\ Same(v)
        BY <1>1 DEF Grows, Same
      <3> QED
        BY <3>1, <3>2, OthersKeep
    <2> QED
      BY <2>1, <2>2
  <1>10. DistinctTargets'
    BY <1>1 DEF IInv, DistinctTargets
  <1>11. NoPartialLeft'
    <2> SUFFICES ASSUME NEW l \in links
                 PROVE  \/ kind[l[3]] # "file" \/ l[3] \in foreign \cup orphan \/ Held(l[3])
                        \/ data'[l[3]].len = data'[l[3]].src.size
      BY <1>1 DEF NoPartialLeft, Held
    <2>1. CASE l[3] = target[w]
      BY <2>1 DEF Held
    <2>2. CASE l[3] # target[w]
      BY <1>3, <2>2 DEF IInv, NoPartialLeft, TypeOK
    <2> QED
      BY <2>1, <2>2
  <1> QED
    BY <1>6, <1>7, <1>9, <1>10, <1>11 DEF IInv

LEMMA CreateInv ==
  ASSUME IInv, NEW w \in Writer, Create(w)
  PROVE  IInv'
  <1> MoverOk(w)
    BY MoverFacts
  <1>1. /\ pc[w] = "create" /\ call[w] \in Member /\ ~call[w].is_dir
        /\ Parts(call[w]) # Refused
    BY DEF Create, MoverOk, LocalOk, Active
  <1>2. CASE Raise(w, "oserror") /\ UNCHANGED orphan
    BY <1>1, <1>2, RaiseInv DEF MoverOk, TypeOK, Descending
  <1>3. CASE /\ ~Bound(fd[w], Last(w))
             /\ \E i \in New :
                  /\ Enter(fd[w], Last(w), i, "file", [src |-> call[w], len |-> 0])
                  /\ target' = [target EXCEPT ![w] = i]
                  /\ fds' = [fds EXCEPT ![w] = @ \cup {i}]
             /\ Goto(w, "created")
             /\ UNCHANGED <<call, at, fd, exc, calls, foreign, orphan, wrote>>
    <2> DEFINE c == [src |-> call[w], len |-> 0]
    <2>1. PICK i \in Free :
            /\ Enter(fd[w], Last(w), i, "file", c)
            /\ target' = [target EXCEPT ![w] = i]
            /\ fds' = [fds EXCEPT ![w] = @ \cup {i}]
      BY <1>3, NewFacts
    <2>2. /\ pc' = [pc EXCEPT ![w] = "created"]
          /\ UNCHANGED <<call, at, fd, exc, calls, foreign, orphan, wrote>>
      BY <1>3 DEF Goto
    <2>3. fd[w] \in Inode \ {Outside} /\ target[w] = None /\ fds[w] = {fd[w]}
      BY <1>1 DEF MoverOk, LocalOk, Descending
    <2>4. Last(w) \in Name
      BY <1>1, PathFacts DEF Last
    <2>5. c \in [src : Member \cup {None, ForeignData}, len : Nat]
      BY <1>1
    <2>6. i \in Inode /\ i # None
      BY InodeAssumption DEF Free
    <2>7. c.src = call[w] /\ c.len = 0
      OBVIOUS
    <2> HIDE DEF c
    <2>8. /\ TreeInv' /\ Grows
          /\ links' \subseteq Inode \X (Name \cup {Out}) \X Inode
          /\ kind' \in [Inode -> {"free", "dir", "file", "link"}]
          /\ data' \in [Inode -> [src : Member \cup {None, ForeignData}, len : Nat]]
          /\ links' = links \cup {<<fd[w], Last(w), i>>}
          /\ kind'[i] = "file" /\ data'[i] = c
          /\ \A j \in Inode \ {i} : kind'[j] = kind[j] /\ data'[j] = data[j]
          /\ \A l \in links : l[3] # i
          /\ \A v \in Writer : target[v] # i
      BY <1>3, <2>1, <2>2, <2>3, <2>4, <2>5, EnterTree
    <2>9. /\ target'[w] = i /\ fds'[w] = {fd[w], i} /\ pc'[w] = "created"
          /\ Last(w)' = Last(w)
          /\ \A v \in Writer \ {w} : Same(v)
      BY <2>1, <2>2, <2>3 DEF MoverOk, TypeOK, Same, Last
    <2>10. TypeOK'
      BY <1>1, <2>1, <2>2, <2>6, <2>8 DEF MoverOk, TypeOK, Active
    <2>11. LocalOk(w)'
      BY <1>1, <2>2, <2>3, <2>6, <2>8, <2>9
         DEF MoverOk, LocalOk, Grows, Active, Descending, Owning
    <2>13. OwnOk(w)'
      BY <1>1, <2>2, <2>6, <2>7, <2>8, <2>9 DEF MoverOk, OwnOk, Owning, Active
    <2>14. WriterInv'
      <3> SUFFICES ASSUME NEW v \in Writer PROVE LocalOk(v)' /\ OwnOk(v)'
        BY DEF WriterInv
      <3>1. CASE v = w
        BY <2>11, <2>13, <3>1
      <3>2. CASE v # w
        <4>1. target[v] # None => data'[target[v]] = data[target[v]]
          BY <2>8 DEF MoverOk, TypeOK
        <4> QED
          BY <2>8, <2>9, <3>2, <4>1, OthersKeep
      <3> QED
        BY <3>1, <3>2
    <2>15. DistinctTargets'
      BY <2>8, <2>9 DEF IInv, DistinctTargets, Same
    <2>16. NoPartialLeft'
      <3> SUFFICES ASSUME NEW l \in links'
                   PROVE  \/ kind'[l[3]] # "file" \/ l[3] \in foreign' \cup orphan'
                          \/ Held(l[3])' \/ data'[l[3]].len = data'[l[3]].src.size
        BY DEF NoPartialLeft
      <3>1. CASE l = <<fd[w], Last(w), i>>
        BY <2>9, <3>1 DEF Held
      <3>2. CASE l \in links
        <4>1. l[3] \in Inode \ {i}
          BY <2>8, <3>2 DEF MoverOk, TypeOK
        <4>2. Held(l[3]) => Held(l[3])'
          BY <2>3, <2>9, <4>1, InodeAssumption DEF Held, Same
        <4> QED
          BY <2>2, <2>8, <3>2, <4>1, <4>2 DEF IInv, NoPartialLeft
      <3> QED
        BY <2>8, <3>1, <3>2
    <2> QED
      BY <2>8, <2>10, <2>14, <2>15, <2>16 DEF IInv
  <1> QED
    BY <1>2, <1>3 DEF Create

(* The unlink removes the entry of the writer's own file and no other.      *)
LEMMA UnlinkOwn ==
  ASSUME IInv, NEW w \in Writer, Unlink(w)
  PROVE  /\ target[w] \in Inode /\ <<fd[w], Last(w), target[w]>> \in links
         /\ links' = links \ {<<fd[w], Last(w), target[w]>>}
         /\ \A l \in links' : l[3] # target[w]
         /\ \A l \in links : l[3] # target[w] => l \in links'
  <1> MoverOk(w)
    BY MoverFacts
  <1>1. target[w] \in Inode /\ <<fd[w], Last(w), target[w]>> \in links
    BY DEF Unlink, MoverOk, OwnOk, Owning
  <1>2. links' = {l \in links : ~(l[1] = fd[w] /\ l[2] = Last(w))}
    BY DEF Unlink
  <1>3. \A l \in links : l[1] = fd[w] /\ l[2] = Last(w) <=> l = <<fd[w], Last(w), target[w]>>
    BY <1>1 DEF IInv, TreeInv
  <1>4. \A l \in links : l[3] = target[w] => l = <<fd[w], Last(w), target[w]>>
    BY <1>1 DEF IInv, TreeInv
  <1> QED
    BY <1>1, <1>2, <1>3, <1>4

LEMMA UnlinkInv ==
  ASSUME IInv, NEW w \in Writer, Unlink(w)
  PROVE  IInv'
  <1> MoverOk(w)
    BY MoverFacts
  <1>1. /\ pc[w] = "unlink" /\ pc' = [pc EXCEPT ![w] = "close"]
        /\ UNCHANGED <<kind, data, call, at, fd, target, fds, exc, calls, foreign, orphan, wrote>>
    BY DEF Unlink, Goto
  <1>2. /\ target[w] \in Inode /\ <<fd[w], Last(w), target[w]>> \in links
        /\ links' = links \ {<<fd[w], Last(w), target[w]>>}
        /\ \A l \in links' : l[3] # target[w]
        /\ \A l \in links : l[3] # target[w] => l \in links'
    BY UnlinkOwn
  <1>3. TypeOK'
    BY <1>1, <1>2 DEF MoverOk, TypeOK, Active
  <1>4. TreeInv'
    BY <1>1, <1>2 DEF IInv, TreeInv
  <1>5. pc'[w] = "close" /\ \A v \in Writer \ {w} : Same(v)
    BY <1>1 DEF MoverOk, TypeOK, Same
  <1>6. LocalOk(w)'
    BY <1>1, <1>5, InodeAssumption DEF MoverOk, LocalOk, Active, Descending, Owning
  <1>7. OwnOk(w)'
    BY <1>1, <1>2, <1>5 DEF MoverOk, OwnOk, Owning
  <1>8. WriterInv'
    <2> SUFFICES ASSUME NEW v \in Writer PROVE LocalOk(v)' /\ OwnOk(v)'
      BY DEF WriterInv
    <2>1. CASE v = w
      BY <1>6, <1>7, <2>1
    <2>2. CASE v # w
      <3>1. LocalOk(v) /\ OwnOk(v) /\ Same(v)
        BY <1>5, <2>2 DEF IInv, WriterInv
      <3>2. LocalOk(v)'
        BY <1>1, <3>1 DEF LocalOk, Same
      <3>3. target[v] = None \/ target[v] # target[w]
        BY <2>2, <1>2, InodeAssumption DEF IInv, DistinctTargets
      <3>4. OwnOk(v)'
        <4>1. pc[v] \in Owning => <<fd[v], Last(v), target[v]>> \in links'
          BY <1>2, <3>1, <3>3, InodeAssumption DEF OwnOk
        <4> QED
          BY <1>1, <1>2, <3>1, <4>1 DEF OwnOk, Same, Last
      <3> QED
        BY <3>2, <3>4
    <2> QED
      BY <2>1, <2>2
  <1>9. DistinctTargets'
    BY <1>1 DEF IInv, DistinctTargets
  <1>10. NoPartialLeft'
    BY <1>1, <1>2 DEF IInv, NoPartialLeft, Held
  <1> QED
    BY <1>3, <1>4, <1>8, <1>9, <1>10 DEF IInv

-----------------------------------------------------------------------------
(* The theorems.                                                            *)

LEMMA NextInv == IInv /\ [Next]_vars => IInv'
  <1> SUFFICES ASSUME IInv, [Next]_vars PROVE IInv'
    OBVIOUS
  <1>1. ASSUME NEW w \in Writer, NEW m \in Member, Refuse(w, m) \/ Begin(w, m)
        PROVE  IInv'
    BY <1>1, RefuseInv, BeginInv
  <1>2. ASSUME NEW w \in Writer, Advance(w) PROVE IInv'
    BY <1>2, MakeRootInv, OpenRootInv, MakeDirInv, OpenDirInv, CreateInv, FdOpenInv,
       WriteInv, CloseTargetInv, UnlinkInv, CloseDirInv DEF Advance
  <1>3. ASSUME NEW w \in Writer, Fault(w) PROVE IInv'
    BY <1>3, WriteFailsInv, UnlinkFailsInv, SyscallFailsInv, InterruptInv, KillInv
       DEF Fault
  <1>4. ASSUME NEW w \in Writer, Restart(w) PROVE IInv'
    BY <1>4, RestartInv
  <1>5. ASSUME NEW d \in Inode, NEW n \in Name \cup {Out},
               NEW k \in {"dir", "file", "link"}, Foreign(d, n, k)
        PROVE  IInv'
    BY <1>5, ForeignInv
  <1>6. CASE UNCHANGED vars
    BY <1>6 DEF vars, IInv, TypeOK, TreeInv, WriterInv, LocalOk, OwnOk, DistinctTargets,
                NoPartialLeft, Held, Last
  <1> QED
    BY <1>1, <1>2, <1>3, <1>4, <1>5, <1>6 DEF Next

(* The inductive invariant holds in every reachable state.                  *)
THEOREM Invariance == Spec => []IInv
  BY InitInv, NextInv, PTL DEF Spec

(* Every state of every extraction is well typed.                           *)
THEOREM TypeCorrect == Spec => []TypeOK
  <1>1. IInv => TypeOK
    BY DEF IInv
  <1> QED
    BY <1>1, Invariance, PTL

(* An incomplete file is on disk only while its call runs, or after a call  *)
(* that was killed, interrupted outside its inner "try", or could not       *)
(* unlink: write_member cleans up after every other failure.                *)
THEOREM NoPartialFiles == Spec => []NoPartialLeft
  <1>1. IInv => NoPartialLeft
    BY DEF IInv
  <1> QED
    BY <1>1, Invariance, PTL

(* No writer holds a descriptor of a directory behind a link, and nothing   *)
(* is created there.                                                        *)
THEOREM Confinement == Spec => []Confined
  <1>1. IInv => Confined
    <2> SUFFICES ASSUME IInv PROVE Confined
      OBVIOUS
    <2>1. ASSUME NEW w \in Writer PROVE Outside \notin fds[w]
      <3> MoverOk(w)
        BY MoverFacts
      <3> QED
        BY InodeAssumption
           DEF MoverOk, LocalOk, OwnOk, Active, Descending, Owning, IInv, TreeInv
    <2>2. \A l \in links : l[1] # Outside
      BY DEF IInv, TreeInv
    <2> QED
      BY <2>1, <2>2 DEF Confined
  <1> QED
    BY <1>1, Invariance, PTL

(* Descriptors never pile up and none outlives its call.                    *)
THEOREM NoDescriptorLeak == Spec => []FdDiscipline
  <1>1. IInv => FdDiscipline
    <2> SUFFICES ASSUME IInv, NEW w \in Writer
                 PROVE  /\ pc[w] \in {"idle", "gone"} => fds[w] = {}
                        /\ fds[w] \subseteq {fd[w], target[w]}
      BY DEF FdDiscipline
    <2> MoverOk(w)
      BY MoverFacts
    <2> QED
      BY DEF MoverOk, LocalOk, Active, Descending, Owning
  <1> QED
    BY <1>1, Invariance, PTL

(* No step of any writer removes, rebinds or writes to an entry that no     *)
(* running call created: extraction never overwrites.                       *)
THEOREM NeverOverwrites == Spec => SettledUntouched
  <1> DEFINE Keeps == \A l \in links : ~Held(l[3]) => l \in links' /\ data'[l[3]] = data[l[3]]
  <1>1. ASSUME IInv, Next PROVE Keeps
    <2> SUFFICES ASSUME NEW l \in links, ~Held(l[3])
                 PROVE  l \in links' /\ data'[l[3]] = data[l[3]]
      OBVIOUS
    <2>1. l[3] \in Inode /\ l[3] \notin Free /\ \A v \in Writer : target[v] # l[3]
      BY <1>1 DEF IInv, TreeInv, TypeOK, Free, Held
    <2>2. ASSUME NEW d, NEW n, NEW i \in Free, NEW k, NEW c, Enter(d, n, i, k, c)
          PROVE  l \in links' /\ data'[l[3]] = data[l[3]]
      BY <1>1, <2>1, <2>2 DEF Enter, IInv, TypeOK
    <2>3. CASE UNCHANGED disk
      BY <2>3 DEF disk
    <2>4. ASSUME NEW w \in Writer, Advance(w)
          PROVE  l \in links' /\ data'[l[3]] = data[l[3]]
      <3>1. CASE Write(w)
        BY <1>1, <2>1, <3>1 DEF Write, IInv, TypeOK
      <3>2. CASE Unlink(w)
        BY <1>1, <2>1, <3>2, UnlinkOwn DEF Unlink
      <3>3. CASE MakeRoot(w)
        BY <2>2, <2>3, <3>3, NewFacts DEF MakeRoot, Leave
      <3>4. CASE OpenRoot(w)
        BY <2>3, <3>4 DEF OpenRoot, Leave
      <3>5. CASE MakeDir(w)
        BY <2>2, <2>3, <3>5, NewFacts DEF MakeDir
      <3>6. CASE OpenDir(w)
        BY <2>3, <3>6 DEF OpenDir, Raise
      <3>7. CASE Create(w)
        BY <2>2, <2>3, <3>7, NewFacts DEF Create, Raise
      <3>8. CASE FdOpen(w) \/ CloseTarget(w) \/ CloseDir(w)
        BY <2>3, <3>8 DEF FdOpen, CloseTarget, CloseDir
      <3> QED
        BY <2>4, <3>1, <3>2, <3>3, <3>4, <3>5, <3>6, <3>7, <3>8 DEF Advance
    <2>5. ASSUME NEW w \in Writer, Fault(w) \/ Restart(w)
          PROVE  UNCHANGED disk
      BY <2>5 DEF Fault, Restart, WriteFails, UnlinkFails, SyscallFails, Interrupt, Kill,
                  Leave, Raise
    <2>6. ASSUME NEW w \in Writer, NEW m \in Member, Refuse(w, m) \/ Begin(w, m)
          PROVE  UNCHANGED disk
      BY <2>6 DEF Refuse, Begin
    <2>7. ASSUME NEW d \in Inode, NEW n \in Name \cup {Out},
                 NEW k \in {"dir", "file", "link"}, Foreign(d, n, k)
          PROVE  l \in links' /\ data'[l[3]] = data[l[3]]
      BY <2>2, <2>7, NewFacts DEF Foreign
    <2> QED
      BY <1>1, <2>3, <2>4, <2>5, <2>6, <2>7 DEF Next
  <1>2. IInv /\ [Next]_vars => [Keeps]_vars
    BY <1>1
  <1>3. [][Keeps]_vars => SettledUntouched
    BY PTL DEF SettledUntouched
  <1> QED
    BY <1>2, <1>3, Invariance, PTL DEF Spec
-----------------------------------------------------------------------------
(* What write_member reports is on disk: the descent ends in the directory  *)
(* of the path, and whoever else writes meanwhile, a path that was reported *)
(* leads to its payload.                                                    *)


-------------------------------------------------------------------------------
(* Induction over the naturals, for a set of them.                         *)

LEMMA LeastNat ==
  ASSUME NEW T, T \subseteq Nat, T # {}
  PROVE  \E x \in T : \A y \in T : x <= y
  <1> DEFINE R == OpToRel(<, Nat)
  <1>1. IsWellFoundedOn(R, Nat)
    BY NatLessThanWellFounded
  <1>2. \A x, y \in Nat : x < y => <<x, y>> \in R
    BY DEF OpToRel
  <1> HIDE DEF R
  <1>3. PICK x \in T : \A y \in T : ~(<<y, x>> \in R)
    BY <1>1, WFMin
  <1>4. \A y \in T : ~(y < x)
    BY <1>2, <1>3
  <1> QED
    BY <1>4

LEMMA NatInduct ==
  ASSUME NEW T, 0 \in T, \A n \in Nat : n \in T => n + 1 \in T
  PROVE  Nat \subseteq T
  <1> SUFFICES ASSUME Nat \ T # {} PROVE FALSE
    OBVIOUS
  <1>1. PICK x \in Nat \ T : \A y \in Nat \ T : x <= y
    BY LeastNat
  <1>2. x # 0 /\ x - 1 \in Nat /\ x - 1 \in T
    BY <1>1
  <1> QED
    BY <1>1, <1>2

-------------------------------------------------------------------------------
(* What a step leaves alone.                                               *)

\* A step of w.
Moves(w) == \/ Advance(w) \/ Fault(w) \/ Restart(w)
            \/ \E m \in Member : Refuse(w, m) \/ Begin(w, m)

\* Entries stay, and so does what they lead to, except for the files T.
Stays(T) == /\ \A l \in links : l[3] \notin T => l \in links' /\ data'[l[3]] = data[l[3]]
            /\ \A i \in Inode : kind[i] # "free" => kind'[i] = kind[i]

LEMMA UnchangedStays == ASSUME NEW T, UNCHANGED disk PROVE Stays(T)
  BY DEF Stays, disk

LEMMA EnterStays ==
  ASSUME IInv, NEW T, NEW d, NEW n, NEW i \in Free, NEW k, NEW c, Enter(d, n, i, k, c)
  PROVE  Stays(T)
  <1>1. \A l \in links : l[3] \in Inode /\ l[3] # i
    BY DEF IInv, TypeOK, TreeInv, Free
  <1> QED
    BY <1>1 DEF Stays, Enter, IInv, TypeOK, Free

LEMMA MoverStays ==
  ASSUME IInv, NEW w \in Writer, Moves(w)
  PROVE  Stays({target[w]})
  <1>1. CASE Write(w)
    BY <1>1 DEF Write, Stays, IInv, TypeOK
  <1>2. CASE Unlink(w)
    BY <1>2, UnlinkOwn DEF Unlink, Stays
  <1>3. CASE MakeRoot(w)
    BY <1>3, EnterStays, UnchangedStays, NewFacts DEF MakeRoot, Leave
  <1>4. CASE MakeDir(w)
    BY <1>4, EnterStays, UnchangedStays, NewFacts DEF MakeDir
  <1>5. CASE Create(w)
    BY <1>5, EnterStays, UnchangedStays, NewFacts DEF Create, Raise
  <1>6. CASE OpenRoot(w) \/ OpenDir(w) \/ FdOpen(w) \/ CloseTarget(w) \/ CloseDir(w)
    BY <1>6, UnchangedStays DEF OpenRoot, Leave, OpenDir, Raise, FdOpen, CloseTarget, CloseDir
  <1>7. CASE Fault(w) \/ Restart(w)
    BY <1>7, UnchangedStays DEF Fault, Restart, WriteFails, UnlinkFails, SyscallFails, Interrupt,
                                Kill, Leave, Raise
  <1>8. CASE \E m \in Member : Refuse(w, m) \/ Begin(w, m)
    BY <1>8, UnchangedStays DEF Refuse, Begin
  <1> QED
    BY <1>1, <1>2, <1>3, <1>4, <1>5, <1>6, <1>7, <1>8 DEF Moves, Advance

LEMMA MoverAlone ==
  ASSUME IInv, NEW w \in Writer, Moves(w)
  PROVE  /\ \A v \in Writer \ {w} : Same(v)
         /\ target'[w] \in {target[w], None} \cup Free
  <1> TypeOK
    BY DEF IInv
  <1>1. CASE MakeRoot(w) \/ OpenRoot(w) \/ MakeDir(w)
    BY <1>1 DEF MakeRoot, OpenRoot, MakeDir, Leave, Goto, Same, TypeOK
  <1>2. CASE OpenDir(w)
    BY <1>2 DEF OpenDir, Raise, Goto, Same, TypeOK
  <1>3. CASE Create(w)
    BY <1>3, NewFacts DEF Create, Raise, Goto, Same, TypeOK
  <1>4. CASE FdOpen(w) \/ Write(w) \/ CloseTarget(w) \/ Unlink(w)
    BY <1>4 DEF FdOpen, Write, CloseTarget, Unlink, Goto, Same, TypeOK, local
  <1>5. CASE CloseDir(w)
    BY <1>5 DEF CloseDir, Goto, Same, TypeOK
  <1>6. CASE Fault(w)
    BY <1>6 DEF Fault, WriteFails, UnlinkFails, SyscallFails, Interrupt, Kill, Leave, Raise, Goto,
                Same, TypeOK
  <1>7. CASE Restart(w)
    BY <1>7 DEF Restart, Goto, Same, TypeOK
  <1>8. CASE \E m \in Member : Refuse(w, m) \/ Begin(w, m)
    BY <1>8 DEF Refuse, Begin, Goto, Same, TypeOK, local
  <1> QED
    BY <1>1, <1>2, <1>3, <1>4, <1>5, <1>6, <1>7, <1>8 DEF Moves, Advance

-------------------------------------------------------------------------------
(* The directories of a path stay where they are.                          *)

\* Descent in a tree of entries L and kinds K.
Way(L, K, m, k, d) ==
  \E c \in [0..k -> Inode] :
    /\ c[k] = d /\ <<Top, Out, c[0]>> \in L
    /\ \A j \in 1..k : <<c[j - 1], Parts(m)[j], c[j]>> \in L
    /\ \A j \in 0..k : K[c[j]] = "dir"

LEMMA WayIsDescent ==
  /\ \A m, k, d : Descent(m, k, d) <=> Way(links, kind, m, k, d)
  /\ \A w \in Writer :
       /\ Descent(call[w], at[w] - 1, fd[w]) <=> Way(links, kind, call[w], at[w] - 1, fd[w])
       /\ Descent(call[w], at[w] - 1, fd[w])'
            <=> Way(links', kind', call'[w], at'[w] - 1, fd'[w])
  BY DEF Descent, Way

LEMMA DescentKept ==
  ASSUME IInv, NEW T, Stays(T), \A i \in T : i \in Inode => kind[i] # "dir",
         NEW m, NEW k \in Nat, NEW d, Way(links, kind, m, k, d)
  PROVE  Way(links', kind', m, k, d)
  <1>1. PICK c \in [0..k -> Inode] :
          /\ c[k] = d /\ <<Top, Out, c[0]>> \in links
          /\ \A j \in 1..k : <<c[j - 1], Parts(m)[j], c[j]>> \in links
          /\ \A j \in 0..k : kind[c[j]] = "dir"
    BY DEF Way
  <1>2. \A j \in 0..k : c[j] \in Inode /\ c[j] \notin T /\ kind'[c[j]] = "dir"
    BY <1>1 DEF Stays
  <1>3. <<Top, Out, c[0]>> \in links'
    BY <1>1, <1>2 DEF Stays
  <1>4. \A j \in 1..k : <<c[j - 1], Parts(m)[j], c[j]>> \in links'
    <2> SUFFICES ASSUME NEW j \in 1..k PROVE <<c[j - 1], Parts(m)[j], c[j]>> \in links'
      OBVIOUS
    <2>1. c[j] \notin T
      BY <1>2
    <2> QED
      BY <1>1, <2>1 DEF Stays
  <1> QED
    BY <1>1, <1>2, <1>3, <1>4 DEF Way

LEMMA DescentOn ==
  ASSUME IInv, NEW m, NEW k \in Nat, NEW d, Way(links, kind, m, k, d),
         NEW i \in Inode, <<d, Parts(m)[k + 1], i>> \in links, kind[i] = "dir"
  PROVE  Way(links, kind, m, k + 1, i)
  <1>1. PICK c \in [0..k -> Inode] :
          /\ c[k] = d /\ <<Top, Out, c[0]>> \in links
          /\ \A j \in 1..k : <<c[j - 1], Parts(m)[j], c[j]>> \in links
          /\ \A j \in 0..k : kind[c[j]] = "dir"
    BY DEF Way
  <1> DEFINE b == [j \in 0..(k + 1) |-> IF j <= k THEN c[j] ELSE i]
  <1>2. b \in [0..(k + 1) -> Inode]
    OBVIOUS
  <1>3. b[k + 1] = i /\ b[0] = c[0] /\ \A j \in 0..k : b[j] = c[j]
    OBVIOUS
  <1> HIDE DEF b
  <1>4. \A j \in 1..(k + 1) : <<b[j - 1], Parts(m)[j], b[j]>> \in links
    <2> SUFFICES ASSUME NEW j \in 1..(k + 1) PROVE <<b[j - 1], Parts(m)[j], b[j]>> \in links
      OBVIOUS
    <2>1. CASE j \in 1..k
      <3>1. b[j] = c[j] /\ b[j - 1] = c[j - 1]
        BY <1>3, <2>1
      <3> QED
        BY <1>1, <2>1, <3>1
    <2>2. CASE j = k + 1
      <3>1. b[j] = i /\ b[j - 1] = d
        BY <1>1, <1>3, <2>2
      <3> QED
        BY <2>2, <3>1
    <2> QED
      BY <2>1, <2>2
  <1>5. \A j \in 0..(k + 1) : kind[b[j]] = "dir"
    BY <1>1, <1>3
  <1> QED
    BY <1>1, <1>2, <1>3, <1>4, <1>5 DEF Way

\* What opening a directory by its name yields.
LEMMA OpenedDir ==
  ASSUME TypeOK, NEW d, NEW n, NEW i \in OpenDirAt(d, n)
  PROVE  i \in Inode /\ <<d, n, i>> \in links /\ kind[i] = "dir"
  <1>1. kind[i] = "dir" /\ i \in At(d, n)
    BY DEF OpenDirAt
  <1>2. PICK l \in links : l[1] = d /\ l[2] = n /\ l[3] = i
    BY <1>1 DEF At
  <1>3. l \in Inode \X (Name \cup {Out}) \X Inode
    BY DEF TypeOK
  <1> QED
    BY <1>1, <1>2, <1>3

\* Files that calls hold are no directories.
LEMMA HeldAreFiles == ASSUME IInv, NEW w \in Writer, target[w] # None
                      PROVE  target[w] \in Inode /\ kind[target[w]] = "file"
  BY ZenonT(30) DEF IInv, TypeOK, WriterInv, OwnOk

-------------------------------------------------------------------------------
(* A call that does not move.                                              *)

LEMMA OthersDescend ==
  ASSUME DiskInv, NEW T, Stays(T), NEW v \in Writer, Same(v),
         \A i \in T : i \in Inode => kind[i] # "dir",
         target[v] # None => target[v] \notin T
  PROVE  DescentOk(v)'
  <1> USE DEF Same
  <1>1. IInv /\ TypeOK /\ DescentOk(v) /\ LocalOk(v) /\ OwnOk(v)
    BY DEF DiskInv, IInv, WriterInv
  <1>2. MoverOk(v)
    BY <1>1, MoverFacts
  <1>3. at[v] - 1 \in Nat
    BY <1>1 DEF TypeOK
  <1>4. Descent(call[v], at[v] - 1, fd[v]) => Descent(call[v], at[v] - 1, fd[v])'
    BY <1>1, <1>3, DescentKept, WayIsDescent
  <1>5. pc[v] = "close" /\ exc[v] = "none" /\ ~call[v].is_dir =>
          /\ target[v] \in Inode /\ <<fd[v], Last(v), target[v]>> \in links'
          /\ data'[target[v]].len = call[v].size
    BY <1>1, InodeAssumption DEF DescentOk, Stays
  <1>6. Last(v)' = Last(v)
    BY DEF Last
  <1> QED
    BY <1>1, <1>4, <1>5, <1>6 DEF DescentOk

-------------------------------------------------------------------------------
(* The call that moves.                                                    *)

LEMMA MoverDescends ==
  ASSUME DiskInv, NEW w \in Writer, Moves(w)
  PROVE  DescentOk(w)'
  <1> TypeOK /\ DescentOk(w) /\ MoverOk(w) /\ LocalOk(w) /\ OwnOk(w) /\ IInv
    BY MoverFacts DEF DiskInv, IInv, WriterInv
  <1>1. Stays({target[w]})
    BY MoverStays
  <1>2. at[w] - 1 \in Nat
    BY DEF TypeOK
  <1>3. Way(links, kind, call[w], at[w] - 1, fd[w])
          => Way(links', kind', call[w], at[w] - 1, fd[w])
    <2>1. \A i \in {target[w]} : i \in Inode => kind[i] # "dir"
      BY HeldAreFiles, InodeAssumption
    <2> QED
      BY <1>1, <1>2, <2>1, DescentKept
  <1>4. ASSUME UNCHANGED <<call, at, fd>>, Descent(call[w], at[w] - 1, fd[w])
        PROVE  Descent(call[w], at[w] - 1, fd[w])'
    BY <1>3, <1>4, WayIsDescent
  <1>5. CASE pc'[w] \in {"idle", "gone", "makeroot", "openroot"}
    BY <1>5 DEF DescentOk, Descending, Owning
  <1>6. CASE pc'[w] = "close" /\ exc'[w] # "none"
    BY <1>6 DEF DescentOk, Descending, Owning
  <1>7. CASE OpenRoot(w)
    <2>1. CASE pc'[w] = "idle"
      BY <1>5, <2>1
    <2>2. CASE pc'[w] # "idle"
      <3>1. PICK i \in OpenDirAt(Top, Out) :
              /\ pc[w] = "openroot" /\ fd'[w] = i /\ pc'[w] = AfterDir(call[w], 1)
              /\ UNCHANGED <<disk, call, at, target, exc>>
        BY <1>7, <2>2 DEF OpenRoot, Leave, Goto, TypeOK
      <3>2. at[w] = 1 /\ call[w] \in Member /\ DirCount(call[w]) \in Nat
            /\ Len(Parts(call[w])) \in Nat \ {0} /\ call[w].is_dir \in BOOLEAN
            /\ DirCount(call[w]) = Len(Parts(call[w])) - IF call[w].is_dir THEN 0 ELSE 1
        BY <3>1 DEF MoverOk, LocalOk, Active
      <3>3. i \in Inode /\ <<Top, Out, i>> \in links /\ kind[i] = "dir"
        BY <3>1, OpenedDir
      <3>4. Way(links', kind', call[w], 0, i)
        <4> DEFINE c == [j \in 0..0 |-> i]
        <4>1. c \in [0..0 -> Inode] /\ c[0] = i /\ \A j \in 0..0 : c[j] = i
          BY <3>3
        <4> HIDE DEF c
        <4>2. /\ <<Top, Out, c[0]>> \in links' /\ \A j \in 0..0 : kind'[c[j]] = "dir"
              /\ \A j \in 1..0 : <<c[j - 1], Parts(call[w])[j], c[j]>> \in links'
          BY <3>1, <3>3, <4>1 DEF disk
        <4> QED
          BY <4>1, <4>2 DEF Way
      <3>5. pc'[w] \in {"mkdir", "create"} /\ (pc'[w] = "create" => DirCount(call[w]) = 0)
        BY <3>1, <3>2 DEF AfterDir
      <3>6. at'[w] - 1 = 0
        BY <3>1, <3>2
      <3>7. Descent(call[w], at[w] - 1, fd[w])'
        BY <3>1, <3>4, <3>6, WayIsDescent
      <3> QED
        BY <3>1, <3>5, <3>6, <3>7 DEF DescentOk, Descending, Owning
    <2> QED
      BY <2>1, <2>2
  <1>8. CASE MakeDir(w)
    <2>1. pc[w] = "mkdir" /\ pc'[w] = "opendir" /\ UNCHANGED <<call, at, fd>>
      BY <1>8 DEF MakeDir, Goto, TypeOK
    <2> QED
      BY <1>4, <2>1 DEF DescentOk, Descending, Owning
  <1>9. CASE OpenDir(w)
    <2>1. CASE OpenDirAt(fd[w], Part(w)) = {}
      BY <1>6, <1>9, <2>1 DEF OpenDir, Raise, Goto, TypeOK
    <2>2. CASE OpenDirAt(fd[w], Part(w)) # {}
      <3>1. PICK i \in OpenDirAt(fd[w], Part(w)) :
              /\ pc[w] = "opendir" /\ fd'[w] = i /\ at'[w] = at[w] + 1
              /\ pc'[w] = AfterDir(call[w], at[w] + 1)
              /\ UNCHANGED <<disk, call, target, exc>>
        BY <1>9, <2>2 DEF OpenDir, Goto, TypeOK
      <3>2. /\ call[w] \in Member /\ DirCount(call[w]) \in Nat /\ at[w] <= DirCount(call[w])
            /\ Len(Parts(call[w])) \in Nat \ {0} /\ call[w].is_dir \in BOOLEAN
            /\ DirCount(call[w]) = Len(Parts(call[w])) - IF call[w].is_dir THEN 0 ELSE 1
        BY <3>1 DEF MoverOk, LocalOk, Active
      <3>3. i \in Inode /\ <<fd[w], Part(w), i>> \in links /\ kind[i] = "dir"
        BY <3>1, OpenedDir
      <3>4. Way(links, kind, call[w], at[w] - 1, fd[w])
        BY <3>1, WayIsDescent DEF DescentOk, Descending
      <3>5. (at[w] - 1) + 1 = at[w]
        BY <1>2 DEF TypeOK
      <3>6. Way(links, kind, call[w], at[w], i)
        <4> DEFINE k == at[w] - 1
        <4>1. k \in Nat /\ k + 1 = at[w] /\ Way(links, kind, call[w], k, fd[w])
          BY <1>2, <3>4, <3>5
        <4> HIDE DEF k
        <4>2. <<fd[w], Parts(call[w])[k + 1], i>> \in links
          BY <3>3, <4>1 DEF Part
        <4>3. Way(links, kind, call[w], k + 1, i)
          BY <3>3, <4>1, <4>2, DescentOn
        <4> QED
          BY <4>1, <4>3
      <3>7. Way(links', kind', call[w], at[w], i)
        BY <3>1, <3>6 DEF disk
      <3>8. at'[w] - 1 = at[w]
        BY <1>2, <3>1 DEF TypeOK
      <3>9. Descent(call[w], at[w] - 1, fd[w])'
        BY <3>1, <3>7, <3>8, WayIsDescent
      <3>10. CASE at[w] + 1 <= DirCount(call[w])
        <4>1. pc'[w] = "mkdir"
          BY <1>2, <3>1, <3>2, <3>10 DEF AfterDir, TypeOK
        <4> QED
          BY <3>9, <4>1 DEF DescentOk, Descending, Owning
      <3>11. CASE ~(at[w] + 1 <= DirCount(call[w]))
        <4>1. at[w] = DirCount(call[w]) /\ at'[w] - 1 = DirCount(call'[w])
          BY <1>2, <3>1, <3>2, <3>8, <3>11 DEF TypeOK
        <4>2. \/ pc'[w] = "close" /\ call'[w].is_dir
              \/ pc'[w] = "create"
          BY <1>2, <3>1, <3>2, <3>11 DEF AfterDir, TypeOK
        <4> QED
          BY <3>9, <4>1, <4>2 DEF DescentOk, Descending, Owning
      <3> QED
        BY <3>10, <3>11
    <2> QED
      BY <2>1, <2>2
  <1>10. CASE Create(w)
    <2>1. CASE Bound(fd[w], Last(w))
      BY <1>6, <1>10, <2>1 DEF Create, Raise, Goto, TypeOK
    <2>2. CASE ~Bound(fd[w], Last(w))
      <3>1. pc[w] = "create" /\ pc'[w] = "created" /\ UNCHANGED <<call, at, fd>>
        BY <1>10, <2>2 DEF Create, Goto, TypeOK
      <3> QED
        BY <1>4, <3>1 DEF DescentOk, Descending, Owning
    <2> QED
      BY <2>1, <2>2
  <1>11. CASE FdOpen(w) \/ Write(w)
    <2>1. pc[w] \in {"created", "write"} /\ pc'[w] = "write" /\ UNCHANGED <<call, at, fd>>
      BY <1>11 DEF FdOpen, Write, Goto, TypeOK, local
    <2> QED
      BY <1>4, <2>1 DEF DescentOk, Descending, Owning
  <1>12. CASE CloseTarget(w)
    <2>1. /\ pc[w] = "write" /\ pc'[w] = "close" /\ UNCHANGED <<disk, call, at, fd, target>>
          /\ data[target[w]].len = call[w].size
      BY <1>12 DEF CloseTarget, Goto, TypeOK
    <2>2. /\ target'[w] \in Inode /\ <<fd'[w], Last(w)', target'[w]>> \in links'
          /\ data'[target'[w]].len = call'[w].size
      BY <2>1 DEF OwnOk, Owning, Last, disk
    <2> QED
      BY <1>4, <2>1, <2>2 DEF DescentOk, Descending, Owning
  <1>13. CASE \E e \in {"oserror", "interrupt"} : WriteFails(w, e)
    <2>1. /\ pc[w] = "write" /\ pc'[w] = "unlink" /\ exc'[w] # "none"
          /\ UNCHANGED <<call, at, fd>>
      BY <1>13 DEF WriteFails, Goto, TypeOK
    <2> QED
      BY <1>4, <2>1 DEF DescentOk, Descending, Owning
  <1>14. CASE Unlink(w)
    <2>1. pc'[w] = "close" /\ exc'[w] # "none"
      BY <1>14 DEF Unlink, Goto, TypeOK, DescentOk
    <2> QED
      BY <1>6, <2>1
  <1>15. CASE MakeRoot(w) \/ CloseDir(w) \/ Restart(w) \/ Kill(w)
    <2>1. pc'[w] \in {"idle", "gone", "makeroot", "openroot"}
      BY <1>15 DEF MakeRoot, CloseDir, Restart, Kill, Leave, Goto, TypeOK
    <2> QED
      BY <1>5, <2>1
  <1>16. CASE UnlinkFails(w) \/ SyscallFails(w) \/ Interrupt(w)
    <2>1. pc'[w] \in {"idle", "gone"} \/ (pc'[w] = "close" /\ exc'[w] # "none")
      BY <1>16 DEF UnlinkFails, SyscallFails, Interrupt, Leave, Raise, Goto, TypeOK
    <2> QED
      BY <1>5, <1>6, <2>1
  <1>17. CASE \E m \in Member : Refuse(w, m) \/ Begin(w, m)
    <2>1. pc'[w] \in {"idle", "makeroot"}
      BY <1>17 DEF Refuse, Begin, Goto, TypeOK, local
    <2> QED
      BY <1>5, <2>1
  <1> QED
    BY <1>7, <1>8, <1>9, <1>10, <1>11, <1>12, <1>13, <1>14, <1>15, <1>16, <1>17
       DEF Moves, Advance, Fault

-------------------------------------------------------------------------------
(* What was reported stays, and what is reported now is so.                *)

LEMMA SettledKept ==
  ASSUME DiskInv, NEW T, Stays(T), NEW r \in wrote,
         \A i \in T : i \in Inode => Held(i) /\ kind[i] # "dir",
         \A v \in Writer : target'[v] \in {target[v], None} \cup Free
  PROVE  Settled(r)'
  <1> DEFINE m == r.member
             k == DirCount(r.member)
  <1>1. /\ IInv /\ m \in Member /\ Parts(m) # Refused /\ r.ino \in Inode /\ InPlace(m, r.ino)
        /\ ~m.is_dir => /\ kind[r.ino] = "file" /\ ~Held(r.ino)
                        /\ data[r.ino] = [src |-> m, len |-> m.size]
    BY DEF DiskInv, ReportedOk, Settled
  <1>2. k \in Nat
    BY <1>1, PathFacts
  <1>3. ASSUME NEW d, Way(links, kind, m, k, d) PROVE Way(links', kind', m, k, d)
    BY <1>1, <1>2, <1>3, DescentKept
  <1>4. CASE m.is_dir
    <2>1. Way(links, kind, m, k, r.ino)
      BY <1>1, <1>4 DEF InPlace, Descent, Way
    <2>2. Way(links', kind', m, k, r.ino)
      BY <1>3, <2>1
    <2>3. InPlace(r.member, r.ino)'
      BY <1>4, <2>2 DEF InPlace, Descent, Way
    <2> QED
      BY <1>1, <1>4, <2>3 DEF Settled
  <1>5. CASE ~m.is_dir
    <2>1. PICK d \in Inode : /\ Way(links, kind, m, k, d)
                             /\ <<d, Parts(m)[Len(Parts(m))], r.ino>> \in links
      BY <1>1, <1>5 DEF InPlace, Descent, Way
    <2>2. Way(links', kind', m, k, d)
      BY <1>3, <2>1
    <2>3. r.ino \notin T /\ r.ino \notin Free
      BY <1>1, <1>5 DEF Free
    <2>4. <<d, Parts(m)[Len(Parts(m))], r.ino>> \in links' /\ data'[r.ino] = data[r.ino]
      BY <2>1, <2>3 DEF Stays
    <2>5. InPlace(r.member, r.ino)'
      BY <1>5, <2>1, <2>2, <2>4 DEF InPlace, Descent, Way
    <2>6. kind'[r.ino] = "file"
      BY <1>1, <1>5 DEF Stays
    <2>7. ~Held(r.ino)'
      BY <1>1, <1>5, <2>3, InodeAssumption DEF Held
    <2> QED
      BY <1>1, <1>5, <2>4, <2>5, <2>6, <2>7 DEF Settled
  <1> QED
    BY <1>4, <1>5

\* The call that returns well.
LEMMA SettlesNow ==
  ASSUME DiskInv, NEW w \in Writer, CloseDir(w), exc[w] = "none",
         NEW r, r = [by |-> w, nth |-> calls[w], member |-> call[w],
                     ino |-> IF call[w].is_dir THEN fd[w] ELSE target[w]]
  PROVE  Settled(r)'
  <1>1. /\ IInv /\ TypeOK /\ DescentOk(w) /\ MoverOk(w) /\ LocalOk(w) /\ OwnOk(w)
        /\ pc[w] = "close" /\ UNCHANGED disk /\ target'[w] = None
        /\ \A v \in Writer \ {w} : target'[v] = target[v]
    BY MoverFacts DEF DiskInv, IInv, WriterInv, CloseDir, TypeOK
  <1>2. /\ r.member = call[w] /\ call[w] \in Member /\ Parts(call[w]) # Refused
        /\ fd[w] \in Inode /\ call[w].is_dir \in BOOLEAN
        /\ r.ino = IF call[w].is_dir THEN fd[w] ELSE target[w]
    BY <1>1, MemberAssumption DEF LocalOk, Active
  <1>3. Way(links, kind, call[w], DirCount(call[w]), fd[w])
    BY <1>1, WayIsDescent DEF DescentOk
  <1>4. Way(links', kind', r.member, DirCount(r.member), fd[w])
    BY <1>1, <1>2, <1>3 DEF disk
  <1>5. CASE call[w].is_dir
    <2>1. InPlace(r.member, r.ino)'
      BY <1>2, <1>4, <1>5, ZenonT(30) DEF InPlace, Descent, Way
    <2> QED
      BY <1>2, <1>5, <2>1 DEF Settled
  <1>6. CASE ~call[w].is_dir
    <2>1. /\ target[w] \in Inode /\ <<fd[w], Last(w), target[w]>> \in links
          /\ data[target[w]].len = call[w].size
      BY <1>1, <1>6 DEF DescentOk
    <2>2. kind[target[w]] = "file" /\ data[target[w]].src = call[w]
      BY <1>1, <2>1, InodeAssumption DEF OwnOk
    <2>3. data[target[w]] = [src |-> call[w], len |-> call[w].size]
      BY <1>1, <2>1, <2>2 DEF TypeOK
    <2>4. \A v \in Writer : target'[v] # target[w]
      BY <1>1, <2>1, InodeAssumption DEF IInv, DistinctTargets
    <2>5. <<fd[w], Parts(r.member)[Len(Parts(r.member))], r.ino>> \in links'
      BY <1>1, <1>2, <1>6, <2>1 DEF Last, disk
    <2>6. InPlace(r.member, r.ino)'
      BY <1>2, <1>4, <1>6, <2>5 DEF InPlace, Descent, Way
    <2>7. ~Held(r.ino)'
      BY <1>2, <1>6, <2>4 DEF Held
    <2>8. kind'[r.ino] = "file" /\ data'[r.ino] = [src |-> r.member, len |-> r.member.size]
      BY <1>1, <1>2, <1>6, <2>2, <2>3 DEF disk
    <2> QED
      BY <1>2, <1>6, <2>1, <2>6, <2>7, <2>8 DEF Settled
  <1> QED
    BY <1>2, <1>5, <1>6

-------------------------------------------------------------------------------
(* The invariant.                                                          *)

LEMMA DiskInit == Init => DiskInv
  BY InitInv DEF Init, DiskInv, DescentOk, ReportedOk, Descending, Owning

LEMMA WroteBy ==
  ASSUME NEW w \in Writer, Moves(w)
  PROVE  \/ wrote' = wrote
         \/ /\ CloseDir(w) /\ exc[w] = "none"
            /\ wrote' = wrote \cup
                 {[by |-> w, nth |-> calls[w], member |-> call[w],
                   ino |-> IF call[w].is_dir THEN fd[w] ELSE target[w]]}
  <1>1. CASE Advance(w)
    BY <1>1 DEF Advance, MakeRoot, OpenRoot, MakeDir, OpenDir, Create, FdOpen, Write, CloseTarget,
                Unlink, CloseDir, Leave, Raise
  <1>2. CASE Fault(w) \/ Restart(w)
    BY <1>2 DEF Fault, Restart, WriteFails, UnlinkFails, SyscallFails, Interrupt, Kill, Leave, Raise
  <1>3. CASE \E m \in Member : Refuse(w, m) \/ Begin(w, m)
    BY <1>3 DEF Refuse, Begin
  <1> QED
    BY <1>1, <1>2, <1>3 DEF Moves

LEMMA DiskNext == DiskInv /\ [Next]_vars => DiskInv'
  <1> SUFFICES ASSUME DiskInv, [Next]_vars PROVE DiskInv'
    OBVIOUS
  <1>1. IInv /\ IInv'
    BY NextInv DEF DiskInv
  <1>2. ASSUME NEW w \in Writer, Moves(w) PROVE DiskInv'
    <2>1. Stays({target[w]}) /\ \A v \in Writer \ {w} : Same(v)
      BY <1>1, <1>2, MoverStays, MoverAlone
    <2>2. \A i \in {target[w]} : i \in Inode => Held(i) /\ kind[i] # "dir"
      BY <1>1, HeldAreFiles, InodeAssumption DEF Held
    <2>3. ASSUME NEW v \in Writer \ {w} PROVE DescentOk(v)'
      <3>1. target[v] # None => target[v] \notin {target[w]}
        BY <1>1 DEF IInv, DistinctTargets
      <3> QED
        BY <2>1, <2>2, <3>1, OthersDescend
    <2>4. DescentOk(w)'
      BY <1>2, MoverDescends
    <2>5. \A v \in Writer : target'[v] \in {target[v], None} \cup Free
      BY <1>1, <1>2, <2>1, MoverAlone DEF Same
    <2>6. \A r \in wrote : Settled(r)'
      BY <2>1, <2>2, <2>5, SettledKept
    <2>7. \A r \in wrote' : Settled(r)'
      BY <1>2, <2>6, WroteBy, SettlesNow
    <2> QED
      BY <1>1, <2>3, <2>4, <2>7 DEF DiskInv, ReportedOk
  <1>3. ASSUME NEW d \in Inode, NEW n \in Name \cup {Out},
               NEW k \in {"dir", "file", "link"}, Foreign(d, n, k)
        PROVE  DiskInv'
    <2>1. PICK i \in Free : \E c : Enter(d, n, i, k, c)
      BY <1>3, NewFacts DEF Foreign
    <2>2. Stays({})
      BY <1>1, <2>1, EnterStays
    <2>3. UNCHANGED <<local, wrote>>
      BY <1>3 DEF Foreign
    <2>4. ASSUME NEW v \in Writer PROVE DescentOk(v)'
      <3>1. Same(v)
        BY <2>3 DEF Same, local
      <3> QED
        BY <2>2, <3>1, OthersDescend
    <2>5. \A r \in wrote : Settled(r)'
      BY <2>2, <2>3, SettledKept DEF local
    <2> QED
      BY <1>1, <2>3, <2>4, <2>5 DEF DiskInv, ReportedOk
  <1>4. CASE UNCHANGED vars
    <2>1. Stays({}) /\ \A v \in Writer : Same(v)
      BY <1>4, UnchangedStays DEF vars, disk, Same
    <2>2. \A v \in Writer : DescentOk(v)'
      BY <2>1, OthersDescend
    <2>3. \A r \in wrote : Settled(r)'
      BY <1>4, <2>1, SettledKept DEF vars
    <2> QED
      BY <1>1, <1>4, <2>2, <2>3 DEF DiskInv, ReportedOk, vars
  <1> QED
    BY <1>2, <1>3, <1>4 DEF Next, Moves

-------------------------------------------------------------------------------
(* A path that leads through a chain of directories names what is at its   *)
(* end and nothing else: the recursion of Resolve follows the chain.       *)

LEMMA OneAt == ASSUME IInv, NEW d, NEW n, NEW i, <<d, n, i>> \in links PROVE At(d, n) = {i}
  BY DEF At, IInv, TreeInv

LEMMA ResolveChain ==
  ASSUME IInv, NEW path \in Seq(Name), NEW c \in [0..Len(path) -> Inode],
         <<Top, Out, c[0]>> \in links,
         \A j \in 1..Len(path) : <<c[j - 1], path[j], c[j]>> \in links
  PROVE  Resolve(path) = {c[Len(path)]}
  <1> DEFINE n == Len(path)
             Next1(f) == [k \in 0..n |-> IF k = 0 THEN At(Top, Out)
                                         ELSE UNION {At(d, path[k]) : d \in f[k - 1]}]
             one == [k \in 0..n |-> {c[k]}]
             reach == CHOOSE f : f = Next1(f)
  <1>1. n \in Nat
    OBVIOUS
  <1>2. At(Top, Out) = {c[0]}
    BY OneAt
  <1>3. \A j \in 1..n : At(c[j - 1], path[j]) = {c[j]}
    BY OneAt
  <1>4. one = Next1(one)
    <2>1. ASSUME NEW k \in 0..n
          PROVE  one[k] = IF k = 0 THEN At(Top, Out) ELSE UNION {At(d, path[k]) : d \in one[k - 1]}
      <3>1. CASE k = 0
        BY <1>1, <1>2, <3>1
      <3>2. CASE k # 0
        <4>1. k \in 1..n /\ k - 1 \in 0..n
          BY <1>1, <3>2
        <4>2. one[k] = {c[k]} /\ one[k - 1] = {c[k - 1]}
          BY <4>1
        <4> QED
          BY <1>3, <3>2, <4>1, <4>2, SMTT(30)
      <3> QED
        BY <3>1, <3>2
    <2> QED
      BY <2>1
  <1>5. reach = Next1(reach)
    BY <1>4
  <1>6. Resolve(path) = reach[n]
    BY DEF Resolve
  <1> HIDE DEF reach
  <1>r. \A k \in 0..n : reach[k] = Next1(reach)[k]
    BY <1>5
  <1>7. reach[0] = {c[0]}
    <2>1. 0 \in 0..n
      BY <1>1
    <2>2. Next1(reach)[0] = At(Top, Out)
      BY <2>1
    <2> QED
      BY <1>2, <1>r, <2>1, <2>2
  <1>8. ASSUME NEW k \in 0..n, k # n, reach[k] = {c[k]} PROVE reach[k + 1] = {c[k + 1]}
    <2>1. k + 1 \in 1..n /\ (k + 1) - 1 = k
      BY <1>1, <1>8
    <2>2. reach[k + 1] = UNION {At(d, path[k + 1]) : d \in reach[k]}
      <3>1. k + 1 \in 0..n /\ k + 1 # 0
        BY <1>1, <2>1
      <3>2. Next1(reach)[k + 1] = UNION {At(d, path[k + 1]) : d \in reach[(k + 1) - 1]}
        BY <3>1
      <3> QED
        BY <1>r, <2>1, <3>1, <3>2
    <2>3. At(c[k], path[k + 1]) = {c[k + 1]}
      BY <1>3, <2>1
    <2> QED
      BY <1>8, <2>2, <2>3
  <1> HIDE DEF one, Next1
  <1>9. Nat \subseteq {k \in Nat : k <= n => reach[k] = {c[k]}}
    <2> DEFINE T == {k \in Nat : k <= n => reach[k] = {c[k]}}
    <2>1. 0 \in T
      BY <1>7
    <2>2. \A k \in Nat : k \in T => k + 1 \in T
      BY <1>1, <1>8
    <2> HIDE DEF T
    <2> QED
      BY <2>1, <2>2, NatInduct DEF T
  <1> QED
    BY <1>1, <1>6, <1>9

LEMMA DiskInvWrote == DiskInv => WroteIsOnDisk
  <1> SUFFICES ASSUME DiskInv, NEW r \in wrote
               PROVE  /\ Resolve(Parts(r.member)) = {r.ino}
                      /\ IF r.member.is_dir THEN kind[r.ino] = "dir"
                         ELSE /\ kind[r.ino] = "file"
                              /\ data[r.ino] = [src |-> r.member, len |-> r.member.size]
    BY DEF WroteIsOnDisk
  <1> DEFINE m == r.member
             parts == Parts(m)
  <1>1. IInv /\ Settled(r)
    BY DEF DiskInv, ReportedOk
  <1>2. m \in Member /\ parts # Refused /\ m.is_dir \in BOOLEAN
    BY <1>1, MemberAssumption DEF Settled
  <1>3. parts \in Seq(Name) /\ Len(parts) \in Nat \ {0}
    BY <1>2, PathFacts
  <1>4. CASE m.is_dir
    <2>1. DirCount(m) = Len(parts)
      BY <1>4 DEF DirCount
    <2>2. PICK c \in [0..Len(parts) -> Inode] :
            /\ c[Len(parts)] = r.ino /\ <<Top, Out, c[0]>> \in links
            /\ \A j \in 1..Len(parts) : <<c[j - 1], parts[j], c[j]>> \in links
            /\ \A j \in 0..Len(parts) : kind[c[j]] = "dir"
      BY <1>1, <1>4, <2>1 DEF Settled, InPlace, Descent
    <2>3. Resolve(parts) = {r.ino}
      BY <1>1, <1>3, <2>2, ResolveChain
    <2>4. kind[r.ino] = "dir"
      BY <1>3, <2>2
    <2> QED
      BY <1>4, <2>3, <2>4
  <1>5. CASE ~m.is_dir
    <2> DEFINE n == Len(parts)
    <2>1. DirCount(m) = n - 1
      BY <1>5 DEF DirCount
    <2>2. PICK d \in Inode : Descent(m, n - 1, d) /\ <<d, parts[n], r.ino>> \in links
      BY <1>1, <1>5, <2>1 DEF Settled, InPlace
    <2>3. PICK c \in [0..(n - 1) -> Inode] :
            /\ c[n - 1] = d /\ <<Top, Out, c[0]>> \in links
            /\ \A j \in 1..(n - 1) : <<c[j - 1], parts[j], c[j]>> \in links
      BY <2>2 DEF Descent
    <2> DEFINE e == [j \in 0..n |-> IF j = n THEN r.ino ELSE c[j]]
    <2>4. n \in Nat /\ n # 0 /\ r.ino \in Inode
      BY <1>1, <1>3 DEF Settled
    <2>5. e \in [0..n -> Inode] /\ e[n] = r.ino /\ \A j \in 0..(n - 1) : e[j] = c[j]
      BY <2>3, <2>4
    <2>6. <<Top, Out, e[0]>> \in links
      BY <2>3, <2>4, <2>5
    <2>7. \A j \in 1..n : <<e[j - 1], parts[j], e[j]>> \in links
      <3> TAKE j \in 1..n
      <3>1. CASE j = n
        BY <2>2, <2>3, <2>4, <2>5, <3>1
      <3>2. CASE j # n
        <4>1. j \in 1..(n - 1) /\ j \in 0..(n - 1) /\ j - 1 \in 0..(n - 1)
          BY <2>4, <3>2
        <4> QED
          BY <2>3, <2>5, <4>1
      <3> QED
        BY <3>1, <3>2
    <2> HIDE DEF e
    <2>8. Resolve(parts) = {r.ino}
      BY <1>1, <1>3, <2>5, <2>6, <2>7, ResolveChain
    <2> QED
      BY <1>1, <1>5, <2>8 DEF Settled
  <1> QED
    BY <1>2, <1>4, <1>5

(* Whatever other writers, other programs, failures and restarts do          *)
(* meanwhile, a call of write_member that returned normally left its payload *)
(* (or its directory) at the path member_parts gives, for every set of       *)
(* members, names and writers.                                               *)
THEOREM ReportedIsOnDisk == Spec => []WroteIsOnDisk
  <1>1. Init => DiskInv
    BY DiskInit
  <1>2. DiskInv /\ [Next]_vars => DiskInv'
    BY DiskNext
  <1>3. DiskInv => WroteIsOnDisk
    BY DiskInvWrote
  <1> QED
    BY <1>1, <1>2, <1>3, PTL DEF Spec

-------------------------------------------------------------------------------
(* SafeOutput implements ExclusivePublish: every system call is one step   *)
(* of the abstract specification or none, under the mapping at the end of  *)
(* SafeOutput.                                                             *)

Names == Name \cup {Out}
Slots == Inode \X Names

\* The two variables of ExclusivePublish.
SlotMap == [s \in Slots |-> SlotState(s[1], s[2])]
Reported == {<<Place(r.ino), r.member>> : r \in {q \in wrote : ~q.member.is_dir}}

FreeSlot    == [state |-> "free"]
Claim(w, m) == [state |-> "held", owner |-> w, item |-> m]
Keep(i)     == [state |-> "kept", content |-> [kind |-> kind[i], data |-> data[i]]]

-------------------------------------------------------------------------------
(* The invariant, beyond that of the safety properties.                    *)

\* A call that is about to return well has its whole file in place.
Ready(w) ==
  /\ target[w] \in Inode /\ <<fd[w], Last(w), target[w]>> \in links
  /\ data[target[w]].len = call[w].size

CloseOk(w) ==
  /\ pc[w] = "unlink" => exc[w] # "none"
  /\ pc[w] = "close" /\ exc[w] = "none" /\ ~call[w].is_dir => Ready(w)

\* What was reported is on disk, and nobody's any more.
WroteOk ==
  \A r \in wrote : ~r.member.is_dir => /\ \E l \in links : l[3] = r.ino
                                       /\ ~Held(r.ino)

RInv == IInv /\ (\A w \in Writer : CloseOk(w)) /\ WroteOk

-------------------------------------------------------------------------------
(* What a slot holds, in terms of the entries.                             *)

Views ==
  \A d \in Inode, n \in Names :
    /\ (\A i \in Inode : <<d, n, i>> \notin links) => SlotState(d, n) = FreeSlot
    /\ \A i \in Inode : <<d, n, i>> \in links =>
         /\ ~Held(i) => SlotState(d, n) = Keep(i)
         /\ \A w \in Writer : target[w] = i => SlotState(d, n) = Claim(w, call[w])

Places == \A l \in links : Place(l[3]) = <<l[1], l[2]>>

LEMMA ViewsHold == IInv => Views
  <1> SUFFICES ASSUME IInv, NEW d \in Inode, NEW n \in Names
               PROVE  /\ (\A i \in Inode : <<d, n, i>> \notin links) => SlotState(d, n) = FreeSlot
                      /\ \A i \in Inode : <<d, n, i>> \in links =>
                           /\ ~Held(i) => SlotState(d, n) = Keep(i)
                           /\ \A w \in Writer : target[w] = i => SlotState(d, n) = Claim(w, call[w])
    BY DEF Views
  <1>1. links \subseteq Inode \X Names \X Inode
    BY DEF IInv, TypeOK, Names
  <1>2. ASSUME \A i \in Inode : <<d, n, i>> \notin links
        PROVE  SlotState(d, n) = FreeSlot
    <2>1. ~Bound(d, n)
      BY <1>1, <1>2 DEF Bound, At
    <2> QED
      BY <2>1 DEF SlotState, FreeSlot
  <1>3. ASSUME NEW i \in Inode, <<d, n, i>> \in links
        PROVE  /\ ~Held(i) => SlotState(d, n) = Keep(i)
               /\ \A w \in Writer : target[w] = i => SlotState(d, n) = Claim(w, call[w])
    <2>1. At(d, n) = {i}
      BY <1>1, <1>3 DEF At, IInv, TreeInv
    <2>2. Bound(d, n) /\ (CHOOSE j \in At(d, n) : TRUE) = i
      BY <2>1 DEF Bound
    <2>3. ASSUME ~Held(i) PROVE SlotState(d, n) = Keep(i)
      BY <2>2, <2>3 DEF SlotState, Keep
    <2>4. ASSUME NEW w \in Writer, target[w] = i
          PROVE  SlotState(d, n) = Claim(w, call[w])
      <3>1. Held(i)
        BY <2>4 DEF Held
      <3>2. Holder(i) = w
        BY <2>4, InodeAssumption DEF Holder, IInv, DistinctTargets
      <3> QED
        BY <2>2, <3>1, <3>2 DEF SlotState, Claim
    <2> QED
      BY <2>3, <2>4
  <1> QED
    BY <1>2, <1>3

LEMMA PlacesHold == IInv => Places
  <1> SUFFICES ASSUME IInv, NEW l \in links PROVE Place(l[3]) = <<l[1], l[2]>>
    BY DEF Places
  <1>1. \A e \in links : e[3] = l[3] <=> e = l
    BY DEF IInv, TreeInv
  <1>2. (CHOOSE e \in links : e[3] = l[3]) = l
    BY <1>1
  <1> QED
    BY <1>2 DEF Place

LEMMA ViewsNext == IInv' => Views' /\ Places'
  BY ViewsHold, PlacesHold, PTL

\* The same of the state after a step.
LEMMA NextSlot ==
  ASSUME IInv', NEW s \in Slots
  PROVE  /\ (\A i \in Inode : <<s[1], s[2], i>> \notin links') => SlotMap'[s] = FreeSlot
         /\ \A i \in Inode : <<s[1], s[2], i>> \in links' =>
              /\ (\A w \in Writer : target'[w] # i) =>
                   SlotMap'[s] = [state |-> "kept",
                                  content |-> [kind |-> kind'[i], data |-> data'[i]]]
              /\ \A w \in Writer : target'[w] = i => SlotMap'[s] = Claim(w, call'[w])
  <1>1. s[1] \in Inode /\ s[2] \in Names /\ SlotMap'[s] = SlotState(s[1], s[2])'
    BY DEF Slots, SlotMap
  <1>2. Views'
    BY ViewsNext
  <1>3. \A i : Held(i)' <=> \E w \in Writer : target'[w] = i
    BY DEF Held
  <1> QED
    BY <1>1, <1>2, <1>3 DEF Views, FreeSlot, Keep, Claim

-------------------------------------------------------------------------------
(* Steps of the abstract specification.                                    *)

LEMMA Stutters ==
  ASSUME SlotMap' = SlotMap, Reported' = Reported
  PROVE  UNCHANGED EP!vars
  BY DEF EP!vars, SlotMap, Slots, Names, Reported

\* One slot changes, in one of the five ways.
LEMMA OneSlot ==
  ASSUME NEW s \in Slots, SlotMap'[s] # SlotMap[s],
         \A t \in Slots \ {s} : SlotMap'[t] = SlotMap[t],
         EP!Take(s) \/ EP!Publish(s) \/ EP!Withdraw(s) \/ EP!Desert(s) \/ EP!Occupy(s)
  PROVE  EP!Next
  BY DEF EP!Next, SlotMap, Slots, Names

\* What the other slots keep while s changes.
Others(s) == \A t \in Slots \ {s} : SlotMap'[t] = SlotMap[t]

LEMMA States ==
  /\ \A w, m : Claim(w, m).state = "held" /\ Claim(w, m).owner = w /\ Claim(w, m).item = m
  /\ \A i : Keep(i).state = "kept" /\ Keep(i).content = [kind |-> kind[i], data |-> data[i]]
  /\ FreeSlot.state = "free"
  BY DEF Claim, Keep, FreeSlot

LEMMA Changed ==
  ASSUME NEW s \in Slots, NEW v, SlotMap'[s] = v, Others(s)
  PROVE  EP!Changes(s, v)
  BY DEF EP!Changes, Others, SlotMap, Slots, Names

LEMMA Takes ==
  ASSUME NEW s \in Slots, NEW w \in Writer, NEW m \in Member, ~m.is_dir,
         SlotMap[s] = FreeSlot, SlotMap'[s] = Claim(w, m), Others(s), Reported' = Reported,
         \A t \in Slots : SlotMap[t].state = "held" => SlotMap[t].owner # w
  PROVE  EP!Next
  <1>1. SlotMap'[s] # SlotMap[s]
    BY States
  <1>2. m \in {x \in Member : ~x.is_dir}
    OBVIOUS
  <1>3. EP!Take(s)
    <2>1. SlotMap[s].state = "free"
      BY States
    <2>2. EP!Changes(s, Claim(w, m))
      BY Changed
    <2> QED
      BY <1>2, <2>1, <2>2 DEF EP!Take, EP!Claim, Claim, SlotMap, Slots, Names, Reported
  <1> QED
    BY <1>1, <1>3, OneSlot DEF Others

LEMMA Publishes ==
  ASSUME NEW s \in Slots, NEW w \in Writer, NEW m,
         SlotMap[s] = Claim(w, m),
         SlotMap'[s] = [state |-> "kept", content |-> WholeItem(m)], Others(s),
         Reported' = Reported \cup {<<s, m>>}
  PROVE  EP!Next
  <1>1. SlotMap'[s] # SlotMap[s]
    BY States
  <1>2. EP!Publish(s)
    <2>1. SlotMap[s].state = "held" /\ SlotMap[s].item = m
      BY States
    <2>2. EP!Changes(s, [state |-> "kept", content |-> WholeItem(SlotMap[s].item)])
      BY <2>1, Changed
    <2>3. Reported' = Reported \cup {<<s, SlotMap[s].item>>}
      BY <2>1
    <2> QED
      BY <2>1, <2>2, <2>3 DEF EP!Publish, EP!Keep, SlotMap, Slots, Names, Reported
  <1> QED
    BY <1>1, <1>2, OneSlot DEF Others

LEMMA Withdraws ==
  ASSUME NEW s \in Slots, NEW w \in Writer, NEW m,
         SlotMap[s] = Claim(w, m), SlotMap'[s] = FreeSlot, Others(s), Reported' = Reported
  PROVE  EP!Next
  <1>1. SlotMap'[s] # SlotMap[s]
    BY States
  <1>2. EP!Withdraw(s)
    <2>1. SlotMap[s].state = "held"
      BY States
    <2>2. EP!Changes(s, FreeSlot)
      BY Changed
    <2> QED
      BY <2>1, <2>2 DEF EP!Withdraw, EP!FreeSlot, SlotMap, Slots, Names, Reported, FreeSlot
  <1> QED
    BY <1>1, <1>2, OneSlot DEF Others

LEMMA Deserts ==
  ASSUME NEW s \in Slots, NEW w \in Writer, NEW m, NEW c \in Content,
         SlotMap[s] = Claim(w, m), SlotMap'[s] = [state |-> "kept", content |-> c],
         Others(s), Reported' = Reported
  PROVE  EP!Next
  <1>1. SlotMap'[s] # SlotMap[s]
    BY States
  <1>2. EP!Desert(s)
    <2>1. SlotMap[s].state = "held"
      BY States
    <2>2. EP!Changes(s, [state |-> "kept", content |-> c])
      BY Changed
    <2> QED
      BY <2>1, <2>2 DEF EP!Desert, EP!Keep, SlotMap, Slots, Names, Reported
  <1> QED
    BY <1>1, <1>2, OneSlot DEF Others

LEMMA Occupies ==
  ASSUME NEW s \in Slots, NEW c \in Content,
         SlotMap[s] = FreeSlot, SlotMap'[s] = [state |-> "kept", content |-> c],
         Others(s), Reported' = Reported
  PROVE  EP!Next
  <1>1. SlotMap'[s] # SlotMap[s]
    BY States
  <1>2. EP!Occupy(s)
    <2>1. SlotMap[s].state = "free"
      BY States
    <2>2. EP!Changes(s, [state |-> "kept", content |-> c])
      BY Changed
    <2> QED
      BY <2>1, <2>2 DEF EP!Occupy, EP!Keep, SlotMap, Slots, Names, Reported
  <1> QED
    BY <1>1, <1>2, OneSlot DEF Others

-------------------------------------------------------------------------------
(* Slots that a step does not touch.                                       *)

\* The entry of an inode is left as it is, for the abstract specification.
Alike(i) ==
  \/ \E w \in Writer : target[w] = i /\ target'[w] = i /\ call'[w] = call[w]
  \/ ~Held(i) /\ ~Held(i)' /\ kind'[i] = kind[i] /\ data'[i] = data[i]

LEMMA SameSlot ==
  ASSUME IInv, IInv', NEW s \in Slots,
         \A i \in Inode : <<s[1], s[2], i>> \in links <=> <<s[1], s[2], i>> \in links',
         \A i \in Inode : <<s[1], s[2], i>> \in links => Alike(i)
  PROVE  SlotMap'[s] = SlotMap[s]
  <1> DEFINE d == s[1]
             n == s[2]
  <1>1. d \in Inode /\ n \in Names /\ SlotMap[s] = SlotState(d, n) /\ SlotMap'[s] = SlotState(d, n)'
    BY DEF Slots, SlotMap
  <1>2. Views /\ Views'
    BY ViewsHold, ViewsNext
  <1> HIDE DEF d, n
  <1>3. CASE \A i \in Inode : <<d, n, i>> \notin links
    BY <1>1, <1>2, <1>3 DEF Views, FreeSlot, d, n
  <1>4. CASE \E i \in Inode : <<d, n, i>> \in links
    <2>1. PICK i \in Inode : <<d, n, i>> \in links
      BY <1>4
    <2>2. <<d, n, i>> \in links' /\ Alike(i)
      BY <2>1 DEF d, n
    <2>3. CASE \E w \in Writer : target[w] = i /\ target'[w] = i /\ call'[w] = call[w]
      <3>1. PICK w \in Writer : target[w] = i /\ target'[w] = i /\ call'[w] = call[w]
        BY <2>3
      <3>2. SlotState(d, n) = Claim(w, call[w])
        BY <1>1, <1>2, <2>1, <3>1 DEF Views
      <3>3. SlotState(d, n)' = Claim(w, call'[w])
        BY <1>1, <1>2, <2>2, <3>1 DEF Views, Claim, d, n
      <3> QED
        BY <1>1, <3>1, <3>2, <3>3
    <2>4. CASE ~Held(i) /\ ~Held(i)' /\ kind'[i] = kind[i] /\ data'[i] = data[i]
      <3>1. SlotState(d, n) = Keep(i)
        BY <1>1, <1>2, <2>1, <2>4 DEF Views
      <3>2. SlotState(d, n)' = Keep(i)'
        BY <1>1, <1>2, <2>2, <2>4 DEF Views, d, n
      <3> QED
        BY <1>1, <2>4, <3>1, <3>2 DEF Keep
    <2> QED
      BY <2>2, <2>3, <2>4 DEF Alike
  <1> QED
    BY <1>3, <1>4

LEMMA SameMap ==
  ASSUME IInv, IInv', \A s \in Slots : SlotMap'[s] = SlotMap[s]
  PROVE  SlotMap' = SlotMap
  BY DEF SlotMap

\* What was reported keeps its place.
LEMMA SameReported ==
  ASSUME RInv, IInv', wrote' = wrote,
         \A l \in links : ~Held(l[3]) => l \in links'
  PROVE  Reported' = Reported
  <1>1. Places /\ Places'
    BY PlacesHold, ViewsNext DEF RInv
  <1>2. ASSUME NEW r \in wrote, ~r.member.is_dir
        PROVE  Place(r.ino)' = Place(r.ino)
    <2>1. PICK l \in links : l[3] = r.ino
      BY <1>2 DEF RInv, WroteOk
    <2>2. l \in links'
      BY <1>2, <2>1 DEF RInv, WroteOk
    <2>3. Place(l[3]) = <<l[1], l[2]>>
      BY <1>1 DEF Places
    <2>4. Place(l[3])' = <<l[1], l[2]>>
      BY <1>1, <2>2 DEF Places
    <2> QED
      BY <2>1, <2>3, <2>4
  <1> QED
    BY <1>2 DEF Reported

-------------------------------------------------------------------------------
(* The rest of the invariant, over a step of the writers W.                *)

LEMMA RestKept ==
  ASSUME RInv, IInv', NEW W \in SUBSET Writer,
         \A v \in Writer \ W : /\ Same(v)
                               /\ target[v] # None => data'[target[v]] = data[target[v]],
         \A l \in links : l \in links' \/ \E w \in W : l[3] = target[w],
         \A w \in W : /\ target'[w] \in {None, target[w]} \cup Free
                      /\ CloseOk(w)',
         wrote' = wrote
  PROVE  RInv'
  <1>1. ASSUME NEW v \in Writer \ W PROVE CloseOk(v)'
    <2>1. CloseOk(v) /\ Same(v)
      BY <1>1 DEF RInv
    <2>2. Last(v)' = Last(v)
      BY <2>1 DEF Same, Last
    <2>3. Ready(v) => Ready(v)'
      <3> SUFFICES ASSUME Ready(v) PROVE Ready(v)'
        OBVIOUS
      <3>1. target[v] \in Inode /\ <<fd[v], Last(v), target[v]>> \in links /\ target[v] # None
        BY InodeAssumption DEF Ready
      <3>2. \A w \in W : target[w] # target[v]
        BY <1>1, <3>1 DEF RInv, IInv, DistinctTargets
      <3>3. <<fd[v], Last(v), target[v]>> \in links'
        BY <3>1, <3>2
      <3> QED
        BY <2>1, <2>2, <3>1, <3>3 DEF Ready, Same
    <2> QED
      BY <2>1, <2>3 DEF CloseOk, Same
  <1>2. WroteOk'
    <2> SUFFICES ASSUME NEW r \in wrote, ~r.member.is_dir
                 PROVE  (\E l \in links' : l[3] = r.ino) /\ ~Held(r.ino)'
      BY DEF WroteOk
    <2>1. PICK l \in links : l[3] = r.ino
      BY DEF RInv, WroteOk
    <2>2. ~Held(l[3]) /\ l[3] \in Inode /\ l[3] \notin Free
      BY <2>1 DEF RInv, WroteOk, IInv, TreeInv, TypeOK, Free
    <2>3. l \in links'
      BY <2>2 DEF Held
    <2>4. ASSUME NEW v \in Writer PROVE target'[v] # l[3]
      <3>1. CASE v \in W
        BY <2>2, <3>1, InodeAssumption DEF Held
      <3>2. CASE v \notin W
        BY <2>2, <3>2 DEF Held, Same
      <3> QED
        BY <3>1, <3>2
    <2> QED
      BY <2>1, <2>3, <2>4 DEF Held
  <1> QED
    BY <1>1, <1>2 DEF RInv

LEMMA OneKept ==
  ASSUME RInv, IInv', NEW w \in Writer,
         \A v \in Writer \ {w} : /\ Same(v)
                                 /\ target[v] # None => data'[target[v]] = data[target[v]],
         \A l \in links : l \in links' \/ l[3] = target[w],
         target'[w] \in {None, target[w]} \cup Free,
         CloseOk(w)',
         wrote' = wrote
  PROVE  RInv'
  <1> DEFINE W == {w}
  <1>1. /\ W \in SUBSET Writer
        /\ \A v \in Writer \ W : /\ Same(v)
                                 /\ target[v] # None => data'[target[v]] = data[target[v]]
        /\ \A l \in links : l \in links' \/ \E u \in W : l[3] = target[u]
        /\ \A u \in W : target'[u] \in {None, target[u]} \cup Free /\ CloseOk(u)'
    OBVIOUS
  <1> HIDE DEF W
  <1> QED
    BY <1>1, RestKept

Stutter == SlotMap' = SlotMap /\ Reported' = Reported

\* A step of w that neither touches the disk nor takes or gives up a file.
LEMMA QuietSim ==
  ASSUME RInv, IInv', NEW w \in Writer, UNCHANGED <<links, kind, data, target, wrote>>,
         \A v \in Writer \ {w} : Same(v),
         target[w] # None => call'[w] = call[w],
         CloseOk(w)'
  PROVE  RInv' /\ Stutter
  <1>1. RInv'
    <2>1. \A v \in Writer \ {w} : Same(v) /\ data'[target[v]] = data[target[v]]
      OBVIOUS
    <2> QED
      BY <2>1, OneKept
  <1>2. \A i \in Inode : Alike(i)
    <2> SUFFICES ASSUME NEW i \in Inode PROVE Alike(i)
      OBVIOUS
    <2>1. CASE Held(i)
      <3>1. PICK v \in Writer : target[v] = i
        BY <2>1 DEF Held
      <3>2. call'[v] = call[v]
        BY <3>1, InodeAssumption DEF Same
      <3> QED
        BY <3>1, <3>2 DEF Alike
    <2>2. CASE ~Held(i)
      BY <2>2 DEF Alike, Held
    <2> QED
      BY <2>1, <2>2
  <1>3. \A s \in Slots : SlotMap'[s] = SlotMap[s]
    BY <1>2, SameSlot DEF RInv
  <1>4. SlotMap' = SlotMap
    BY <1>3, SameMap DEF RInv
  <1>5. Reported' = Reported
    BY SameReported
  <1> QED
    BY <1>1, <1>4, <1>5 DEF Stutter

-------------------------------------------------------------------------------
(* The steps that are none of the abstract specification.                  *)

LEMMA LeaveSim ==
  ASSUME RInv, IInv', NEW w \in Writer, NEW l \in {"idle", "gone"}, Leave(w, l),
         pc[w] \in {"makeroot", "openroot"}
  PROVE  RInv' /\ Stutter
  <1>1. MoverOk(w)
    BY MoverFacts DEF RInv
  <1>2. /\ target[w] = None /\ pc'[w] = l
        /\ \A v \in Writer \ {w} : Same(v)
        /\ UNCHANGED <<links, kind, data, target, wrote>>
    BY <1>1 DEF Leave, Goto, disk, Same, MoverOk, LocalOk, TypeOK
  <1>3. CloseOk(w)'
    BY <1>2 DEF CloseOk
  <1> QED
    BY <1>2, <1>3, QuietSim

LEMMA RaiseSim ==
  ASSUME RInv, IInv', NEW w \in Writer, NEW e \in {"oserror", "interrupt"}, Raise(w, e)
  PROVE  RInv' /\ Stutter
  <1>1. MoverOk(w)
    BY MoverFacts DEF RInv
  <1>2. /\ pc'[w] = "close" /\ exc'[w] = e /\ call'[w] = call[w]
        /\ \A v \in Writer \ {w} : Same(v)
        /\ UNCHANGED <<links, kind, data, target, wrote>>
    BY <1>1 DEF Raise, Goto, disk, Same, MoverOk, TypeOK
  <1>3. CloseOk(w)'
    BY <1>2 DEF CloseOk
  <1> QED
    BY <1>2, <1>3, QuietSim

LEMMA CalmSim ==
  ASSUME RInv, IInv', NEW w \in Writer,
         \/ \E m \in Member : Refuse(w, m) \/ Begin(w, m)
         \/ FdOpen(w) \/ CloseTarget(w) \/ Restart(w)
         \/ \E e \in {"oserror", "interrupt"} : WriteFails(w, e)
  PROVE  RInv' /\ Stutter
  <1>1. MoverOk(w)
    BY MoverFacts DEF RInv
  <1>2. ASSUME NEW m \in Member, Refuse(w, m)
        PROVE  RInv' /\ Stutter
    <2>1. UNCHANGED <<links, kind, data, pc, call, at, fd, target, fds, exc, wrote>>
      BY <1>2 DEF Refuse, disk, local
    <2>2. CloseOk(w)'
      BY <2>1 DEF CloseOk, Ready, Last, RInv
    <2> QED
      BY <2>1, <2>2, QuietSim DEF Same
  <1>3. ASSUME NEW m \in Member, Begin(w, m)
        PROVE  RInv' /\ Stutter
    <2>1. /\ target[w] = None /\ pc'[w] = "makeroot"
          /\ \A v \in Writer \ {w} : Same(v)
          /\ UNCHANGED <<links, kind, data, target, wrote>>
      BY <1>1, <1>3 DEF Begin, Goto, disk, Same, MoverOk, LocalOk, TypeOK
    <2> QED
      BY <2>1, QuietSim DEF CloseOk
  <1>4. CASE FdOpen(w) \/ Restart(w)
    <2>1. /\ pc'[w] \in {"write", "idle"} /\ UNCHANGED call
          /\ \A v \in Writer \ {w} : Same(v)
          /\ UNCHANGED <<links, kind, data, target, wrote>>
      BY <1>1, <1>4 DEF FdOpen, Restart, Goto, disk, Same, MoverOk, TypeOK
    <2> QED
      BY <2>1, QuietSim DEF CloseOk
  <1>5. CASE CloseTarget(w)
    <2>1. /\ pc[w] = "write" /\ data[target[w]].len = call[w].size
          /\ pc'[w] = "close" /\ UNCHANGED <<call, fd>>
          /\ \A v \in Writer \ {w} : Same(v)
          /\ UNCHANGED <<links, kind, data, target, wrote>>
      BY <1>1, <1>5 DEF CloseTarget, Goto, disk, Same, MoverOk, TypeOK
    <2>2. Ready(w)'
      BY <1>1, <2>1 DEF Ready, Last, MoverOk, OwnOk, Owning
    <2> QED
      BY <2>1, <2>2, QuietSim DEF CloseOk
  <1>6. ASSUME NEW e \in {"oserror", "interrupt"}, WriteFails(w, e)
        PROVE  RInv' /\ Stutter
    <2>1. /\ pc'[w] = "unlink" /\ exc'[w] = e /\ UNCHANGED call
          /\ \A v \in Writer \ {w} : Same(v)
          /\ UNCHANGED <<links, kind, data, target, wrote>>
      BY <1>1, <1>6 DEF WriteFails, Goto, disk, Same, MoverOk, TypeOK
    <2> QED
      BY <2>1, QuietSim DEF CloseOk
  <1> QED
    BY <1>2, <1>3, <1>4, <1>5, <1>6

\* A descent that ends has come to a directory, not to a file.
LEMMA DescendSim ==
  ASSUME RInv, IInv', NEW w \in Writer, OpenRoot(w) \/ OpenDir(w)
  PROVE  RInv' /\ Stutter
  <1>1. MoverOk(w)
    BY MoverFacts DEF RInv
  <1>2. CASE pc[w] \in {"makeroot", "openroot"} /\ Leave(w, "idle")
    BY <1>2, LeaveSim
  <1>3. CASE Raise(w, "oserror")
    BY <1>3, RaiseSim
  <1>4. CASE /\ pc[w] \in {"openroot", "opendir"}
             /\ \E i, k : /\ fd' = [fd EXCEPT ![w] = i]
                          /\ Goto(w, AfterDir(call[w], k))
             /\ \E S : fds' = [fds EXCEPT ![w] = S]
             /\ \E j : at' = [at EXCEPT ![w] = j]
             /\ UNCHANGED <<disk, call, target, exc, wrote>>
    <2>1. /\ pc'[w] \in {"mkdir", "create", "close"}
          /\ pc'[w] = "close" => call[w].is_dir
          /\ UNCHANGED call
          /\ \A v \in Writer \ {w} : Same(v)
          /\ UNCHANGED <<links, kind, data, target, wrote>>
      BY <1>1, <1>4 DEF Goto, AfterDir, disk, Same, MoverOk, TypeOK, Active
    <2> QED
      BY <2>1, QuietSim DEF CloseOk
  <1>5. CASE OpenRoot(w)
    <2>1. at' = [at EXCEPT ![w] = at[w]] \/ Leave(w, "idle")
      BY <1>1, <1>5 DEF OpenRoot, MoverOk, TypeOK
    <2> QED
      BY <1>2, <1>4, <1>5, <2>1 DEF OpenRoot
  <1>6. CASE OpenDir(w)
    BY <1>3, <1>4, <1>6 DEF OpenDir
  <1> QED
    BY <1>5, <1>6

-------------------------------------------------------------------------------
(* Steps that change the disk.                                             *)

\* Another chunk goes to a file that is still held.
LEMMA WriteSim ==
  ASSUME RInv, IInv', NEW w \in Writer, Write(w)
  PROVE  RInv' /\ Stutter
  <1>1. MoverOk(w)
    BY MoverFacts DEF RInv
  <1>2. /\ pc[w] = "write"
        /\ UNCHANGED <<links, kind, pc, call, at, fd, target, fds, exc, wrote>>
        /\ data' = [data EXCEPT ![target[w]].len = @ + 1]
    BY DEF Write, local
  <1>3. target[w] \in Inode /\ target[w] # None
    BY <1>1, <1>2, InodeAssumption DEF MoverOk, OwnOk, Owning
  <1>4. \A j \in Inode : j # target[w] => data'[j] = data[j]
    BY <1>1, <1>2, <1>3 DEF MoverOk, TypeOK
  <1>5. RInv'
    <2>1. ASSUME NEW v \in Writer \ {w}, target[v] # None
          PROVE  data'[target[v]] = data[target[v]]
      BY <1>1, <1>3, <1>4, <2>1 DEF RInv, IInv, DistinctTargets, MoverOk, TypeOK
    <2>2. \A v \in Writer \ {w} : Same(v)
      BY <1>2 DEF Same
    <2>3. CloseOk(w)'
      BY <1>2 DEF CloseOk
    <2> QED
      BY <1>2, <2>1, <2>2, <2>3, OneKept
  <1>6. ASSUME NEW i \in Inode PROVE Alike(i)
    <2>1. CASE \E v \in Writer : target[v] = i
      BY <1>2, <2>1 DEF Alike
    <2>2. CASE ~Held(i)
      BY <1>2, <1>4, <2>2 DEF Alike, Held
    <2> QED
      BY <2>1, <2>2 DEF Held
  <1>7. \A s \in Slots : SlotMap'[s] = SlotMap[s]
    BY <1>2, <1>6, SameSlot DEF RInv
  <1>8. SlotMap' = SlotMap
    BY <1>7, SameMap DEF RInv
  <1>9. Reported' = Reported
    BY <1>2, SameReported
  <1> QED
    BY <1>5, <1>8, <1>9 DEF Stutter

\* A new entry that no call holds.
LEMMA EnterSim ==
  ASSUME RInv, IInv', NEW d \in Inode \ {Outside}, NEW n \in Names, ~Bound(d, n),
         NEW i \in Free, NEW k \in {"dir", "file", "link"},
         NEW c \in [src : Member \cup {None, ForeignData}, len : Nat],
         Enter(d, n, i, k, c), [kind |-> k, data |-> c] \in Content,
         UNCHANGED <<target, call, wrote, orphan>>, foreign' \subseteq foreign \cup {i}
  PROVE  /\ EP!Next
         /\ links \subseteq links'
         /\ \A v \in Writer : target[v] # None => data'[target[v]] = data[target[v]]
  <1>1. /\ links' = links \cup {<<d, n, i>>} /\ kind'[i] = k /\ data'[i] = c
        /\ \A j \in Inode \ {i} : kind'[j] = kind[j] /\ data'[j] = data[j]
        /\ \A l \in links : l[3] # i
        /\ \A v \in Writer : target[v] # i
    BY EnterTree DEF RInv, Names
  <1>2. i \in Inode
    BY DEF Free
  <1>3. IInv /\ Views /\ Views' /\ target \in [Writer -> Inode \cup {None}]
    BY ViewsHold, ViewsNext DEF RInv, IInv, TypeOK
  <1> DEFINE s == <<d, n>>
  <1>4. s \in Slots /\ s[1] = d /\ s[2] = n
    BY DEF Slots
  <1>5. SlotMap[s] = FreeSlot
    <2>1. \A j \in Inode : <<d, n, j>> \notin links
      BY DEF Bound, At
    <2> QED
      BY <1>3, <1>4, <2>1 DEF Views, SlotMap
  <1>6. SlotMap'[s] = [state |-> "kept", content |-> [kind |-> k, data |-> c]]
    <2>1. <<d, n, i>> \in links' /\ ~Held(i)'
      BY <1>1 DEF Held
    <2>2. SlotState(d, n)' = Keep(i)'
      BY <1>2, <1>3, <2>1 DEF Views
    <2> QED
      BY <1>1, <1>4, <2>2 DEF SlotMap, Keep
  <1> HIDE DEF s
  <1>7. Others(s)
    <2> SUFFICES ASSUME NEW t \in Slots \ {s} PROVE SlotMap'[t] = SlotMap[t]
      BY DEF Others
    <2>1. \A j : <<t[1], t[2], j>> # <<d, n, i>>
      BY <1>4 DEF s, Slots
    <2>2. \A j \in Inode : <<t[1], t[2], j>> \in links <=> <<t[1], t[2], j>> \in links'
      BY <1>1, <2>1
    <2>3. ASSUME NEW j \in Inode, <<t[1], t[2], j>> \in links PROVE Alike(j)
      <3>1. j # i
        BY <1>1, <2>3
      <3>2. CASE \E v \in Writer : target[v] = j
        BY <3>2 DEF Alike
      <3>3. CASE ~Held(j)
        BY <1>1, <3>1, <3>3 DEF Alike, Held
      <3> QED
        BY <3>2, <3>3 DEF Held
    <2> QED
      BY <1>3, <2>2, <2>3, SameSlot
  <1>8. Reported' = Reported
    BY <1>1, SameReported
  <1>9. EP!Next
    <2> DEFINE x == [kind |-> k, data |-> c]
    <2>1. x \in Content /\ SlotMap'[s] = [state |-> "kept", content |-> x]
      BY <1>6
    <2> HIDE DEF x
    <2> QED
      BY <1>4, <1>5, <1>7, <1>8, <2>1, Occupies
  <1>10. \A v \in Writer : target[v] # None => data'[target[v]] = data[target[v]]
    BY <1>1, <1>3
  <1> QED
    BY <1>1, <1>9, <1>10

LEMMA DirContent == [kind |-> "dir", data |-> NoData] \in Content
  BY DEF Content

LEMMA MakeRootSim ==
  ASSUME RInv, IInv', NEW w \in Writer, MakeRoot(w)
  PROVE  RInv' /\ (Stutter \/ EP!Next)
  <1>1. MoverOk(w)
    BY MoverFacts DEF RInv
  <1>2. CASE pc[w] = "makeroot" /\ Leave(w, "idle")
    BY <1>2, LeaveSim
  <1>3. CASE /\ pc[w] = "makeroot" /\ Goto(w, "openroot")
             /\ UNCHANGED <<call, at, fd, target, fds, exc, calls, foreign, orphan, wrote>>
    <2>1. /\ CloseOk(w)'
          /\ \A v \in Writer \ {w} : Same(v)
      BY <1>1, <1>3 DEF Goto, CloseOk, Same, MoverOk, TypeOK
    <2>2. CASE UNCHANGED disk
      BY <1>3, <2>1, <2>2, QuietSim DEF disk
    <2>3. CASE ~Bound(Top, Out) /\ \E i \in New : Enter(Top, Out, i, "dir", NoData)
      <3>1. PICK i \in Free : Enter(Top, Out, i, "dir", NoData)
        BY <2>3, NewFacts
      <3>2. Top \in Inode \ {Outside} /\ Out \in Names
        BY InodeAssumption DEF Names
      <3>3. /\ EP!Next /\ links \subseteq links'
            /\ \A v \in Writer : target[v] # None => data'[target[v]] = data[target[v]]
        BY <1>3, <2>3, <3>1, <3>2, NoDataType, DirContent, EnterSim
      <3>4. RInv'
        BY <1>3, <2>1, <3>3, OneKept
      <3> QED
        BY <3>3, <3>4
    <2> QED
      BY <1>2, <1>3, <2>2, <2>3 DEF MakeRoot
  <1> QED
    BY <1>2, <1>3 DEF MakeRoot

LEMMA MakeDirSim ==
  ASSUME RInv, IInv', NEW w \in Writer, MakeDir(w)
  PROVE  RInv' /\ (Stutter \/ EP!Next)
  <1>1. MoverOk(w)
    BY MoverFacts DEF RInv
  <1>2. /\ pc[w] = "mkdir" /\ pc' = [pc EXCEPT ![w] = "opendir"]
        /\ UNCHANGED <<call, at, fd, target, fds, exc, calls, foreign, orphan, wrote>>
    BY DEF MakeDir, Goto
  <1>3. /\ CloseOk(w)'
        /\ \A v \in Writer \ {w} : Same(v)
    BY <1>1, <1>2 DEF CloseOk, Same, MoverOk, TypeOK
  <1>4. CASE UNCHANGED disk
    BY <1>2, <1>3, <1>4, QuietSim DEF disk
  <1>5. CASE /\ ~Bound(fd[w], Part(w))
             /\ \E i \in New : Enter(fd[w], Part(w), i, "dir", NoData)
    <2>1. PICK i \in Free : Enter(fd[w], Part(w), i, "dir", NoData)
      BY <1>5, NewFacts
    <2>2. fd[w] \in Inode \ {Outside}
      BY <1>1, <1>2 DEF MoverOk, LocalOk, Descending
    <2>3. Part(w) \in Names
      <3>1. call[w] \in Member /\ Parts(call[w]) # Refused /\ at[w] \in 1..Len(Parts(call[w]))
        BY <1>1, <1>2 DEF MoverOk, LocalOk, Active, TypeOK
      <3> QED
        BY <3>1, PathFacts DEF Part, Names
    <2>4. /\ EP!Next /\ links \subseteq links'
          /\ \A v \in Writer : target[v] # None => data'[target[v]] = data[target[v]]
      BY <1>2, <1>5, <2>1, <2>2, <2>3, NoDataType, DirContent, EnterSim
    <2>5. RInv'
      BY <1>2, <1>3, <2>4, OneKept
    <2> QED
      BY <2>4, <2>5
  <1> QED
    BY <1>4, <1>5 DEF MakeDir

LEMMA ForeignSim ==
  ASSUME RInv, IInv', NEW d \in Inode, NEW n \in Names,
         NEW k \in {"dir", "file", "link"}, Foreign(d, n, k)
  PROVE  RInv' /\ EP!Next
  <1> DEFINE c == IF k = "file" THEN [src |-> ForeignData, len |-> 0] ELSE NoData
  <1>1. c \in [src : Member \cup {None, ForeignData}, len : Nat]
    BY DEF NoData
  <1>2. PICK i \in Free : Enter(d, n, i, k, c) /\ foreign' = foreign \cup {i}
    BY NewFacts DEF Foreign
  <1>3. ~Bound(d, n) /\ d \in Inode \ {Outside}
    BY InodeAssumption DEF Foreign
  <1>4. UNCHANGED <<pc, call, at, fd, target, fds, exc, calls, orphan, wrote>>
    BY DEF Foreign, local
  <1>5. [kind |-> k, data |-> c] \in Content
    BY DEF Content, FileContent
  <1> HIDE DEF c
  <1>6. /\ EP!Next /\ links \subseteq links'
        /\ \A v \in Writer : target[v] # None => data'[target[v]] = data[target[v]]
    BY <1>1, <1>2, <1>3, <1>4, <1>5, EnterSim
  <1>7. RInv'
    <2> DEFINE W == {}
    <2>1. /\ W \in SUBSET Writer
          /\ \A v \in Writer \ W : /\ Same(v)
                                   /\ target[v] # None => data'[target[v]] = data[target[v]]
          /\ \A l \in links : l \in links' \/ \E u \in W : l[3] = target[u]
          /\ \A u \in W : target'[u] \in {None, target[u]} \cup Free /\ CloseOk(u)'
      BY <1>4, <1>6 DEF Same
    <2> HIDE DEF W
    <2> QED
      BY <1>4, <2>1, RestKept
  <1> QED
    BY <1>6, <1>7

-------------------------------------------------------------------------------
(* Claims.                                                                 *)

\* A call that has no file holds no slot.
LEMMA HoldsNone ==
  ASSUME IInv, NEW w \in Writer, target[w] = None
  PROVE  \A t \in Slots : SlotMap[t].state = "held" => SlotMap[t].owner # w
  <1> SUFFICES ASSUME NEW t \in Slots, SlotMap[t].state = "held" PROVE SlotMap[t].owner # w
    OBVIOUS
  <1>1. t[1] \in Inode /\ t[2] \in Names /\ SlotMap[t] = SlotState(t[1], t[2])
    BY DEF Slots, SlotMap
  <1>2. PICK i \in Inode : <<t[1], t[2], i>> \in links
    BY <1>1, ViewsHold, States DEF Views
  <1>3. Held(i)
    <2>1. ~Held(i) => SlotMap[t] = Keep(i)
      BY <1>1, <1>2, ViewsHold DEF Views
    <2> QED
      BY <2>1, States
  <1>4. PICK v \in Writer : target[v] = i
    BY <1>3 DEF Held
  <1>5. SlotMap[t] = Claim(v, call[v])
    BY <1>1, <1>2, <1>4, ViewsHold DEF Views
  <1>6. v # w
    BY <1>2, <1>4, InodeAssumption
  <1> QED
    BY <1>5, <1>6, States

\* O_CREAT | O_EXCL takes the slot.
LEMMA CreateSim ==
  ASSUME RInv, IInv', NEW w \in Writer, Create(w)
  PROVE  RInv' /\ (Stutter \/ EP!Next)
  <1>1. MoverOk(w) /\ IInv
    BY MoverFacts DEF RInv
  <1>2. CASE Raise(w, "oserror")
    BY <1>2, RaiseSim
  <1>3. CASE /\ ~Bound(fd[w], Last(w))
             /\ \E i \in New :
                  /\ Enter(fd[w], Last(w), i, "file", [src |-> call[w], len |-> 0])
                  /\ target' = [target EXCEPT ![w] = i]
                  /\ fds' = [fds EXCEPT ![w] = @ \cup {i}]
             /\ Goto(w, "created")
             /\ UNCHANGED <<call, at, fd, exc, calls, foreign, orphan, wrote>>
    <2> DEFINE c == [src |-> call[w], len |-> 0]
               s == <<fd[w], Last(w)>>
    <2>1. PICK i \in Free :
            /\ Enter(fd[w], Last(w), i, "file", c)
            /\ target' = [target EXCEPT ![w] = i]
            /\ fds' = [fds EXCEPT ![w] = @ \cup {i}]
      BY <1>3, NewFacts
    <2>2. /\ pc[w] = "create" /\ call[w] \in Member /\ ~call[w].is_dir
          /\ Parts(call[w]) # Refused
          /\ fd[w] \in Inode \ {Outside} /\ target[w] = None
      BY <1>1 DEF Create, MoverOk, LocalOk, Active, Descending
    <2>3. Last(w) \in Names
      BY <2>2, PathFacts DEF Last, Names
    <2>4. i \in Inode /\ i # None
      BY InodeAssumption DEF Free
    <2>5. /\ links' = links \cup {<<fd[w], Last(w), i>>}
          /\ \A j \in Inode \ {i} : kind'[j] = kind[j] /\ data'[j] = data[j]
          /\ \A l \in links : l[3] # i
          /\ \A v \in Writer : target[v] # i
      <3>1. c \in [src : Member \cup {None, ForeignData}, len : Nat]
        BY <2>2
      <3>2. ~Bound(fd[w], Last(w)) /\ orphan' = orphan /\ foreign' = foreign
        BY <1>3
      <3> HIDE DEF c
      <3> QED
        BY <1>1, <2>1, <2>2, <2>3, <3>1, <3>2, EnterTree DEF Names
    <2>6. /\ target'[w] = i /\ pc'[w] = "created" /\ call' = call /\ wrote' = wrote
          /\ \A v \in Writer \ {w} : Same(v)
      BY <1>1, <1>3, <2>1 DEF Goto, Same, MoverOk, TypeOK
    <2>7. s \in Slots /\ s[1] = fd[w] /\ s[2] = Last(w)
      BY <2>2, <2>3 DEF Slots
    <2>8. SlotMap[s] = FreeSlot
      <3>1. \A j \in Inode : <<fd[w], Last(w), j>> \notin links
        BY <1>3 DEF Bound, At
      <3> QED
        BY <1>1, <2>2, <2>3, <2>7, <3>1, ViewsHold DEF Views, SlotMap
    <2>9. SlotMap'[s] = Claim(w, call[w])
      <3>1. <<s[1], s[2], i>> \in links'
        BY <2>5, <2>7
      <3> HIDE DEF s
      <3> QED
        BY <2>4, <2>6, <2>7, <3>1, NextSlot
    <2> HIDE DEF s, c
    <2>10. Others(s)
      <3> SUFFICES ASSUME NEW t \in Slots \ {s} PROVE SlotMap'[t] = SlotMap[t]
        BY DEF Others
      <3>1. \A j : <<t[1], t[2], j>> # <<fd[w], Last(w), i>>
        BY <2>7 DEF s, Slots
      <3>2. \A j \in Inode : <<t[1], t[2], j>> \in links <=> <<t[1], t[2], j>> \in links'
        BY <2>5, <3>1
      <3>3. ASSUME NEW j \in Inode, <<t[1], t[2], j>> \in links PROVE Alike(j)
        <4>1. j # i
          BY <2>5, <3>3
        <4>2. CASE \E v \in Writer : target[v] = j
          BY <2>2, <2>6, <4>2, InodeAssumption DEF Alike, Same
        <4>3. CASE ~Held(j)
          BY <2>5, <2>6, <4>1, <4>3 DEF Alike, Held, Same
        <4> QED
          BY <4>2, <4>3 DEF Held
      <3> QED
        BY <1>1, <3>2, <3>3, SameSlot
    <2>11. Reported' = Reported
      BY <2>5, <2>6, SameReported
    <2>12. EP!Next
      <3>1. \A t \in Slots : SlotMap[t].state = "held" => SlotMap[t].owner # w
        BY <1>1, <2>2, HoldsNone
      <3> QED
        BY <2>2, <2>7, <2>8, <2>9, <2>10, <2>11, <3>1, Takes
    <2>13. RInv'
      <3>1. ASSUME NEW v \in Writer \ {w}, target[v] # None
            PROVE  data'[target[v]] = data[target[v]]
        BY <1>1, <2>5, <3>1 DEF MoverOk, TypeOK
      <3>2. CloseOk(w)'
        BY <2>6 DEF CloseOk
      <3> QED
        BY <2>5, <2>6, <3>1, <3>2, OneKept
    <2> QED
      BY <2>12, <2>13
  <1> QED
    BY <1>2, <1>3 DEF Create

\* The unlink gives the slot back.
LEMMA UnlinkSim ==
  ASSUME RInv, IInv', NEW w \in Writer, Unlink(w)
  PROVE  RInv' /\ EP!Next
  <1>1. MoverOk(w) /\ IInv /\ CloseOk(w)
    BY MoverFacts DEF RInv
  <1>2. /\ pc[w] = "unlink" /\ pc' = [pc EXCEPT ![w] = "close"]
        /\ UNCHANGED <<kind, data, call, at, fd, target, fds, exc, calls, foreign, orphan, wrote>>
        /\ links' = {l \in links : ~(l[1] = fd[w] /\ l[2] = Last(w))}
    BY DEF Unlink, Goto
  <1>3. /\ target[w] \in Inode /\ <<fd[w], Last(w), target[w]>> \in links
        /\ \A l \in links : l[3] # target[w] => l \in links'
    BY <1>1, UnlinkOwn
  <1> DEFINE s == <<fd[w], Last(w)>>
  <1>4. fd[w] \in Inode /\ Last(w) \in Names
    BY <1>1, <1>3 DEF MoverOk, TypeOK, Names
  <1>5. s \in Slots /\ s[1] = fd[w] /\ s[2] = Last(w)
    BY <1>4 DEF Slots
  <1>6. SlotMap[s] = Claim(w, call[w])
    BY <1>1, <1>3, <1>4, <1>5, ViewsHold DEF Views, SlotMap
  <1>7. SlotMap'[s] = FreeSlot
    <2>1. \A i \in Inode : <<s[1], s[2], i>> \notin links'
      BY <1>2, <1>5
    <2> HIDE DEF s
    <2> QED
      BY <1>5, <2>1, NextSlot
  <1> HIDE DEF s
  <1>8. Others(s)
    <2> SUFFICES ASSUME NEW t \in Slots \ {s} PROVE SlotMap'[t] = SlotMap[t]
      BY DEF Others
    <2>1. ~(t[1] = fd[w] /\ t[2] = Last(w))
      BY <1>5 DEF s, Slots
    <2>2. \A j \in Inode : <<t[1], t[2], j>> \in links <=> <<t[1], t[2], j>> \in links'
      BY <1>2, <2>1
    <2>3. \A j \in Inode : Alike(j)
      BY <1>2 DEF Alike, Held
    <2> QED
      BY <1>1, <2>2, <2>3, SameSlot
  <1>9. Reported' = Reported
    BY <1>2, <1>3, SameReported DEF Held
  <1>10. EP!Next
    BY <1>5, <1>6, <1>7, <1>8, <1>9, Withdraws
  <1>11. RInv'
    <2>1. \A v \in Writer \ {w} : Same(v) /\ data'[target[v]] = data[target[v]]
      BY <1>1, <1>2 DEF Same, MoverOk, TypeOK
    <2>2. CloseOk(w)'
      BY <1>1, <1>2 DEF CloseOk, MoverOk, TypeOK
    <2> QED
      BY <1>2, <1>3, <2>1, <2>2, OneKept
  <1> QED
    BY <1>10, <1>11

-------------------------------------------------------------------------------
(* A call that ends lets go of its file.                                   *)

LetsGo(w) == /\ UNCHANGED disk /\ target'[w] = None
             /\ \A v \in Writer \ {w} : Same(v)

\* What its slot has become; the others stay.
LEMMA GiveUp ==
  ASSUME IInv, IInv', NEW w \in Writer, LetsGo(w),
         NEW s \in Slots, <<s[1], s[2], target[w]>> \in links
  PROVE  /\ target[w] \in Inode /\ call[w] \in Member
         /\ SlotMap[s] = Claim(w, call[w])
         /\ SlotMap'[s] = [state |-> "kept",
                           content |-> FileContent(call[w], data[target[w]].len)]
         /\ data[target[w]].len \in 0..call[w].size
         /\ Others(s)
  <1>1. MoverOk(w)
    BY MoverFacts
  <1>2. target[w] \in Inode /\ target[w] # None /\ s[1] \in Inode /\ s[2] \in Names
    BY <1>1, InodeAssumption DEF MoverOk, TypeOK, Slots
  <1>3. pc[w] \in Active /\ call[w] \in Member /\ call[w].size \in Nat
    BY <1>1, <1>2 DEF MoverOk, LocalOk
  <1>4. SlotMap[s] = Claim(w, call[w])
    BY <1>2, ViewsHold DEF Views, SlotMap
  <1>5. /\ kind[target[w]] = "file" /\ data[target[w]].len \in 0..call[w].size
        /\ data[target[w]] = [src |-> call[w], len |-> data[target[w]].len]
    <2>1. data[target[w]] \in [src : Member \cup {None, ForeignData}, len : Nat]
      BY <1>1, <1>2 DEF MoverOk, TypeOK
    <2>2. /\ kind[target[w]] = "file" /\ data[target[w]].src = call[w]
          /\ data[target[w]].len <= call[w].size
      BY <1>1, <1>2 DEF MoverOk, OwnOk
    <2> QED
      BY <1>3, <2>1, <2>2
  <1>6. SlotMap'[s] = [state |-> "kept",
                       content |-> [kind |-> kind[target[w]], data |-> data[target[w]]]]
    <2>1. \A v \in Writer : target'[v] # target[w]
      BY <1>2 DEF LetsGo, Same, IInv, DistinctTargets
    <2>2. <<s[1], s[2], target[w]>> \in links'
      BY DEF LetsGo, disk
    <2>3. kind' = kind /\ data' = data
      BY DEF LetsGo, disk
    <2> QED
      BY <1>2, <2>1, <2>2, <2>3, NextSlot
  <1>7. Others(s)
    <2> SUFFICES ASSUME NEW t \in Slots \ {s} PROVE SlotMap'[t] = SlotMap[t]
      BY DEF Others
    <2>1. ASSUME NEW j \in Inode, <<t[1], t[2], j>> \in links PROVE Alike(j)
      <3>1. j # target[w]
        <4>1. <<t[1], t[2]>> # <<s[1], s[2]>>
          BY DEF Slots
        <4> QED
          BY <2>1, <4>1 DEF IInv, TreeInv
      <3> QED
        BY <3>1, InodeAssumption DEF Alike, LetsGo, Held, Same, disk
    <2> QED
      BY <2>1, SameSlot DEF LetsGo, disk
  <1> QED
    BY <1>2, <1>3, <1>4, <1>5, <1>6, <1>7 DEF FileContent

LEMMA NoneGivenUp ==
  ASSUME IInv, IInv', NEW w \in Writer, LetsGo(w), \A l \in links : l[3] # target[w]
  PROVE  SlotMap' = SlotMap
  <1>1. ASSUME NEW s \in Slots, NEW j \in Inode, <<s[1], s[2], j>> \in links PROVE Alike(j)
    <2>1. j # target[w]
      BY <1>1
    <2> QED
      BY <2>1, InodeAssumption DEF Alike, LetsGo, Held, Same, disk
  <1>2. \A s \in Slots : SlotMap'[s] = SlotMap[s]
    BY <1>1, SameSlot DEF LetsGo, disk
  <1> QED
    BY <1>2, SameMap

\* Nobody is told anything: whatever was written stays.
LEMMA DesertSim ==
  ASSUME IInv, IInv', NEW w \in Writer, LetsGo(w), Reported' = Reported
  PROVE  Stutter \/ EP!Next
  <1>1. CASE \A l \in links : l[3] # target[w]
    BY <1>1, NoneGivenUp DEF Stutter
  <1>2. CASE \E l \in links : l[3] = target[w]
    <2>1. PICK l \in links : l[3] = target[w]
      BY <1>2
    <2> DEFINE s == <<l[1], l[2]>>
               c == FileContent(call[w], data[target[w]].len)
    <2>2. s \in Slots /\ <<s[1], s[2], target[w]>> \in links
      <3>1. l \in Inode \X Names \X Inode
        BY DEF IInv, TypeOK, Names
      <3>2. l = <<l[1], l[2], l[3]>> /\ l[1] \in Inode /\ l[2] \in Names
        BY <3>1
      <3> HIDE DEF c
      <3> QED
        BY <2>1, <3>2 DEF Slots
    <2>3. /\ call[w] \in Member /\ data[target[w]].len \in 0..call[w].size
          /\ SlotMap[s] = Claim(w, call[w])
          /\ SlotMap'[s] = [state |-> "kept", content |-> c]
          /\ Others(s)
      <3> HIDE DEF s
      <3> QED
        BY <2>2, GiveUp
    <2>4. c \in Content
      BY <2>3 DEF Content
    <2> HIDE DEF s, c
    <2> QED
      BY <2>2, <2>3, <2>4, Deserts
  <1> QED
    BY <1>1, <1>2

LEMMA KillSim ==
  ASSUME RInv, IInv', NEW w \in Writer, Kill(w)
  PROVE  RInv' /\ (Stutter \/ EP!Next)
  <1>1. MoverOk(w) /\ IInv
    BY MoverFacts DEF RInv
  <1>2. /\ UNCHANGED <<links, kind, data, wrote>> /\ target'[w] = None /\ pc'[w] = "gone"
        /\ \A v \in Writer \ {w} : Same(v)
    BY <1>1 DEF Kill, Goto, disk, Same, MoverOk, TypeOK
  <1>3. LetsGo(w) /\ CloseOk(w)'
    BY <1>2 DEF LetsGo, disk, CloseOk
  <1>4. Reported' = Reported
    BY <1>2, SameReported
  <1>5. \A v \in Writer \ {w} : Same(v) /\ data'[target[v]] = data[target[v]]
    BY <1>2
  <1>6. RInv'
    BY <1>2, <1>3, <1>5, OneKept
  <1> QED
    BY <1>1, <1>3, <1>4, <1>6, DesertSim

\* The call returns: a whole file is published and reported.
LEMMA CloseDirSim ==
  ASSUME RInv, IInv', NEW w \in Writer, CloseDir(w)
  PROVE  RInv' /\ (Stutter \/ EP!Next)
  <1>1. MoverOk(w) /\ IInv /\ CloseOk(w)
    BY MoverFacts DEF RInv
  <1> DEFINE rec == [by |-> w, nth |-> calls[w], member |-> call[w],
                     ino |-> IF call[w].is_dir THEN fd[w] ELSE target[w]]
  <1>2. /\ pc[w] = "close" /\ UNCHANGED <<links, kind, data>>
        /\ target'[w] = None /\ pc'[w] \in {"idle", "gone"}
        /\ \A v \in Writer \ {w} : Same(v)
        /\ exc[w] # "none" => wrote' = wrote
        /\ exc[w] = "none" => wrote' = wrote \cup {rec}
    BY <1>1 DEF CloseDir, Goto, disk, Same, MoverOk, TypeOK
  <1>3. LetsGo(w) /\ CloseOk(w)'
    BY <1>2 DEF LetsGo, disk, CloseOk
  <1>4. rec.member = call[w] /\ rec.ino = IF call[w].is_dir THEN fd[w] ELSE target[w]
    OBVIOUS
  <1> HIDE DEF rec
  <1>5. ASSUME exc[w] = "none", ~call[w].is_dir
        PROVE  Ready(w)
    BY <1>1, <1>2, <1>5 DEF CloseOk
  <1>6. RInv'
    <2>1. \A v \in Writer \ {w} : CloseOk(v)'
      <3> SUFFICES ASSUME NEW v \in Writer \ {w} PROVE CloseOk(v)'
        OBVIOUS
      <3>1. CloseOk(v) /\ Same(v)
        BY <1>2 DEF RInv
      <3>2. Ready(v) => Ready(v)'
        BY <1>2, <3>1 DEF Ready, Same, Last
      <3> QED
        BY <3>1, <3>2 DEF CloseOk, Same
    <2>2. ASSUME NEW r \in wrote', ~r.member.is_dir
          PROVE  (\E l \in links' : l[3] = r.ino) /\ ~Held(r.ino)'
      <3>1. CASE r \in wrote
        <4>1. PICK l \in links : l[3] = r.ino
          BY <2>2, <3>1 DEF RInv, WroteOk
        <4>2. r.ino # None /\ ~Held(r.ino)
          BY <1>1, <2>2, <3>1, <4>1, InodeAssumption DEF RInv, WroteOk, MoverOk, TypeOK
        <4> QED
          BY <1>2, <4>1, <4>2 DEF Held, Same
      <3>2. CASE r \notin wrote
        <4>1. r = rec /\ exc[w] = "none"
          BY <1>2, <2>2, <3>2
        <4>2. Ready(w) /\ r.ino = target[w]
          BY <1>4, <1>5, <2>2, <4>1
        <4>3. target[w] # None
          BY <4>2, InodeAssumption DEF Ready
        <4> QED
          BY <1>1, <1>2, <4>2, <4>3 DEF Ready, Held, Same, IInv, DistinctTargets
      <3> QED
        BY <3>1, <3>2
    <2> QED
      BY <1>3, <2>1, <2>2 DEF RInv, WroteOk
  <1>7. \A i : Place(i)' = Place(i)
    BY <1>2 DEF Place
  <1>8. CASE exc[w] # "none" \/ call[w].is_dir
    <2>1. {r \in wrote' : ~r.member.is_dir} = {r \in wrote : ~r.member.is_dir}
      BY <1>2, <1>4, <1>8
    <2>2. Reported' = Reported
      BY <1>7, <2>1 DEF Reported
    <2> QED
      BY <1>1, <1>3, <1>6, <2>2, DesertSim
  <1>9. CASE exc[w] = "none" /\ ~call[w].is_dir
    <2> DEFINE s == <<fd[w], Last(w)>>
    <2>1. Ready(w)
      BY <1>5, <1>9
    <2>2. /\ s \in Slots /\ <<s[1], s[2], target[w]>> \in links
          /\ Place(target[w]) = s
      <3>1. fd[w] \in Inode /\ Last(w) \in Names
        BY <1>1, <2>1 DEF Ready, MoverOk, TypeOK, Names
      <3> QED
        BY <1>1, <2>1, <3>1, PlacesHold DEF Ready, Places, Slots
    <2> HIDE DEF s
    <2>3. /\ SlotMap[s] = Claim(w, call[w]) /\ Others(s)
          /\ SlotMap'[s] = [state |-> "kept", content |-> WholeItem(call[w])]
      <3>1. data[target[w]].len = call[w].size
        BY <2>1 DEF Ready
      <3> QED
        BY <1>1, <1>3, <2>2, <3>1, GiveUp DEF WholeItem
    <2>4. Reported' = Reported \cup {<<s, call[w]>>}
      <3>1. {r \in wrote' : ~r.member.is_dir} = {r \in wrote : ~r.member.is_dir} \cup {rec}
        BY <1>2, <1>4, <1>9
      <3>2. Place(rec.ino) = s /\ rec.member = call[w]
        BY <1>4, <1>9, <2>2
      <3> QED
        BY <1>7, <3>1, <3>2 DEF Reported
    <2> QED
      BY <1>6, <2>2, <2>3, <2>4, Publishes
  <1> QED
    BY <1>8, <1>9

-------------------------------------------------------------------------------
(* The theorem.                                                            *)

LEMMA FaultSim ==
  ASSUME RInv, IInv', NEW w \in Writer, UnlinkFails(w) \/ SyscallFails(w) \/ Interrupt(w)
  PROVE  RInv' /\ Stutter
  <1>1. CASE \E e \in {"oserror", "interrupt"} : Raise(w, e)
    BY <1>1, RaiseSim
  <1>2. CASE pc[w] \in {"makeroot", "openroot"} /\ \E l \in {"idle", "gone"} : Leave(w, l)
    BY <1>2, LeaveSim
  <1> QED
    BY <1>1, <1>2 DEF UnlinkFails, SyscallFails, Interrupt

LEMMA StutterSim == Stutter => UNCHANGED EP!vars
  BY Stutters DEF Stutter

LEMMA NextSim == RInv /\ [Next]_vars => RInv' /\ [EP!Next]_(EP!vars)
  <1> SUFFICES ASSUME RInv, [Next]_vars PROVE RInv' /\ (Stutter \/ EP!Next)
    BY StutterSim
  <1>0. IInv'
    BY NextInv DEF RInv
  <1>1. ASSUME NEW w \in Writer, NEW m \in Member, Refuse(w, m) \/ Begin(w, m)
        PROVE  RInv' /\ (Stutter \/ EP!Next)
    BY <1>0, <1>1, CalmSim
  <1>2. ASSUME NEW w \in Writer, Advance(w)
        PROVE  RInv' /\ (Stutter \/ EP!Next)
    <2>1. CASE OpenRoot(w) \/ OpenDir(w)
      BY <1>0, <2>1, DescendSim
    <2>2. CASE FdOpen(w) \/ CloseTarget(w)
      BY <1>0, <2>2, CalmSim
    <2>3. CASE MakeRoot(w) \/ MakeDir(w) \/ Create(w)
      BY <1>0, <2>3, MakeRootSim, MakeDirSim, CreateSim
    <2>4. CASE Write(w) \/ Unlink(w) \/ CloseDir(w)
      BY <1>0, <2>4, WriteSim, UnlinkSim, CloseDirSim
    <2> QED
      BY <1>2, <2>1, <2>2, <2>3, <2>4 DEF Advance
  <1>3. ASSUME NEW w \in Writer, Fault(w)
        PROVE  RInv' /\ (Stutter \/ EP!Next)
    <2>1. CASE \E e \in {"oserror", "interrupt"} : WriteFails(w, e)
      BY <1>0, <2>1, CalmSim
    <2>2. CASE UnlinkFails(w) \/ SyscallFails(w) \/ Interrupt(w)
      BY <1>0, <2>2, FaultSim
    <2>3. CASE Kill(w)
      BY <1>0, <2>3, KillSim
    <2> QED
      BY <1>3, <2>1, <2>2, <2>3 DEF Fault
  <1>4. ASSUME NEW w \in Writer, Restart(w)
        PROVE  RInv' /\ (Stutter \/ EP!Next)
    BY <1>0, <1>4, CalmSim
  <1>5. ASSUME NEW d \in Inode, NEW n \in Name \cup {Out},
               NEW k \in {"dir", "file", "link"}, Foreign(d, n, k)
        PROVE  RInv' /\ (Stutter \/ EP!Next)
    BY <1>0, <1>5, ForeignSim DEF Names
  <1>6. CASE UNCHANGED vars
    <2>1. RInv'
      BY <1>0, <1>6 DEF vars, RInv, CloseOk, Ready, Last, WroteOk, Held
    <2>2. Stutter
      <3>1. \A d, n : SlotState(d, n)' = SlotState(d, n)
        BY <1>6 DEF vars, SlotState, Bound, At, Held, Holder
      <3>2. \A i : Place(i)' = Place(i)
        BY <1>6 DEF vars, Place
      <3> QED
        BY <1>6, <3>1, <3>2 DEF vars, Stutter, SlotMap, Reported
    <2> QED
      BY <2>1, <2>2
  <1> QED
    BY <1>1, <1>2, <1>3, <1>4, <1>5, <1>6 DEF Next

LEMMA InitSim == Init => RInv /\ EP!Init
  <1> SUFFICES ASSUME Init PROVE RInv /\ EP!Init
    OBVIOUS
  <1>1. RInv
    BY InitInv DEF RInv, CloseOk, WroteOk, Init
  <1>2. \A d, n : SlotState(d, n) = FreeSlot
    BY DEF Init, SlotState, Bound, At, FreeSlot
  <1>3. EP!Init
    BY <1>2 DEF Init, EP!Init, EP!FreeSlot, FreeSlot
  <1> QED
    BY <1>1, <1>3

(* write_member publishes exclusively, whatever the writers, the calls and  *)
(* the interleaving: a name is claimed by one call at a time, is published  *)
(* only complete and reported only then, is given back by a failed call,    *)
(* and is never taken from whoever has it.                                  *)
THEOREM Refinement == Spec => ImplementsExclusivePublish
  BY InitSim, NextSim, PTL DEF Spec, ImplementsExclusivePublish, EP!Spec
===============================================================================
