----------------------------- MODULE SafeOutput -----------------------------
(***************************************************************************)
(* Extraction to disk: src/src/safe_output.py, member_parts and            *)
(* write_member.                                                           *)
(*                                                                         *)
(* Several extractor processes ("writers") call write_member on one        *)
(* directory tree.  Every system call is an action of its own, so calls    *)
(* of different writers, and entries that another program creates          *)
(* meanwhile, interleave between any two of them.  A system call may fail  *)
(* (OSError), the operator may interrupt a writer (KeyboardInterrupt, a    *)
(* BaseException that is not an OSError), and a writer may be killed.      *)
(*                                                                         *)
(* Environment assumption: nobody but a writer removes or renames entries  *)
(* below the root while writers run.                                       *)
(***************************************************************************)
EXTENDS Integers, Sequences, FiniteSets

CONSTANTS
  Writer,      \* extractor processes
  Inode,       \* inodes the file system can hand out, Top and Outside included
  Fresh(_),    \* which of the free ones it may hand out next
  Top,         \* the directory that holds the extraction root
  Outside,     \* a directory elsewhere, where every symbolic link points
  Out,         \* the name of the extraction root in Top
  Name,        \* legal path components
  Unsafe,      \* components with a NUL, a colon or a drive
  Member,      \* records [raw, payload, size, is_dir], the calls' arguments
  None,        \* no value
  Refused,     \* ValueError of member_parts
  ForeignData, \* content of files other programs create
  MaxCalls,    \* bound: calls per writer
  MaxForeign   \* bound: entries created by other programs

ASSUME FreshAssumption == \A S \in SUBSET Inode : Fresh(S) \subseteq S
ASSUME InodeAssumption ==
  /\ Top \in Inode /\ Outside \in Inode /\ Top # Outside
  /\ None \notin Inode /\ None \notin Member /\ None # ForeignData

ASSUME MemberAssumption ==
  \A m \in Member : /\ m.size \in Nat
                    /\ m.is_dir \in BOOLEAN
                    /\ m # ForeignData

ASSUME BoundAssumption == MaxCalls \in Nat /\ MaxForeign \in Nat

VARIABLES
  links,    \* directory entries <<directory inode, name, inode>>
  kind,     \* inode -> "free", "dir", "file" or "link"
  data,     \* inode -> content of a file: whose payload, how much of it
  pc,       \* writer -> next step of write_member
  call,     \* writer -> member being written
  at,       \* writer -> index of the loop variable "part"
  fd,       \* writer -> inode behind the local variable "fd"
  target,   \* writer -> inode behind the local variable "target"
  fds,      \* writer -> inodes its open descriptors refer to
  exc,      \* writer -> exception in flight
  calls,    \* writer -> calls made so far
  foreign,  \* inodes created by other programs
  orphan,   \* history: files left behind by a call that could not clean up
  wrote     \* history: calls that returned without an exception

local  == <<pc, call, at, fd, target, fds, exc>>
disk   == <<links, kind, data>>
vars   == <<links, kind, data, pc, call, at, fd, target, fds, exc, calls,
            foreign, orphan, wrote>>

-----------------------------------------------------------------------------
(* member_parts: a name is the sequence of components between its slashes  *)
(* (backslashes already turned into slashes); a leading empty component is *)
(* an absolute path.  PurePosixPath drops "." and empty components.        *)

member_parts(raw) ==
  LET parts == SelectSeq(raw, LAMBDA c : c \notin {".", ""})
      absolute == Len(raw) > 1 /\ raw[1] = ""
  IN  IF \/ absolute
         \/ parts = <<>>
         \/ \E k \in 1..Len(raw) : raw[k] = ".." \/ raw[k] \in Unsafe
      THEN Refused
      ELSE parts

Parts(m) == member_parts(m.raw)

\* "parts if is_dir else parts[:-1]": how many components are directories.
DirCount(m) == IF m.is_dir THEN Len(Parts(m)) ELSE Len(Parts(m)) - 1

\* What is left after dropping components is a non-empty path of legal names.
ASSUME PartsAssumption ==
  \A m \in Member : Parts(m) # Refused => Parts(m) \in Seq(Name) \ {<<>>}

-----------------------------------------------------------------------------
(* The file system, seen through the calls write_member makes.             *)

NoData == [src |-> None, len |-> 0]
Free   == {i \in Inode : kind[i] = "free"}
New    == Fresh(Free)

At(d, n)    == {l[3] : l \in {e \in links : e[1] = d /\ e[2] = n}}
Bound(d, n) == At(d, n) # {}

\* Faulty variant, without O_NOFOLLOW: a link leads to Outside.
FollowingOpenDirAt(d, n) ==
  {i \in At(d, n) : kind[i] = "dir"}
    \cup {i \in {Outside} : \E j \in At(d, n) : kind[j] = "link"}

\* os.open(n, O_DIRECTORY | O_NOFOLLOW, dir_fd=d): the inodes it can yield.
OpenDirAt(d, n) == {i \in At(d, n) : kind[i] = "dir"}

Enter(d, n, i, k, content) ==
  /\ links' = links \cup {<<d, n, i>>}
  /\ kind' = [kind EXCEPT ![i] = k]
  /\ data' = [data EXCEPT ![i] = content]

Init ==
  /\ links = {}
  /\ kind = [i \in Inode |-> IF i \in {Top, Outside} THEN "dir" ELSE "free"]
  /\ data = [i \in Inode |-> NoData]
  /\ pc = [w \in Writer |-> "idle"]
  /\ call = [w \in Writer |-> None]
  /\ at = [w \in Writer |-> 1]
  /\ fd = [w \in Writer |-> None]
  /\ target = [w \in Writer |-> None]
  /\ fds = [w \in Writer |-> {}]
  /\ exc = [w \in Writer |-> "none"]
  /\ calls = [w \in Writer |-> 0]
  /\ foreign = {}
  /\ orphan = {}
  /\ wrote = {}

Goto(w, l) == pc' = [pc EXCEPT ![w] = l]

\* The component the loop is at, and the name of the file to create.
Part(w) == Parts(call[w])[at[w]]
Last(w) == Parts(call[w])[Len(Parts(call[w]))]

\* Where the loop continues once "fd" is open and k is the next component.
AfterDir(m, k) == CASE k <= DirCount(m) -> "mkdir"
                    [] k > DirCount(m) /\ m.is_dir -> "close"
                    [] OTHER -> "create"

-----------------------------------------------------------------------------
(* Steps of write_member.                                                  *)

\* member_parts raises before anything is touched.
Refuse(w, m) ==
  /\ pc[w] = "idle" /\ calls[w] < MaxCalls
  /\ Parts(m) = Refused
  /\ calls' = [calls EXCEPT ![w] = @ + 1]
  /\ UNCHANGED <<disk, local, foreign, orphan, wrote>>

Begin(w, m) ==
  /\ pc[w] = "idle" /\ calls[w] < MaxCalls
  /\ Parts(m) # Refused
  /\ calls' = [calls EXCEPT ![w] = @ + 1]
  /\ call' = [call EXCEPT ![w] = m]
  /\ at' = [at EXCEPT ![w] = 1]
  /\ exc' = [exc EXCEPT ![w] = "none"]
  /\ Goto(w, "makeroot")
  /\ UNCHANGED <<disk, fd, target, fds, foreign, orphan, wrote>>

\* An exception before "try": no descriptor is open yet.
Leave(w, l) ==
  /\ Goto(w, l)
  /\ call' = [call EXCEPT ![w] = None]
  /\ UNCHANGED <<disk, at, fd, target, fds, exc, calls, foreign, orphan, wrote>>

\* os.makedirs(root, exist_ok=True): an existing entry must be a directory,
\* or a link to one.
MakeRoot(w) ==
  /\ pc[w] = "makeroot"
  /\ \/ /\ ~Bound(Top, Out)
        /\ \E i \in New : Enter(Top, Out, i, "dir", NoData)
        /\ Goto(w, "openroot")
        /\ UNCHANGED <<call, at, fd, target, fds, exc, calls, foreign, orphan, wrote>>
     \/ /\ \E i \in At(Top, Out) : kind[i] \in {"dir", "link"}
        /\ Goto(w, "openroot")
        /\ UNCHANGED <<disk, call, at, fd, target, fds, exc, calls, foreign,
                       orphan, wrote>>
     \/ /\ \E i \in At(Top, Out) : kind[i] = "file"
        /\ Leave(w, "idle")

OpenRoot(w) ==
  /\ pc[w] = "openroot"
  /\ \/ \E i \in OpenDirAt(Top, Out) :
          /\ fd' = [fd EXCEPT ![w] = i]
          /\ fds' = [fds EXCEPT ![w] = {i}]
          /\ Goto(w, AfterDir(call[w], 1))
          /\ UNCHANGED <<disk, call, at, target, exc, calls, foreign, orphan, wrote>>
     \/ /\ OpenDirAt(Top, Out) = {}
        /\ Leave(w, "idle")

\* An exception inside "try": "finally" still has to run.
Raise(w, e) ==
  /\ exc' = [exc EXCEPT ![w] = e]
  /\ Goto(w, "close")
  /\ UNCHANGED <<disk, call, at, fd, target, fds, calls, foreign, wrote>>

\* Faulty variant: a component that cannot be opened is tried again.
OpenDirRetrying(w) ==
  /\ pc[w] = "opendir"
  /\ \/ \E nxt \in OpenDirAt(fd[w], Part(w)) :
          /\ fds' = [fds EXCEPT ![w] = (@ \ {fd[w]}) \cup {nxt}]
          /\ fd' = [fd EXCEPT ![w] = nxt]
          /\ at' = [at EXCEPT ![w] = @ + 1]
          /\ Goto(w, AfterDir(call[w], at[w] + 1))
     \/ /\ OpenDirAt(fd[w], Part(w)) = {}
        /\ Goto(w, "mkdir")
        /\ UNCHANGED <<at, fd, fds>>
  /\ UNCHANGED <<disk, call, target, exc, calls, foreign, orphan, wrote>>

\* Faulty variant: the parent's descriptor is not closed.
OpenDirLeaking(w) ==
  /\ pc[w] = "opendir"
  /\ \/ \E nxt \in OpenDirAt(fd[w], Part(w)) :
          /\ fds' = [fds EXCEPT ![w] = @ \cup {nxt}]
          /\ fd' = [fd EXCEPT ![w] = nxt]
          /\ at' = [at EXCEPT ![w] = @ + 1]
          /\ Goto(w, AfterDir(call[w], at[w] + 1))
          /\ UNCHANGED <<disk, call, target, exc, calls, foreign, orphan, wrote>>
     \/ /\ OpenDirAt(fd[w], Part(w)) = {}
        /\ Raise(w, "oserror")
        /\ UNCHANGED orphan

\* os.mkdir(part, dir_fd=fd); FileExistsError is passed over.
MakeDir(w) ==
  /\ pc[w] = "mkdir"
  /\ \/ /\ ~Bound(fd[w], Part(w))
        /\ \E i \in New : Enter(fd[w], Part(w), i, "dir", NoData)
     \/ /\ Bound(fd[w], Part(w))
        /\ UNCHANGED disk
  /\ Goto(w, "opendir")
  /\ UNCHANGED <<call, at, fd, target, fds, exc, calls, foreign, orphan, wrote>>

\* nxt = os.open(part, ...); os.close(fd); fd = nxt
OpenDir(w) ==
  /\ pc[w] = "opendir"
  /\ \/ \E nxt \in OpenDirAt(fd[w], Part(w)) :
          /\ fds' = [fds EXCEPT ![w] = (@ \ {fd[w]}) \cup {nxt}]
          /\ fd' = [fd EXCEPT ![w] = nxt]
          /\ at' = [at EXCEPT ![w] = @ + 1]
          /\ Goto(w, AfterDir(call[w], at[w] + 1))
          /\ UNCHANGED <<disk, call, target, exc, calls, foreign, orphan, wrote>>
     \/ /\ OpenDirAt(fd[w], Part(w)) = {}
        /\ Raise(w, "oserror")
        /\ UNCHANGED orphan

\* Faulty variant, without O_EXCL: an existing file is truncated and used.
CreateShared(w) ==
  /\ pc[w] = "create"
  /\ \E i \in At(fd[w], Last(w)) \cup New :
       /\ IF Bound(fd[w], Last(w)) THEN i \in At(fd[w], Last(w)) /\ kind[i] = "file"
          ELSE i \in New
       /\ Enter(fd[w], Last(w), i, "file", [src |-> call[w], len |-> 0])
       /\ target' = [target EXCEPT ![w] = i]
       /\ fds' = [fds EXCEPT ![w] = @ \cup {i}]
  /\ Goto(w, "created")
  /\ UNCHANGED <<call, at, fd, exc, calls, foreign, orphan, wrote>>

\* os.open(last, O_WRONLY | O_CREAT | O_EXCL | O_NOFOLLOW, 0o600, dir_fd=fd)
Create(w) ==
  /\ pc[w] = "create"
  /\ \/ /\ ~Bound(fd[w], Last(w))
        /\ \E i \in New :
             /\ Enter(fd[w], Last(w), i, "file",
                      [src |-> call[w], len |-> 0])
             /\ target' = [target EXCEPT ![w] = i]
             /\ fds' = [fds EXCEPT ![w] = @ \cup {i}]
        /\ Goto(w, "created")
        /\ UNCHANGED <<call, at, fd, exc, calls, foreign, orphan, wrote>>
     \/ /\ Bound(fd[w], Last(w))
        /\ Raise(w, "oserror")
        /\ UNCHANGED orphan

\* The inner "try" is entered and the descriptor wrapped in a stream.
FdOpen(w) ==
  /\ pc[w] = "created"
  /\ Goto(w, "write")
  /\ UNCHANGED <<disk, call, at, fd, target, fds, exc, calls, foreign, orphan, wrote>>

\* One more chunk of the payload reaches the file.
Write(w) ==
  /\ pc[w] = "write"
  /\ data[target[w]].len < call[w].size
  /\ data' = [data EXCEPT ![target[w]].len = @ + 1]
  /\ UNCHANGED <<links, kind, local, calls, foreign, orphan, wrote>>

\* Faulty variant: a short write is not continued.
CloseTargetShort(w) ==
  /\ pc[w] = "write"
  /\ fds' = [fds EXCEPT ![w] = @ \ {target[w]}]
  /\ Goto(w, "close")
  /\ UNCHANGED <<disk, call, at, fd, target, exc, calls, foreign, orphan, wrote>>

\* The stream is flushed and closed by the end of "with".
CloseTarget(w) ==
  /\ pc[w] = "write"
  /\ data[target[w]].len = call[w].size
  /\ fds' = [fds EXCEPT ![w] = @ \ {target[w]}]
  /\ Goto(w, "close")
  /\ UNCHANGED <<disk, call, at, fd, target, exc, calls, foreign, orphan, wrote>>

\* Faulty variant: no "except" around the stream.
WriteFailsUncleaned(w, e) ==
  /\ pc[w] = "write"
  /\ exc' = [exc EXCEPT ![w] = e]
  /\ fds' = [fds EXCEPT ![w] = @ \ {target[w]}]
  /\ Goto(w, "close")
  /\ UNCHANGED <<disk, call, at, fd, target, calls, foreign, orphan, wrote>>

\* write, flush or close raises: "with" closes the stream, "except
\* BaseException" is entered.
WriteFails(w, e) ==
  /\ pc[w] = "write"
  /\ exc' = [exc EXCEPT ![w] = e]
  /\ fds' = [fds EXCEPT ![w] = @ \ {target[w]}]
  /\ Goto(w, "unlink")
  /\ UNCHANGED <<disk, call, at, fd, target, calls, foreign, orphan, wrote>>

\* os.unlink(last, dir_fd=fd) removes whatever the name is bound to.
Unlink(w) ==
  /\ pc[w] = "unlink"
  /\ links' = {l \in links : ~(l[1] = fd[w] /\ l[2] = Last(w))}
  /\ Goto(w, "close")
  /\ UNCHANGED <<kind, data, call, at, fd, target, fds, exc, calls, foreign,
                 orphan, wrote>>

\* The unlink itself raises: its OSError replaces the exception in flight.
UnlinkFails(w) ==
  /\ pc[w] = "unlink"
  /\ Raise(w, "oserror")
  /\ orphan' = orphan \cup {target[w]}

\* finally: os.close(fd).  The call returns or its exception propagates: an
\* OSError to cmd_extract, which goes on; an interrupt ends the process.
CloseDir(w) ==
  /\ pc[w] = "close"
  /\ fds' = [fds EXCEPT ![w] =
               IF exc[w] = "interrupt" THEN {} ELSE @ \ {fd[w]}]
  /\ Goto(w, IF exc[w] = "interrupt" THEN "gone" ELSE "idle")
  /\ wrote' = IF exc[w] # "none" THEN wrote
              ELSE wrote \cup {[by |-> w, nth |-> calls[w], member |-> call[w],
                                ino |-> IF call[w].is_dir THEN fd[w]
                                        ELSE target[w]]}
  /\ fd' = [fd EXCEPT ![w] = None]
  /\ target' = [target EXCEPT ![w] = None]
  /\ call' = [call EXCEPT ![w] = None]
  /\ UNCHANGED <<disk, at, exc, calls, foreign, orphan>>

-----------------------------------------------------------------------------
(* What goes wrong, and the rest of the world.                             *)

\* A system call of the descent fails for a reason of its own.
SyscallFails(w) ==
  \/ pc[w] \in {"makeroot", "openroot"} /\ Leave(w, "idle")
  \/ pc[w] \in {"mkdir", "opendir", "create"} /\ Raise(w, "oserror") /\ UNCHANGED orphan

\* KeyboardInterrupt between two bytecodes (inside the stream it is a
\* WriteFails).  After os.open returned and before the inner "try", or before
\* the unlink, nothing removes the file any more.
Interrupt(w) ==
  \/ pc[w] \in {"makeroot", "openroot"} /\ Leave(w, "gone")
  \/ pc[w] \in {"mkdir", "opendir", "create"} /\ Raise(w, "interrupt") /\ UNCHANGED orphan
  \/ /\ pc[w] \in {"created", "unlink"}
     /\ Raise(w, "interrupt")
     /\ orphan' = orphan \cup {target[w]}

\* SIGKILL or power loss: the kernel closes the descriptors, nothing else runs.
Kill(w) ==
  /\ pc[w] \notin {"idle", "gone"}
  /\ Goto(w, "gone")
  /\ orphan' = IF pc[w] \in {"created", "write", "unlink"}
               THEN orphan \cup {target[w]} ELSE orphan
  /\ fds' = [fds EXCEPT ![w] = {}]
  /\ fd' = [fd EXCEPT ![w] = None]
  /\ target' = [target EXCEPT ![w] = None]
  /\ call' = [call EXCEPT ![w] = None]
  /\ UNCHANGED <<disk, at, exc, calls, foreign, wrote>>

\* The operator runs the extraction again.
Restart(w) ==
  /\ pc[w] = "gone"
  /\ Goto(w, "idle")
  /\ UNCHANGED <<disk, call, at, fd, target, fds, exc, calls, foreign, orphan, wrote>>

\* Another program creates an entry at or below the root.
Foreign(d, n, k) ==
  /\ Cardinality(foreign) < MaxForeign
  /\ \/ d = Top /\ n = Out
     \/ d \notin {Top, Outside} /\ kind[d] = "dir"
  /\ ~Bound(d, n)
  /\ \E i \in New :
       /\ Enter(d, n, i, k, IF k = "file" THEN [src |-> ForeignData, len |-> 0]
                            ELSE NoData)
       /\ foreign' = foreign \cup {i}
  /\ UNCHANGED <<local, calls, orphan, wrote>>

Advance(w) ==
  \/ MakeRoot(w) \/ OpenRoot(w) \/ MakeDir(w) \/ OpenDir(w) \/ Create(w)
  \/ FdOpen(w) \/ Write(w) \/ CloseTarget(w) \/ Unlink(w) \/ CloseDir(w)

Fault(w) ==
  \/ \E e \in {"oserror", "interrupt"} : WriteFails(w, e)
  \/ UnlinkFails(w) \/ SyscallFails(w) \/ Interrupt(w) \/ Kill(w)

Next ==
  \/ \E w \in Writer, m \in Member : Refuse(w, m) \/ Begin(w, m)
  \/ \E w \in Writer : Advance(w) \/ Fault(w) \/ Restart(w)
  \/ \E d \in Inode, n \in Name \cup {Out}, k \in {"dir", "file", "link"} :
       Foreign(d, n, k)

Spec == Init /\ [][Next]_vars

\* A process that is scheduled goes on to its next system call, which returns,
\* if only to say that there is no space left.
FairSpec == Spec /\ \A w \in Writer : WF_vars(Advance(w) \/ SyscallFails(w))

-----------------------------------------------------------------------------
(* Correctness.                                                            *)

Active == {"makeroot", "openroot", "mkdir", "opendir", "create", "created",
           "write", "unlink", "close"}

(* Types; at an index of the loop it never passes the name's components.   *)
TypeOK ==
  /\ links \subseteq (Inode \X (Name \cup {Out}) \X Inode)
  /\ kind \in [Inode -> {"free", "dir", "file", "link"}]
  /\ data \in [Inode -> [src : Member \cup {None, ForeignData}, len : Nat]]
  /\ pc \in [Writer -> Active \cup {"idle", "gone"}]
  /\ call \in [Writer -> Member \cup {None}]
  /\ at \in [Writer -> Nat \ {0}]
  /\ \A w \in Writer : pc[w] \in Active =>
                       at[w] <= Len(Parts(call[w])) + IF call[w].is_dir THEN 1 ELSE 0
  /\ fd \in [Writer -> Inode \cup {None}]
  /\ target \in [Writer -> Inode \cup {None}]
  /\ fds \in [Writer -> SUBSET Inode]
  /\ exc \in [Writer -> {"none", "oserror", "interrupt"}]
  /\ calls \in [Writer -> 0..MaxCalls]
  /\ foreign \subseteq Inode
  /\ orphan \subseteq Inode

\* A file is held while the call that created it runs.
Held(i) == \E w \in Writer : target[w] = i

\* What "path", below the extraction root, names (one inode, or nothing).
Resolve(path) ==
  LET reach[k \in 0..Len(path)] ==
        IF k = 0 THEN At(Top, Out)
        ELSE UNION {At(d, path[k]) : d \in reach[k - 1]}
  IN  reach[Len(path)]

(* No call reaches through a symbolic link: no writer ever has a descriptor *)
(* of the directory the links point to, and nothing is created in it.       *)
Confined ==
  /\ \A w \in Writer : Outside \notin fds[w]
  /\ \A l \in links : l[1] # Outside

(* Between calls a writer holds no descriptor, during one at most one       *)
(* directory (the descent closes each parent) and the file it created.      *)
FdDiscipline ==
  \A w \in Writer :
    /\ pc[w] \in {"idle", "gone"} => fds[w] = {}
    /\ fds[w] \subseteq {fd[w], target[w]}

(* An entry that no running call created is never removed, rebound or       *)
(* written to by anybody: what was on disk before, what other programs      *)
(* create meanwhile, and what earlier calls wrote ("Commands refuse to      *)
(* overwrite existing output files", README.md:55).                         *)
SettledUntouched ==
  [][\A l \in links : ~Held(l[3]) => l \in links' /\ data'[l[3]] = data[l[3]]]_vars

(* An incomplete file is on disk only while its call runs, or after a call  *)
(* that was killed, was interrupted outside its inner "try", or could not   *)
(* unlink.                                                                  *)
NoPartialLeft ==
  \A l \in links :
    \/ kind[l[3]] # "file" \/ l[3] \in foreign \cup orphan \/ Held(l[3])
    \/ data[l[3]].len = data[l[3]].src.size

(* A call that returned without an exception left exactly its payload (or   *)
(* its directory) at the path member_parts gives, and it is still there.    *)
WroteIsOnDisk ==
  \A r \in wrote :
    /\ Resolve(Parts(r.member)) = {r.ino}
    /\ IF r.member.is_dir THEN kind[r.ino] = "dir"
       ELSE /\ kind[r.ino] = "file"
            /\ data[r.ino] = [src |-> r.member, len |-> r.member.size]

-----------------------------------------------------------------------------
(* The inductive invariant behind the safety properties.                   *)

Descending == {"mkdir", "opendir", "create"}
Owning     == {"created", "write", "unlink"}

\* Names are unique in a directory; entries lead to allocated inodes, each
\* linked once, and neither to Top nor to Outside.
TreeInv ==
  /\ kind[Outside] = "dir" /\ kind[Top] = "dir"
  /\ \A l, m \in links : l[1] = m[1] /\ l[2] = m[2] => l = m
  /\ \A l, m \in links : l[3] = m[3] => l = m
  /\ \A l \in links : /\ l[1] # Outside
                      /\ l[3] \notin {Top, Outside}
                      /\ kind[l[3]] # "free"

\* What a writer's local variables and descriptors are at each step.
LocalOk(w) ==
  /\ pc[w] \in Active => call[w] \in Member /\ Parts(call[w]) # Refused
  /\ pc[w] \in {"idle", "gone", "makeroot", "openroot"} =>
       fd[w] = None /\ target[w] = None /\ fds[w] = {}
  /\ pc[w] \in {"makeroot", "openroot"} => at[w] = 1
  /\ pc[w] \in Descending \cup Owning \cup {"close"} =>
       fd[w] \in Inode \ {Outside} /\ kind[fd[w]] = "dir"
  /\ pc[w] \in Descending => target[w] = None /\ fds[w] = {fd[w]}
  /\ pc[w] \in {"mkdir", "opendir"} => at[w] <= DirCount(call[w])
  /\ pc[w] \in {"created", "write"} => fds[w] = {fd[w], target[w]}
  /\ pc[w] = "unlink" => fds[w] = {fd[w]}
  /\ pc[w] = "close" => fds[w] \subseteq {fd[w], target[w]} \ {None}
  /\ pc[w] = "close" /\ exc[w] # "interrupt" => fds[w] = {fd[w]}
  /\ pc[w] \in Owning \cup {"create"} => ~call[w].is_dir

\* The file a call creates is its own until the call returns, and as long as
\* the call may still unlink, the name it would unlink is bound to that file.
OwnOk(w) ==
  /\ pc[w] \in Owning => /\ target[w] \in Inode
                         /\ <<fd[w], Last(w), target[w]>> \in links
  /\ target[w] # None =>
       /\ kind[target[w]] = "file"
       /\ data[target[w]].src = call[w]
       /\ data[target[w]].len <= call[w].size
  /\ pc[w] = "close" /\ target[w] # None =>
       \/ \A l \in links : l[3] # target[w]
       \/ target[w] \in orphan
       \/ data[target[w]].len = call[w].size

DistinctTargets ==
  \A v, w \in Writer : target[v] = target[w] /\ v # w => target[v] = None

WriterInv == \A w \in Writer : LocalOk(w) /\ OwnOk(w)

IInv == TypeOK /\ TreeInv /\ WriterInv /\ DistinctTargets /\ NoPartialLeft

\* d is the directory the first k components of m's path lead to.
Descent(m, k, d) ==
  \E c \in [0..k -> Inode] :
    /\ c[k] = d /\ <<Top, Out, c[0]>> \in links
    /\ \A j \in 1..k : <<c[j - 1], Parts(m)[j], c[j]>> \in links
    /\ \A j \in 0..k : kind[c[j]] = "dir"

\* The name m is written under is bound to inode i.
InPlace(m, i) ==
  IF m.is_dir THEN Descent(m, DirCount(m), i)
  ELSE \E d \in Inode : /\ Descent(m, DirCount(m), d)
                        /\ <<d, Parts(m)[Len(Parts(m))], i>> \in links

\* "fd" is the directory of the components the loop has been through, and a
\* call about to return well has been through all and has its whole file.
DescentOk(w) ==
  /\ pc[w] = "unlink" => exc[w] # "none"
  /\ \/ pc[w] \in Descending \cup Owning
     \/ pc[w] = "close" /\ exc[w] = "none"
     => Descent(call[w], at[w] - 1, fd[w])
  /\ \/ pc[w] \in {"create"} \cup Owning
     \/ pc[w] = "close" /\ exc[w] = "none"
     => at[w] - 1 = DirCount(call[w])
  /\ pc[w] = "close" /\ exc[w] = "none" /\ ~call[w].is_dir =>
       /\ target[w] \in Inode /\ <<fd[w], Last(w), target[w]>> \in links
       /\ data[target[w]].len = call[w].size

\* What a call reported is where it said, and nobody's any more.
Settled(r) ==
  /\ r.member \in Member /\ Parts(r.member) # Refused
  /\ r.ino \in Inode /\ InPlace(r.member, r.ino)
  /\ ~r.member.is_dir => /\ kind[r.ino] = "file" /\ ~Held(r.ino)
                         /\ data[r.ino] = [src |-> r.member, len |-> r.member.size]

ReportedOk == \A r \in wrote : Settled(r)

DiskInv == IInv /\ (\A w \in Writer : DescentOk(w)) /\ ReportedOk

-----------------------------------------------------------------------------
(* Refinement: the slots are the names in directories.                     *)

FileContent(s, k) == [kind |-> "file", data |-> [src |-> s, len |-> k]]
WholeItem(m)      == FileContent(m, m.size)

Content ==
  [kind : {"dir", "link"}, data : {NoData}]
    \cup {FileContent(ForeignData, 0)}
    \cup UNION {{FileContent(m, k) : k \in 0..m.size} : m \in Member}

Holder(i) == CHOOSE w \in Writer : target[w] = i

SlotState(d, n) ==
  LET i == CHOOSE j \in At(d, n) : TRUE
  IN  CASE ~Bound(d, n) -> [state |-> "free"]
        [] Bound(d, n) /\ Held(i) ->
             [state |-> "held", owner |-> Holder(i), item |-> call[Holder(i)]]
        [] OTHER -> [state |-> "kept",
                     content |-> [kind |-> kind[i], data |-> data[i]]]

Place(i) == LET l == CHOOSE e \in links : e[3] = i IN <<l[1], l[2]>>

EP == INSTANCE ExclusivePublish WITH
        Slot <- Inode \X (Name \cup {Out}),
        Owner <- Writer,
        Item <- {m \in Member : ~m.is_dir},
        Kept <- Content,
        Whole <- WholeItem,
        slot <- [s \in Inode \X (Name \cup {Out}) |-> SlotState(s[1], s[2])],
        reported <- {<<Place(r.ino), r.member>> :
                       r \in {q \in wrote : ~q.member.is_dir}}

(* write_member implements exclusive publication: a name is claimed by one  *)
(* call, is published only complete and reported only then, is given back   *)
(* by a failed call, and is never taken from whoever has it.                *)
ImplementsExclusivePublish == EP!Spec

-----------------------------------------------------------------------------
(* Every call ends: it returns, raises, or its process dies.                *)
CallEnds == \A w \in Writer : pc[w] \in Active ~> pc[w] \notin Active
=============================================================================
