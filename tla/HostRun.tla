------------------------------- MODULE HostRun -------------------------------
(***************************************************************************)
(* Delegation of one archive member to an extractor the operator has       *)
(* installed: host_handoff.extract and extract_all, which run the          *)
(* extractor through the ladder of isolation attempts of host_isolate.run, *)
(* and license_broker.host_extract, which runs it once.                    *)
(*                                                                         *)
(* The extractor, unshare and the kernel are the environment: an attempt   *)
(* may fail to start, be refused by the kernel, time out halfway, or end   *)
(* with any status.  The environment's habits (which files the extractor   *)
(* produces for this archive, which namespaces the kernel grants) do not   *)
(* change between the attempts of one call.  The attempts share their      *)
(* output directory: what an attempt that was killed left there, the next  *)
(* one replaces, or may keep, as its command line has it.                  *)
(***************************************************************************)
EXTENDS Integers, Sequences, FiniteSets

CONSTANTS
  File,   \* names of files an extractor can produce
  Asked   \* the one that was asked for

ASSUME AskedAssumption == Asked \in File

VARIABLES
  caller,    \* "extract", "extract_all" or "broker"
  permitted, \* policy.permits(HOST)
  selector,  \* the member's name: "safe", "unsafe" or "ambiguous"
  tool,      \* what find_host_tool found: "none", an extractor that "replaces" files
             \* it finds (7z and unrar are told to by -y, bsdtar does), or one that
             \* may leave them alone and succeed ("keeps": unar, unzip)
  unshare,   \* shutil.which('unshare')
  grants,    \* the sets of namespaces the kernel lets this user create
  produces,  \* the files this extractor makes of this archive
  asLink,    \* it makes the asked one a symbolic link
  phase,
  try,       \* the attempt at hand, an index of Ladder
  dest,      \* file -> "none", "partial", "whole" or "link"
  ran,       \* history of the extractor itself: was it started, the namespaces of
             \* the last start, how often it ended by itself, was it ever killed
  status,    \* returncode: 0, 1, or Unset
  result     \* what is returned: files handed over, with their state, and why

world     == <<caller, permitted, selector, tool, unshare, grants, produces, asLink>>
hostVars  == <<caller, permitted, selector, tool, unshare, grants, produces, asLink,
              phase, try, dest, ran, status, result>>

All == {"user", "net", "ipc", "uts"}

Prefixes == IF unshare THEN <<All, {"user", "net"}, {"user"}, {}>> ELSE <<{}>>

\* Faulty variant: the plain command first.
LadderReversed ==
  [k \in 1..(4 * Len(Prefixes)) |->
     [ns |-> Prefixes[Len(Prefixes) - ((k - 1) \div 4)],
      limits |-> k % 4 = 0, session |-> (k - 1) % 4 > 0]]

\* For each prefix: limits in a preexec_fn, then three without; the last one
\* not even in a session of its own.  The broker runs the command as it is.
Ladder ==
  IF caller = "broker" THEN <<[ns |-> {}, limits |-> FALSE, session |-> FALSE]>>
  ELSE [k \in 1..(4 * Len(Prefixes)) |->
          [ns |-> Prefixes[((k - 1) \div 4) + 1],
           limits |-> (k - 1) % 4 = 0,
           session |-> (k - 1) % 4 < 3]]

Unset   == -1
Nothing == [f \in {} |-> "whole"]

HostInit ==
  /\ caller \in {"extract", "extract_all", "broker"}
  /\ permitted \in BOOLEAN /\ unshare \in BOOLEAN
  /\ tool \in {"none", "replaces", "keeps"}
  /\ selector \in {"safe", "unsafe", "ambiguous"}
  /\ grants \in SUBSET {All, {"user", "net"}, {"user"}}
  /\ produces \in SUBSET File
  /\ asLink \in BOOLEAN
  /\ phase = "check"
  /\ try = 1
  /\ dest = [f \in File |-> "none"]
  /\ ran = [started |-> FALSE, ns |-> All, answers |-> 0, killed |-> FALSE]
  /\ status = Unset
  /\ result = [files |-> Nothing, why |-> "pending"]

Return(files, why) ==
  /\ phase' = "returned"
  /\ result' = [files |-> files, why |-> why]

-----------------------------------------------------------------------------

\* find_host_tool: nothing is found, nor looked for, without the lane.
Available == permitted /\ tool # "none"

\* Policy, selector (which extract_all does not have) and tool.
Check ==
  /\ phase = "check"
  /\ \/ /\ ~Available \/ (caller # "extract_all" /\ selector # "safe")
        /\ Return(Nothing, "not run")
     \/ /\ Available /\ (caller = "extract_all" \/ selector = "safe")
        /\ phase' = "attempt"
        /\ UNCHANGED result
  /\ UNCHANGED <<world, try, dest, ran, status>>

Granted == Ladder[try].ns \in grants \cup {{}}

Started(answers) == ran' = [started |-> TRUE, ns |-> Ladder[try].ns,
                            answers |-> ran.answers + answers,
                            killed |-> ran.killed \/ answers = 0]

\* OSError or SubprocessError: on to the next attempt.
Raised == try' = try + 1 /\ UNCHANGED <<phase, status>>

\* exec fails, or setsid in the child's preexec_fn.
CannotStart ==
  /\ phase = "attempt" /\ try <= Len(Ladder)
  /\ Raised
  /\ UNCHANGED <<world, dest, ran, result>>

\* subprocess.run returns, whatever the status.
Ended(rc) == phase' = "ended" /\ status' = rc /\ UNCHANGED try

\* unshare cannot create the namespaces: it says so and exits 1.
UnshareRefused ==
  /\ phase = "attempt" /\ try <= Len(Ladder) /\ ~Granted
  /\ Ended(1)
  /\ UNCHANGED <<world, dest, ran, result>>

\* Faulty variant: a failing status is one more reason to try again.
ExtractorFailsRetried ==
  /\ phase = "attempt" /\ try <= Len(Ladder) /\ Granted
  /\ Started(1)
  /\ Raised
  /\ UNCHANGED <<world, dest, result>>

\* A file as the extractor writes it, and as it may be after a success.
Link(f)  == f = Asked /\ asLink
Fresh(f) == IF Link(f) THEN "link" ELSE "whole"
Extracted(f) == {Fresh(f)} \cup (IF tool = "keeps" THEN {dest[f]} \ {"none"} ELSE {})

\* What an extractor that is stopped or fails halfway leaves behind.
Halfway == {d \in [File -> {"none", "partial", "whole", "link"}] :
              \A f \in File :
                 d[f] \in IF f \notin produces THEN {dest[f]}
                         ELSE {"none", Fresh(f)} \cup (IF Link(f) THEN {} ELSE {"partial"})}

\* TimeoutExpired: the child is killed; what it wrote stays.
TimesOut ==
  /\ phase = "attempt" /\ try <= Len(Ladder) /\ Granted
  /\ dest' \in Halfway
  /\ Started(0)
  /\ Raised
  /\ UNCHANGED <<world, result>>

ExtractorFails ==
  /\ phase = "attempt" /\ try <= Len(Ladder) /\ Granted
  /\ dest' \in Halfway
  /\ Started(1)
  /\ Ended(1)
  /\ UNCHANGED <<world, result>>

ExtractorSucceeds ==
  /\ phase = "attempt" /\ try <= Len(Ladder) /\ Granted
  /\ dest' \in {d \in [File -> {"partial", "whole", "link", "none"}] :
                 \A f \in File : d[f] \in IF f \in produces THEN Extracted(f) ELSE {dest[f]}}
  /\ Started(1)
  /\ Ended(0)
  /\ UNCHANGED <<world, result>>

\* Faulty variant: when nothing was accepted, start over.
ExhaustedAgain ==
  /\ phase = "attempt" /\ try > Len(Ladder)
  /\ try' = 1
  /\ UNCHANGED <<world, phase, dest, ran, status, result>>

\* The last exception is raised; the caller reports it.
Exhausted ==
  /\ phase = "attempt" /\ try > Len(Ladder)
  /\ Return(Nothing, "exception")
  /\ UNCHANGED <<world, try, dest, ran, status>>

\* _walk_files: regular files, not links.
Regular == {f \in File : dest[f] \in {"partial", "whole"}}
Take(fs) == [f \in fs |-> dest[f]]

\* Faulty variant: whatever the extractor left is picked up.
ReportStatusIgnored ==
  /\ phase = "ended" /\ status # 0
  /\ IF Asked \in Regular THEN Return(Take({Asked}), "rc=0")
     ELSE Return(Nothing, "rc")
  /\ UNCHANGED <<world, try, dest, ran, status>>

ReportStatus ==
  /\ phase = "ended" /\ status # 0
  /\ Return(Nothing, "rc")
  /\ UNCHANGED <<world, try, dest, ran, status>>

\* Faulty variant: the sole file is looked for first.
PickSoleFirst ==
  /\ phase = "ended" /\ status = 0 /\ caller # "extract_all"
  /\ \/ Cardinality(Regular) = 1 /\ caller = "extract" /\ Return(Take(Regular), "rc=0")
     \/ /\ Cardinality(Regular) # 1 \/ caller # "extract"
        /\ \/ Asked \in Regular /\ Return(Take({Asked}), "rc=0")
           \/ Asked \notin Regular /\ Return(Nothing, "not produced")
  /\ UNCHANGED <<world, try, dest, ran, status>>

\* The requested path; failing that, for the handoff only, the sole file.
Pick ==
  /\ phase = "ended" /\ status = 0 /\ caller # "extract_all"
  /\ \/ dest[Asked] = "link" /\ Return(Nothing, "symlink")
     \/ Asked \in Regular /\ Return(Take({Asked}), "rc=0")
     \/ /\ dest[Asked] = "none"
        /\ \/ /\ caller = "extract" /\ Cardinality(Regular) = 1
              /\ Return(Take(Regular), "rc=0")
           \/ /\ caller = "broker" \/ Cardinality(Regular) # 1
              /\ Return(Nothing, "not produced")
  /\ UNCHANGED <<world, try, dest, ran, status>>

PickAll ==
  /\ phase = "ended" /\ status = 0 /\ caller = "extract_all"
  /\ Return(Take(Regular), IF Regular = {} THEN "not produced" ELSE "rc=0")
  /\ UNCHANGED <<world, try, dest, ran, status>>

\* A file of more than 64 MiB: reported, except that extract lets the
\* ValueError of _walk_files through.
TooLarge ==
  /\ phase = "ended" /\ status = 0 /\ Regular # {}
  /\ \/ caller = "extract_all" /\ Return(Nothing, "limit")
     \/ caller # "extract_all" /\ Asked \in Regular /\ Return(Nothing, "limit")
     \/ caller = "extract" /\ dest[Asked] = "none" /\ Return(Nothing, "ValueError")
  /\ UNCHANGED <<world, try, dest, ran, status>>

HostNext ==
  \/ Check \/ CannotStart \/ UnshareRefused \/ TimesOut \/ ExtractorFails
  \/ ExtractorSucceeds \/ Exhausted \/ ReportStatus \/ Pick \/ PickAll \/ TooLarge

HostSpec == HostInit /\ [][HostNext]_hostVars
HostFairSpec == HostSpec /\ WF_hostVars(HostNext)

-----------------------------------------------------------------------------
(* Correctness.                                                            *)

(* Types.  Retries follow only an attempt that raised: an extractor that   *)
(* ended, in whatever way, is not run a second time.                       *)
TypeOK ==
  /\ phase \in {"check", "attempt", "ended", "returned"}
  /\ try \in 1..(Len(Ladder) + 1)
  /\ dest \in [File -> {"none", "partial", "whole", "link"}]
  /\ ran \in [started : BOOLEAN, ns : SUBSET All, answers : 0..1, killed : BOOLEAN]
  /\ status \in {Unset, 0, 1}
  /\ DOMAIN result.files \subseteq File

(* What is handed over as the member's bytes is whole, never the fragment  *)
(* a killed or failed attempt left in the directory the attempts share:    *)
(* except where an attempt was killed and the tool is one that may keep a  *)
(* file it finds, whose later success then says nothing of that file.  The *)
(* broker, which has no second attempt, never hands a fragment over.       *)
FragmentKept == tool = "keeps" /\ ran.killed /\ caller # "broker"
WholeOrNothing ==
  \A f \in DOMAIN result.files : result.files[f] = "whole" \/ FragmentKept

(* A file of another name is handed over for the member only by the        *)
(* isolated handoff, only if it is all there is, and only if the extractor *)
(* makes no file of the member's name, be it a link that was refused.      *)
(* (docs/BOUNDARY.md:49-50 says that the member's exact path is checked,   *)
(* as the broker's own function does.)                                     *)
SubstituteOnly ==
  caller # "extract_all" /\ DOMAIN result.files \ {Asked} # {} =>
    caller = "extract" /\ Asked \notin produces /\ Cardinality(DOMAIN result.files) = 1

(* Isolation is only ever given up, namespace by namespace, and where      *)
(* unshare is installed no extractor runs without namespaces before every  *)
(* attempt with some has raised.                                           *)
IsolationDescends ==
  [][/\ ran'.ns \subseteq ran.ns
     /\ ran # ran' /\ unshare /\ caller # "broker" /\ ran'.ns = {} => try > 12]_hostVars

(* Every call returns, after at most Len(Ladder) attempts, however many of *)
(* them time out.                                                          *)
CallReturns == <>(phase = "returned")

(* Claimed: "absence of unshare or a rejected unprivileged namespace is    *)
(* not a hard failure" (host_isolate.py:4).  A failing status that is      *)
(* reported would then always be the extractor's own.                      *)
RejectionNotFatal == result.why = "rc" => ran.started
=============================================================================
