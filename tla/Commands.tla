------------------------------- MODULE Commands -------------------------------
(***************************************************************************)
(* compress, decompress, encrypt, decrypt and create-* of novelrar_cli.py, *)
(* run by several processes over shared files, with research_codec's       *)
(* codecs, the adaptive container NA01 and the envelope NRX1.  A command   *)
(* reads its inputs, computes, creates its output exclusively and writes   *)
(* it in two parts; a write may fail, a process may be killed, and one     *)
(* file may be damaged.  Content is a term; a plain one is a sequence of   *)
(* bits, one of each byte, since the predictor treats a byte's bits alike. *)
(* A codec is "store", "deflate", which has no checksum, "zlib", which     *)
(* stands for every codec with a checksum (gzip, bzip2, xz and the LZ4     *)
(* frame too), or "adaptive".  What compress, encrypt, create and          *)
(* decompress --codec store are given is plain.                            *)
(***************************************************************************)
EXTENDS Integers, Sequences

CONSTANTS Proc,          \* processes
          Inputs,        \* Inputs[f]: content of the input files there are
          Base,          \* Base[f]: the name of a path without its directory
          NoKey,         \* the empty password
          Strides,       \* strides of the predictor (1, 16, 64, 256)
          DefaultLimit,  \* 64 MiB
          Ceiling,       \* the largest limit decompress takes (256 MiB)
          Jobs,          \* command lines: [cmd, codec, ins, out, key, max]
          MaxCommands    \* commands run in all

ASSUME InputsAssumption == \A f \in DOMAIN Inputs : Inputs[f] \in Seq({0, 1})
ASSUME LimitAssumption ==
  Strides \subseteq Nat \ {0} /\ DefaultLimit \in Nat /\ Ceiling \in Nat /\ DefaultLimit <= Ceiling
ASSUME JobsAssumption ==
  \A job \in Jobs : /\ job.cmd \in {"compress", "decompress", "encrypt", "decrypt", "create"}
                    /\ job.cmd # "create" => Len(job.ins) = 1

VARIABLES cmdFiles,      \* files there are: [c: content, n: how much is written]
          cmdRun,        \* per process: [pc, job, read, out, status]
          cmdMade,       \* history: per file, the job that made it and what it read
          cmdSpent,      \* commands started
          cmdDamaged     \* a file has been damaged

cmdVars == <<cmdFiles, cmdRun, cmdMade, cmdSpent, cmdDamaged>>

-------------------------------------------------------------------------------
(* Content and codecs.  Err stands for every exception of the codec: main  *)
(* reports some and lets zlib.error and LZMAError through, and the process *)
(* exits with 1 either way.                                                *)

Err == [t |-> "error"]
Plain(d) == [t |-> "plain", d |-> d]
Packed(codec, d) == [t |-> "packed", codec |-> codec, d |-> d, is |-> "whole"]

Predict(d, stride) ==
  [i \in DOMAIN d |-> IF i > stride THEN (d[i] + d[i - stride]) % 2 ELSE d[i]]

Unpredict(d, stride) ==
  LET out[i \in DOMAIN d] == IF i > stride THEN (d[i] + out[i - stride]) % 2 ELSE d[i]
  IN [i \in DOMAIN d |-> out[i]]

Na01(method, d, stride, payload) ==
  [t |-> "na01", method |-> method, size |-> Len(d), digest |-> d, stride |-> stride,
   payload |-> payload, head |-> TRUE]

\* The candidates; which one is the shortest is left open.
adaptive_compress(d) ==
  {Na01(0, d, 0, Plain(d)), Na01(1, d, 0, Packed("zlib", d))}
  \cup {Na01(4, d, s, Packed("zlib", Predict(d, s))) : s \in {s \in Strides : Len(d) > s}}

compress(codec, d) ==
  CASE codec = "store"    -> {Plain(d)}
    [] codec = "adaptive" -> adaptive_compress(d)
    [] OTHER              -> {Packed(codec, d)}

\* One codec's call: exactly one whole stream, of no more than max bytes.  A
\* changed stream without a checksum may decode to something else.  The bytes
\* of a packed payload under the method "store" would be returned as they are,
\* and fail the container's digest: an error either way.
decode_one(codec, x, max) ==
  IF codec = "store" THEN IF x.t = "plain" /\ Len(x.d) <= max THEN x ELSE Err
  ELSE IF x.t # "packed" THEN Err
  ELSE IF x.codec # codec \/ Len(x.d) > max \/ x.is \in {"cut", "grown"} THEN Err
  ELSE IF x.is = "whole" THEN Plain(x.d)
  ELSE IF codec = "deflate" /\ x.d # <<>> THEN Plain([x.d EXCEPT ![1] = 1 - (@ % 2)])
  ELSE Err

\* Faulty variant: the digest is not compared.
adaptive_trusting(x, max) ==
  IF x.t # "na01" \/ max > Ceiling THEN Err
  ELSE IF ~x.head \/ x.size > max \/ x.method \notin {0, 1, 4} THEN Err
  ELSE IF x.method = 4 /\ x.stride \notin Strides THEN Err
  ELSE LET raw == decode_one(IF x.method = 0 THEN "store" ELSE "zlib", x.payload, x.size)
           d == IF raw = Err THEN <<>>
                ELSE IF x.method = 4 THEN Unpredict(raw.d, x.stride) ELSE raw.d
       IN IF raw = Err \/ Len(d) # x.size THEN Err ELSE Plain(d)

\* The size is the payload's limit, then the length the result must have.
adaptive_decompress(x, max) ==
  IF x.t # "na01" \/ max > Ceiling THEN Err
  ELSE IF ~x.head \/ x.size > max \/ x.method \notin {0, 1, 4} THEN Err
  ELSE IF x.method = 4 /\ x.stride \notin Strides THEN Err
  ELSE LET raw == decode_one(IF x.method = 0 THEN "store" ELSE "zlib", x.payload, x.size)
           d == IF raw = Err THEN <<>>
                ELSE IF x.method = 4 THEN Unpredict(raw.d, x.stride) ELSE raw.d
       IN IF raw = Err \/ Len(d) # x.size \/ d # x.digest THEN Err ELSE Plain(d)

decompress(codec, x, max) ==
  IF max > Ceiling THEN Err
  ELSE IF codec = "adaptive" THEN adaptive_decompress(x, max) ELSE decode_one(codec, x, max)

encrypt(d, key, codec) ==
  IF key = NoKey \/ Len(d) > DefaultLimit THEN {Err}
  ELSE {[t |-> "nrx1", codec |-> codec, key |-> key, sealed |-> inner, is |-> "whole"] :
          inner \in compress(codec, d)}

\* The tag is over the header and the packed bytes, the key is the password's.
decrypt(x, key, max) ==
  IF max > Ceiling \/ x.t # "nrx1" \/ key = NoKey THEN Err
  ELSE IF x.is # "whole" \/ x.key # key THEN Err
  ELSE decompress(x.codec, x.sealed, max)

\* What a file holds after its end is lost, and after other damage.
CutOff(x) ==
  CASE x.t = "plain" -> {Plain(SubSeq(x.d, 1, Len(x.d) \div 2))}
    [] x.t = "na01"  -> {[x EXCEPT !.head = FALSE]} \cup
                        {[x EXCEPT !.payload = IF @.t = "plain"
                                                 THEN Plain(SubSeq(@.d, 1, Len(@.d) \div 2))
                                                 ELSE [@ EXCEPT !.is = "cut"]]}
    [] OTHER         -> {[x EXCEPT !.is = "cut"]}

Altered(x) ==
  CASE x.t = "plain" -> {Plain(Append(x.d, 0))}
    [] x.t = "na01"  ->
         {[x EXCEPT !.method = m] : m \in {0, 1, 2, 4}}
         \cup {[x EXCEPT !.size = s] : s \in {x.size + 1, 0}}
         \cup {[x EXCEPT !.stride = s] : s \in Strides \cup {3}}
         \cup {[x EXCEPT !.digest = Append(@, 1)]}
         \cup (IF x.payload.t = "packed"
                 THEN {[x EXCEPT !.payload.is = k] : k \in {"changed", "grown"}}
                 ELSE {[x EXCEPT !.payload.d = [i \in DOMAIN @ |-> 1 - (@[i] % 2)]],
                       [x EXCEPT !.payload.d = Append(@, 0)]})
    [] OTHER         -> {[x EXCEPT !.is = k] : k \in {"changed", "grown"}}

-------------------------------------------------------------------------------
(* Files and processes.  What compress, encrypt, create and a store        *)
(* decompression read is bounded to plain content.                         *)

Exists(f) == f \in DOMAIN cmdFiles
With(fn, f, v) == [g \in DOMAIN fn \cup {f} |-> IF g = f THEN v ELSE fn[g]]
TakesAnyBytes(job) ==
  job.cmd \in {"compress", "encrypt", "create"} \/ (job.cmd = "decompress" /\ job.codec = "store")

\* What a reader may see of a file, another command's half-written one too.
Views(f) ==
  CASE cmdFiles[f].n = "whole" -> {cmdFiles[f].c}
    [] cmdFiles[f].n = "half"  -> CutOff(cmdFiles[f].c)
    [] cmdFiles[f].n = "empty" -> {Plain(<<>>)}

\* What a job computes; create may also fail in its backend, or by policy.
Results(job, x) ==
  CASE job.cmd = "compress"   -> compress(job.codec, x[1].d)
    [] job.cmd = "decompress" -> {decompress(job.codec, x[1], job.max)}
    [] job.cmd = "encrypt"    -> encrypt(x[1].d, job.key, job.codec)
    [] job.cmd = "decrypt"    -> {decrypt(x[1], job.key, job.max)}
    [] job.cmd = "create"     -> {Err, [t |-> "archive", of |-> x, is |-> "whole"]}

NoJob == [cmd |-> "none", ins |-> <<>>]
Resting == [pc |-> "idle", job |-> NoJob, read |-> <<>>, out |-> Err, status |-> "none"]

CmdInit ==
  /\ cmdFiles = [f \in DOMAIN Inputs |-> [c |-> Plain(Inputs[f]), n |-> "whole"]]
  /\ cmdRun = [p \in Proc |-> Resting]
  /\ cmdMade = [f \in {} |-> NoJob]
  /\ cmdSpent = 0
  /\ cmdDamaged = FALSE

Put(p, r) == cmdRun' = [cmdRun EXCEPT ![p] = r]
Exit(p, status) ==
  Put(p, IF status = "ok" THEN [cmdRun[p] EXCEPT !.pc = "idle", !.read = <<>>, !.status = status]
         ELSE [Resting EXCEPT !.status = status])

Start(p) ==
  /\ cmdRun[p].pc = "idle" /\ cmdSpent < MaxCommands
  /\ \E job \in Jobs :
       Put(p, [Resting EXCEPT !.pc = "read", !.job = job])
  /\ cmdSpent' = cmdSpent + 1
  /\ UNCHANGED <<cmdFiles, cmdMade, cmdDamaged>>

\* The next input; create refuses two of one name, any command a missing one.
ReadInput(p) ==
  LET run == cmdRun[p]
      k == Len(run.read) + 1
      f == run.job.ins[k]
      twice == \E j \in 1..(k - 1) : Base[run.job.ins[j]] = Base[f]
  IN /\ run.pc = "read" /\ k <= Len(run.job.ins)
     /\ \/ /\ ~Exists(f) \/ twice
           /\ Exit(p, "failed")
        \/ /\ Exists(f) /\ ~twice
           /\ \E x \in Views(f) :
                /\ TakesAnyBytes(run.job) => x.t = "plain"
                /\ Put(p, [run EXCEPT !.read = Append(@, x)])
     /\ UNCHANGED <<cmdFiles, cmdMade, cmdSpent, cmdDamaged>>

Compute(p) ==
  LET run == cmdRun[p] IN
  /\ run.pc = "read" /\ Len(run.read) = Len(run.job.ins)
  /\ \E r \in Results(run.job, run.read) :
       IF r = Err THEN Exit(p, "failed") ELSE Put(p, [run EXCEPT !.pc = "open", !.out = r])
  /\ UNCHANGED <<cmdFiles, cmdMade, cmdSpent, cmdDamaged>>

\* Faulty variant: 'wb' instead of 'xb'.
OpenOver(p) ==
  LET run == cmdRun[p] IN
  /\ run.pc = "open"
  /\ Put(p, [run EXCEPT !.pc = "write", !.read = <<>>])
  /\ cmdFiles' = With(cmdFiles, run.job.out, [c |-> run.out, n |-> "empty"])
  /\ cmdMade' = With(cmdMade, run.job.out, [job |-> run.job, read |-> run.read])
  /\ UNCHANGED <<cmdSpent, cmdDamaged>>

\* open(args.output, 'xb')
Open(p) ==
  LET run == cmdRun[p] IN
  /\ run.pc = "open"
  /\ IF Exists(run.job.out) THEN Exit(p, "failed") /\ UNCHANGED <<cmdFiles, cmdMade>>
     ELSE /\ Put(p, [run EXCEPT !.pc = "write", !.read = <<>>])
          /\ cmdFiles' = With(cmdFiles, run.job.out, [c |-> run.out, n |-> "empty"])
          /\ cmdMade' = With(cmdMade, run.job.out, [job |-> run.job, read |-> run.read])
  /\ UNCHANGED <<cmdSpent, cmdDamaged>>

\* The first part, then the rest and the close; only then is the status 0.
Write(p) ==
  LET run == cmdRun[p]
      f == run.job.out
  IN /\ run.pc = "write"
     /\ cmdFiles' = [cmdFiles EXCEPT ![f].n = IF @ = "empty" THEN "half" ELSE "whole"]
     /\ IF cmdFiles[f].n = "empty" THEN UNCHANGED cmdRun ELSE Exit(p, "ok")
     /\ UNCHANGED <<cmdMade, cmdSpent, cmdDamaged>>

\* The disk is full: what was written stays.
WriteFails(p) ==
  /\ cmdRun[p].pc = "write"
  /\ Exit(p, "failed")
  /\ UNCHANGED <<cmdFiles, cmdMade, cmdSpent, cmdDamaged>>

Kill(p) ==
  /\ cmdRun[p].pc # "idle"
  /\ Exit(p, "killed")
  /\ UNCHANGED <<cmdFiles, cmdMade, cmdSpent, cmdDamaged>>

\* Storage damages one finished output.
Damage ==
  /\ ~cmdDamaged /\ cmdDamaged' = TRUE
  /\ \E f \in DOMAIN cmdMade :
       /\ cmdFiles[f].n = "whole"
       /\ \E x \in CutOff(cmdFiles[f].c) \cup Altered(cmdFiles[f].c) :
            x # cmdFiles[f].c /\ cmdFiles' = [cmdFiles EXCEPT ![f].c = x]
  /\ UNCHANGED <<cmdRun, cmdMade, cmdSpent>>

CmdNext ==
  \/ \E p \in Proc : Start(p) \/ ReadInput(p) \/ Compute(p) \/ Open(p) \/ Write(p)
                     \/ WriteFails(p) \/ Kill(p)
  \/ Damage

CmdSpec == CmdInit /\ [][CmdNext]_cmdVars

-------------------------------------------------------------------------------
(* Properties.                                                             *)

\* Commands refuse to overwrite: whatever two of them do at once, a file that
\* is there keeps its content (damage aside) and has one writer, which only
\* ever adds to it.
CmdExclusive ==
  [][\A f \in DOMAIN cmdFiles :
       /\ f \in DOMAIN cmdFiles'
       /\ cmdDamaged' = cmdDamaged => cmdFiles'[f].c = cmdFiles[f].c
       /\ cmdFiles'[f] # cmdFiles[f] /\ cmdDamaged' = cmdDamaged =>
            /\ <<cmdFiles[f].n, cmdFiles'[f].n>> \in {<<"empty", "half">>, <<"half", "whole">>}
            /\ \E p \in Proc : cmdRun[p].pc = "write" /\ cmdRun[p].job.out = f
                               /\ \A q \in Proc \ {p} : cmdRun[q].pc = "write"
                                                        => cmdRun[q].job.out # f]_cmdVars

\* The jobs whose result is checked against the data they were made from.
Checked(job) ==
  job.cmd = "decrypt" \/ (job.cmd = "decompress" /\ job.codec \in {"zlib", "adaptive"})

\* Exit status 0 means that the whole output is on disk, and stays there
\* whatever the other commands do.
CmdWhole ==
  \A p \in Proc : cmdRun[p].status = "ok" =>
    /\ cmdRun[p].job.out \in DOMAIN cmdFiles
    /\ cmdFiles[cmdRun[p].job.out].n = "whole"

\* Beside that, where a checksum or a tag covers the data, the output is what
\* went in, though the input was seen half written, or damaged; and any whole
\* file a command made can be undone, with a limit of just its length.
CmdUndone ==
  /\ CmdWhole
  /\ \A p \in Proc : LET run == cmdRun[p] IN
       run.status = "ok" /\ Checked(run.job) =>
         /\ run.job.ins[1] \in DOMAIN cmdMade
         /\ run.out = cmdMade[run.job.ins[1]].read[1]
  /\ \A f \in DOMAIN cmdMade :
       LET job == cmdMade[f].job
           x == cmdMade[f].read[1]
       IN cmdFiles[f].n = "whole" /\ ~cmdDamaged =>
            CASE job.cmd = "compress" /\ Len(x.d) <= Ceiling ->
                   decompress(job.codec, cmdFiles[f].c, Len(x.d)) = x
              [] job.cmd = "encrypt" -> decrypt(cmdFiles[f].c, job.key, Len(x.d)) = x
              [] OTHER -> TRUE

-------------------------------------------------------------------------------
(* The inductive invariants of ResearchProofs.  A command that writes has  *)
(* its file to itself, and that file is not whole yet.                     *)

CmdShape ==
  /\ cmdFiles = [f \in DOMAIN cmdFiles |-> cmdFiles[f]]
  /\ \A f \in DOMAIN cmdFiles : cmdFiles[f] = [c |-> cmdFiles[f].c, n |-> cmdFiles[f].n]
  /\ cmdRun = [p \in Proc |-> cmdRun[p]]
  /\ \A p \in Proc : LET run == cmdRun[p] IN
       run = [pc |-> run.pc, job |-> run.job, read |-> run.read, out |-> run.out,
              status |-> run.status]

CmdOwn ==
  \A p \in Proc : cmdRun[p].pc = "write" =>
    /\ cmdRun[p].job.out \in DOMAIN cmdFiles
    /\ cmdFiles[cmdRun[p].job.out].n \in {"empty", "half"}

CmdApart ==
  \A p, q \in Proc : p # q /\ cmdRun[p].pc = "write" /\ cmdRun[q].pc = "write"
                        => cmdRun[p].job.out # cmdRun[q].job.out

CmdInv == CmdShape /\ CmdOwn /\ CmdApart /\ CmdWhole

(* Content: what commands compute, and what becomes of it.                 *)

PlainOk(x) == x.t = "plain" /\ x = Plain(x.d) /\ x.d \in Seq({0, 1})

Inner(x) ==
  \/ PlainOk(x)
  \/ x.t = "packed" /\ x = Packed(x.codec, x.d) /\ x.d \in Seq({0, 1})
  \/ x.t = "na01" /\ x = Na01(x.method, x.digest, x.stride, x.payload) /\ x.digest \in Seq({0, 1})

Fresh(x) ==
  \/ Inner(x)
  \/ /\ x.t = "nrx1" /\ Inner(x.sealed)
     /\ x = [t |-> "nrx1", codec |-> x.codec, key |-> x.key, sealed |-> x.sealed, is |-> "whole"]
  \/ x.t = "archive" /\ x = [t |-> "archive", of |-> x.of, is |-> "whole"]

Done(made) == {c \in Results(made.job, made.read) \ {Err} : Fresh(c)}
Faces(c)   == {c} \cup CutOff(c) \cup Altered(c)

(* Every file is an input, or what its job computed from what it read, and *)
(* only if whole may it be damaged, once; a command read plain data or a   *)
(* face of what made its input; and where the result is checked it is what *)
(* that was made from.                                                     *)

Seen(f, x, made) == PlainOk(x) \/ (f \in DOMAIN made /\ \E c \in Done(made[f]) : x \in Faces(c))

MadeOk(m, f, damaged) ==
  /\ m.job \in Jobs /\ (m.job.cmd \in {"compress", "encrypt"} => PlainOk(m.read[1]))
  /\ f.n \in {"empty", "half", "whole"}
  /\ \E c \in Done(m) : IF damaged /\ f.n = "whole" THEN f.c \in Faces(c) ELSE f.c = c

ReadOk(job, read, made) ==
  job.cmd # "create" =>
    /\ read = <<read[1]>>
    /\ IF job.cmd \in {"compress", "encrypt"} THEN PlainOk(read[1])
       ELSE Seen(job.ins[1], read[1], made)

RunOk(run, made) ==
  /\ run.pc # "idle" => run.job \in Jobs
  /\ run.pc = "read" => run.read = <<>> \/ ReadOk(run.job, run.read, made)
  /\ run.pc = "open" => /\ ReadOk(run.job, run.read, made)
                        /\ run.out \in Done([job |-> run.job, read |-> run.read])
  /\ (run.pc \in {"open", "write"} \/ run.status = "ok") /\ Checked(run.job) =>
       /\ run.job.ins[1] \in DOMAIN made
       /\ run.out = made[run.job.ins[1]].read[1]

CmdData ==
  /\ DOMAIN cmdMade \subseteq DOMAIN cmdFiles
  /\ \A f \in DOMAIN cmdFiles \ DOMAIN cmdMade : cmdFiles[f].n = "whole" /\ PlainOk(cmdFiles[f].c)
  /\ \A f \in DOMAIN cmdMade : MadeOk(cmdMade[f], cmdFiles[f], cmdDamaged)
  /\ \A p \in Proc : RunOk(cmdRun[p], cmdMade)
===============================================================================
