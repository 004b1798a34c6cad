---------------------------- MODULE TransformStream ----------------------------
(***************************************************************************)
(* research_codec.py: transform_stream, which reads a file chunk by chunk, *)
(* passes it through a zlib object and writes to a sink under a limit, and *)
(* decompress, which does so in one call, for itself or for                *)
(* adaptive_decompress, whose header gives the length.                     *)
(*                                                                         *)
(* A compressed stream is the number of bytes that each of its bytes       *)
(* brings out of the decoder; a trailer (the checksum of zlib and gzip,    *)
(* which raw DEFLATE lacks) brings none.                                   *)
(***************************************************************************)
EXTENDS Integers, Sequences, FiniteSetsExt

CONSTANTS
  Streams,    \* streams: lists of yields
  MaxChunk,   \* bound: chunk_size
  MaxLimit,   \* bound: max_output
  MaxSize     \* bound: input of the encoder, and its output

ASSUME StreamAssumption == Streams \subseteq Seq(Nat) \ {<<>>}
ASSUME BoundAssumption == MaxChunk \in Nat \ {0} /\ MaxLimit \in Nat /\ MaxSize \in Nat

VARIABLES
  file,    \* source: [mode, yields, trailer, have, junk, bad, size]; size is
           \* the input of the encoder, or the length an adaptive header gives
  chunk_size, max_output,
  pc,      \* "read", "inflate", "returned" or "failed"
  at,      \* bytes read
  chunk,   \* bytes of the chunk left
  engine,  \* [fed, pending, eof]
  total,
  sink,    \* bytes in the sink
  why      \* reason of the failure

vars == <<file, chunk_size, max_output, pc, at, chunk, engine, total, sink, why>>
call == <<file, chunk_size, max_output>>

decode == file.mode # "encode"
Full   == Len(file.yields) + (IF file.trailer THEN 1 ELSE 0)

\* Bytes of the source: the stream, or a part of it, or more.
Length == IF decode THEN file.have + file.junk ELSE file.size

\* What the stream's byte i yields, and all up to i.
Yield(i)    == IF i <= Len(file.yields) THEN file.yields[i] ELSE 0
Yielded(i)  == LET sum[k \in 0..i] == IF k = 0 THEN 0 ELSE sum[k - 1] + Yield(k) IN sum[i]
Whole       == IF decode THEN Yielded(Full) ELSE file.size

Init ==
  /\ \E m \in {"stream", "once", "adaptive", "encode"}, y \in Streams, t \in BOOLEAN,
        j \in 0..1, n \in 0..MaxSize :
       \E h \in 0..(Len(y) + 1), b \in 0..Len(y) :
         /\ file = [mode |-> m, yields |-> y, trailer |-> t, have |-> h, junk |-> j,
                    bad |-> b, size |-> n]
         /\ m = "encode" => t /\ h = 0 /\ j = 0 /\ b = 0
         /\ m \in {"stream", "once"} => n = 0
  /\ file.have <= Full /\ (file.junk > 0 => file.have = Full)
  /\ chunk_size \in 1..MaxChunk /\ max_output \in 0..MaxLimit
  /\ pc = "read"
  /\ at = 0 /\ chunk = 0
  /\ engine = [fed |-> 0, pending |-> 0, eof |-> FALSE]
  /\ total = 0 /\ sink = 0
  /\ why = "none"

-----------------------------------------------------------------------------
(* zlib's decoder.  It takes bytes as long as it has room for what they    *)
(* yield; what it has no room for it keeps, the bytes being taken.         *)

Owed(j)     == engine.pending + Yielded(engine.fed + j) - Yielded(engine.fed)
Taken(n, r) == Max({j \in 0..Min({n, Full - engine.fed}) : \A i \in 0..j - 1 : Owed(i) <= r})

\* decompress(n bytes, r): output, what is kept, bytes not taken.
Decompress(n, r) ==
  LET j == Taken(n, r)
      g == Min({r, Owed(j)})
  IN  [out |-> g, rest |-> n - j,
       damaged |-> file.bad \in engine.fed + 1..engine.fed + j,
       engine |-> [fed |-> engine.fed + j, pending |-> Owed(j) - g,
                   eof |-> engine.fed + j = Full /\ Owed(j) = g]]

-----------------------------------------------------------------------------

Fail(e) == pc' = "failed" /\ why' = e

\* Faulty variant: as much as is left of the limit is too much.
EmitLess(n, ok) ==
  \/ n > 0 /\ n >= max_output - total /\ Fail("limit") /\ UNCHANGED <<total, sink>>
  \/ /\ n <= max_output - total
     /\ total' = total + n /\ sink' = sink + n
     /\ ok
  \/ \E w \in 0..n - 1 : n <= max_output - total /\ sink' = sink + w /\ Fail("sink") /\ UNCHANGED total

\* emit: n bytes to the sink, which may take fewer; then ok.
Emit(n, ok) ==
  \/ n > max_output - total /\ Fail("limit") /\ UNCHANGED <<total, sink>>
  \/ /\ n <= max_output - total
     /\ total' = total + n /\ sink' = sink + n
     /\ ok
  \/ \E w \in 0..n - 1 : n <= max_output - total /\ sink' = sink + w /\ Fail("sink") /\ UNCHANGED total

Read ==
  /\ pc = "read" /\ file.mode = "stream" /\ at < Length /\ ~engine.eof
  /\ \E n \in 1..Min({chunk_size, Length - at}) : chunk' = n /\ at' = at + n
  /\ pc' = "inflate"
  /\ UNCHANGED <<call, engine, total, sink, why>>

ReadTrailing ==
  /\ pc = "read" /\ file.mode = "stream" /\ at < Length /\ engine.eof
  /\ Fail("trailing")
  /\ UNCHANGED <<call, at, chunk, engine, total, sink>>

\* One more than is left of the limit, so that exceeding it shows.
Room == Min({chunk_size, max_output - total + 1})

Inflate ==
  /\ pc = "inflate"
  /\ \E d \in {Decompress(chunk, Room)} :
         /\ engine' = d.engine
         /\ chunk' = d.rest
         /\ IF d.damaged THEN Fail("zlib.error") /\ UNCHANGED <<total, sink>>
            ELSE Emit(d.out, IF d.engine.eof /\ d.rest > 0 THEN Fail("trailing")
                             ELSE pc' = (IF d.rest = 0 THEN "read" ELSE "inflate") /\ UNCHANGED why)
  /\ UNCHANGED <<call, at>>

\* Faulty variant: where the source ends, so does the stream.
EndOfSourceAnywhere ==
  /\ pc = "read" /\ file.mode = "stream" /\ at = Length
  /\ pc' = "returned" /\ UNCHANGED why
  /\ UNCHANGED <<call, at, chunk, engine, total, sink>>

EndOfSource ==
  /\ pc = "read" /\ file.mode = "stream" /\ at = Length
  /\ IF engine.eof THEN pc' = "returned" /\ UNCHANGED why ELSE Fail("truncated")
  /\ UNCHANGED <<call, at, chunk, engine, total, sink>>

\* The encoder gives out what it likes, and at the end the rest.
Compress ==
  /\ pc = "read" /\ file.mode = "encode" /\ at < Length
  /\ \E n \in 1..Min({chunk_size, Length - at}) : at' = at + n
  /\ \E g \in 0..(Whole - sink) : Emit(g, UNCHANGED <<pc, why>>)
  /\ UNCHANGED <<call, chunk, engine>>

Flush ==
  /\ pc = "read" /\ file.mode = "encode" /\ at = Length
  /\ Emit(Whole - sink, pc' = "returned" /\ UNCHANGED why)
  /\ UNCHANGED <<call, at, chunk, engine>>

\* What decompress finds wrong with what one call brought out, if anything.
Wrong(d, limit) ==
  IF d.damaged THEN "zlib.error"
  ELSE IF d.out > limit THEN "limit"
  ELSE IF ~d.engine.eof THEN "truncated"
  ELSE IF d.rest > 0 THEN "trailing"
  ELSE "none"

Return(n) == pc' = "returned" /\ sink' = n /\ UNCHANGED why

Once ==
  /\ pc = "read" /\ file.mode = "once"
  /\ \E d \in {Decompress(Length, max_output + 1)} :
       IF Wrong(d, max_output) = "none" THEN Return(d.out)
       ELSE Fail(Wrong(d, max_output)) /\ UNCHANGED sink
  /\ UNCHANGED <<call, at, chunk, engine, total>>

\* The length, which is held against the limit, and what comes out against it;
\* the digest is that of the stream.
Adaptive ==
  /\ pc = "read" /\ file.mode = "adaptive"
  /\ IF file.size > max_output THEN Fail("limit") /\ UNCHANGED sink
     ELSE \E d \in {Decompress(Length, file.size + 1)} :
            IF Wrong(d, file.size) # "none" THEN Fail(Wrong(d, file.size)) /\ UNCHANGED sink
            ELSE IF d.out # file.size THEN Fail("mismatch") /\ UNCHANGED sink
            ELSE Return(d.out)
  /\ UNCHANGED <<call, at, chunk, engine, total>>

Next == \/ Read \/ ReadTrailing \/ Inflate \/ EndOfSource
        \/ Compress \/ Flush \/ Once \/ Adaptive

Spec == Init /\ [][Next]_vars

-----------------------------------------------------------------------------
(* Correctness.                                                            *)

(* A call that returns has processed a whole stream and nothing else, and  *)
(* the sink has all of its output, however reads and chunks fell; and it   *)
(* is never given more than the limit, not even before a failure.          *)
Complete ==
  /\ pc = "returned" =>
       /\ sink = Whole
       /\ file.mode = "adaptive" => file.size = Whole
       /\ decode => file.have = Full /\ file.junk = 0 /\ file.bad = 0
  /\ sink <= max_output

Cut == file.have < Full

(* A stream is refused for what is wrong with it: as too long, as damaged, *)
(* as followed by something, and, where it has a trailer, as truncated.    *)
RefusedForCause ==
  /\ why = "limit" => \/ Whole > max_output
                      \/ file.mode = "adaptive" /\ (file.size > max_output \/ Whole > file.size)
  /\ why = "mismatch" => file.size # Whole
  /\ why = "trailing" => file.junk > 0
  /\ why = "zlib.error" => file.bad > 0
  /\ why = "truncated" /\ file.trailer => Cut

(* Claimed: the "API handles incremental raw-DEFLATE/zlib/gzip streams"    *)
(* (README.md:76): one that is whole, and within the limit, is not         *)
(* "truncated".                                                            *)
OnlyCutIsTruncated == why = "truncated" => Cut \/ Whole > max_output

-----------------------------------------------------------------------------
(* The inductive invariant of ResearchProofs: what is in the sink and what *)
(* the decoder keeps are what the bytes fed to it yield, every byte read   *)
(* is fed or in the chunk, and a decoder fed a whole stream with a trailer *)
(* is at its end.                                                          *)

CallOk ==
  /\ file.mode \in {"stream", "once", "adaptive", "encode"}
  /\ file.yields \in Seq(Nat) \ {<<>>} /\ file.trailer \in BOOLEAN
  /\ file.have \in 0..Full /\ file.junk \in 0..1 /\ file.size \in Nat
  /\ file.junk > 0 => file.have = Full
  /\ file.bad \in 0..Len(file.yields)
  /\ chunk_size \in Nat \ {0} /\ max_output \in Nat

Fed ==
  /\ engine.fed \in 0..Full /\ engine.pending \in Nat /\ engine.eof \in BOOLEAN
  /\ file.mode # "stream" => engine.fed = 0 /\ engine.pending = 0 /\ pc = "read"
  /\ engine.eof => engine.fed = Full /\ engine.pending = 0
  /\ file.trailer /\ engine.fed = Full => engine.eof
  /\ file.bad \notin 1..engine.fed

Flow ==
  /\ at \in 0..Length /\ chunk \in Nat /\ total = sink /\ sink \in 0..max_output
  /\ Fed
  /\ IF decode THEN sink + engine.pending = Yielded(engine.fed) ELSE sink <= Whole
  /\ file.mode = "stream" => engine.fed + chunk = at
  /\ pc = "read" => chunk = 0

StreamInv ==
  /\ CallOk
  /\ pc \in {"read", "inflate", "returned", "failed"}
  /\ pc \in {"read", "inflate"} => why = "none" /\ Flow
  /\ Complete /\ RefusedForCause
=============================================================================
