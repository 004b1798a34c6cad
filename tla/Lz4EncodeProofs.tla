--------------------------- MODULE Lz4EncodeProofs ---------------------------
(***************************************************************************)
(* For every block and every choice of the format's sizes, what the LZ4    *)
(* encoder writes decodes to the block it was given.                       *)
(***************************************************************************)
EXTENDS Lz4Encode, SequenceTheorems, TLAPS

(* Slices of the block.                                                    *)
LEMMA SliceFacts ==
  ASSUME NEW S, NEW s \in Seq(S), NEW p \in Nat, NEW q \in Nat,
         p <= q, q <= Len(s)
  PROVE  /\ SubSeq(s, p + 1, q) \in Seq(S)
         /\ Len(SubSeq(s, p + 1, q)) = q - p
         /\ \A k \in 1..(q - p) : SubSeq(s, p + 1, q)[k] = s[p + k]
  <1>1. CASE p = q
    <2>1. SubSeq(s, p + 1, q) = << >>
      BY <1>1, SubSeqProperties
    <2> QED BY <1>1, <2>1
  <1>2. CASE p < q
    <2>1. \A k \in (p + 1)..q : s[k] \in S
      BY <1>2
    <2> QED BY <1>2, <2>1, SubSeqProperties
  <1> QED BY <1>1, <1>2

(* Two adjacent slices make one.                                           *)
LEMMA SlicesJoin ==
  ASSUME NEW S, NEW s \in Seq(S), NEW p \in Nat, NEW q \in Nat,
         p <= q, q <= Len(s)
  PROVE  SubSeq(s, 1, p) \o SubSeq(s, p + 1, q) = SubSeq(s, 1, q)
  <1> DEFINE a == SubSeq(s, 0 + 1, p)
             b == SubSeq(s, p + 1, q)
             c == SubSeq(s, 0 + 1, q)
  <1>1. /\ a \in Seq(S) /\ Len(a) = p /\ \A k \in 1..p : a[k] = s[k]
    BY SliceFacts, p \in Nat, 0 \in Nat, 0 <= p, p <= Len(s)
  <1>2. /\ b \in Seq(S) /\ Len(b) = q - p /\ \A k \in 1..(q - p) : b[k] = s[p + k]
    BY SliceFacts
  <1>3. /\ c \in Seq(S) /\ Len(c) = q /\ \A k \in 1..q : c[k] = s[k]
    BY SliceFacts, 0 \in Nat, 0 <= q
  <1> HIDE DEF a, b, c
  <1>4. /\ a \o b \in Seq(S) /\ Len(a \o b) = q
        /\ \A k \in 1..q : (a \o b)[k] = IF k <= p THEN a[k] ELSE b[k - p]
    <2>1. /\ a \o b \in Seq(S) /\ Len(a \o b) = Len(a) + Len(b)
          /\ \A k \in 1..(Len(a) + Len(b)) :
                (a \o b)[k] = IF k <= Len(a) THEN a[k] ELSE b[k - Len(a)]
      BY <1>1, <1>2, ConcatProperties, ZenonT(40)
    <2>2. Len(a) = p /\ Len(a) + Len(b) = q
      BY <1>1, <1>2
    <2> QED BY <2>1, <2>2
  <1>5. \A k \in 1..q : (a \o b)[k] = c[k]
    <2> TAKE k \in 1..q
    <2>1. CASE k <= p
      <3>1. k \in 1..p
        BY <2>1
      <3> QED BY <2>1, <3>1, <1>1, <1>3, <1>4
    <2>2. CASE ~(k <= p)
      <3>1. k - p \in 1..(q - p) /\ p + (k - p) = k
        BY <2>2
      <3> QED BY <2>2, <3>1, <1>2, <1>3, <1>4
    <2> QED BY <2>1, <2>2
  <1>6. a \o b = c
    BY <1>3, <1>4, <1>5, SeqEqual
  <1> QED BY <1>6 DEF a, b, c

(* One byte more.                                                          *)
LEMMA SliceGrows ==
  ASSUME NEW S, NEW s \in Seq(S), NEW p \in Nat, p < Len(s)
  PROVE  Append(SubSeq(s, 1, p), s[p + 1]) = SubSeq(s, 1, p + 1)
  <1> DEFINE a == SubSeq(s, 0 + 1, p)
             c == SubSeq(s, 0 + 1, p + 1)
  <1>1. /\ a \in Seq(S) /\ Len(a) = p /\ \A k \in 1..p : a[k] = s[k]
    BY SliceFacts, 0 \in Nat, 0 <= p, p <= Len(s)
  <1>2. /\ c \in Seq(S) /\ Len(c) = p + 1 /\ \A k \in 1..(p + 1) : c[k] = s[k]
    BY SliceFacts, 0 \in Nat, p + 1 \in Nat, 0 <= p + 1, p + 1 <= Len(s)
  <1>3. s[p + 1] \in S
    BY p + 1 \in 1..Len(s)
  <1> HIDE DEF a, c
  <1>4. /\ Append(a, s[p + 1]) \in Seq(S) /\ Len(Append(a, s[p + 1])) = p + 1
        /\ \A k \in 1..p : Append(a, s[p + 1])[k] = a[k]
        /\ Append(a, s[p + 1])[p + 1] = s[p + 1]
    BY <1>1, <1>3, AppendProperties
  <1>5. \A k \in 1..(p + 1) : Append(a, s[p + 1])[k] = c[k]
    BY <1>1, <1>2, <1>4
  <1>6. Append(a, s[p + 1]) = c
    BY <1>2, <1>4, <1>5, SeqEqual
  <1> QED BY <1>6 DEF a, c

LEMMA Division ==
  ASSUME NEW m \in Nat, NEW c \in Nat \ {0}
  PROVE  /\ m \div c \in Nat /\ m % c \in 0..(c - 1)
         /\ c * (m \div c) \in Nat
         /\ c * (m \div c) + (m % c) = m
  <1>1. c * (m \div c) + (m % c) = m
    BY Z3
  <1>2. m % c \in 0..(c - 1)
    BY Z3
  <1>3. m \div c \in Nat
    BY Z3
  <1>4. c * (m \div c) \in Nat
    BY <1>3, Z3
  <1> QED BY <1>1, <1>2, <1>3, <1>4

(* A length survives its encoding, and no byte of it ends it early.        *)
LEMMA LengthSurvives ==
  ASSUME NEW m \in Nat
  PROVE  LengthOf(LengthCode(m)) = m
  <1> USE FormatAssumption
  <1>1. CASE m < Nibble
    BY <1>1 DEF LengthOf, LengthCode
  <1>2. CASE ~(m < Nibble)
    <2> DEFINE r == m - Nibble
    <2>1. r \in Nat
      BY <1>2
    <2> HIDE DEF r
    <2>2. Continue * (r \div Continue) + (r % Continue) = r
      BY <2>1, Division
    <2>3. /\ r \div Continue \in Nat /\ r % Continue \in Nat
          /\ Continue * (r \div Continue) \in Nat
      BY <2>1, Division
    <2>4. LengthCode(m) = [token |-> Nibble, full |-> r \div Continue,
                           rest |-> r % Continue]
      BY <1>2 DEF LengthCode, r
    <2>5. LengthOf(LengthCode(m)) = Nibble + Continue * (r \div Continue) + (r % Continue)
      <3> DEFINE code == LengthCode(m)
      <3>1. /\ code.token = Nibble /\ code.full = r \div Continue
            /\ code.rest = r % Continue /\ ~(code.token < Nibble)
        BY <2>4
      <3> QED BY <3>1, Zenon DEF LengthOf
    <2>6. Nibble + r = m
      BY DEF r
    <2> DEFINE x == Continue * (r \div Continue)
               y == r % Continue
    <2>7. x \in Nat /\ y \in Nat /\ x + y = r /\ LengthOf(LengthCode(m)) = Nibble + x + y
      BY <2>2, <2>3, <2>5
    <2> HIDE DEF x, y
    <2> QED BY <2>1, <2>6, <2>7
  <1> QED BY <1>1, <1>2

-----------------------------------------------------------------------------
(* The invariant.                                                          *)

LEMMA DataType ==
  ASSUME TypeOK
  PROVE  data \in Seq(Byte) /\ n = Len(data) /\ n \in Nat
  BY InputAssumption DEF TypeOK, n

LEMMA WholeSlice ==
  ASSUME TypeOK
  PROVE  Slice(0, n) = data
  <1> USE DataType
  <1>1. /\ SubSeq(data, 0 + 1, n) \in Seq(Byte) /\ Len(SubSeq(data, 0 + 1, n)) = n - 0
        /\ \A k \in 1..(n - 0) : SubSeq(data, 0 + 1, n)[k] = data[0 + k]
    BY SliceFacts, 0 \in Nat, 0 <= n
  <1>2. SubSeq(data, 0 + 1, n) = data
    <2>1. \A k \in 1..n : SubSeq(data, 0 + 1, n)[k] = data[k]
      BY <1>1
    <2> QED BY <1>1, <2>1, SeqEqual
  <1> QED BY <1>2 DEF Slice

LEMMA InitIInv == Init => IInv
  <1> SUFFICES ASSUME Init PROVE IInv
    OBVIOUS
  <1> USE FormatAssumption, InputAssumption DEF Init
  <1>1. data \in Seq(Byte) /\ n \in Nat
    BY DEF n
  <1>2. TypeOK
    BY <1>1 DEF TypeOK
  <1>3. Slice(0, 0) = << >>
    BY <1>1, SubSeqEmpty DEF Slice
  <1>4. DecoderInv
    BY <1>3 DEF DecoderInv
  <1>5. TableInv /\ MatchInv /\ EndRules
    BY DEF TableInv, MatchInv, EndRules
  <1> QED BY <1>2, <1>4, <1>5 DEF IInv

(* Looking up and recording the key at i.                                  *)
LEMMA ProbeStep == IInv /\ Probe => IInv'
  <1> SUFFICES ASSUME IInv, Probe PROVE IInv'
    OBVIOUS
  <1> USE FormatAssumption
  <1>0. /\ data \in Seq(Byte) /\ n \in Nat /\ n = Len(data) /\ data' = data /\ n' = n
        /\ i \in Nat /\ i + MinMatch + LastLiterals <= n /\ pc = "scan"
        /\ decoded \in Seq(Byte) /\ anchor \in Nat /\ anchor <= i
    BY DataType DEF IInv, TypeOK, Probe, DecoderInv, n
  <1>1. \A k \in DOMAIN table : table[k] \in 0..(i - 1) /\ table[k] + MinMatch <= n
                                /\ k = Key(table[k])
    BY <1>0 DEF IInv, TableInv
  <1>2. \A k \in DOMAIN table' :
          /\ table'[k] \in 0..i /\ table'[k] + MinMatch <= n
          /\ k = Key(table'[k])
    BY <1>0, <1>1 DEF Probe, Record
  <1>3. \A p : Key(p)' = Key(p)
    BY <1>0 DEF Key, Slice
  <1>4. CASE Seen /\ Near
    <2>1. /\ previous' = table[Key(i)] /\ length' = MinMatch /\ pc' = "extend" /\ i' = i
          /\ UNCHANGED <<anchor, size, decoded, offset, left>>
      BY <1>4 DEF Probe, decoder
    <2>2. /\ previous' \in Nat /\ previous' < i /\ Key(previous') = Key(i)
          /\ i - previous' <= MaxOffset
      BY <1>0, <1>1, <1>4, <2>1 DEF Seen, Near
    <2>3. \A k \in 1..MinMatch : data[previous' + k] = data[i + k]
      <3>1. \A k \in 1..MinMatch : Key(i)[k] = data[i + k]
        BY <1>0, SliceFacts, i + MinMatch \in Nat, i <= i + MinMatch, i + MinMatch <= Len(data)
           DEF Key, Slice
      <3> DEFINE q == previous'
      <3>2. q \in Nat /\ q + MinMatch <= Len(data)
        BY <1>0, <2>2
      <3> HIDE DEF q
      <3>3. \A k \in 1..MinMatch : Key(q)[k] = data[q + k]
        BY <1>0, <3>2, SliceFacts, q + MinMatch \in Nat, q <= q + MinMatch DEF Key, Slice
      <3> QED BY <3>1, <3>3, <2>2 DEF q
    <2>4. TypeOK'
      BY <1>0, <2>1, <2>2 DEF IInv, TypeOK
    <2>5. TableInv'
      BY <1>0, <1>2, <1>3, <2>1 DEF TableInv
    <2>6. MatchInv'
      BY <1>0, <2>1, <2>2, <2>3 DEF MatchInv, Probe
    <2>7. DecoderInv' /\ EndRules'
      BY <1>0, <2>1 DEF IInv, DecoderInv, Slice, EndRules
    <2> QED BY <2>4, <2>5, <2>6, <2>7 DEF IInv
  <1>5. CASE ~(Seen /\ Near)
    <2>1. /\ i' = i + 1 /\ pc' = "scan" /\ previous' = previous /\ length' = length
          /\ UNCHANGED <<anchor, size, decoded, offset, left>>
      BY <1>0, <1>5 DEF Probe, decoder
    <2>2. TypeOK'
      BY <1>0, <2>1 DEF IInv, TypeOK
    <2>3. TableInv'
      BY <1>0, <1>2, <1>3, <2>1 DEF TableInv
    <2>4. MatchInv' /\ EndRules'
      BY <2>1 DEF MatchInv, EndRules
    <2>5. DecoderInv'
      BY <1>0, <2>1 DEF IInv, DecoderInv, Slice
    <2> QED BY <2>2, <2>3, <2>4, <2>5 DEF IInv
  <1> QED BY <1>4, <1>5

(* One more byte of the match found equal.                                 *)
LEMMA ExtendStep == IInv /\ Extend => IInv'
  <1> SUFFICES ASSUME IInv, Extend PROVE IInv'
    OBVIOUS
  <1> USE FormatAssumption
  <1>1. /\ data \in Seq(Byte) /\ n \in Nat /\ data' = data /\ n' = n
        /\ pc = "extend" /\ length' = length + 1
        /\ UNCHANGED <<pc, i, anchor, table, previous, size, decoded, offset, left>>
    BY DataType DEF IInv, Extend, decoder, n
  <1>2. TypeOK'
    BY <1>1 DEF IInv, TypeOK
  <1>3. TableInv'
    BY <1>1 DEF IInv, TableInv, Key, Slice
  <1>4. MatchInv'
    <2>1. /\ previous < i /\ i - previous <= MaxOffset
          /\ length >= MinMatch /\ i <= n - LastMatch
          /\ \A k \in 1..length : data[previous + k] = data[i + k]
          /\ length \in Nat /\ previous \in Nat /\ i \in Nat
      BY <1>1 DEF IInv, MatchInv, TypeOK
    <2>2. /\ i + length < n - LastLiterals
          /\ data[previous + length + 1] = data[i + length + 1]
      BY DEF Extend, Longer
    <2>3. \A k \in 1..(length + 1) : data[previous + k] = data[i + k]
      <3> TAKE k \in 1..(length + 1)
      <3>1. CASE k \in 1..length
        BY <3>1, <2>1
      <3>2. CASE k \notin 1..length
        <4>1. k = length + 1 /\ previous + k = previous + length + 1 /\ i + k = i + length + 1
          BY <3>2, <2>1
        <4> QED BY <4>1, <2>2
      <3> QED BY <3>1, <3>2
    <2> QED BY <1>1, <2>1, <2>2, <2>3 DEF MatchInv
  <1>5. DecoderInv' /\ EndRules'
    BY <1>1 DEF IInv, DecoderInv, Slice, EndRules
  <1> QED BY <1>2, <1>3, <1>4, <1>5 DEF IInv

(* The decoder gets the bytes between anchor and p.                        *)
LEMMA LiteralsTaken ==
  ASSUME IInv, pc \in {"scan", "extend"}, NEW p \in anchor..n,
         TakeLiterals(LengthCode(p - anchor))
  PROVE  decoded' = Slice(0, p)
  <1>1. data \in Seq(Byte) /\ n \in Nat /\ n = Len(data) /\ anchor \in Nat /\ p \in Nat
    BY DataType DEF IInv, TypeOK
  <1>2. decoded' = decoded \o Slice(anchor, p)
    <2>1. p - anchor \in Nat /\ anchor + (p - anchor) = p
      BY <1>1
    <2>2. LengthOf(LengthCode(p - anchor)) = p - anchor
      BY <2>1, LengthSurvives
    <2> QED BY <2>1, <2>2 DEF TakeLiterals
  <1>3. decoded = Slice(0, anchor)
    BY DEF IInv, DecoderInv
  <1>4. Slice(0, anchor) \o Slice(anchor, p) = Slice(0, p)
    BY <1>1, SlicesJoin, anchor <= p, p <= Len(data) DEF Slice
  <1> QED BY <1>2, <1>3, <1>4

(* A match is written: the bytes it stands for repeat at its offset.       *)
LEMMA EmitStep == IInv /\ Emit => IInv'
  <1> SUFFICES ASSUME IInv, Emit PROVE IInv'
    OBVIOUS
  <1> USE FormatAssumption
  <1>1. /\ data \in Seq(Byte) /\ n \in Nat /\ n = Len(data) /\ data' = data /\ n' = n
        /\ pc = "extend" /\ pc' = "decode"
        /\ UNCHANGED <<table, previous, length>>
        /\ i' = i + length /\ anchor' = i + length /\ offset' = i - previous
    BY DataType DEF IInv, Emit, n
  <1>2. /\ previous < i /\ i - previous <= MaxOffset /\ previous \in Nat
        /\ length >= MinMatch /\ i <= n - LastMatch /\ length \in Nat
        /\ i + length <= n - LastLiterals /\ i \in Nat
        /\ \A k \in 1..length : data[previous + k] = data[i + k]
        /\ anchor \in Nat /\ anchor <= i
    BY <1>1 DEF IInv, MatchInv, TypeOK, DecoderInv
  <1>3. decoded' = Slice(0, i)
    BY <1>1, <1>2, LiteralsTaken, i \in anchor..n DEF Emit
  <1>4. left' = length
    <2>1. length - MinMatch \in Nat
      BY <1>2
    <2>2. LengthOf(LengthCode(length - MinMatch)) = length - MinMatch
      BY <2>1, LengthSurvives
    <2> QED BY <1>2, <2>2 DEF Emit
  <1>5. Slice(0, i) \in Seq(Byte)
    BY <1>1, <1>2, SliceFacts, 0 \in Nat, 0 <= i, i <= Len(data) DEF Slice
  <1>6. size' \in Nat
    <2>1. \A m \in Nat : LengthBytes(m) \in Nat
      <3> TAKE m \in Nat
      <3>1. CASE m < Nibble
        BY <3>1 DEF LengthBytes
      <3>2. CASE ~(m < Nibble)
        <4>1. m - Nibble \in Nat
          BY <3>2
        <4>2. (m - Nibble) \div Continue \in Nat
          BY <4>1, Division
        <4> QED BY <3>2, <4>2 DEF LengthBytes
      <3> QED BY <3>1, <3>2
    <2>2. /\ LengthBytes(i - anchor) \in Nat /\ LengthBytes(length - MinMatch) \in Nat
          /\ i - anchor \in Nat /\ size \in Nat
      BY <1>2, <2>1, i - anchor \in Nat, length - MinMatch \in Nat DEF IInv, TypeOK
    <2> QED BY <2>2 DEF Emit
  <1>7. TypeOK'
    BY <1>1, <1>2, <1>3, <1>4, <1>5, <1>6 DEF IInv, TypeOK
  <1>8. TableInv'
    BY <1>1, <1>2 DEF IInv, TableInv, Key, Slice
  <1>9. MatchInv' /\ EndRules'
    BY <1>1, <1>2 DEF MatchInv, EndRules
  <1>10. DecoderInv'
    <2>1. \A k \in (i + 1)..(i + length) : data[k] = data[k - (i - previous)]
      <3> TAKE k \in (i + 1)..(i + length)
      <3>1. k - i \in 1..length /\ i + (k - i) = k /\ previous + (k - i) = k - (i - previous)
        BY <1>2
      <3> QED BY <3>1, <1>2
    <2>2. anchor' - left' = i /\ offset' \in 1..MaxOffset /\ offset' <= anchor' - length'
      BY <1>1, <1>2, <1>4
    <2> QED BY <1>1, <1>2, <1>3, <1>4, <2>1, <2>2 DEF DecoderInv, Slice
  <1> QED BY <1>7, <1>8, <1>9, <1>10 DEF IInv

(* The byte copied is the next byte of the block.                          *)
LEMMA CopyByteStep == IInv /\ CopyByte => IInv'
  <1> SUFFICES ASSUME IInv, CopyByte PROVE IInv'
    OBVIOUS
  <1> USE FormatAssumption
  <1>1. /\ data \in Seq(Byte) /\ n \in Nat /\ n = Len(data) /\ data' = data /\ n' = n
        /\ pc = "decode" /\ left > 0 /\ left' = left - 1
        /\ UNCHANGED <<pc, i, anchor, table, previous, length, size, offset>>
    BY DataType DEF IInv, CopyByte, encoder, n
  <1>2. /\ anchor = i /\ left <= length /\ length <= anchor
        /\ decoded = Slice(0, anchor - left)
        /\ offset \in 1..MaxOffset /\ offset <= anchor - length
        /\ \A k \in (anchor - left + 1)..anchor : data[k] = data[k - offset]
        /\ left \in Nat /\ length \in Nat /\ anchor \in 0..n
    BY <1>1 DEF IInv, DecoderInv, TypeOK
  <1> DEFINE a == anchor - left
  <1>3. /\ a \in Nat /\ a < n /\ offset <= a /\ offset \in Nat /\ offset >= 1
        /\ a + 1 = anchor - left' /\ a + 1 \in (anchor - left + 1)..anchor
    BY <1>1, <1>2
  <1> HIDE DEF a
  <1>4. decoded = SubSeq(data, 0 + 1, a)
    BY <1>2 DEF a, Slice
  <1>5. /\ Len(decoded) = a
        /\ \A k \in 1..a : decoded[k] = data[k]
    <2>1. /\ Len(SubSeq(data, 0 + 1, a)) = a - 0
          /\ \A k \in 1..(a - 0) : SubSeq(data, 0 + 1, a)[k] = data[0 + k]
      BY <1>1, <1>3, SliceFacts, 0 \in Nat, 0 <= a, a <= Len(data)
    <2> QED BY <1>3, <1>4, <2>1
  <1>6. decoded[Len(decoded) - offset + 1] = data[a + 1]
    <2>1. a - offset + 1 \in 1..a /\ a + 1 - offset = a - offset + 1
      BY <1>3
    <2>2. decoded[a - offset + 1] = data[a - offset + 1]
      BY <1>5, <2>1
    <2>3. data[a + 1] = data[a + 1 - offset]
      BY <1>2, <1>3
    <2> QED BY <1>5, <2>1, <2>2, <2>3
  <1>7. decoded' = SubSeq(data, 1, a + 1)
    <2>1. decoded' = Append(SubSeq(data, 1, a), data[a + 1])
      BY <1>4, <1>6, 0 + 1 = 1 DEF CopyByte
    <2>2. Append(SubSeq(data, 1, a), data[a + 1]) = SubSeq(data, 1, a + 1)
      BY <1>1, <1>3, SliceGrows
    <2> QED BY <2>1, <2>2
  <1>8. decoded' \in Seq(Byte)
    <2>1. SubSeq(data, 0 + 1, a + 1) \in Seq(Byte)
      BY <1>1, <1>3, SliceFacts, 0 \in Nat, a + 1 \in Nat, 0 <= a + 1, a + 1 <= Len(data)
    <2> QED BY <1>7, <2>1, 0 + 1 = 1
  <1>9. TypeOK'
    BY <1>1, <1>2, <1>8 DEF IInv, TypeOK
  <1>10. TableInv' /\ MatchInv' /\ EndRules'
    BY <1>1 DEF IInv, TableInv, Key, Slice, MatchInv, EndRules
  <1>11. DecoderInv'
    <2>1. decoded' = SubSeq(data', 0 + 1, anchor' - left')
      BY <1>1, <1>3, <1>7, 0 + 1 = 1 DEF Slice
    <2>2. \A k \in (anchor - left' + 1)..anchor : k \in (anchor - left + 1)..anchor
      BY <1>1, <1>2
    <2>3. left' <= length
      BY <1>1, <1>2
    <2>4. \A k \in (anchor - left' + 1)..anchor : data[k] = data[k - offset]
      BY <1>2, <2>2
    <2> QED BY <1>1, <1>2, <2>1, <2>3, <2>4 DEF DecoderInv, Slice
  <1> QED BY <1>9, <1>10, <1>11 DEF IInv

LEMMA GoOnStep == IInv /\ GoOn => IInv'
  <1> SUFFICES ASSUME IInv, GoOn PROVE IInv'
    OBVIOUS
  <1>1. /\ pc = "decode" /\ pc' = "scan" /\ left = 0 /\ n' = n
        /\ UNCHANGED <<data, i, anchor, table, previous, length, size, decoded, offset, left>>
    BY DEF GoOn, encoder, decoder, n
  <1>2. anchor \in Nat /\ anchor - 0 = anchor
    BY DEF IInv, TypeOK, n
  <1> QED BY <1>1, <1>2 DEF IInv, TypeOK, TableInv, MatchInv, DecoderInv, EndRules, Key, Slice

LEMMA LastStep == IInv /\ Last => IInv'
  <1> SUFFICES ASSUME IInv, Last PROVE IInv'
    OBVIOUS
  <1> USE FormatAssumption
  <1>1. /\ data \in Seq(Byte) /\ n \in Nat /\ n = Len(data) /\ n' = n
        /\ pc = "scan" /\ pc' = "done" /\ anchor \in 0..n
        /\ UNCHANGED <<data, i, anchor, table, previous, length, offset, left>>
    BY DataType DEF IInv, Last, n, TypeOK
  <1>2. decoded' = data
    <2>1. decoded' = Slice(0, n)
      BY <1>1, LiteralsTaken, n \in anchor..n DEF Last
    <2> QED BY <2>1, WholeSlice DEF IInv
  <1>3. size' \in Nat
    <2>1. n - anchor \in Nat
      BY <1>1
    <2>2. LengthBytes(n - anchor) \in Nat
      <3>1. CASE n - anchor < Nibble
        BY <3>1 DEF LengthBytes
      <3>2. CASE ~(n - anchor < Nibble)
        <4>1. (n - anchor) - Nibble \in Nat
          BY <2>1, <3>2
        <4>2. ((n - anchor) - Nibble) \div Continue \in Nat
          BY <4>1, Division
        <4> QED BY <3>2, <4>2 DEF LengthBytes
      <3> QED BY <3>1, <3>2
    <2> QED BY <2>1, <2>2 DEF Last, IInv, TypeOK
  <1>4. TypeOK'
    BY <1>1, <1>2, <1>3 DEF IInv, TypeOK
  <1>5. TableInv' /\ MatchInv' /\ EndRules'
    BY <1>1 DEF IInv, TableInv, Key, Slice, MatchInv, EndRules
  <1>6. DecoderInv'
    BY <1>1, <1>2 DEF IInv, DecoderInv
  <1> QED BY <1>4, <1>5, <1>6 DEF IInv

-----------------------------------------------------------------------------

THEOREM Invariance == Spec => []IInv
  <1>1. IInv /\ [Next]_vars => IInv'
    <2> SUFFICES ASSUME IInv, [Next]_vars PROVE IInv'
      OBVIOUS
    <2>1. CASE UNCHANGED vars
      BY <2>1 DEF vars, encoder, decoder, IInv, TypeOK, TableInv, MatchInv, DecoderInv,
                  EndRules, Key, Slice, n
    <2> QED BY <2>1, ProbeStep, ExtendStep, EmitStep, CopyByteStep, GoOnStep, LastStep
            DEF Next
  <1> QED BY InitIInv, <1>1, PTL DEF Spec

(* Type correctness of the encoder and the decoder.                        *)
THEOREM TypeCorrect == Spec => []TypeOK
  <1>1. IInv => TypeOK
    BY DEF IInv
  <1> QED BY Invariance, <1>1, PTL

(* compress_block and what a decoder makes of it: the block comes back,    *)
(* whatever it holds and whether it was stored or not.                     *)
THEOREM RoundTripCorrect == Spec => []RoundTrip
  <1>1. IInv => RoundTrip
    BY DEF IInv, DecoderInv, RoundTrip, Block
  <1> QED BY Invariance, <1>1, PTL

(* Every offset that is written fits its field and stays inside what the   *)
(* decoder has by then.                                                    *)
THEOREM AlwaysDecodable == Spec => []Decodable
  <1>1. IInv => Decodable
    <2> SUFFICES ASSUME IInv, pc = "decode" PROVE Decodable
      BY DEF Decodable
    <2>1. /\ offset \in 1..MaxOffset /\ offset <= anchor - length
          /\ decoded = Slice(0, anchor - left) /\ left <= length /\ left \in Nat
          /\ length \in Nat /\ anchor \in 0..n /\ length <= anchor
      BY DEF IInv, DecoderInv, TypeOK
    <2>2. anchor - left \in Nat /\ anchor - left <= Len(data) /\ data \in Seq(Byte)
      BY <2>1, DataType DEF IInv
    <2>3. Len(SubSeq(data, 0 + 1, anchor - left)) = (anchor - left) - 0
      BY <2>2, SliceFacts, 0 \in Nat, 0 <= anchor - left
    <2>4. Len(decoded) = anchor - left
      BY <2>1, <2>2, <2>3 DEF Slice
    <2> QED BY <2>1, <2>4, FormatAssumption DEF Decodable
  <1> QED BY Invariance, <1>1, PTL

(* The end rules of the block format.                                      *)
THEOREM KeepsEndRules == Spec => []EndRules
  <1>1. IInv => EndRules
    BY DEF IInv
  <1> QED BY Invariance, <1>1, PTL
=============================================================================
