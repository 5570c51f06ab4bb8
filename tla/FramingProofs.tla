---------------------------- MODULE FramingProofs ----------------------------
(***************************************************************************)
(* The framing layer keeps the promise of FrameChannel for every base,     *)
(* magic, limit, set of frames, segmentation and tear: the decoder reads   *)
(* back what encode_frame wrote, and a damaged frame never passes for a    *)
(* whole one.                                                              *)
(***************************************************************************)
EXTENDS Framing, SequenceTheorems, TLAPS

\* What may be in the stream: a byte of a header or payload, or one of the
\* four bytes of a checksum.
Check == Seq(Byte) \X (1..kFrameTrailer)
Symbol == Byte \cup Check
Stream == Seq(Symbol)

Frame == [type : 1..LastType, payload : Seq(Byte)]
SoundFrame == {f \in Frame : Len(f.payload) <= kMaxPayloadLength}

-----------------------------------------------------------------------------
(* Numbers *)

\* Dividing by the base splits off the last digit, and divides bounds.
LEMMA ShiftProperties ==
  ASSUME NEW n \in Nat
  PROVE  /\ Shift(n) \in Nat
         /\ n % Base \in 0..(Base - 1)
         /\ n = Shift(n) * Base + (n % Base)
         /\ \A k \in Nat : n < k * Base => Shift(n) < k
<1>1. Base \in Nat /\ Base >= 2
  BY FramingAssumption
<1> DEFINE q == n \div Base
           r == n % Base
<1>2. /\ q \in Nat
      /\ r \in 0..(Base - 1)
      /\ n = q * Base + r
  BY <1>1
<1> HIDE DEF q, r
<1>3. ASSUME NEW k \in Nat, n < k * Base, q >= k PROVE FALSE
  <2>1. PICK d \in Nat : q = k + d
    BY <1>2, <1>3
  <2>2. q * Base = k * Base + d * Base /\ d * Base \in Nat /\ k * Base \in Nat
    BY <1>1, <2>1
  <2> QED
    BY <1>1, <1>2, <1>3, <2>2
<1>4. \A k \in Nat : n < k * Base => q < k
  BY <1>2, <1>3
<1> QED
  BY <1>2, <1>4 DEF q, r, Shift

\* A number below the base is its own last digit.
LEMMA SmallDigit ==
  ASSUME NEW n \in Nat, n < Base
  PROVE  n % Base = n
<1>1. Base \in Nat /\ Base >= 2
  BY FramingAssumption
<1> QED
  BY <1>1

\* ByteReader::u16 reads what ByteWriter::u16 wrote.
LEMMA ReadU16 ==
  ASSUME NEW v \in Nat, v < Base * Base
  PROVE  /\ Shift(v) % Base \in 0..(Base - 1)
         /\ v % Base \in 0..(Base - 1)
         /\ (Shift(v) % Base) * Base + (v % Base) = v
<1>1. Base \in Nat
  BY FramingAssumption
<1>2. /\ Shift(v) \in Nat /\ Shift(v) < Base
      /\ v % Base \in 0..(Base - 1)
      /\ v = Shift(v) * Base + (v % Base)
  BY <1>1, ShiftProperties
<1>3. Shift(v) % Base = Shift(v)
  BY <1>2, SmallDigit
<1> QED
  BY <1>1, <1>2, <1>3

\* The four digits ByteWriter::u32 writes are bytes, for every number; for one
\* that fits, ByteReader::u32 reads it back.
LEMMA ReadU32 ==
  ASSUME NEW v \in Nat
  PROVE  /\ v % Base \in 0..(Base - 1)
         /\ Shift(v) % Base \in 0..(Base - 1)
         /\ Shift(Shift(v)) % Base \in 0..(Base - 1)
         /\ Shift(Shift(Shift(v))) % Base \in 0..(Base - 1)
         /\ v < ((Base * Base) * Base) * Base =>
              v = (((Shift(Shift(Shift(v))) % Base) * Base + (Shift(Shift(v)) % Base)) * Base
                     + (Shift(v) % Base)) * Base + (v % Base)
<1>1. Base \in Nat /\ Base * Base \in Nat /\ (Base * Base) * Base \in Nat
  BY FramingAssumption
<1> DEFINE v1 == Shift(v)
           v2 == Shift(v1)
           v3 == Shift(v2)
<1>2. /\ v1 \in Nat /\ v % Base \in 0..(Base - 1)
      /\ v = v1 * Base + (v % Base)
      /\ v < ((Base * Base) * Base) * Base => v1 < (Base * Base) * Base
  BY <1>1, ShiftProperties
<1>3. /\ v2 \in Nat /\ v1 % Base \in 0..(Base - 1)
      /\ v1 = v2 * Base + (v1 % Base)
      /\ v1 < (Base * Base) * Base => v2 < Base * Base
  BY <1>1, <1>2, ShiftProperties
<1>4. /\ v3 \in Nat /\ v2 % Base \in 0..(Base - 1)
      /\ v2 = v3 * Base + (v2 % Base)
      /\ v2 < Base * Base => v3 < Base
  BY <1>1, <1>3, ShiftProperties
<1>5. v3 % Base \in 0..(Base - 1)
  BY <1>4, ShiftProperties
<1>6. v3 < Base => v3 % Base = v3
  BY <1>4, SmallDigit
<1> HIDE DEF v1, v2, v3
<1>7. v < ((Base * Base) * Base) * Base =>
        v = (((v3 % Base) * Base + (v2 % Base)) * Base + (v1 % Base)) * Base + (v % Base)
  BY <1>2, <1>3, <1>4, <1>6
<1> QED
  BY <1>2, <1>3, <1>4, <1>5, <1>7 DEF v1, v2, v3

-----------------------------------------------------------------------------
(* Sequences *)

\* u is s, of length m, followed by t, of length n.
Glued(u, s, m, t, n) ==
  /\ Len(u) = m + n
  /\ \A i \in 1..m : u[i] = s[i]
  /\ \A i \in 1..n : u[m + i] = t[i]

\* Where the elements of a concatenation come from.
LEMMA ConcatGlues ==
  ASSUME NEW S, NEW s \in Seq(S), NEW t \in Seq(S),
         NEW m, NEW n, m = Len(s), n = Len(t)
  PROVE  s \o t \in Seq(S) /\ Glued(s \o t, s, m, t, n)
BY DEF Glued

-----------------------------------------------------------------------------
(* What encode_frame writes *)

\* The header as encode_frame lays it out: eleven bytes at fixed places.
LEMMA HeaderLayout ==
  ASSUME NEW f \in Frame
  PROVE  LET h == kFrameMagic \o u16(protocol_version) \o u8(f.type) \o u32(Len(f.payload))
         IN  /\ h \in Seq(Byte) /\ Len(h) = 11
             /\ \A i \in 1..4 : h[i] = kFrameMagic[i]
             /\ h[5] = u16(protocol_version)[1] /\ h[6] = u16(protocol_version)[2]
             /\ h[7] = <<f.type>>
             /\ \A i \in 1..4 : h[7 + i] = u32(Len(f.payload))[i]
<1> DEFINE m == kFrameMagic
           v == u16(protocol_version)
           t == u8(f.type)
           n == Len(f.payload)
           l == u32(n)
<1>1. m \in Seq(Byte) /\ Len(m) = 4
  BY FramingAssumption
<1>2. v \in Seq(Byte) /\ Len(v) = 2
  <2>1. <<Shift(protocol_version) % Base>> \in Byte /\ <<protocol_version % Base>> \in Byte
    BY FramingAssumption, ReadU16 DEF Byte
  <2> QED
    BY <2>1 DEF u16
<1>3. t \in Seq(Byte) /\ Len(t) = 1 /\ t[1] = <<f.type>>
  <2>1. f.type \in 0..(Base - 1)
    BY FramingAssumption DEF Frame
  <2>2. <<f.type>> \in Byte
    BY <2>1 DEF Byte
  <2> QED
    BY <2>2 DEF u8
<1>4. n \in Nat
  BY DEF Frame
<1>5. l \in Seq(Byte) /\ Len(l) = 4
  <2> HIDE DEF n
  <2> QED
    BY <1>4, ReadU32 DEF u32, Byte
<1> HIDE DEF m, v, t, n, l
<1> DEFINE mv == m \o v
           mvt == mv \o t
           h == mvt \o l
<1>6. mv \in Seq(Byte) /\ Glued(mv, m, 4, v, 2)
  BY <1>1, <1>2, ConcatGlues
<1> HIDE DEF mv
<1>7. Len(mv) = 6 /\ (\A i \in 1..4 : mv[i] = m[i]) /\ mv[5] = v[1] /\ mv[6] = v[2]
  BY <1>6 DEF Glued
<1>8. mvt \in Seq(Byte) /\ Glued(mvt, mv, 6, t, 1)
  BY <1>3, <1>6, <1>7, ConcatGlues
<1> HIDE DEF mvt
<1>9. Len(mvt) = 7 /\ (\A i \in 1..6 : mvt[i] = mv[i]) /\ mvt[7] = t[1]
  BY <1>8 DEF Glued
<1>10. h \in Seq(Byte) /\ Glued(h, mvt, 7, l, 4)
  BY <1>5, <1>8, <1>9, ConcatGlues
<1> HIDE DEF h
<1>11. /\ Len(h) = 11
       /\ \A i \in 1..7 : h[i] = mvt[i]
       /\ \A i \in 1..4 : h[7 + i] = l[i]
  BY <1>10 DEF Glued
<1>12. /\ \A i \in 1..4 : h[i] = m[i]
       /\ h[5] = v[1] /\ h[6] = v[2] /\ h[7] = t[1]
  BY <1>7, <1>9, <1>11
<1> QED
  BY <1>3, <1>10, <1>11, <1>12 DEF h, mvt, mv, m, v, t, n, l

\* A whole frame: the header, the payload and the checksum of both.
LEMMA FrameLayout ==
  ASSUME NEW f \in Frame
  PROVE  LET e == encode_frame(f)
             c == FrameBody(f)
             n == Len(f.payload)
         IN  /\ n \in Nat /\ f.payload \in Seq(Byte)
             /\ c \in Seq(Byte) /\ Len(c) = 11 + n
             /\ e \in Stream /\ Len(e) = 15 + n
             /\ \A i \in 1..(11 + n) : e[i] = c[i]
             /\ \A i \in 1..4 : e[11 + n + i] = <<c, i>>
             /\ \A i \in 1..4 : e[i] = kFrameMagic[i]
             /\ e[5] = u16(protocol_version)[1] /\ e[6] = u16(protocol_version)[2]
             /\ e[7] = <<f.type>>
             /\ \A i \in 1..4 : e[7 + i] = u32(n)[i]
             /\ \A i \in 1..n : e[11 + i] = f.payload[i]
<1> DEFINE h == kFrameMagic \o u16(protocol_version) \o u8(f.type) \o u32(Len(f.payload))
           p == f.payload
           n == Len(p)
           c == h \o p
           k == crc32(c)
           e == c \o k
<1>1. p \in Seq(Byte) /\ n \in Nat
  BY DEF Frame
<1>2. /\ h \in Seq(Byte) /\ Len(h) = 11
      /\ \A i \in 1..4 : h[i] = kFrameMagic[i]
      /\ h[5] = u16(protocol_version)[1] /\ h[6] = u16(protocol_version)[2]
      /\ h[7] = <<f.type>>
      /\ \A i \in 1..4 : h[7 + i] = u32(n)[i]
  BY HeaderLayout
<1> HIDE DEF h, p
<1>3. c \in Seq(Byte) /\ Glued(c, h, 11, p, n)
  BY <1>1, <1>2, ConcatGlues
<1>c. c = FrameBody(f) /\ e = encode_frame(f)
  BY DEF h, p, FrameBody, encode_frame
<1> HIDE DEF c, n
<1>4. /\ Len(c) = 11 + n
      /\ \A i \in 1..11 : c[i] = h[i]
      /\ \A i \in 1..n : c[11 + i] = p[i]
  BY <1>3 DEF Glued
<1>5. k \in Seq(Check) /\ Len(k) = 4 /\ \A i \in 1..4 : k[i] = <<c, i>>
  BY <1>3 DEF crc32, Check, kFrameTrailer
<1> HIDE DEF k
<1>6. c \in Stream /\ k \in Stream
  BY <1>3, <1>5, SeqMonotonic DEF Stream, Symbol
<1>7. e \in Stream /\ Glued(e, c, 11 + n, k, 4)
  BY <1>4, <1>5, <1>6, ConcatGlues DEF Stream
<1> HIDE DEF e
<1>8. /\ Len(e) = 15 + n
      /\ \A i \in 1..(11 + n) : e[i] = c[i]
      /\ \A i \in 1..4 : e[11 + n + i] = <<c, i>>
  BY <1>1, <1>5, <1>7 DEF Glued
<1>9. \A i \in 1..11 : e[i] = h[i]
  <2> TAKE i \in 1..11
  <2>1. i \in 1..(11 + n)
    BY <1>1
  <2> QED
    BY <1>4, <1>8, <2>1, Zenon
<1>10. \A i \in 1..n : e[11 + i] = p[i]
  <2> TAKE i \in 1..n
  <2>1. 11 + i \in 1..(11 + n)
    BY <1>1
  <2> QED
    BY <1>4, <1>8, <2>1, Zenon
<1>11. /\ \A i \in 1..4 : e[i] = kFrameMagic[i]
       /\ e[5] = u16(protocol_version)[1] /\ e[6] = u16(protocol_version)[2]
       /\ e[7] = <<f.type>>
       /\ \A i \in 1..4 : e[7 + i] = u32(n)[i]
  BY <1>2, <1>9
<1> QED
  BY <1>1, <1>3, <1>4, <1>7, <1>8, <1>10, <1>11, <1>c DEF n, p
\* Concatenation of streams is associative.
LEMMA StreamAssociative ==
  ASSUME NEW s \in Stream, NEW t \in Stream, NEW u \in Stream
  PROVE  (s \o t) \o u = s \o (t \o u)
<1>1. s \in Seq(Symbol) /\ t \in Seq(Symbol) /\ u \in Seq(Symbol)
  BY DEF Stream
<1> QED
  BY <1>1, ConcatAssociative

\* A piece of b that agrees with s everywhere is s.
LEMMA PieceIs ==
  ASSUME NEW S, NEW b \in Seq(S), NEW s \in Seq(S), NEW k \in Nat, NEW n,
         n = Len(s), k + n <= Len(b),
         \A i \in 1..n : b[k + i] = s[i]
  PROVE  SubSeq(b, k + 1, k + n) = s
<1> DEFINE u == SubSeq(b, k + 1, k + n)
<1>1. n \in Nat /\ Len(b) \in Nat
  BY LenProperties
<1>2. \A i \in (k + 1)..(k + n) : b[i] \in S
  BY <1>1, ElementOfSeq
<1>3. /\ u \in Seq(S)
      /\ Len(u) = IF k + 1 <= k + n THEN (k + n) - (k + 1) + 1 ELSE 0
      /\ \A i \in 1..((k + n) - (k + 1) + 1) : u[i] = b[(k + 1) + i - 1]
  BY <1>1, <1>2, SubSeqProperties
<1> HIDE DEF u
<1>4. Len(u) = n /\ \A i \in 1..n : u[i] = s[i]
  BY <1>1, <1>3
<1> QED
  BY <1>3, <1>4, SeqEqual DEF u

\* If u is b then w and also e then t, and b the longer, then what b has
\* beyond e, followed by w, is t.
LEMMA Overhang ==
  ASSUME NEW S, NEW u, NEW b, NEW w, NEW e, NEW t \in Seq(S), NEW r, NEW x \in Seq(S),
         NEW lb \in Nat, NEW lw \in Nat, NEW le \in Nat, NEW lt \in Nat, le <= lb,
         Glued(u, b, lb, w, lw), Glued(u, e, le, t, lt),
         Glued(b, b, le, r, lb - le),
         Glued(x, r, lb - le, w, lw), lt = Len(t)
  PROVE  x = t
<1>1. lb + lw = le + lt
  BY DEF Glued
<1>2. lt = (lb - le) + lw
  BY <1>1
<1>3. ASSUME NEW i \in 1..lt PROVE x[i] = t[i]
  <2>1. t[i] = u[le + i]
    BY DEF Glued
  <2>2. CASE i <= lb - le
    <3>1. i \in 1..(lb - le) /\ le + i \in 1..lb
      BY <2>2
    <3>2. x[i] = r[i] /\ u[le + i] = b[le + i]
      BY <3>1 DEF Glued
    <3> QED
      BY <2>1, <3>1, <3>2 DEF Glued
  <2>3. CASE i > lb - le
    <3>1. PICK j \in 1..lw : i = (lb - le) + j /\ le + i = lb + j
      <4>1. i - (lb - le) \in 1..lw
        BY <1>2, <2>3
      <4> QED
        BY <4>1
    <3>2. x[i] = w[j] /\ u[le + i] = w[j]
      BY <3>1 DEF Glued
    <3> QED
      BY <2>1, <3>2
  <2> QED
    BY <2>2, <2>3
<1>4. Len(x) = lt
  BY <1>2 DEF Glued
<1> QED
  BY <1>3, <1>4, SeqEqual

\* Where b and e both reach they agree, and what b has beyond e starts t.
StartsWith(b, w, e, t, S) ==
  /\ \A i \in 1..Len(b) : i <= Len(e) => b[i] = e[i]
  /\ Len(e) <= Len(b) =>
       /\ SubSeq(b, Len(e) + 1, Len(b)) \in Seq(S)
       /\ SubSeq(b, Len(e) + 1, Len(b)) \o w = t

\* Two ways to cut the same stream.
LEMMA SplitStream ==
  ASSUME NEW S, NEW b \in Seq(S), NEW w \in Seq(S), NEW e \in Seq(S), NEW t \in Seq(S),
         NEW u, u = b \o w, u = e \o t
  PROVE  StartsWith(b, w, e, t, S)
<1> DEFINE lb == Len(b)
           lw == Len(w)
           le == Len(e)
           lt == Len(t)
           r == SubSeq(b, le + 1, lb)
<1>1. lb \in Nat /\ lw \in Nat /\ le \in Nat /\ lt \in Nat
  BY LenProperties
<1>2. u \in Seq(S) /\ Glued(u, b, lb, w, lw) /\ Glued(u, e, le, t, lt)
  <2>1. b \o w \in Seq(S) /\ Glued(b \o w, b, lb, w, lw)
    BY ConcatGlues
  <2>2. Glued(e \o t, e, le, t, lt)
    BY ConcatGlues
  <2> QED
    BY <2>1, <2>2, Zenon
<1>3. ASSUME le <= lb
      PROVE  r \in Seq(S) /\ r \o w = t
  <2>1. \A i \in (le + 1)..lb : b[i] \in S
    BY <1>1, ElementOfSeq
  <2>2. /\ r \in Seq(S)
        /\ Len(r) = IF le + 1 <= lb THEN lb - (le + 1) + 1 ELSE 0
        /\ \A i \in 1..(lb - (le + 1) + 1) : r[i] = b[(le + 1) + i - 1]
    BY <1>1, <2>1, SubSeqProperties
  <2> HIDE DEF r, lb, lw, le, lt
  <2>3. Len(r) = lb - le /\ Glued(b, b, le, r, lb - le)
    <3>1. Len(r) = lb - le /\ \A i \in 1..(lb - le) : r[i] = b[le + i]
      BY <1>1, <1>3, <2>2
    <3>2. Len(b) = le + (lb - le)
      BY <1>1 DEF lb
    <3> QED
      BY <3>1, <3>2 DEF Glued
  <2> DEFINE x == r \o w
  <2>4. x \in Seq(S) /\ Glued(x, r, lb - le, w, lw)
    BY <2>2, <2>3, ConcatGlues DEF lw
  <2> HIDE DEF x
  <2>5. lt = Len(t)
    BY DEF lt
  <2>6. x = t
    BY <1>1, <1>2, <1>3, <2>3, <2>4, <2>5, Overhang
  <2> QED
    BY <2>2, <2>6 DEF x
<1> HIDE DEF r
<1>4. \A i \in 1..lb : i <= le => b[i] = e[i]
  BY <1>1, <1>2 DEF Glued
<1> QED
  BY <1>3, <1>4 DEF r, StartsWith

-----------------------------------------------------------------------------
(* The decoder reads back what encode_frame wrote *)

\* The header of a sound frame, once it is there, passes every check of feed
\* and declares the length the payload has.
LEMMA SoundHeader ==
  ASSUME NEW f \in SoundFrame, NEW b \in Stream, Len(b) >= 15,
         \A i \in 1..11 : b[i] = encode_frame(f)[i]
  PROVE  ~BadHeader(b) /\ payload_len(b) = Len(f.payload) /\ b[7][1] = f.type
<1> DEFINE n == Len(f.payload)
<1>1. f \in Frame /\ n <= kMaxPayloadLength
  BY DEF SoundFrame
<1>2. /\ n \in Nat
      /\ \A i \in 1..4 : b[i] = kFrameMagic[i]
      /\ b[5] = u16(protocol_version)[1] /\ b[6] = u16(protocol_version)[2]
      /\ b[7] = <<f.type>>
      /\ \A i \in 1..4 : b[7 + i] = u32(n)[i]
  <2> DEFINE e == encode_frame(f)
  <2>1. /\ n \in Nat
        /\ \A i \in 1..4 : e[i] = kFrameMagic[i]
        /\ e[5] = u16(protocol_version)[1] /\ e[6] = u16(protocol_version)[2]
        /\ e[7] = <<f.type>>
        /\ \A i \in 1..4 : e[7 + i] = u32(n)[i]
    BY <1>1, FrameLayout
  <2>2. \A i \in 1..11 : b[i] = e[i]
    OBVIOUS
  <2> HIDE DEF e, n
  <2> QED
    BY <2>1, <2>2
<1> HIDE DEF n
<1>3. SubSeq(b, 1, 4) = kFrameMagic
  <2>1. kFrameMagic \in Stream /\ Len(kFrameMagic) = 4
    BY FramingAssumption, SeqMonotonic DEF Stream, Symbol
  <2>2. \A i \in 1..4 : b[0 + i] = kFrameMagic[i]
    <3> TAKE i \in 1..4
    <3>1. 0 + i = i
      OBVIOUS
    <3> QED
      BY <1>2, <3>1, Zenon
  <2>3. SubSeq(b, 0 + 1, 0 + 4) = kFrameMagic
    BY <2>1, <2>2, PieceIs DEF Stream
  <2> QED
    BY <2>3
<1>4. read_u16(b, 5) = protocol_version
  <2>1. read_u16(b, 5) = (Shift(protocol_version) % Base) * Base + (protocol_version % Base)
    BY <1>2 DEF u16, read_u16
  <2> QED
    BY <2>1, ReadU16, FramingAssumption
<1>5. payload_len(b) = n
  <2>1. /\ b[8] = u32(n)[1] /\ b[9] = u32(n)[2] /\ b[10] = u32(n)[3] /\ b[11] = u32(n)[4]
    BY <1>2
  <2>2. payload_len(b) =
          (((Shift(Shift(Shift(n))) % Base) * Base + (Shift(Shift(n)) % Base)) * Base
             + (Shift(n) % Base)) * Base + (n % Base)
    BY <2>1 DEF payload_len, read_u32, u32
  <2>3. n < ((Base * Base) * Base) * Base
    <3> DEFINE M == ((Base * Base) * Base) * Base
    <3>1. Base \in Nat /\ kMaxPayloadLength \in Nat /\ kMaxPayloadLength < M
      BY FramingAssumption, Zenon
    <3>2. M \in Nat
      BY <3>1
    <3> HIDE DEF M
    <3>3. n < M
      BY <1>1, <1>2, <3>1, <3>2
    <3> QED
      BY <3>3 DEF M
  <2> QED
    BY <1>2, <2>2, <2>3, ReadU32
<1>6. b[7][1] = f.type /\ f.type \in 1..LastType
  BY <1>1, <1>2 DEF Frame
<1>7. ~(payload_len(b) > kMaxPayloadLength)
  BY <1>1, <1>2, <1>5, FramingAssumption
<1> QED
  BY <1>3, <1>4, <1>5, <1>6, <1>7 DEF BadHeader, valid_message_type, n

\* On a buffer that starts with (part of) a sound frame, feed waits exactly
\* until the frame is whole and then hands it out unchanged.
LEMMA FeedSound ==
  ASSUME NEW f \in SoundFrame, NEW b \in Stream,
         \A i \in 1..Len(b) : i <= Len(encode_frame(f)) => b[i] = encode_frame(f)[i]
  PROVE  /\ Len(b) < Len(encode_frame(f)) => feed(b) = NeedMore
         /\ Len(encode_frame(f)) <= Len(b) =>
              feed(b) = [result |-> "FrameReady", frame |-> f,
                         rest |-> SubSeq(b, Len(encode_frame(f)) + 1, Len(b))]
<1> DEFINE n == Len(f.payload)
           e == encode_frame(f)
           c == FrameBody(f)
<1>0. f \in Frame
  BY DEF SoundFrame
<1>1. /\ n \in Nat /\ f.payload \in Seq(Byte)
      /\ c \in Seq(Byte) /\ Len(c) = 11 + n
      /\ e \in Stream /\ Len(e) = 15 + n
      /\ \A i \in 1..(11 + n) : e[i] = c[i]
      /\ \A i \in 1..4 : e[11 + n + i] = <<c, i>>
      /\ \A i \in 1..n : e[11 + i] = f.payload[i]
  BY <1>0, FrameLayout
<1>2. Len(b) \in Nat
  BY LenProperties DEF Stream
<1>2a. n \in Nat /\ Len(e) = 15 + n
  BY <1>1
<1>3. CASE Len(b) < 15
  <2>1. Len(b) < kFrameHeader + kFrameTrailer
    BY <1>3 DEF kFrameHeader, kFrameTrailer
  <2>2. feed(b) = NeedMore
    BY <2>1, Zenon DEF feed
  <2>3. ~(Len(e) <= Len(b))
    BY <1>2, <1>2a, <1>3
  <2> QED
    BY <2>2, <2>3, Zenon
<1>4. CASE Len(b) >= 15
  <2>1. ~BadHeader(b) /\ payload_len(b) = n /\ b[7][1] = f.type
    <3>1. \A i \in 1..11 : b[i] = e[i]
      <4> TAKE i \in 1..11
      <4>1. i \in 1..Len(b) /\ i <= Len(e)
        BY <1>2, <1>2a, <1>4
      <4> QED
        BY <4>1, Zenon
    <3> QED
      BY <1>4, <3>1, SoundHeader
  <2>2. total_len(b) = 15 + n
    BY <1>1, <2>1 DEF total_len, kFrameHeader, kFrameTrailer
  <2>3. ~(Len(b) < kFrameHeader + kFrameTrailer)
    BY <1>2, <1>4 DEF kFrameHeader, kFrameTrailer
  <2>4. CASE Len(b) < 15 + n
    <3>1. ~WholeFrame(b)
      BY <1>1, <1>2, <2>2, <2>4 DEF WholeFrame
    <3>2. feed(b) = NeedMore
      BY <2>1, <2>3, <3>1, Zenon DEF feed
    <3>3. ~(Len(e) <= Len(b))
      BY <1>2, <1>2a, <2>4
    <3> QED
      BY <3>2, <3>3, Zenon
  <2>5. CASE Len(b) >= 15 + n
    <3> HIDE DEF n, e, c
    <3>1. \A i \in 1..(15 + n) : b[i] = e[i]
      <4> TAKE i \in 1..(15 + n)
      <4>1. i \in 1..Len(b) /\ i <= Len(e)
        BY <1>2, <1>2a, <2>5
      <4> QED
        BY <4>1, Zenon DEF e
    <3>2. SubSeq(b, 1, 11 + n) = c
      <4>1. c \in Stream
        BY <1>1, SeqMonotonic DEF Stream, Symbol
      <4>2. \A i \in 1..(11 + n) : b[0 + i] = c[i]
        <5> TAKE i \in 1..(11 + n)
        <5>1. 0 + i = i /\ i \in 1..(15 + n)
          BY <1>1
        <5> QED
          BY <1>1, <3>1, <5>1
      <4>3. SubSeq(b, 0 + 1, 0 + (11 + n)) = c
        BY <1>1, <1>2, <2>5, <4>1, <4>2, PieceIs DEF Stream
      <4> QED
        BY <1>1, <4>3
    <3>3. SubSeq(b, (11 + n) + 1, (11 + n) + 4) = crc32(c)
      <4>1. crc32(c) \in Seq(Check) /\ Len(crc32(c)) = 4 /\ \A i \in 1..4 : crc32(c)[i] = <<c, i>>
        BY <1>1 DEF crc32, Check, kFrameTrailer
      <4>2. crc32(c) \in Stream
        BY <4>1, SeqMonotonic DEF Stream, Symbol
      <4>3. \A i \in 1..4 : b[(11 + n) + i] = crc32(c)[i]
        <5> TAKE i \in 1..4
        <5>1. (11 + n) + i \in 1..(15 + n) /\ (11 + n) + i = 11 + n + i
          BY <1>1
        <5> QED
          BY <1>1, <3>1, <4>1, <5>1
      <4> QED
        <5>1. 11 + n \in Nat /\ (11 + n) + 4 <= Len(b)
          BY <1>2, <1>2a, <2>5
        <5> QED
          BY <4>1, <4>2, <4>3, <5>1, PieceIs, ZenonT(60) DEF Stream
    <3>4. SubSeq(b, 11 + 1, 11 + n) = f.payload
      <4>1. f.payload \in Stream
        BY <1>1, SeqMonotonic DEF Stream, Symbol
      <4>2. \A i \in 1..n : b[11 + i] = f.payload[i]
        <5> TAKE i \in 1..n
        <5>1. 11 + i \in 1..(15 + n)
          BY <1>2a
        <5> QED
          BY <1>1, <3>1, <5>1, Zenon
      <4> QED
        <5>1. 11 \in Nat /\ 11 + n <= Len(b)
          BY <1>2, <1>2a, <2>5
        <5>2. n = Len(f.payload)
          BY DEF n
        <5> QED
          BY <4>1, <4>2, <5>1, <5>2, PieceIs DEF Stream
    <3>5. CrcMatches(b)
      <4>1. total_len(b) - kFrameTrailer = 11 + n /\ total_len(b) = (11 + n) + 4
        BY <1>1, <2>2 DEF kFrameTrailer
      <4> QED
        BY <3>2, <3>3, <4>1 DEF CrcMatches
    <3>6. WholeFrame(b)
      BY <2>2, <2>5 DEF WholeFrame
    <3>7. [type |-> b[7][1], payload |-> SubSeq(b, kFrameHeader + 1, kFrameHeader + payload_len(b))] = f
      <4>1. kFrameHeader = 11
        BY DEF kFrameHeader
      <4> QED
        BY <1>0, <2>1, <3>4, <4>1 DEF Frame
    <3>8. feed(b) = [result |-> "FrameReady", frame |-> f,
                     rest |-> SubSeq(b, total_len(b) + 1, Len(b))]
      BY <2>1, <2>3, <3>5, <3>6, <3>7 DEF feed
    <3> QED
      BY <1>1, <1>2, <2>2, <2>5, <3>8 DEF e
  <2> QED
    BY <1>1, <1>2, <2>4, <2>5
<1> QED
  BY <1>2, <1>3, <1>4
-----------------------------------------------------------------------------
(* A damaged frame never passes for a whole one *)

\* What is in the stream from the first torn or oversized frame on.  It starts
\* with bytes as a header does, and the last byte of a checksum never stands
\* where it would end a frame that starts with d and is not too long.
Damaged(d) ==
  /\ Len(d) > 0
  /\ \A i \in 1..Len(d) : i <= 11 => d[i] \in Byte
  /\ \A q \in 1..Len(d) : \A x \in Seq(Byte) :
        d[q] = <<x, 4>> => Len(x) + 4 # q \/ q > 15 + kMaxPayloadLength

\* Bytes and checksums are told apart, and a checksum covers only bytes.
LEMMA ChecksAreNoBytes ==
  /\ \A s \in Byte : \A x, i : s # <<x, i>>
  /\ \A x : <<x, 4>> \in Symbol => x \in Seq(Byte)
<1>1. ASSUME NEW s \in Byte, NEW x, NEW i PROVE s # <<x, i>>
  BY DEF Byte
<1>3. ASSUME NEW x, <<x, 4>> \in Symbol PROVE x \in Seq(Byte)
  <2>1. <<x, 4>> \in Check
    BY <1>1, <1>3 DEF Symbol
  <2> QED
    BY <2>1 DEF Check
<1> QED
  BY <1>1, <1>3

\* The last byte of a checksum stands only at the end of a frame.
LEMMA ChecksumEndsFrame ==
  ASSUME NEW f \in Frame, NEW q \in 1..Len(encode_frame(f)), NEW x,
         encode_frame(f)[q] = <<x, 4>>
  PROVE  q = 15 + Len(f.payload) /\ Len(x) = 11 + Len(f.payload)
<1> DEFINE e == encode_frame(f)
           c == FrameBody(f)
           k == Len(f.payload)
<1>1. k \in Nat /\ c \in Seq(Byte) /\ Len(c) = 11 + k /\ Len(e) = 15 + k
  BY FrameLayout
<1>2. \A i \in 1..(11 + k) : e[i] = c[i]
  BY FrameLayout
<1>3. \A i \in 1..4 : e[11 + k + i] = <<c, i>>
  BY FrameLayout
<1>4. q \in 1..(15 + k) /\ e[q] = <<x, 4>>
  BY <1>1
<1> HIDE DEF e, c, k
<1>5. CASE q \in 1..(11 + k)
  <2>1. e[q] \in Byte
    BY <1>1, <1>2, <1>5, ElementOfSeq
  <2>2. PICK y \in 0..(Base - 1) : e[q] = <<y>>
    BY <2>1 DEF Byte
  <2>3. <<y>> = <<x, 4>>
    BY <1>4, <2>2
  <2> QED
    BY <2>3
<1>6. CASE q \notin 1..(11 + k)
  <2>1. q - (11 + k) \in 1..4 /\ q = 11 + k + (q - (11 + k))
    BY <1>1, <1>4, <1>6
  <2>2. PICK i \in 1..4 : q = 11 + k + i
    BY <2>1
  <2>3. <<c, i>> = <<x, 4>>
    BY <1>3, <1>4, <2>2
  <2>4. c = x /\ i = 4
    BY <2>3
  <2> QED
    BY <1>1, <2>2, <2>4 DEF k
<1> QED
  BY <1>5, <1>6

\* The digit of a byte is a number.
LEMMA DigitIsNumber ==
  ASSUME NEW s \in Byte
  PROVE  s[1] \in Nat
<1>1. PICK d \in 0..(Base - 1) : s = <<d>>
  BY DEF Byte
<1>2. s[1] = d /\ d \in Nat
  BY <1>1, FramingAssumption
<1> QED
  BY <1>2

\* feed waits or refuses, on whatever part of a damaged stream it has.
LEMMA FeedDamaged ==
  ASSUME NEW b \in Stream, NEW w \in Stream, Damaged(b \o w)
  PROVE  feed(b) \in {NeedMore, Error}
<1> DEFINE d == b \o w
           n == payload_len(b)
           T == total_len(b)
           x == SubSeq(b, 1, T - 4)
<1>1. Len(b) \in Nat /\ Len(w) \in Nat
  BY LenProperties DEF Stream
<1>2. d \in Stream /\ Glued(d, b, Len(b), w, Len(w))
  BY ConcatGlues DEF Stream
<1> HIDE DEF d
<1>3. Len(d) >= Len(b) /\ \A i \in 1..Len(b) : b[i] = d[i]
  BY <1>1, <1>2 DEF Glued
<1>4. CASE Len(b) < kFrameHeader + kFrameTrailer
  BY <1>4, Zenon DEF feed
<1>5. CASE BadHeader(b)
  BY <1>5, Zenon DEF feed
<1>6. CASE ~WholeFrame(b)
  BY <1>6, Zenon DEF feed
<1>7. CASE ~CrcMatches(b)
  BY <1>7, Zenon DEF feed
<1>8. ASSUME ~(Len(b) < kFrameHeader + kFrameTrailer), ~BadHeader(b), WholeFrame(b), CrcMatches(b)
      PROVE  FALSE
  <2>1. Len(b) >= 15 /\ kFrameHeader = 11 /\ kFrameTrailer = 4
    BY <1>1, <1>8 DEF kFrameHeader, kFrameTrailer
  <2>2. \A i \in 1..11 : b[i] \in Byte
    <3> TAKE i \in 1..11
    <3>1. i \in 1..Len(b) /\ i \in 1..Len(d) /\ i <= 11
      BY <1>1, <1>2, <1>3, <2>1 DEF Glued
    <3> QED
      BY <1>3, <3>1 DEF Damaged, d
  <2>3. n \in Nat
    <3>1. b[8][1] \in Nat /\ b[9][1] \in Nat /\ b[10][1] \in Nat /\ b[11][1] \in Nat
      BY <2>2, DigitIsNumber
    <3>2. Base \in Nat
      BY FramingAssumption
    <3> QED
      BY <3>1, <3>2 DEF payload_len, read_u32
  <2>4. n <= kMaxPayloadLength
    BY <1>8, <2>3, FramingAssumption DEF BadHeader
  <2>5. T = 15 + n /\ T <= Len(b)
    <3>1. T = 15 + n
      BY <2>1, <2>3 DEF total_len
    <3> QED
      BY <1>1, <1>8, <2>3, <3>1 DEF WholeFrame
  <2> HIDE DEF n, T
  <2>6. b[T] = <<x, 4>>
    <3>1. SubSeq(b, (T - 4) + 1, T) = crc32(x)
      BY <1>8, <2>1 DEF CrcMatches, T
    <3>2. \A i \in ((T - 4) + 1)..T : b[i] \in Symbol
      BY <1>1, <2>3, <2>5, ElementOfSeq DEF Stream
    <3>3. \A i \in 1..(T - ((T - 4) + 1) + 1) : SubSeq(b, (T - 4) + 1, T)[i] = b[((T - 4) + 1) + i - 1]
      BY <2>3, <2>5, <3>2, SubSeqProperties
    <3>4. SubSeq(b, (T - 4) + 1, T)[4] = b[T]
      BY <2>3, <2>5, <3>3
    <3>5. crc32(x)[4] = <<x, 4>>
      BY DEF crc32, kFrameTrailer
    <3> QED
      BY <3>1, <3>4, <3>5
  <2>7. x \in Seq(Byte)
    <3>1. b[T] \in Symbol
      BY <1>1, <2>3, <2>5, ElementOfSeq DEF Stream
    <3> QED
      BY <2>6, <3>1, ChecksAreNoBytes, Zenon
  <2>8. Len(x) = T - 4
    <3>1. \A i \in 1..(T - 4) : b[i] \in Symbol
      BY <1>1, <2>3, <2>5, ElementOfSeq DEF Stream
    <3> QED
      BY <2>3, <2>5, <3>1, SubSeqProperties
  <2> HIDE DEF x
  <2>9. T \in 1..Len(d) /\ d[T] = <<x, 4>>
    BY <1>1, <1>3, <2>3, <2>5, <2>6
  <2>10. Len(x) + 4 # T \/ T > 15 + kMaxPayloadLength
    BY <2>7, <2>9 DEF Damaged, d
  <2> QED
    BY <2>3, <2>4, <2>5, <2>8, <2>10, FramingAssumption
<1> QED
  BY <1>4, <1>5, <1>6, <1>7, <1>8

\* A send that stopped short leaves a damaged stream behind.
LEMMA TornIsDamaged ==
  ASSUME NEW f \in Frame, NEW n \in Nat, 0 < n, n < Len(encode_frame(f))
  PROVE  SubSeq(encode_frame(f), 1, n) \in Stream /\ Damaged(SubSeq(encode_frame(f), 1, n))
<1> DEFINE e == encode_frame(f)
           c == FrameBody(f)
           k == Len(f.payload)
           d == SubSeq(e, 1, n)
<1>1. /\ k \in Nat /\ c \in Seq(Byte) /\ Len(c) = 11 + k
      /\ e \in Stream /\ Len(e) = 15 + k
      /\ \A i \in 1..(11 + k) : e[i] = c[i]
      /\ \A i \in 1..4 : e[11 + k + i] = <<c, i>>
  BY FrameLayout
<1> HIDE DEF e, c, k
<1>2. d \in Stream /\ Len(d) = n /\ \A i \in 1..n : d[i] = e[i]
  <2>1. n < 15 + k
    BY <1>1 DEF e
  <2>2. \A i \in 1..n : e[i] \in Symbol
    BY <1>1, <2>1, ElementOfSeq DEF Stream
  <2> QED
    BY <2>2, SubSeqProperties DEF Stream
<1>3. n < 15 + k
  BY <1>1 DEF e
<1>4. \A i \in 1..(11 + k) : e[i] \in Byte
  BY <1>1, ElementOfSeq
<1> HIDE DEF d
<1>5. \A i \in 1..Len(d) : i <= 11 => d[i] \in Byte
  BY <1>1, <1>2, <1>4
<1>6. ASSUME NEW q \in 1..n, NEW x \in Seq(Byte), d[q] = <<x, 4>> PROVE FALSE
  <2>1. q \in 1..Len(e) /\ e[q] = <<x, 4>>
    BY <1>1, <1>2, <1>3, <1>6
  <2>2. q = 15 + k
    BY <2>1, ChecksumEndsFrame DEF e, k
  <2> QED
    BY <1>1, <1>3, <2>2
<1> QED
  BY <1>2, <1>5, <1>6 DEF Damaged, d, e

\* So does a frame whose payload is over the limit, although it is whole.
LEMMA OversizedIsDamaged ==
  ASSUME NEW f \in Frame, Len(f.payload) > kMaxPayloadLength
  PROVE  Damaged(encode_frame(f))
<1> DEFINE e == encode_frame(f)
           c == FrameBody(f)
           k == Len(f.payload)
<1>1. /\ k \in Nat /\ c \in Seq(Byte) /\ Len(c) = 11 + k
      /\ e \in Stream /\ Len(e) = 15 + k
      /\ \A i \in 1..(11 + k) : e[i] = c[i]
      /\ \A i \in 1..4 : e[11 + k + i] = <<c, i>>
  BY FrameLayout
<1>2. k > kMaxPayloadLength /\ kMaxPayloadLength \in Nat
  BY FramingAssumption
<1> HIDE DEF e, c, k
<1>3. \A i \in 1..(11 + k) : e[i] \in Byte
  BY <1>1, ElementOfSeq
<1>4. ASSUME NEW q \in 1..Len(e), NEW x \in Seq(Byte), e[q] = <<x, 4>>
      PROVE  q > 15 + kMaxPayloadLength
  <2>1. q = 15 + k
    BY <1>4, ChecksumEndsFrame DEF e, k
  <2> QED
    BY <1>1, <1>2, <2>1
<1>5. Len(e) > 0 /\ \A i \in 1..Len(e) : i <= 11 => e[i] \in Byte
  BY <1>1, <1>3
<1> QED
  BY <1>4, <1>5 DEF Damaged, e

\* Whole frames sent after the damage do not repair it: their checksums stand
\* too late by as many bytes as came before them.
LEMMA DamageLasts ==
  ASSUME NEW d \in Stream, Damaged(d), NEW f \in Frame
  PROVE  Damaged(d \o encode_frame(f))
<1> DEFINE e == encode_frame(f)
           c == FrameBody(f)
           k == Len(f.payload)
           m == Len(d)
           u == d \o e
<1>1. /\ k \in Nat /\ c \in Seq(Byte) /\ Len(c) = 11 + k
      /\ e \in Stream /\ Len(e) = 15 + k
      /\ \A i \in 1..(11 + k) : e[i] = c[i]
      /\ \A i \in 1..4 : e[11 + k + i] = <<c, i>>
  BY FrameLayout
<1> HIDE DEF e, c, k
<1>2. u \in Stream /\ Glued(u, d, m, e, 15 + k)
  BY <1>1, ConcatGlues DEF Stream
<1>3. m \in Nat /\ m > 0
  BY LenProperties DEF Stream, Damaged
<1>4. /\ \A i \in 1..m : i <= 11 => d[i] \in Byte
      /\ \A q \in 1..m : \A x \in Seq(Byte) :
            d[q] = <<x, 4>> => Len(x) + 4 # q \/ q > 15 + kMaxPayloadLength
  BY DEF Damaged
<1> HIDE DEF u, m
<1>5. \A i \in 1..(11 + k) : e[i] \in Byte
  BY <1>1, ElementOfSeq
<1>6. /\ Len(u) = m + (15 + k)
      /\ \A i \in 1..m : u[i] = d[i]
      /\ \A i \in 1..(15 + k) : u[m + i] = e[i]
  BY <1>2 DEF Glued
<1>7. ASSUME NEW j \in 1..Len(u), j > m
      PROVE  \E i \in 1..(15 + k) : j = m + i /\ u[j] = e[i]
  <2>1. j - m \in 1..(15 + k) /\ j = m + (j - m)
    BY <1>1, <1>3, <1>6, <1>7
  <2> QED
    BY <1>6, <2>1
<1>8. ASSUME NEW i \in 1..Len(u), i <= 11 PROVE u[i] \in Byte
  <2>1. CASE i <= m
    BY <1>3, <1>4, <1>6, <1>8, <2>1
  <2>2. CASE i > m
    <3>1. PICK j \in 1..(15 + k) : i = m + j /\ u[i] = e[j]
      BY <1>7, <2>2
    <3>2. j \in 1..(11 + k)
      BY <1>1, <1>3, <1>8, <3>1
    <3> QED
      BY <1>5, <3>1, <3>2
  <2> QED
    BY <1>1, <1>3, <1>6, <2>1, <2>2
<1>9. ASSUME NEW q \in 1..Len(u), NEW x \in Seq(Byte), u[q] = <<x, 4>>
      PROVE  Len(x) + 4 # q \/ q > 15 + kMaxPayloadLength
  <2>1. CASE q <= m
    <3>1. q \in 1..m /\ d[q] = <<x, 4>>
      BY <1>3, <1>6, <1>9, <2>1
    <3> QED
      BY <1>4, <3>1
  <2>2. CASE q > m
    <3>1. PICK j \in 1..(15 + k) : q = m + j /\ u[q] = e[j]
      BY <1>7, <2>2
    <3>2. j \in 1..Len(e) /\ e[j] = <<x, 4>>
      BY <1>1, <1>9, <3>1
    <3>3. j = 15 + k /\ Len(x) = 11 + k
      BY <3>2, ChecksumEndsFrame DEF e, k
    <3> QED
      BY <1>1, <1>3, <3>1, <3>3
  <2> QED
    BY <1>1, <1>3, <1>6, <2>1, <2>2
<1>10. Len(u) > 0
  BY <1>1, <1>3, <1>6
<1> QED
  BY <1>8, <1>9, <1>10 DEF Damaged, u, e
-----------------------------------------------------------------------------
(* The inductive invariant *)

\* stream starts with the frames after the first o, one after the other;
\* rest[j] is what follows frame j.
Chained(rest, o, frames, stream) ==
  /\ rest \in [o..Len(frames) -> Stream]
  /\ rest[o] = stream
  /\ \A j \in (o + 1)..Len(frames) : rest[j - 1] = encode_frame(frames[j]) \o rest[j]

\* After the frames the stream is damaged if something bad was sent, and at its
\* end otherwise.
Unread(rest, o, frames, stream, bad) ==
  /\ Chained(rest, o, frames, stream)
  /\ bad => Damaged(rest[Len(frames)])
  /\ ~bad => rest[Len(frames)] = <<>>

FramingTypeOK ==
  /\ buf \in Stream /\ wire \in Stream
  /\ intact \in Seq(SoundFrame) /\ out \in Seq(SoundFrame)
  /\ pc \in {"recv", "feed"} \cup Left
  /\ spoiled \in BOOLEAN

OutIsPrefix == Len(out) <= Len(intact) /\ \A i \in 1..Len(out) : out[i] = intact[i]

NoFrameWaits ==
  pc = "recv" /\ Len(out) < Len(intact) => Len(buf) < Len(encode_frame(intact[Len(out) + 1]))

\* Everything handed out is what was sent; what is buffered or on the wire is
\* exactly what is still to come; a thread that waits for bytes has no whole
\* frame; and it leaves with sound frames undelivered only if it was cut off or
\* could not decode the next one.
FramingInv ==
  /\ FramingTypeOK
  /\ OutIsPrefix
  /\ Running => \E rest : Unread(rest, Len(out), intact, buf \o wire, spoiled)
  /\ NoFrameWaits
  /\ pc \in {"ended", "error"} => out = intact
  /\ pc = "undecodable" =>
       Len(out) < Len(intact) /\ intact[Len(out) + 1] \in Undecodable
  /\ pc = "error" => spoiled

\* Every rest, with x after it.
Extended(rest, o, n, x) == [j \in o..n |-> rest[j] \o x]

\* Encodings are streams.
LEMMA EncodingsAreStreams ==
  ASSUME NEW f \in Frame
  PROVE  encode_frame(f) \in Stream
BY FrameLayout

\* More bytes at the end of the stream come after everything there is.
LEMMA UnreadExtends ==
  ASSUME NEW frames \in Seq(SoundFrame), NEW o \in Nat, o <= Len(frames),
         NEW stream, NEW bad, NEW rest, Unread(rest, o, frames, stream, bad), NEW x \in Stream
  PROVE  Chained(Extended(rest, o, Len(frames), x), o, frames, stream \o x)
<1> DEFINE n == Len(frames)
           more == Extended(rest, o, n, x)
<1>1. n \in Nat
  BY LenProperties
<1>2. /\ rest \in [o..n -> Stream] /\ rest[o] = stream
      /\ \A j \in (o + 1)..n : rest[j - 1] = encode_frame(frames[j]) \o rest[j]
  BY DEF Unread, Chained
<1>3. \A j \in 1..n : encode_frame(frames[j]) \in Stream
  BY ElementOfSeq, EncodingsAreStreams DEF SoundFrame
<1> HIDE DEF n
<1>4. \A j \in o..n : rest[j] \in Stream /\ rest[j] \o x \in Stream
  <2> TAKE j \in o..n
  <2>1. rest[j] \in Stream
    BY <1>2
  <2> QED
    BY <2>1, ConcatProperties DEF Stream
<1>5. more \in [o..n -> Stream]
  BY <1>4 DEF Extended
<1>6. more[o] = stream \o x
  BY <1>1, <1>2 DEF n, Extended
<1>7. ASSUME NEW j \in (o + 1)..n
      PROVE  more[j - 1] = encode_frame(frames[j]) \o more[j]
  <2>1. j - 1 \in o..n /\ j \in o..n /\ j \in 1..n
    BY <1>1
  <2>2. more[j - 1] = rest[j - 1] \o x /\ more[j] = rest[j] \o x
    BY <2>1 DEF Extended
  <2>3. rest[j - 1] = encode_frame(frames[j]) \o rest[j]
    BY <1>2
  <2>4. (encode_frame(frames[j]) \o rest[j]) \o x = encode_frame(frames[j]) \o (rest[j] \o x)
    <3> DEFINE e == encode_frame(frames[j])
               t == rest[j]
    <3>1. e \in Stream /\ t \in Stream
      BY <1>3, <1>4, <2>1
    <3> HIDE DEF e, t
    <3>2. (e \o t) \o x = e \o (t \o x)
      BY <3>1, StreamAssociative, Zenon
    <3> QED
      BY <3>2 DEF e, t
  <2> QED
    BY <2>2, <2>3, <2>4
<1> QED
  BY <1>5, <1>6, <1>7 DEF n, Chained

\* Bytes after which the stream is damaged.
LEMMA UnreadSpoils ==
  ASSUME NEW frames \in Seq(SoundFrame), NEW o \in Nat, o <= Len(frames),
         NEW stream, NEW bad, NEW rest, Unread(rest, o, frames, stream, bad),
         NEW x \in Stream, Damaged(rest[Len(frames)] \o x)
  PROVE  \E more : Unread(more, o, frames, stream \o x, TRUE)
<1> DEFINE more == Extended(rest, o, Len(frames), x)
<1>1. Chained(more, o, frames, stream \o x)
  BY UnreadExtends
<1>2. Len(frames) \in o..Len(frames)
  BY LenProperties
<1>3. more[Len(frames)] = rest[Len(frames)] \o x
  BY <1>2 DEF Extended
<1> HIDE DEF more
<1>4. Damaged(more[Len(frames)])
  BY <1>3
<1>5. Unread(more, o, frames, stream \o x, TRUE)
  BY <1>1, <1>4 DEF Unread
<1> QED
  BY <1>5

\* A sound frame sent whole on a sound stream.
LEMMA UnreadAccepts ==
  ASSUME NEW frames \in Seq(SoundFrame), NEW o \in Nat, o <= Len(frames),
         NEW stream, NEW rest, Unread(rest, o, frames, stream, FALSE), NEW f \in SoundFrame
  PROVE  \E more : Unread(more, o, Append(frames, f), stream \o encode_frame(f), FALSE)
<1> DEFINE n == Len(frames)
           e == encode_frame(f)
           fs == Append(frames, f)
           part == Extended(rest, o, n, e)
           more == [j \in o..(n + 1) |-> IF j = n + 1 THEN <<>> ELSE part[j]]
<1>1. n \in Nat /\ o \in o..n /\ n \in o..n
  BY LenProperties
<1>2. e \in Stream
  BY EncodingsAreStreams DEF SoundFrame
<1>3. /\ part \in [o..n -> Stream]
      /\ part[o] = stream \o e
      /\ \A j \in (o + 1)..n : part[j - 1] = encode_frame(frames[j]) \o part[j]
  <2>1. Chained(part, o, frames, stream \o e)
    BY <1>2, UnreadExtends
  <2> QED
    BY <2>1 DEF Chained
<1>4. rest[n] = <<>>
  BY DEF Unread
<1>5. part[n] = e
  <2>1. part[n] = <<>> \o e
    BY <1>1, <1>4 DEF Extended
  <2> QED
    BY <1>2, <2>1, ConcatEmptySeq DEF Stream
<1>6. /\ fs \in Seq(SoundFrame) /\ Len(fs) = n + 1
      /\ \A j \in 1..n : fs[j] = frames[j]
      /\ fs[n + 1] = f
  BY AppendProperties
<1>7. <<>> \in Stream /\ e \o <<>> = e
  BY <1>2, EmptySeq, ConcatEmptySeq DEF Stream
<1> HIDE DEF n, part, fs
<1>8. more \in [o..(n + 1) -> Stream]
  BY <1>1, <1>3, <1>7
<1>9. /\ \A j \in o..n : more[j] = part[j]
      /\ more[n + 1] = <<>>
  BY <1>1
<1> HIDE DEF more
<1>10. ASSUME NEW j \in (o + 1)..(n + 1)
       PROVE  more[j - 1] = encode_frame(fs[j]) \o more[j]
  <2>1. CASE j \in (o + 1)..n
    <3>1. j - 1 \in o..n /\ j \in o..n /\ j \in 1..n
      BY <1>1, <2>1
    <3> QED
      BY <1>3, <1>6, <1>9, <2>1, <3>1
  <2>2. CASE j = n + 1
    <3>1. more[j - 1] = e /\ more[j] = <<>> /\ fs[j] = f
      BY <1>1, <1>5, <1>6, <1>9, <2>2
    <3> QED
      BY <1>7, <3>1
  <2>3. j \in (o + 1)..n \/ j = n + 1
    BY <1>1
  <2> QED
    BY <2>1, <2>2, <2>3
<1>11. more[o] = stream \o e
  BY <1>1, <1>3, <1>9
<1>12. Unread(more, o, fs, stream \o e, FALSE)
  BY <1>6, <1>8, <1>9, <1>10, <1>11 DEF Unread, Chained
<1> QED
  BY <1>12 DEF fs

\* The next frame is at the head of the stream; what follows is unread once it
\* has been handed out.
LEMMA UnreadNext ==
  ASSUME NEW frames \in Seq(SoundFrame), NEW o \in Nat, o < Len(frames),
         NEW b \in Stream, NEW w \in Stream,
         NEW bad, NEW rest, Unread(rest, o, frames, b \o w, bad)
  PROVE  /\ rest[o + 1] \in Stream
         /\ StartsWith(b, w, encode_frame(frames[o + 1]), rest[o + 1], Symbol)
         /\ \E more : Unread(more, o + 1, frames, rest[o + 1], bad)
<1> DEFINE n == Len(frames)
           stream == b \o w
           more == [j \in (o + 1)..n |-> rest[j]]
<1>1. n \in Nat
  BY LenProperties
<1>2. /\ rest \in [o..n -> Stream] /\ rest[o] = stream
      /\ \A j \in (o + 1)..n : rest[j - 1] = encode_frame(frames[j]) \o rest[j]
      /\ bad => Damaged(rest[n])
      /\ ~bad => rest[n] = <<>>
  BY DEF Unread, Chained
<1> HIDE DEF n, stream
<1>3. o + 1 \in (o + 1)..n /\ n \in (o + 1)..n /\ (o + 1) - 1 = o /\ (o + 1)..n \subseteq o..n
  BY <1>1 DEF n
<1>4. rest[o + 1] \in Stream /\ stream = encode_frame(frames[o + 1]) \o rest[o + 1]
  <2>1. rest[o + 1] \in Stream
    BY <1>2, <1>3
  <2>2. rest[(o + 1) - 1] = encode_frame(frames[o + 1]) \o rest[o + 1]
    BY <1>2, <1>3
  <2> QED
    BY <1>2, <1>3, <2>1, <2>2
<1>4a. StartsWith(b, w, encode_frame(frames[o + 1]), rest[o + 1], Symbol)
  <2> DEFINE e == encode_frame(frames[o + 1])
             t == rest[o + 1]
  <2>1. e \in Stream
    BY <1>1, <1>3, ElementOfSeq, EncodingsAreStreams DEF n, SoundFrame
  <2>2. t \in Stream /\ stream = e \o t
    BY <1>4
  <2>3. stream = b \o w
    BY DEF stream
  <2> HIDE DEF e, t
  <2>4. StartsWith(b, w, e, t, Symbol)
    BY <2>1, <2>2, <2>3, SplitStream DEF Stream
  <2> QED
    BY <2>4 DEF e, t
<1>5. more \in [(o + 1)..n -> Stream] /\ \A j \in (o + 1)..n : more[j] = rest[j]
  BY <1>2, <1>3
<1> HIDE DEF more
<1>6. ASSUME NEW j \in (o + 1 + 1)..n
      PROVE  more[j - 1] = encode_frame(frames[j]) \o more[j]
  <2>1. j - 1 \in (o + 1)..n /\ j \in (o + 1)..n
    BY <1>1
  <2> QED
    BY <1>2, <1>5, <2>1
<1>7. more[o + 1] = rest[o + 1] /\ more[n] = rest[n]
  BY <1>3, <1>5
<1>8. Unread(more, o + 1, frames, rest[o + 1], bad)
  BY <1>2, <1>5, <1>6, <1>7 DEF Unread, Chained, n
<1> QED
  BY <1>4, <1>8, <1>4a
-----------------------------------------------------------------------------
(* The steps *)

\* What one call of feed can return, and when.
LEMMA FeedOutcome ==
  ASSUME FramingInv, pc = "feed"
  PROVE  \/ /\ feed(buf) = NeedMore
            /\ Len(out) < Len(intact) => Len(buf) < Len(encode_frame(intact[Len(out) + 1]))
         \/ feed(buf) = Error /\ out = intact /\ spoiled
         \/ /\ Len(out) < Len(intact)
            /\ feed(buf).result = "FrameReady"
            /\ feed(buf).frame = intact[Len(out) + 1]
            /\ feed(buf).rest \in Stream
            /\ \E more : Unread(more, Len(out) + 1, intact, feed(buf).rest \o wire, spoiled)
<1> DEFINE o == Len(out)
           n == Len(intact)
<1>1. /\ buf \in Stream /\ wire \in Stream /\ spoiled \in BOOLEAN
      /\ intact \in Seq(SoundFrame) /\ out \in Seq(SoundFrame)
      /\ o <= n /\ \A i \in 1..o : out[i] = intact[i]
  BY DEF FramingInv, FramingTypeOK, OutIsPrefix
<1>2. o \in Nat /\ n \in Nat /\ Len(buf) \in Nat
  BY <1>1, LenProperties DEF Stream
<1>3. PICK rest : Unread(rest, o, intact, buf \o wire, spoiled)
  BY DEF FramingInv, Running
<1> HIDE DEF o, n
<1>4. CASE o < n
  <2> DEFINE f == intact[o + 1]
             e == encode_frame(f)
             t == rest[o + 1]
  <2>1. /\ t \in Stream /\ StartsWith(buf, wire, e, t, Symbol)
        /\ \E more : Unread(more, o + 1, intact, t, spoiled)
    <3>1. intact \in Seq(SoundFrame) /\ o \in Nat /\ o < Len(intact)
      BY <1>1, <1>2, <1>4 DEF n
    <3>2. rest[o + 1] \in Stream
      BY <1>1, <1>3, <3>1, UnreadNext
    <3>3. StartsWith(buf, wire, encode_frame(intact[o + 1]), rest[o + 1], Symbol)
      BY <1>1, <1>3, <3>1, UnreadNext
    <3>4. \E more : Unread(more, o + 1, intact, rest[o + 1], spoiled)
      BY <1>1, <1>3, <3>1, UnreadNext
    <3> QED
      BY <3>2, <3>3, <3>4
  <2>2. f \in SoundFrame
    BY <1>1, <1>2, <1>4, ElementOfSeq DEF n
  <2> HIDE DEF f, t
  <2>3. e \in Stream
    BY <2>2, EncodingsAreStreams DEF SoundFrame
  <2>3a. Len(e) \in Nat
    BY <2>3, LenProperties DEF Stream
  <2>4. /\ \A i \in 1..Len(buf) : i <= Len(e) => buf[i] = e[i]
        /\ Len(e) <= Len(buf) => /\ SubSeq(buf, Len(e) + 1, Len(buf)) \in Stream
                                 /\ SubSeq(buf, Len(e) + 1, Len(buf)) \o wire = t
    BY <2>1 DEF StartsWith, Stream
  <2>5. /\ Len(buf) < Len(e) => feed(buf) = NeedMore
        /\ Len(e) <= Len(buf) => feed(buf) = [result |-> "FrameReady", frame |-> f,
                                              rest |-> SubSeq(buf, Len(e) + 1, Len(buf))]
    BY <1>1, <2>2, <2>4, FeedSound
  <2>6. CASE Len(buf) < Len(e)
    BY <2>5, <2>6 DEF f, o
  <2>7. CASE Len(e) <= Len(buf)
    <3> DEFINE u == SubSeq(buf, Len(e) + 1, Len(buf))
    <3>1. u \in Stream /\ u \o wire = t
      BY <2>4, <2>7
    <3>2. feed(buf) = [result |-> "FrameReady", frame |-> f, rest |-> u]
      BY <2>5, <2>7
    <3> HIDE DEF u, e
    <3>3. feed(buf).result = "FrameReady" /\ feed(buf).frame = f /\ feed(buf).rest = u
      BY <3>2
    <3>4. \E more : Unread(more, o + 1, intact, feed(buf).rest \o wire, spoiled)
      BY <2>1, <3>1, <3>3
    <3> QED
      BY <1>4, <3>1, <3>3, <3>4 DEF o, n, f
  <2> QED
    BY <1>2, <2>3a, <2>6, <2>7
<1>5. CASE ~(o < n)
  <2>1. o = n
    BY <1>1, <1>2, <1>5
  <2>2. out = intact
    BY <1>1, <2>1, SeqEqual DEF o, n
  <2>3. /\ spoiled => Damaged(buf \o wire)
        /\ ~spoiled => buf \o wire = <<>>
    BY <1>3, <2>1 DEF Unread, Chained, n
  <2>4. CASE spoiled
    <3>1. feed(buf) \in {NeedMore, Error}
      BY <1>1, <2>3, <2>4, FeedDamaged
    <3> QED
      BY <1>5, <2>2, <2>4, <3>1 DEF o, n
  <2>5. CASE ~spoiled
    <3>1. buf = <<>>
      BY <1>1, <2>3, <2>5, ConcatEqualIffEmpty DEF Stream
    <3>2. Len(buf) < kFrameHeader + kFrameTrailer
      BY <3>1 DEF kFrameHeader, kFrameTrailer
    <3>3. feed(buf) = NeedMore
      BY <3>2, Zenon DEF feed
    <3> QED
      BY <1>5, <3>3 DEF o, n
  <2> QED
    BY <2>4, <2>5
<1> QED
  BY <1>4, <1>5

\* One call of feed.
LEMMA FeedKeeps ==
  ASSUME FramingInv, Feed
  PROVE  FramingInv'
<1> DEFINE o == Len(out)
           n == Len(intact)
<1>1. /\ buf \in Stream /\ wire \in Stream /\ spoiled \in BOOLEAN
      /\ intact \in Seq(SoundFrame) /\ out \in Seq(SoundFrame)
      /\ o <= n /\ \A i \in 1..o : out[i] = intact[i]
  BY DEF FramingInv, FramingTypeOK, OutIsPrefix
<1>2. o \in Nat /\ n \in Nat
  BY <1>1, LenProperties
<1>3. pc = "feed" /\ UNCHANGED <<wire, intact, spoiled>>
  BY DEF Feed
<1>4. \E rest : Unread(rest, o, intact, buf \o wire, spoiled)
  BY <1>3 DEF FramingInv, Running
<1>5. CASE feed(buf) = NeedMore /\ (o < n => Len(buf) < Len(encode_frame(intact[o + 1])))
  <2>1. pc' = "recv" /\ UNCHANGED <<buf, out>>
    BY <1>5 DEF Feed, NeedMore
  <2>2. FramingTypeOK' /\ OutIsPrefix'
    BY <1>1, <1>3, <2>1 DEF FramingTypeOK, OutIsPrefix
  <2>3. Running' /\ (\E rest : Unread(rest, Len(out'), intact', buf' \o wire', spoiled'))
    BY <1>3, <1>4, <2>1 DEF Running
  <2>4. NoFrameWaits'
    BY <1>3, <1>5, <2>1 DEF NoFrameWaits
  <2> QED
    BY <2>1, <2>2, <2>3, <2>4 DEF FramingInv
<1>6. CASE feed(buf) = Error /\ out = intact /\ spoiled
  <2>1. pc' = "error" /\ UNCHANGED <<buf, out>>
    BY <1>6 DEF Feed, Error
  <2> QED
    BY <1>1, <1>3, <1>6, <2>1 DEF FramingInv, FramingTypeOK, Left, OutIsPrefix, Running, NoFrameWaits
<1>7. CASE /\ o < n
           /\ feed(buf).result = "FrameReady"
           /\ feed(buf).frame = intact[o + 1]
           /\ feed(buf).rest \in Stream
           /\ \E more : Unread(more, o + 1, intact, feed(buf).rest \o wire, spoiled)
           /\ intact[o + 1] \notin Undecodable
  <2>1. pc' = "feed" /\ out' = Append(out, intact[o + 1]) /\ buf' = feed(buf).rest
    BY <1>7 DEF Feed
  <2>2. intact[o + 1] \in SoundFrame
    BY <1>1, <1>2, <1>7, ElementOfSeq
  <2>3. /\ out' \in Seq(SoundFrame) /\ Len(out') = o + 1
        /\ \A i \in 1..o : out'[i] = out[i]
        /\ out'[o + 1] = intact[o + 1]
    BY <1>1, <2>1, <2>2, AppendProperties
  <2> HIDE DEF o, n
  <2>4. Len(out') <= Len(intact') /\ \A i \in 1..Len(out') : out'[i] = intact'[i]
    <3>1. Len(intact') = n /\ o + 1 <= n
      BY <1>2, <1>3, <1>7 DEF n
    <3>2. \A i \in 1..(o + 1) : out'[i] = intact[i]
      BY <1>1, <1>2, <2>3
    <3> QED
      BY <1>2, <1>3, <2>3, <3>1, <3>2
  <2>5. FramingTypeOK'
    BY <1>1, <1>3, <1>7, <2>1, <2>3 DEF FramingTypeOK
  <2>6. \E more : Unread(more, Len(out'), intact', buf' \o wire', spoiled')
    BY <1>3, <1>7, <2>1, <2>3
  <2> QED
    BY <2>1, <2>4, <2>5, <2>6 DEF FramingInv, OutIsPrefix, NoFrameWaits, Running
<1>8. CASE /\ o < n
           /\ feed(buf).result = "FrameReady"
           /\ feed(buf).frame = intact[o + 1]
           /\ feed(buf).rest \in Stream
           /\ intact[o + 1] \in Undecodable
  <2>1. pc' = "undecodable" /\ out' = out /\ buf' = feed(buf).rest
    BY <1>8 DEF Feed
  <2>2. FramingTypeOK' /\ OutIsPrefix'
    BY <1>1, <1>3, <1>8, <2>1 DEF FramingTypeOK, OutIsPrefix, Left
  <2> QED
    BY <1>3, <1>8, <2>1, <2>2 DEF FramingInv, NoFrameWaits, Running
<1> QED
  BY <1>3, <1>5, <1>6, <1>7, <1>8, FeedOutcome

\* A send: whole or torn, of a sound or an oversized frame, on a stream that is
\* still sound or not.
LEMMA SendKeeps ==
  ASSUME FramingInv, NEW f \in Frames, NEW n \in TearPoints \cup {Len(encode_frame(f))}, Send(f, n)
  PROVE  FramingInv'
<1> DEFINE e == encode_frame(f)
           x == SubSeq(e, 1, n)
           o == Len(out)
           N == Len(intact)
           u == buf \o wire
           sound == n = Len(e) /\ ~spoiled /\ Len(f.payload) <= kMaxPayloadLength
<1>1. /\ buf \in Stream /\ wire \in Stream /\ spoiled \in BOOLEAN
      /\ intact \in Seq(SoundFrame) /\ out \in Seq(SoundFrame)
      /\ o <= N /\ \A i \in 1..o : out[i] = intact[i]
      /\ pc \in {"recv", "feed"} \cup Left
  BY DEF FramingInv, FramingTypeOK, OutIsPrefix
<1>2. o \in Nat /\ N \in Nat
  BY <1>1, LenProperties
<1>3. f \in Frame
  BY FramingAssumption DEF Frame
<1>4. e \in Stream /\ Len(e) \in Nat /\ Len(e) >= 15 /\ Len(f.payload) \in Nat
  <2>1. /\ e \in Stream /\ Len(f.payload) \in Nat
        /\ Len(e) = 15 + Len(f.payload)
    BY <1>3, FrameLayout
  <2> HIDE DEF e
  <2> QED
    BY <2>1
<1>5. /\ Running /\ UNCHANGED <<buf, pc, out>>
      /\ wire' = wire \o x
      /\ n = Len(e) \/ (n \in TearPoints /\ n < Len(e) /\ ~spoiled)
      /\ intact' = IF sound THEN Append(intact, f) ELSE intact
      /\ spoiled' = (spoiled \/ (n # Len(e) /\ n > 0) \/ (n = Len(e) /\ Len(f.payload) > kMaxPayloadLength))
  BY DEF Send
<1>6. PICK rest : Unread(rest, o, intact, u, spoiled)
  BY <1>5 DEF FramingInv
<1>7. n \in Nat /\ n <= Len(e)
  BY <1>4, <1>5, FramingAssumption
<1> HIDE DEF e
<1>8. x \in Stream
  <2>1. \A i \in 1..n : e[i] \in Symbol
    BY <1>4, <1>7, ElementOfSeq DEF Stream
  <2> QED
    BY <1>7, <2>1, SubSeqProperties DEF Stream
<1>9. n = Len(e) => x = e
  BY <1>4, SubSeqFull DEF Stream
<1> HIDE DEF x
<1>10. wire' \in Stream /\ buf' \o wire' = u \o x
  <2>1. wire \o x \in Stream
    BY <1>1, <1>8, ConcatProperties DEF Stream
  <2>2. buf \o (wire \o x) = (buf \o wire) \o x
    BY <1>1, <1>8, StreamAssociative, Zenon
  <2> QED
    BY <1>5, <2>1, <2>2, Zenon
<1>11. rest[N] \in Stream /\ (spoiled => Damaged(rest[N])) /\ (~spoiled => rest[N] = <<>>)
  BY <1>2, <1>1, <1>6 DEF Unread, Chained
<1>12. kMaxPayloadLength \in Nat
  BY FramingAssumption
<1> HIDE DEF u
<1>13. CASE sound
  <2>1. f \in SoundFrame
    BY <1>3, <1>13 DEF SoundFrame
  <2>2. spoiled = FALSE /\ spoiled' = FALSE /\ x = e /\ intact' = Append(intact, f)
    BY <1>1, <1>4, <1>5, <1>9, <1>12, <1>13
  <2>3. Unread(rest, o, intact, u, FALSE)
    BY <1>6, <2>2
  <2>4. \E more : Unread(more, o, Append(intact, f), u \o e, FALSE)
    BY <1>1, <1>2, <2>1, <2>3, UnreadAccepts DEF e
  <2>5. \E more : Unread(more, Len(out'), intact', buf' \o wire', spoiled')
    <3>1. buf' \o wire' = u \o e /\ Len(out') = o
      BY <1>5, <1>10, <2>2
    <3> QED
      BY <2>2, <2>4, <3>1
  <2>6. /\ intact' \in Seq(SoundFrame) /\ Len(intact') = N + 1
        /\ \A i \in 1..N : intact'[i] = intact[i]
        /\ intact'[N + 1] = f
    BY <1>1, <2>1, <2>2, AppendProperties
  <2>7. FramingTypeOK'
    BY <1>1, <1>5, <1>10, <2>2, <2>6 DEF FramingTypeOK
  <2> HIDE DEF N, o
  <2>8. OutIsPrefix'
    <3>1. Len(out') = o /\ out' = out
      BY <1>5 DEF o
    <3>2. o <= N + 1 /\ \A i \in 1..o : out[i] = intact'[i]
      BY <1>1, <1>2, <2>6
    <3> QED
      BY <2>6, <3>1, <3>2 DEF OutIsPrefix
  <2>9. NoFrameWaits'
    <3>1. CASE o < N
      <4>1. intact'[o + 1] = intact[o + 1]
        BY <1>2, <2>6, <3>1
      <4>2. pc = "recv" => Len(buf) < Len(encode_frame(intact[o + 1]))
        BY <3>1 DEF FramingInv, NoFrameWaits, o, N
      <4> QED
        BY <1>5, <4>1, <4>2 DEF NoFrameWaits, o
    <3>2. CASE ~(o < N)
      <4>1. o = N
        BY <1>1, <1>2, <3>2
      <4>2. u = <<>>
        BY <1>6, <1>11, <2>2, <4>1 DEF Unread, Chained
      <4>3. buf = <<>>
        BY <1>1, <4>2, ConcatEqualIffEmpty DEF u, Stream
      <4>4. Len(buf) < Len(e) /\ intact'[o + 1] = f
        BY <1>4, <2>6, <4>1, <4>3
      <4> QED
        BY <1>5, <4>4 DEF NoFrameWaits, o, e
    <3> QED
      BY <3>1, <3>2
  <2> QED
    BY <1>5, <2>5, <2>7, <2>8, <2>9 DEF FramingInv, Running
<1>14. CASE ~sound
  <2>1. intact' = intact /\ Running' /\ pc' \notin {"ended", "error", "undecodable"}
    BY <1>5, <1>14 DEF Running
  <2>2. FramingTypeOK' /\ OutIsPrefix' /\ NoFrameWaits'
    <3>1. spoiled' \in BOOLEAN
      BY <1>5
    <3>2. FramingTypeOK'
      BY <1>1, <1>5, <1>10, <2>1, <3>1 DEF FramingTypeOK
    <3>3. OutIsPrefix' /\ NoFrameWaits'
      BY <1>5, <2>1 DEF FramingInv, OutIsPrefix, NoFrameWaits
    <3> QED
      BY <3>2, <3>3
  <2>3. CASE n = 0
    <3>1. x = <<>>
      BY <2>3, SubSeqEmpty DEF x
    <3>2. u \in Stream
      BY <1>1, ConcatProperties DEF Stream, u
    <3>3. buf' \o wire' = u
      BY <1>10, <3>1, <3>2, ConcatEmptySeq DEF Stream
    <3>4. spoiled' = spoiled
      BY <1>1, <1>4, <1>5, <2>3
    <3>5. Unread(rest, Len(out'), intact', buf' \o wire', spoiled')
      BY <1>5, <1>6, <2>1, <3>3, <3>4
    <3> QED
      BY <2>1, <2>2, <3>5 DEF FramingInv
  <2>4. CASE n # 0
    <3>1. Damaged(rest[N] \o x) /\ spoiled' = TRUE
      <4>1. CASE spoiled
        <5>1. x = e /\ Damaged(rest[N])
          BY <1>5, <1>9, <1>11, <4>1
        <5>2. Damaged(rest[N] \o e)
          BY <1>3, <1>11, <5>1, DamageLasts DEF e
        <5> QED
          BY <1>5, <4>1, <5>1, <5>2
      <4>2. CASE ~spoiled
        <5>1. rest[N] \o x = x
          BY <1>8, <1>11, <4>2, ConcatEmptySeq DEF Stream
        <5>2. CASE n # Len(e)
          <6>1. Damaged(x)
            BY <1>3, <1>4, <1>7, <2>4, <5>2, TornIsDamaged DEF x, e
          <6>2. n > 0 /\ n # Len(e)
            BY <1>7, <2>4, <5>2
          <6>3. spoiled' = TRUE
            BY <1>5, <6>2
          <6> QED
            BY <5>1, <6>1, <6>3
        <5>3. CASE n = Len(e)
          <6>1. Len(f.payload) > kMaxPayloadLength
            BY <1>4, <1>12, <1>14, <4>2, <5>3
          <6>2. Damaged(x)
            BY <1>3, <1>9, <5>3, <6>1, OversizedIsDamaged DEF e
          <6> QED
            BY <1>5, <5>1, <5>3, <6>1, <6>2
        <5> QED
          BY <5>2, <5>3
      <4> QED
        BY <4>1, <4>2
    <3>2. \E more : Unread(more, o, intact, u \o x, TRUE)
      BY <1>1, <1>2, <1>6, <1>8, <3>1, UnreadSpoils
    <3>3. \E more : Unread(more, Len(out'), intact', buf' \o wire', spoiled')
      BY <1>5, <1>10, <2>1, <3>1, <3>2
    <3> QED
      BY <2>1, <2>2, <3>3 DEF FramingInv
  <2> QED
    BY <2>3, <2>4
<1> QED
  BY <1>13, <1>14

\* A receive moves bytes from the wire to the buffer.
LEMMA RecvKeeps ==
  ASSUME FramingInv, NEW n \in 1..Len(wire), Recv(n)
  PROVE  FramingInv'
<1> DEFINE x == SubSeq(wire, 1, n)
           y == SubSeq(wire, n + 1, Len(wire))
<1>1. buf \in Stream /\ wire \in Stream
  BY DEF FramingInv, FramingTypeOK
<1>2. /\ pc = "recv" /\ pc' = "feed" /\ UNCHANGED <<out, intact, spoiled>>
      /\ buf' = buf \o x /\ wire' = y
  BY DEF Recv
<1>3. x \in Stream /\ y \in Stream /\ x \o y = wire
  <2>1. Len(wire) \in Nat
    BY <1>1, LenProperties DEF Stream
  <2>2. \A i \in 1..Len(wire) : wire[i] \in Symbol
    BY <1>1, ElementOfSeq DEF Stream
  <2>3. x \in Stream
    BY <2>1, <2>2, SubSeqProperties DEF Stream
  <2>4. y \in Stream
    BY <2>1, <2>2, SubSeqProperties DEF Stream
  <2>5. x \o y = SubSeq(wire, 1, Len(wire))
    BY <1>1, <2>1, ConcatAdjacentSubSeq DEF Stream
  <2>6. SubSeq(wire, 1, Len(wire)) = wire
    BY <1>1, SubSeqFull DEF Stream
  <2> QED
    BY <2>3, <2>4, <2>5, <2>6, Zenon
<1> HIDE DEF x, y
<1>4. buf' \in Stream /\ buf' \o wire' = buf \o wire
  <2>1. buf \o x \in Stream
    BY <1>1, <1>3, ConcatProperties DEF Stream
  <2>2. (buf \o x) \o y = buf \o (x \o y)
    <3>1. x \in Stream /\ y \in Stream
      BY <1>3
    <3> QED
      BY <1>1, <3>1, StreamAssociative, Zenon
  <2> QED
    BY <1>2, <1>3, <2>1, <2>2, Zenon
<1>5. \E rest : Unread(rest, Len(out), intact, buf \o wire, spoiled)
  BY <1>2 DEF FramingInv, Running
<1>6. \E rest : Unread(rest, Len(out'), intact', buf' \o wire', spoiled')
  BY <1>2, <1>4, <1>5
<1>7. FramingTypeOK' /\ OutIsPrefix'
  BY <1>2, <1>3, <1>4 DEF FramingInv, FramingTypeOK, OutIsPrefix
<1> QED
  BY <1>2, <1>6, <1>7 DEF FramingInv, NoFrameWaits, Running

\* The stream has ended: nothing is on the wire, so a frame still to come would
\* be whole in the buffer, where none waits.
LEMMA EndedIsComplete ==
  ASSUME FramingInv, RecvEnd
  PROVE  out = intact
<1> DEFINE o == Len(out)
           N == Len(intact)
<1>1. /\ buf \in Stream /\ wire = <<>> /\ pc = "recv"
      /\ intact \in Seq(SoundFrame) /\ out \in Seq(SoundFrame)
      /\ o <= N /\ \A i \in 1..o : out[i] = intact[i]
  BY DEF RecvEnd, FramingInv, FramingTypeOK, OutIsPrefix
<1>2. o \in Nat /\ N \in Nat /\ Len(buf) \in Nat /\ <<>> \in Stream
  BY <1>1, LenProperties, EmptySeq DEF Stream
<1>3. buf \o wire = buf
  BY <1>1, ConcatEmptySeq DEF Stream
<1>4. PICK rest : Unread(rest, o, intact, buf, spoiled)
  BY <1>1, <1>3 DEF FramingInv, Running
<1>5. ASSUME o < N PROVE FALSE
  <2> DEFINE e == encode_frame(intact[o + 1])
             t == rest[o + 1]
  <2>1. Len(buf) < Len(e)
    BY <1>1, <1>5 DEF FramingInv, NoFrameWaits
  <2>2. o + 1 \in (o + 1)..N /\ o + 1 \in o..N /\ (o + 1) - 1 = o /\ o + 1 \in 1..N
    BY <1>2, <1>5
  <2>3. rest[(o + 1) - 1] = e \o t /\ t \in Stream
    BY <1>4, <2>2 DEF Unread, Chained
  <2>4. rest[o] = buf
    BY <1>4 DEF Unread, Chained
  <2>5. buf = e \o t
    BY <2>2, <2>3, <2>4
  <2>6. e \in Stream
    BY <1>1, <2>2, ElementOfSeq, EncodingsAreStreams DEF SoundFrame
  <2> HIDE DEF e, t
  <2>7. Len(buf) = Len(e) + Len(t) /\ Len(e) \in Nat /\ Len(t) \in Nat
    BY <2>3, <2>5, <2>6, ConcatProperties, LenProperties DEF Stream
  <2> QED
    BY <2>1, <2>7
<1>6. o = N
  BY <1>1, <1>2, <1>5
<1> QED
  BY <1>1, <1>6, SeqEqual
\* FramingInv is inductive.
LEMMA FramingInvariant == Spec => []FramingInv
<1>1. Init => FramingInv
  <2> SUFFICES ASSUME Init PROVE FramingInv
    OBVIOUS
  <2>1. /\ wire = <<>> /\ buf = <<>> /\ pc = "recv" /\ out = <<>> /\ intact = <<>>
        /\ spoiled = FALSE
    BY DEF Init
  <2>2. <<>> \in Stream /\ <<>> \in Seq(SoundFrame) /\ Len(out) = 0 /\ Len(intact) = 0
    BY <2>1, EmptySeq DEF Stream
  <2>3. FramingTypeOK /\ OutIsPrefix /\ NoFrameWaits /\ Running
    <3>1. FramingTypeOK
      BY <2>1, <2>2 DEF FramingTypeOK
    <3>2. OutIsPrefix /\ NoFrameWaits
      BY <2>2 DEF OutIsPrefix, NoFrameWaits
    <3>3. Running
      BY <2>1 DEF Running
    <3> QED
      BY <3>1, <3>2, <3>3
  <2>4. Unread([j \in 0..0 |-> <<>>], 0, intact, <<>>, FALSE)
    <3> DEFINE rest == [j \in 0..0 |-> <<>>]
    <3>1. rest \in [0..0 -> Stream] /\ rest[0] = <<>>
      BY <2>2
    <3> HIDE DEF rest
    <3>2. Unread(rest, 0, intact, <<>>, FALSE)
      BY <2>2, <3>1 DEF Unread, Chained
    <3> QED
      BY <3>2 DEF rest
  <2>5. buf \o wire = <<>>
    BY <2>1
  <2>6. \E rest : Unread(rest, Len(out), intact, buf \o wire, spoiled)
    BY <2>1, <2>2, <2>4, <2>5
  <2> QED
    BY <2>1, <2>3, <2>6 DEF FramingInv
<1>2. FramingInv /\ [Next]_vars => FramingInv'
  <2> SUFFICES ASSUME FramingInv, [Next]_vars PROVE FramingInv'
    OBVIOUS
  <2>1. CASE \E f \in Frames : \E n \in TearPoints \cup {Len(encode_frame(f))} : Send(f, n)
    BY <2>1, SendKeeps
  <2>2. CASE Close
    BY <2>2 DEF Close, FramingInv, FramingTypeOK, OutIsPrefix, NoFrameWaits, Running
  <2>3. CASE \E n \in 1..Len(wire) : Recv(n)
    BY <2>3, RecvKeeps
  <2>4. CASE RecvEnd
    <3>1. out = intact
      BY <2>4, EndedIsComplete
    <3> QED
      BY <2>4, <3>1 DEF RecvEnd, FramingInv, FramingTypeOK, Left, OutIsPrefix, NoFrameWaits, Running
  <2>5. CASE RecvFails
    BY <2>5 DEF RecvFails, FramingInv, FramingTypeOK, Left, OutIsPrefix, NoFrameWaits, Running
  <2>7. CASE Feed
    BY <2>7, FeedKeeps
  <2>6. CASE UNCHANGED vars
    BY <2>6 DEF vars, FramingInv, FramingTypeOK, OutIsPrefix, NoFrameWaits, Running
  <2> QED
    BY <2>1, <2>2, <2>3, <2>4, <2>5, <2>6, <2>7 DEF Next
<1> QED
  BY <1>1, <1>2, PTL DEF Spec

-----------------------------------------------------------------------------
(* Theorems *)

\* A sender of sound frames is never cut off: feed (framing.hpp:63) answers
\* Error only on a stream that holds a torn or oversized frame, for every
\* segmentation and every payload length up to the limit.
THEOREM SoundSendersAreServed == Spec => []SoundStreamNeverRefused
<1>1. FramingInv => SoundStreamNeverRefused
  BY DEF FramingInv, SoundStreamNeverRefused
<1> QED
  BY <1>1, FramingInvariant, PTL

\* FrameDecoder and the loop of handle_connection (coordinator.cpp:89) keep the
\* promise of FrameChannel: sound frames come out in order, each once and
\* unchanged, nothing after damage, and of the ways out of the loop only a cut
\* link and an undecodable frame leave some undelivered.
THEOREM FramingImplementsChannel == Spec => ImplementsChannel
<1>1. Init => Channel!Init
  BY DEF Init, Channel!Init, Running
<1>2. FramingInv /\ [Next]_vars => [Channel!Next]_Channel!vars
  <2> SUFFICES ASSUME FramingInv, [Next]_vars
               PROVE  Channel!Next \/ UNCHANGED Channel!vars
    OBVIOUS
  <2>1. CASE \E f \in Frames : \E n \in TearPoints \cup {Len(encode_frame(f))} : Send(f, n)
    <3>1. PICK f \in Frames : \E n \in TearPoints \cup {Len(encode_frame(f))} : Send(f, n)
      BY <2>1
    <3>2. /\ Running /\ UNCHANGED <<pc, out>>
          /\ intact' = Append(intact, f) \/ intact' = intact
      BY <3>1 DEF Send
    <3> QED
      BY <3>2 DEF Channel!Next, Channel!Accept, Channel!vars, Running
  <2>2. CASE Close
    BY <2>2 DEF Close, Channel!vars, Running
  <2>3. CASE \E n \in 1..Len(wire) : Recv(n)
    BY <2>3 DEF Recv, Channel!vars, Running
  <2>4. CASE RecvEnd
    <3>1. out = intact
      BY <2>4, EndedIsComplete
    <3> QED
      BY <2>4, <3>1 DEF RecvEnd, Channel!Next, Channel!Finish, Channel!Leave, Running
  <2>5. CASE RecvFails
    BY <2>5 DEF RecvFails, Channel!Next, Channel!Cut, Channel!Leave, Running
  <2>6. CASE Feed
    <3>1. pc = "feed" /\ intact' = intact
      BY <2>6 DEF Feed
    <3>2. CASE feed(buf) = NeedMore
      BY <2>6, <3>1, <3>2 DEF Feed, NeedMore, Channel!vars, Running
    <3>3. CASE feed(buf) = Error /\ out = intact
      BY <2>6, <3>1, <3>3 DEF Feed, Error, Channel!Next, Channel!Finish, Channel!Leave, Running
    <3>4. CASE /\ Len(out) < Len(intact)
               /\ feed(buf).result = "FrameReady"
               /\ feed(buf).frame = intact[Len(out) + 1]
      <4> DEFINE f == intact[Len(out) + 1]
      <4>1. CASE f \notin Undecodable
        <5>1. pc' = "feed" /\ out' = Append(out, f)
          BY <2>6, <3>4, <4>1 DEF Feed
        <5> QED
          BY <3>1, <3>4, <4>1, <5>1
          DEF Channel!Next, Channel!Deliver, Channel!Pending, Channel!NextFrame, Running
      <4>2. CASE f \in Undecodable
        <5>1. pc' = "undecodable" /\ out' = out
          BY <2>6, <3>4, <4>2 DEF Feed
        <5> QED
          BY <3>1, <3>4, <4>2, <5>1
          DEF Channel!Next, Channel!Refuse, Channel!Pending, Channel!NextFrame, Channel!Leave,
              Running
      <4> QED
        BY <4>1, <4>2
    <3> QED
      BY <3>1, <3>2, <3>3, <3>4, FeedOutcome
  <2>7. CASE UNCHANGED vars
    BY <2>7 DEF vars, Channel!vars, Running
  <2> QED
    BY <2>1, <2>2, <2>3, <2>4, <2>5, <2>6, <2>7 DEF Next
<1> QED
  BY <1>1, <1>2, FramingInvariant, PTL DEF Spec, ImplementsChannel, Channel!Spec

=============================================================================
