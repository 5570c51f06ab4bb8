----------------------------- MODULE CodecProofs -----------------------------
(***************************************************************************)
(* Every decoder of the repository inverts its encoder, whatever the value *)
(* and whatever the bounds, and refuses an encoding that was cut or that   *)
(* other bytes follow.                                                     *)
(*                                                                         *)
(* The argument goes from single reads to whole formats.  A read is framed *)
(* when, at a place where the buffer holds the bytes a write produced, it  *)
(* fails or ends where they end, and when it fails if they are not all     *)
(* there.  Numbers and texts are framed; reads one after another are       *)
(* framed, by induction over their number; hence records, lists, lists of  *)
(* records, and so on up to the formats, whose writers and readers agree   *)
(* field by field.                                                         *)
(***************************************************************************)
EXTENDS Exchange, SequenceTheorems, WellFoundedInduction, TLAPS

-----------------------------------------------------------------------------
(* Sequences *)

(* A sequence has a length, and is given by its elements.                  *)
LEMMA SeqFacts ==
  ASSUME NEW s, IsSeq(s)
  PROVE  Len(s) \in Nat /\ DOMAIN s = 1..Len(s) /\ s = [i \in 1..Len(s) |-> s[i]]
BY LenProperties DEF IsSeq

(* A function on 1..n is a sequence of length n.                           *)
LEMMA MadeSeq ==
  ASSUME NEW n \in Nat, NEW s, s = [i \in 1..n |-> s[i]]
  PROVE  IsSeq(s) /\ Len(s) = n
<1>1. DOMAIN s = 1..n
  OBVIOUS
<1>2. s \in [1..n -> Range(s)]
  BY <1>1 DEF Range
<1>3. s \in Seq(Range(s))
  BY <1>2
<1> QED
  BY <1>1, <1>3, LenProperties DEF IsSeq

LEMMA ConcatFacts ==
  ASSUME NEW a, NEW b, IsSeq(a), IsSeq(b)
  PROVE  /\ IsSeq(a \o b)
         /\ Len(a \o b) = Len(a) + Len(b)
         /\ \A i \in 1..Len(a) : (a \o b)[i] = a[i]
         /\ \A i \in 1..Len(b) : (a \o b)[Len(a) + i] = b[i]
<1> DEFINE S == Range(a) \cup Range(b)
           c == a \o b
<1>1. a \in Seq(S) /\ b \in Seq(S)
  <2>1. Range(a) \subseteq S /\ Range(b) \subseteq S
    OBVIOUS
  <2> HIDE DEF S
  <2> QED
    BY <2>1, SeqMonotonic DEF IsSeq
<1> HIDE DEF S
<1>2. /\ c \in Seq(S) /\ Len(c) = Len(a) + Len(b)
      /\ \A i \in 1..(Len(a) + Len(b)) : c[i] = IF i <= Len(a) THEN a[i] ELSE b[i - Len(a)]
  BY <1>1, ConcatProperties
<1>3. Len(a) \in Nat /\ Len(b) \in Nat
  BY SeqFacts
<1> HIDE DEF c
<1>4. c = [i \in 1..Len(c) |-> c[i]] /\ Len(c) \in Nat
  BY <1>2, LenProperties
<1>5. IsSeq(c)
  BY <1>4, MadeSeq
<1>6. \A i \in 1..Len(a) : c[i] = a[i]
  BY <1>2, <1>3
<1>7. ASSUME NEW i \in 1..Len(b) PROVE c[Len(a) + i] = b[i]
  <2>1. Len(a) + i \in 1..(Len(a) + Len(b)) /\ ~(Len(a) + i <= Len(a)) /\ (Len(a) + i) - Len(a) = i
    BY <1>3
  <2> QED
    BY <1>2, <2>1
<1> QED
  BY <1>2, <1>5, <1>6, <1>7 DEF c

(* The first n elements of a sequence.                                     *)
LEMMA PrefixFacts ==
  ASSUME NEW s, IsSeq(s), NEW n \in 0..Len(s)
  PROVE  /\ IsSeq(SubSeq(s, 1, n))
         /\ Len(SubSeq(s, 1, n)) = n
         /\ \A i \in 1..n : SubSeq(s, 1, n)[i] = s[i]
<1>1. Len(s) \in Nat /\ n \in Nat /\ n <= Len(s)
  BY SeqFacts
<1>2. \A i \in 1..n : s[i] \in Range(s)
  BY <1>1, SeqFacts DEF Range
<1>3. /\ SubSeq(s, 1, n) \in Seq(Range(s))
      /\ Len(SubSeq(s, 1, n)) = IF 1 <= n THEN n - 1 + 1 ELSE 0
      /\ \A i \in 1..(n - 1 + 1) : SubSeq(s, 1, n)[i] = s[1 + i - 1]
  BY <1>1, <1>2, SubSeqProperties DEF IsSeq
<1> DEFINE t == SubSeq(s, 1, n)
<1> HIDE DEF t
<1>4. t \in Seq(Range(s)) /\ Len(t) = n /\ \A i \in 1..n : t[i] = s[i]
  BY <1>1, <1>3 DEF t
<1>5. IsSeq(t)
  BY <1>4, LenProperties, MadeSeq
<1> QED
  BY <1>4, <1>5 DEF t

(* A set of naturals that is not empty has a least element.                *)
LEMMA LeastNatural ==
  ASSUME NEW T \in SUBSET Nat, T # {}
  PROVE  \E x \in T : \A y \in T : x <= y
<1> DEFINE R == {ss \in Nat \X Nat : ss[1] < ss[2]}
<1>1. IsWellFoundedOn(R, Nat)
  BY NatLessThanWellFounded DEF OpToRel
<1>2. PICK x \in T : \A y \in T : ~ (<<y, x>> \in R)
  BY <1>1, WFMin
<1>3. ASSUME NEW y \in T PROVE x <= y
  <2>1. x \in Nat /\ y \in Nat /\ ~(y < x)
    BY <1>2
  <2> QED
    BY <2>1
<1> QED
  BY <1>3

(* Induction over a set of naturals.                                       *)
LEMMA Induction ==
  ASSUME NEW S, 0 \in S, \A n \in Nat : n \in S => n + 1 \in S
  PROVE  \A n \in Nat : n \in S
<1> SUFFICES ASSUME \E n \in Nat : n \notin S PROVE FALSE
  OBVIOUS
<1>1. PICK x \in Nat \ S : \A y \in Nat \ S : x <= y
  BY LeastNatural
<1>2. x - 1 \in Nat /\ x - 1 \in S
  BY <1>1
<1> QED
  BY <1>1, <1>2

-----------------------------------------------------------------------------
(* Flattening: the recursion of FlattenSeq, for the prefixes of ss.        *)
Flattens(f, ss, n) ==
  f = [i \in 1..n |-> IF i = 1 THEN ss[i] ELSE f[i - 1] \o ss[i]]

LEMMA FlattenExists ==
  ASSUME NEW ss, NEW n \in Nat
  PROVE  \E f : Flattens(f, ss, n)
<1> DEFINE S == {m \in Nat : \E f : Flattens(f, ss, m)}
<1>1. 0 \in S
  <2> DEFINE f == [i \in 1..0 |-> <<>>]
  <2>1. Flattens(f, ss, 0)
    BY DEF Flattens
  <2> QED
    BY <2>1
<1>2. ASSUME NEW m \in Nat, m \in S PROVE m + 1 \in S
  <2>1. PICK f : Flattens(f, ss, m)
    BY <1>2
  <2> DEFINE last == IF m + 1 = 1 THEN ss[m + 1] ELSE f[m] \o ss[m + 1]
             g == [i \in 1..(m + 1) |-> IF i <= m THEN f[i] ELSE last]
  <2>2. \A i \in 1..m : f[i] = IF i = 1 THEN ss[i] ELSE f[i - 1] \o ss[i]
    BY <2>1 DEF Flattens
  <2> HIDE DEF last
  <2>3. \A i \in 1..m : g[i] = f[i]
    OBVIOUS
  <2>4. ASSUME NEW i \in 1..(m + 1)
        PROVE  g[i] = IF i = 1 THEN ss[i] ELSE g[i - 1] \o ss[i]
    <3>1. CASE i <= m
      <4>1. i \in 1..m /\ (i # 1 => i - 1 \in 1..m)
        BY <3>1
      <4> QED
        BY <2>2, <2>3, <4>1
    <3>2. CASE ~(i <= m)
      <4>1. i = m + 1 /\ (i # 1 => m \in 1..m /\ i - 1 = m)
        BY <3>2
      <4>2. g[i] = last
        BY <3>2
      <4> QED
        BY <2>3, <4>1, <4>2 DEF last
    <3> QED
      BY <3>1, <3>2
  <2>5. g = [i \in 1..(m + 1) |-> IF i = 1 THEN ss[i] ELSE g[i - 1] \o ss[i]]
    <3> DEFINE h == [i \in 1..(m + 1) |-> IF i = 1 THEN ss[i] ELSE g[i - 1] \o ss[i]]
    <3>1. \A i \in 1..(m + 1) : g[i] = h[i]
      BY <2>4
    <3>2. DOMAIN g = 1..(m + 1) /\ DOMAIN h = 1..(m + 1)
      OBVIOUS
    <3>3. g = [i \in 1..(m + 1) |-> g[i]] /\ h = [i \in 1..(m + 1) |-> h[i]]
      OBVIOUS
    <3> HIDE DEF g, h
    <3>4. g = h
      BY <3>1, <3>3
    <3> QED
      BY <3>4 DEF h
  <2>6. Flattens(g, ss, m + 1)
    BY <2>5 DEF Flattens
  <2> QED
    BY <2>6
<1> HIDE DEF S
<1>3. n \in S
  BY <1>1, <1>2, Induction
<1> QED
  BY <1>3 DEF S

(* FlattenSeq is the last of the prefixes.                                 *)
LEMMA FlattenIs ==
  ASSUME NEW ss, Len(ss) \in Nat \ {0}
  PROVE  \E f : Flattens(f, ss, Len(ss)) /\ FlattenSeq(ss) = f[Len(ss)]
<1> DEFINE f == CHOOSE g : g = [i \in 1..Len(ss) |-> IF i = 1 THEN ss[i] ELSE g[i - 1] \o ss[i]]
<1>1. Flattens(f, ss, Len(ss))
  <2>1. \E g : g = [i \in 1..Len(ss) |-> IF i = 1 THEN ss[i] ELSE g[i - 1] \o ss[i]]
    BY FlattenExists DEF Flattens
  <2> QED
    BY <2>1, ZenonT(60) DEF Flattens
<1>2. FlattenSeq(ss) = f[Len(ss)]
  BY DEF FlattenSeq
<1> QED
  BY <1>1, <1>2, ZenonT(60)

(* Flattening sequences gives one whose length is the sum, prefix by       *)
(* prefix: part[i] is what the first i flatten to.                         *)
Parts(part, ss) ==
  /\ part[0] = <<>>
  /\ \A i \in 1..Len(ss) : part[i] = part[i - 1] \o ss[i]
  /\ \A i \in 0..Len(ss) : IsSeq(part[i])
  /\ FlattenSeq(ss) = part[Len(ss)]

LEMMA EmptyIsSeq == IsSeq(<<>>) /\ Len(<<>>) = 0
BY EmptySeq DEF IsSeq

LEMMA FlattenParts ==
  ASSUME NEW ss, IsSeq(ss), \A i \in 1..Len(ss) : IsSeq(ss[i])
  PROVE  \E part : Parts(part, ss)
<1> DEFINE n == Len(ss)
<1>1. n \in Nat
  BY SeqFacts
<1>2. CASE n = 0
  <2> DEFINE part == [i \in {0} |-> <<>>]
  <2>1. ss = <<>> /\ FlattenSeq(ss) = <<>>
    <3>1. ss = <<>>
      BY <1>2, EmptySeq DEF IsSeq
    <3> QED
      BY <1>2, <3>1 DEF FlattenSeq
  <2>2. part[0] = <<>>
    OBVIOUS
  <2>3. 1..n = {} /\ 0..n = {0}
    BY <1>2
  <2> HIDE DEF part
  <2>4. Parts(part, ss)
    BY <1>2, <2>1, <2>2, <2>3, EmptyIsSeq DEF Parts
  <2> QED
    BY <2>4
<1>3. CASE n # 0
  <2>1. PICK f : Flattens(f, ss, n) /\ FlattenSeq(ss) = f[n]
    BY <1>1, <1>3, FlattenIs
  <2>2. \A i \in 1..n : f[i] = IF i = 1 THEN ss[i] ELSE f[i - 1] \o ss[i]
    BY <2>1 DEF Flattens
  <2> DEFINE part == [i \in 0..n |-> IF i = 0 THEN <<>> ELSE f[i]]
  <2>3. part[0] = <<>> /\ \A i \in 1..n : part[i] = f[i]
    BY <1>1
  <2> HIDE DEF part
  <2>4. ASSUME NEW i \in 1..n PROVE part[i] = part[i - 1] \o ss[i]
    <3>1. CASE i = 1
      <4>1. f[i] = ss[i] /\ IsSeq(ss[i]) /\ i - 1 = 0
        BY <2>2, <3>1
      <4>2. <<>> \o ss[i] = ss[i]
        BY <4>1, ConcatEmptySeq DEF IsSeq
      <4> QED
        BY <2>3, <4>1, <4>2
    <3>2. CASE i # 1
      <4>1. i - 1 \in 1..n
        BY <1>1, <3>2
      <4> QED
        BY <2>2, <2>3, <3>2, <4>1
    <3> QED
      BY <3>1, <3>2
  <2> DEFINE G == {m \in Nat : m \in 0..n => IsSeq(part[m])}
  <2>5. 0 \in G
    BY <2>3, EmptyIsSeq
  <2>6. ASSUME NEW m \in Nat, m \in G PROVE m + 1 \in G
    <3> SUFFICES ASSUME m + 1 \in 0..n PROVE IsSeq(part[m + 1])
      OBVIOUS
    <3>1. m \in 0..n /\ m + 1 \in 1..n /\ (m + 1) - 1 = m
      BY <1>1
    <3>2. part[m + 1] = part[m] \o ss[m + 1]
      BY <2>4, <3>1
    <3> QED
      BY <2>6, <3>1, <3>2, ConcatFacts
  <2> HIDE DEF G
  <2>7. \A m \in Nat : m \in G
    BY <2>5, <2>6, Induction
  <2>8. \A i \in 0..n : IsSeq(part[i])
    BY <1>1, <2>7 DEF G
  <2>9. FlattenSeq(ss) = part[n]
    BY <1>1, <1>3, <2>1, <2>3
  <2>10. Parts(part, ss)
    BY <2>3, <2>4, <2>8, <2>9 DEF Parts
  <2> QED
    BY <2>10
<1> QED
  BY <1>2, <1>3

LEMMA FlattenIsSeq ==
  ASSUME NEW ss, IsSeq(ss), \A i \in 1..Len(ss) : IsSeq(ss[i])
  PROVE  IsSeq(FlattenSeq(ss))
<1>1. PICK part : Parts(part, ss)
  BY FlattenParts
<1>2. Len(ss) \in 0..Len(ss)
  BY SeqFacts
<1> QED
  BY <1>1, <1>2 DEF Parts

-----------------------------------------------------------------------------
(* Bytes in a buffer *)

(* From p on the buffer holds b, as far as the buffer goes.                *)
Starts(buf, p, b) ==
  /\ p \in 1..(Len(buf) + 1)
  /\ \A i \in 1..Len(b) : p + i <= Len(buf) + 1 => buf[p + i - 1] = b[i]

(* It holds all of b.                                                      *)
Full(buf, p, b) == p + Len(b) <= Len(buf) + 1

LEMMA StartsConcat ==
  ASSUME NEW buf, NEW a, NEW b, NEW p, IsSeq(buf), IsSeq(a), IsSeq(b), Starts(buf, p, a \o b)
  PROVE  /\ Starts(buf, p, a)
         /\ Full(buf, p, a) => Starts(buf, p + Len(a), b)
         /\ Full(buf, p, a \o b) <=> Full(buf, p, a) /\ Full(buf, p + Len(a), b)
<1> DEFINE c == a \o b
<1>1. /\ Len(buf) \in Nat /\ Len(a) \in Nat /\ Len(b) \in Nat /\ Len(c) = Len(a) + Len(b)
      /\ \A i \in 1..Len(a) : c[i] = a[i]
      /\ \A i \in 1..Len(b) : c[Len(a) + i] = b[i]
  BY SeqFacts, ConcatFacts
<1> HIDE DEF c
<1>2. /\ p \in 1..(Len(buf) + 1)
      /\ \A i \in 1..Len(c) : p + i <= Len(buf) + 1 => buf[p + i - 1] = c[i]
  BY DEF Starts, c
<1>3. Starts(buf, p, a)
  <2>1. ASSUME NEW i \in 1..Len(a), p + i <= Len(buf) + 1 PROVE buf[p + i - 1] = a[i]
    BY <1>1, <1>2, <2>1
  <2> QED
    BY <1>2, <2>1 DEF Starts
<1>4. ASSUME Full(buf, p, a) PROVE Starts(buf, p + Len(a), b)
  <2>1. p + Len(a) \in 1..(Len(buf) + 1)
    BY <1>1, <1>2, <1>4 DEF Full
  <2>2. ASSUME NEW i \in 1..Len(b), p + Len(a) + i <= Len(buf) + 1
        PROVE  buf[p + Len(a) + i - 1] = b[i]
    <3>1. /\ Len(a) + i \in 1..Len(c) /\ p + (Len(a) + i) <= Len(buf) + 1
          /\ p + (Len(a) + i) - 1 = p + Len(a) + i - 1
      BY <1>1, <1>2, <2>2
    <3>2. buf[p + (Len(a) + i) - 1] = c[Len(a) + i]
      BY <1>2, <3>1
    <3> QED
      BY <1>1, <3>1, <3>2
  <2> QED
    BY <2>1, <2>2 DEF Starts
<1>5. Full(buf, p, c) <=> Full(buf, p, a) /\ Full(buf, p + Len(a), b)
  BY <1>1, <1>2 DEF Full
<1> QED
  BY <1>3, <1>4, <1>5 DEF c

(* What a read gives where it is in step with the writer: it fails if some *)
(* of the bytes are missing, and otherwise fails or ends where they end.   *)
Framed(result, buf, p, b) ==
  IF Full(buf, p, b) THEN result = Failed \/ result = Good(p + Len(b), result.val)
  ELSE result = Failed

(* It gives v if all the bytes are there.                                  *)
Yields(result, buf, p, b, v) ==
  result = IF Full(buf, p, b) THEN Good(p + Len(b), v) ELSE Failed

LEMMA GoodFields ==
  ASSUME NEW p, NEW v
  PROVE  Good(p, v).ok /\ Good(p, v).pos = p /\ Good(p, v).val = v /\ ~Failed.ok
BY DEF Good, Failed

LEMMA YieldsIsFramed ==
  ASSUME NEW result, NEW buf, NEW p, NEW b, NEW v, Yields(result, buf, p, b, v)
  PROVE  Framed(result, buf, p, b)
BY DEF Yields, Framed, Good

-----------------------------------------------------------------------------
(* Numbers and texts *)

LEMMA NumberFacts ==
  ASSUME NEW tag, NEW w \in Nat, NEW v
  PROVE  /\ IsSeq(Number(tag, w, v)) /\ Len(Number(tag, w, v)) = w
         /\ \A i \in 1..w : Number(tag, w, v)[i] = Byte(tag, w, v, i)
<1> DEFINE s == Number(tag, w, v)
<1>1. s = [i \in 1..w |-> s[i]] /\ \A i \in 1..w : s[i] = Byte(tag, w, v, i)
  BY DEF Number
<1> HIDE DEF s
<1> QED
  BY <1>1, MadeSeq DEF s

(* How long a number is, apart from what its bytes are. *)
LEMMA NumberShape ==
  ASSUME NEW tag, NEW w \in Nat, NEW v
  PROVE  IsSeq(Number(tag, w, v)) /\ Len(Number(tag, w, v)) = w
BY NumberFacts

LEMMA NumberReads ==
  ASSUME NEW buf, IsSeq(buf), NEW p, NEW tag, NEW w \in Nat \ {0}, NEW v,
         Starts(buf, p, Number(tag, w, v))
  PROVE  Yields(ReadNumber(buf, p, tag, w), buf, p, Number(tag, w, v), v)
<1> DEFINE b == Number(tag, w, v)
<1>1. Len(b) = w /\ \A i \in 1..w : b[i] = Byte(tag, w, v, i)
  BY NumberFacts
<1>2. Len(buf) \in Nat
  BY SeqFacts
<1> HIDE DEF b
<1>3. p \in 1..(Len(buf) + 1) /\ \A i \in 1..w : p + i <= Len(buf) + 1 => buf[p + i - 1] = b[i]
  BY <1>1 DEF Starts, b
<1>4. CASE p + w <= Len(buf) + 1
  <2>1. \A i \in 1..w : buf[p + i - 1] = Byte(tag, w, v, i)
    BY <1>1, <1>2, <1>3, <1>4
  <2>2. buf[p] = Byte(tag, w, v, 1)
    <3>1. 1 \in 1..w /\ p + 1 - 1 = p
      BY <1>2, <1>3
    <3> QED
      BY <2>1, <3>1
  <2>3. buf[p][3] = v
    BY <2>2 DEF Byte
  <2>4. ~(p + w - 1 > Len(buf))
    BY <1>2, <1>3, <1>4
  <2>5. ReadNumber(buf, p, tag, w) = Good(p + w, v)
    BY <2>1, <2>3, <2>4 DEF ReadNumber
  <2> QED
    BY <1>1, <1>4, <2>5 DEF Yields, Full, b
<1>5. CASE ~(p + w <= Len(buf) + 1)
  <2>1. p + w - 1 > Len(buf)
    BY <1>2, <1>3, <1>5
  <2> QED
    BY <1>1, <1>5, <2>1 DEF Yields, Full, ReadNumber, b
<1> QED
  BY <1>4, <1>5

LEMMA CharactersFacts ==
  ASSUME NEW s, IsSeq(s)
  PROVE  /\ IsSeq(Characters(s)) /\ Len(Characters(s)) = Len(s)
         /\ \A i \in 1..Len(s) : Characters(s)[i] = Byte("chr", 1, s[i], 1)
<1> DEFINE c == Characters(s)
<1>1. c = [i \in 1..Len(s) |-> c[i]] /\ \A i \in 1..Len(s) : c[i] = Byte("chr", 1, s[i], 1)
  BY DEF Characters
<1> HIDE DEF c
<1> QED
  BY <1>1, SeqFacts, MadeSeq DEF c

(* A text that is cut is a prefix.                                         *)
LEMMA ClampFacts ==
  ASSUME NEW s, IsSeq(s), NEW max \in Nat
  PROVE  /\ IsSeq(clamp(s, max))
         /\ Len(clamp(s, max)) \in Nat
         /\ Len(s) <= max => clamp(s, max) = s
         /\ IsPrefix(clamp(s, max), s)
<1>1. Len(s) \in Nat
  BY SeqFacts
<1>2. CASE Len(s) <= max
  <2>1. clamp(s, max) = s
    BY <1>1, <1>2 DEF clamp
  <2>2. IsPrefix(s, s)
    BY <1>1 DEF IsPrefix
  <2> QED
    BY <1>1, <2>1, <2>2
<1>3. CASE ~(Len(s) <= max)
  <2> DEFINE c == SubSeq(s, 1, max)
  <2>1. clamp(s, max) = c
    BY <1>1, <1>3 DEF clamp
  <2>2. IsSeq(c) /\ Len(c) = max
    BY <1>1, <1>3, PrefixFacts
  <2>3. SubSeq(c, 1, Len(c)) = c
    BY <2>2, SubSeqFull DEF IsSeq
  <2>4. IsPrefix(c, s)
    BY <1>1, <1>3, <2>2, <2>3 DEF IsPrefix
  <2> QED
    BY <1>1, <1>3, <2>1, <2>2, <2>4
<1> QED
  BY <1>2, <1>3

LEMMA TextIsSeq ==
  ASSUME NEW s, IsSeq(s), NEW max \in Nat
  PROVE  IsSeq(WriteText(s, max))
<1>1. IsSeq(clamp(s, max)) /\ Len(clamp(s, max)) \in Nat
  BY ClampFacts
<1>2. IsSeq(Characters(clamp(s, max))) /\ IsSeq(Number("int", 4, Len(clamp(s, max))))
  BY <1>1, CharactersFacts, NumberFacts
<1> QED
  BY <1>2, ConcatFacts DEF WriteText

LEMMA TextReads ==
  ASSUME NEW buf, IsSeq(buf), NEW p, NEW s, IsSeq(s), NEW wmax \in Nat, NEW max \in Nat,
         Starts(buf, p, WriteText(s, wmax))
  PROVE  IF Len(clamp(s, wmax)) <= max
         THEN Yields(ReadText(buf, p, max), buf, p, WriteText(s, wmax), clamp(s, wmax))
         ELSE ReadText(buf, p, max) = Failed
<1> DEFINE c == clamp(s, wmax)
           n == Number("int", 4, Len(c))
           t == Characters(c)
<1>1. IsSeq(c) /\ Len(c) \in Nat
  BY ClampFacts
<1>2. WriteText(s, wmax) = n \o t
  BY DEF WriteText
<1> HIDE DEF c
<1>3. /\ IsSeq(n) /\ Len(n) = 4 /\ IsSeq(t) /\ Len(t) = Len(c)
      /\ \A i \in 1..Len(c) : t[i] = Byte("chr", 1, c[i], 1)
  <2>1. IsSeq(n) /\ Len(n) = 4
    <3>1. 4 \in Nat
      OBVIOUS
    <3> QED
      BY <3>1, NumberShape, ZenonT(60)
  <2>2. /\ IsSeq(t) /\ Len(t) = Len(c)
        /\ \A i \in 1..Len(c) : t[i] = Byte("chr", 1, c[i], 1)
    BY <1>1, CharactersFacts
  <2> QED
    BY <2>1, <2>2
<1>4. Yields(ReadNumber(buf, p, "int", 4), buf, p, n, Len(c))
  <2>1. Starts(buf, p, n)
    BY <1>2, <1>3, StartsConcat
  <2> QED
    BY <2>1, NumberReads
<1> HIDE DEF n, t
<1>5. /\ Full(buf, p, n) => Starts(buf, p + 4, t)
      /\ Full(buf, p, n \o t) <=> Full(buf, p, n) /\ Full(buf, p + 4, t)
  BY <1>2, <1>3, StartsConcat
<1>6. Len(n \o t) = 4 + Len(c) /\ Len(buf) \in Nat /\ p \in Nat
  <2>1. Len(n \o t) = Len(n) + Len(t)
    BY <1>3, ConcatFacts, ZenonT(60)
  <2>2. Len(buf) \in Nat /\ p \in Nat
    BY SeqFacts DEF Starts
  <2> QED
    BY <1>3, <2>1, <2>2
<1>7. CASE ~Full(buf, p, n)
  <2>1. ReadNumber(buf, p, "int", 4) = Failed
    BY <1>4, <1>7 DEF Yields
  <2>2. ReadText(buf, p, max) = Failed
    BY <2>1, GoodFields DEF ReadText
  <2> QED
    BY <1>2, <1>5, <1>7, <2>2 DEF Yields, c
<1>8. CASE Full(buf, p, n)
  <2> DEFINE len == ReadNumber(buf, p, "int", 4)
  <2>1. len = Good(p + 4, Len(c))
    BY <1>3, <1>4, <1>8 DEF Yields
  <2>2. len.ok /\ len.pos = p + 4 /\ len.val = Len(c)
    BY <2>1, GoodFields
  <2>3. ReadText(buf, p, max) =
          IF ~len.ok \/ len.val > max \/ len.pos + len.val - 1 > Len(buf) THEN Failed
          ELSE Good(len.pos + len.val,
                    [i \in 1..len.val |->
                       LET x == buf[len.pos + i - 1] IN IF x[1] = "chr" THEN x[3] ELSE Junk])
    BY DEF ReadText
  <2> HIDE DEF len
  <2>4. CASE Len(c) > max
    BY <1>1, <2>2, <2>3, <2>4 DEF c
  <2>5. CASE Len(c) <= max /\ ~Full(buf, p + 4, t)
    <3>1. p + 4 + Len(c) - 1 > Len(buf)
      BY <1>1, <1>3, <1>6, <2>5 DEF Full
    <3>2. ReadText(buf, p, max) = Failed
      BY <2>2, <2>3, <3>1
    <3> QED
      BY <1>2, <1>5, <2>5, <3>2 DEF Yields, c
  <2>6. CASE Len(c) <= max /\ Full(buf, p + 4, t)
    <3>1. ~(p + 4 + Len(c) - 1 > Len(buf)) /\ ~(Len(c) > max)
      BY <1>1, <1>3, <1>6, <2>6 DEF Full
    <3> DEFINE d == [i \in 1..Len(c) |->
                       LET x == buf[p + 4 + i - 1] IN IF x[1] = "chr" THEN x[3] ELSE Junk]
    <3>2. ReadText(buf, p, max) = Good(p + 4 + Len(c), d)
      BY <2>2, <2>3, <3>1
    <3>3. ASSUME NEW i \in 1..Len(c) PROVE d[i] = c[i]
      <4>1. buf[p + 4 + i - 1] = t[i]
        <5>1. p + 4 + i <= Len(buf) + 1
          BY <1>1, <1>3, <1>6, <2>6 DEF Full
        <5> QED
          BY <1>3, <1>5, <1>8, <5>1 DEF Starts
      <4>2. buf[p + 4 + i - 1] = Byte("chr", 1, c[i], 1)
        BY <1>3, <4>1
      <4> QED
        BY <4>2 DEF Byte
    <3>4. d = [i \in 1..Len(c) |-> d[i]] /\ c = [i \in 1..Len(c) |-> c[i]]
      BY <1>1, SeqFacts
    <3> HIDE DEF d
    <3>5. d = c
      BY <3>3, <3>4
    <3>6. p + 4 + Len(c) = p + Len(n \o t)
      BY <1>1, <1>6
    <3> QED
      BY <1>2, <1>5, <1>8, <2>6, <3>2, <3>5, <3>6 DEF Yields, c
  <2> QED
    BY <1>1, <2>4, <2>5, <2>6
<1> QED
  BY <1>7, <1>8

-----------------------------------------------------------------------------
(* Plain fields *)

(* A span is written as a text is that has no need to be cut.              *)
LEMMA SpanIsText ==
  ASSUME NEW s, IsSeq(s)
  PROVE  /\ Len(s) \in Nat
         /\ clamp(s, Len(s)) = s
         /\ WriteBlob(Characters(s)) = WriteText(s, Len(s))
<1>1. Len(s) \in Nat
  BY SeqFacts
<1>2. clamp(s, Len(s)) = s
  BY <1>1, ClampFacts
<1>3. Len(Characters(s)) = Len(s)
  BY CharactersFacts
<1> QED
  BY <1>1, <1>2, <1>3 DEF WriteBlob, WriteText

(* A field as it is written and as it is read.                             *)
PlainMatch(w, r) ==
  /\ r.kind = w.kind /\ r.name = w.name
  /\ \/ w.kind = "num" /\ w.width \in Nat \ {0} /\ r.width = w.width
     \/ w.kind = "int" /\ w.width \in Nat \ {0} /\ r.width = w.width /\ r.range = w.range
     \/ w.kind = "flag"
     \/ w.kind = "opt"
     \/ w.kind = "text" /\ w.max \in Nat /\ r.max \in Nat /\ r.max <= w.max
     \/ w.kind = "bytes" /\ r.max \in Nat

LEMMA PlainIsSeq ==
  ASSUME NEW w, NEW r, PlainMatch(w, r), NEW v, ProperPlain(w, v)
  PROVE  IsSeq(WritePlain(w, v))
<1>1. CASE w.kind = "num"
  BY <1>1, NumberFacts DEF PlainMatch, WritePlain
<1>2. CASE w.kind = "int"
  BY <1>2, NumberFacts DEF PlainMatch, WritePlain
<1>3. CASE w.kind = "flag"
  BY <1>3, NumberFacts DEF PlainMatch, WritePlain
<1>4. CASE w.kind = "opt"
  <2>1. /\ IsSeq(Number("int", 1, 0)) /\ IsSeq(Number("int", 1, 1))
        /\ IsSeq(Number("sym", 8, v[1]))
    BY NumberFacts
  <2>2. IsSeq(Number("int", 1, 1) \o Number("sym", 8, v[1]))
    BY <2>1, ConcatFacts
  <2> QED
    BY <1>4, <2>1, <2>2 DEF WritePlain
<1>5. CASE w.kind = "text"
  <2>1. WritePlain(w, v) = WriteText(v, w.max) /\ IsSeq(v) /\ w.max \in Nat
    BY <1>5 DEF WritePlain, ProperPlain, PlainMatch
  <2> QED
    BY <2>1, TextIsSeq
<1>6. CASE w.kind = "bytes"
  <2>1. WritePlain(w, v) = WriteBlob(Characters(v)) /\ IsSeq(v)
    BY <1>6 DEF WritePlain, ProperPlain
  <2>2. WritePlain(w, v) = WriteText(v, Len(v)) /\ Len(v) \in Nat
    BY <2>1, SpanIsText
  <2> QED
    BY <2>1, <2>2, TextIsSeq
<1> QED
  BY <1>1, <1>2, <1>3, <1>4, <1>5, <1>6 DEF PlainMatch

(* What reading a field gives: it is framed, it gives what was written if  *)
(* that is within the reader's bounds, and it never gives anything else    *)
(* than the value or, of a text, a prefix.                                 *)
Recovers(result, buf, p, b, v, fits, clamped) ==
  /\ Framed(result, buf, p, b)
  /\ fits => Yields(result, buf, p, b, v)
  /\ result.ok => clamped

LEMMA YieldsRecovers ==
  ASSUME NEW result, NEW buf, NEW p, NEW b, NEW v, NEW fits, NEW clamped,
         Yields(result, buf, p, b, v), result.val = v => clamped
  PROVE  Recovers(result, buf, p, b, v, fits, clamped)
<1>1. Framed(result, buf, p, b)
  BY YieldsIsFramed
<1>2. result.ok => result.val = v
  BY GoodFields DEF Yields
<1> QED
  BY <1>1, <1>2 DEF Recovers

LEMMA PlainReads ==
  ASSUME NEW buf, IsSeq(buf), NEW w, NEW r, PlainMatch(w, r), NEW v, ProperPlain(w, v),
         NEW p, Starts(buf, p, WritePlain(w, v))
  PROVE  Recovers(ReadPlain(r, buf, p), buf, p, WritePlain(w, v), v,
                  FitsPlain(r, v), ClampedPlain(w, v, ReadPlain(r, buf, p).val))
<1> DEFINE result == ReadPlain(r, buf, p)
           b == WritePlain(w, v)
<1>1. CASE w.kind = "num"
  <2>1. b = Number("sym", w.width, v) /\ result = ReadNumber(buf, p, "sym", w.width)
    BY <1>1 DEF WritePlain, ReadPlain, PlainMatch
  <2>2. Yields(result, buf, p, b, v)
    BY <1>1, <2>1, NumberReads DEF PlainMatch
  <2>3. result.val = v => ClampedPlain(w, v, result.val)
    BY <1>1 DEF ClampedPlain
  <2> QED
    BY <2>2, <2>3, YieldsRecovers, ZenonT(60)
<1>2. CASE w.kind = "int"
  <2> DEFINE n == ReadNumber(buf, p, "int", w.width)
  <2>1. /\ b = Number("int", w.width, v) /\ v \in w.range
        /\ result = IF n.ok /\ n.val \in w.range THEN n ELSE Failed
    BY <1>2 DEF WritePlain, ReadPlain, PlainMatch, ProperPlain
  <2>2. Yields(n, buf, p, b, v)
    BY <1>2, <2>1, NumberReads DEF PlainMatch
  <2>3. Yields(result, buf, p, b, v)
    <3> HIDE DEF n, result, b
    <3> QED
      BY <2>1, <2>2, GoodFields DEF Yields
  <2>4. result.val = v => ClampedPlain(w, v, result.val)
    BY <1>2 DEF ClampedPlain
  <2> QED
    BY <2>3, <2>4, YieldsRecovers, ZenonT(60)
<1>3. CASE w.kind = "flag"
  <2> DEFINE n == ReadNumber(buf, p, "int", 1)
             x == IF v THEN 1 ELSE 0
  <2>1. /\ b = Number("int", 1, x) /\ v \in BOOLEAN
        /\ result = IF n.ok THEN Good(n.pos, n.val # 0) ELSE Failed
    BY <1>3 DEF WritePlain, ReadPlain, PlainMatch, ProperPlain
  <2>2. Yields(n, buf, p, b, x)
    <3>1. 1 \in Nat \ {0} /\ Starts(buf, p, Number("int", 1, x))
      BY <2>1
    <3> QED
      BY <2>1, <3>1, NumberReads, ZenonT(60)
  <2>3. (x # 0) = v
    BY <2>1
  <2>4. Yields(result, buf, p, b, v)
    <3> HIDE DEF n, result, b, x
    <3>1. CASE Full(buf, p, b)
      <4>1. n = Good(p + Len(b), x)
        BY <2>2, <3>1 DEF Yields
      <4>2. n.ok /\ n.pos = p + Len(b) /\ n.val = x
        BY <4>1, GoodFields
      <4>3. result = Good(p + Len(b), x # 0)
        BY <2>1, <4>2
      <4> QED
        BY <2>3, <3>1, <4>3 DEF Yields
    <3>2. CASE ~Full(buf, p, b)
      BY <2>1, <2>2, <3>2, GoodFields DEF Yields
    <3> QED
      BY <3>1, <3>2
  <2>5. result.val = v => ClampedPlain(w, v, result.val)
    BY <1>3 DEF ClampedPlain
  <2> QED
    BY <2>4, <2>5, YieldsRecovers, ZenonT(60)
<1>4. CASE w.kind = "opt"
  <2> DEFINE n == ReadNumber(buf, p, "int", 1)
             m == ReadNumber(buf, n.pos, "sym", 8)
  <2>1. /\ b = IF v = <<>> THEN Number("int", 1, 0)
               ELSE Number("int", 1, 1) \o Number("sym", 8, v[1])
        /\ v = <<>> \/ v = <<v[1]>>
        /\ result = IF ~n.ok THEN Failed
                    ELSE IF n.val = 0 THEN Good(n.pos, <<>>)
                    ELSE IF m.ok THEN Good(m.pos, <<m.val>>) ELSE Failed
    BY <1>4 DEF WritePlain, ReadPlain, PlainMatch, ProperPlain
  <2>2. Yields(result, buf, p, b, v)
    <3>1. CASE v = <<>>
      <4>1. b = Number("int", 1, 0)
        BY <2>1, <3>1
      <4>2. Yields(n, buf, p, b, 0)
        <5>1. 1 \in Nat \ {0}
          OBVIOUS
        <5> QED
          BY <4>1, <5>1, NumberReads, ZenonT(60)
      <4> HIDE DEF n, m, result, b
      <4> QED
        BY <2>1, <3>1, <4>2, GoodFields DEF Yields
    <3>2. CASE v # <<>>
      <4> DEFINE b1 == Number("int", 1, 1)
                 b2 == Number("sym", 8, v[1])
      <4>1. b = b1 \o b2
        BY <2>1, <3>2
      <4>2. 1 \in Nat \ {0} /\ 8 \in Nat \ {0} /\ 1 \in Nat /\ 8 \in Nat
        OBVIOUS
      <4>3. IsSeq(b1) /\ IsSeq(b2) /\ Len(b1) = 1 /\ Len(b2) = 8
        BY <4>2, NumberShape, ZenonT(60)
      <4>4. Starts(buf, p, b1 \o b2)
        BY <4>1
      <4>5. Yields(n, buf, p, b1, 1)
        <5>1. Starts(buf, p, b1)
          BY <4>3, <4>4, StartsConcat, ZenonT(60)
        <5> QED
          BY <4>2, <5>1, NumberReads, ZenonT(60)
      <4>6. ASSUME Full(buf, p, b1)
            PROVE  n.ok /\ n.pos = p + 1 /\ n.val = 1 /\ Yields(m, buf, p + 1, b2, v[1])
        <5> HIDE DEF m, b2
        <5>1. n.ok /\ n.pos = p + 1 /\ n.val = 1
          <6> HIDE DEF n, b1
          <6> QED
            BY <4>3, <4>5, <4>6, GoodFields DEF Yields
        <5>2. Starts(buf, p + 1, b2)
          <6>1. Starts(buf, p + Len(b1), b2)
            BY <4>3, <4>4, <4>6, StartsConcat, ZenonT(60)
          <6> HIDE DEF b1
          <6> QED
            BY <4>3, <6>1
        <5>3. Yields(m, buf, p + 1, b2, v[1])
          <6> HIDE DEF n
          <6>1. m = ReadNumber(buf, p + 1, "sym", 8)
            BY <5>1 DEF m
          <6> QED
            BY <4>2, <5>2, <6>1, NumberReads, ZenonT(60) DEF b2
        <5> QED
          BY <5>1, <5>3
      <4>7. /\ Full(buf, p, b) <=> Full(buf, p, b1) /\ Full(buf, p + Len(b1), b2)
            /\ Len(b) = Len(b1) + Len(b2)
        <5> HIDE DEF b, b1, b2
        <5>1. Len(b1 \o b2) = Len(b1) + Len(b2)
          BY <4>3, ConcatFacts, ZenonT(60)
        <5>2. Full(buf, p, b1 \o b2) <=> Full(buf, p, b1) /\ Full(buf, p + Len(b1), b2)
          BY <4>3, <4>4, StartsConcat, ZenonT(60)
        <5> QED
          BY <4>1, <5>1, <5>2
      <4>8. p \in Int
        BY SeqFacts DEF Starts
      <4> HIDE DEF n, m, result, b, b1, b2
      <4>9. CASE ~Full(buf, p, b1)
        BY <2>1, <4>5, <4>7, <4>9, GoodFields DEF Yields
      <4>10. CASE Full(buf, p, b1) /\ ~Full(buf, p + 1, b2)
        BY <2>1, <4>3, <4>6, <4>7, <4>10, GoodFields DEF Yields
      <4>11. CASE Full(buf, p, b1) /\ Full(buf, p + 1, b2)
        <5>1. m = Good(p + 1 + 8, v[1])
          BY <4>3, <4>6, <4>11 DEF Yields
        <5>2. m.ok /\ m.pos = p + 1 + 8 /\ m.val = v[1]
          BY <5>1, GoodFields
        <5>3. result = Good(p + 1 + 8, v)
          BY <2>1, <3>2, <4>6, <4>11, <5>2
        <5>4. p + 1 + 8 = p + Len(b)
          BY <4>3, <4>7, <4>8
        <5> QED
          BY <4>3, <4>7, <4>11, <5>3, <5>4 DEF Yields
      <4> QED
        BY <4>9, <4>10, <4>11
    <3> QED
      BY <3>1, <3>2
  <2>3. result.val = v => ClampedPlain(w, v, result.val)
    BY <1>4 DEF ClampedPlain
  <2> QED
    BY <2>2, <2>3, YieldsRecovers, ZenonT(60)
<1>5. CASE w.kind = "text"
  <2> DEFINE c == clamp(v, w.max)
  <2>1. /\ b = WriteText(v, w.max) /\ result = ReadText(buf, p, r.max)
        /\ IsSeq(v) /\ w.max \in Nat /\ r.max \in Nat /\ r.max <= w.max /\ r.kind = "text"
    BY <1>5 DEF WritePlain, ReadPlain, PlainMatch, ProperPlain
  <2>2. IF Len(c) <= r.max THEN Yields(result, buf, p, b, c) ELSE result = Failed
    <3>1. Starts(buf, p, WriteText(v, w.max))
      BY <2>1
    <3> QED
      BY <2>1, <3>1, TextReads, ZenonT(60)
  <2>3. Len(c) \in Nat /\ (Len(v) <= w.max => c = v) /\ IsPrefix(c, v) /\ Len(v) \in Nat
    BY <2>1, ClampFacts, SeqFacts
  <2> HIDE DEF c, result, b
  <2>4. Framed(result, buf, p, b)
    BY <2>2, YieldsIsFramed DEF Framed
  <2>5. FitsPlain(r, v) => Yields(result, buf, p, b, v)
    <3>1. FitsPlain(r, v) => Len(v) <= r.max
      BY <2>1 DEF FitsPlain
    <3>2. Len(v) <= r.max => Len(v) <= w.max
      BY <2>1, <2>3
    <3> QED
      BY <2>2, <2>3, <3>1, <3>2
  <2>6. result.ok => ClampedPlain(w, v, result.val)
    <3>1. result.ok => result.val = c
      BY <2>2, GoodFields DEF Yields
    <3> QED
      BY <1>5, <2>3, <3>1 DEF ClampedPlain
  <2> QED
    BY <2>4, <2>5, <2>6 DEF Recovers, b, result
<1>6. CASE w.kind = "bytes"
  <2>1. /\ b = WriteBlob(Characters(v)) /\ result = ReadText(buf, p, r.max)
        /\ IsSeq(v) /\ r.max \in Nat /\ r.kind = "bytes"
    BY <1>6 DEF WritePlain, ReadPlain, PlainMatch, ProperPlain
  <2>2. b = WriteText(v, Len(v)) /\ Len(v) \in Nat /\ clamp(v, Len(v)) = v
    BY <2>1, SpanIsText
  <2>3. IF Len(v) <= r.max THEN Yields(result, buf, p, b, v) ELSE result = Failed
    <3>1. Starts(buf, p, WriteText(v, Len(v)))
      BY <2>2
    <3>2. IF Len(clamp(v, Len(v))) <= r.max
          THEN Yields(result, buf, p, WriteText(v, Len(v)), clamp(v, Len(v)))
          ELSE result = Failed
      BY <2>1, <2>2, <3>1, TextReads, ZenonT(60)
    <3> QED
      BY <2>2, <3>2
  <2> HIDE DEF result, b
  <2>4. Framed(result, buf, p, b)
    BY <2>3, YieldsIsFramed DEF Framed
  <2>5. FitsPlain(r, v) => Yields(result, buf, p, b, v)
    BY <2>1, <2>3 DEF FitsPlain
  <2>6. result.ok => ClampedPlain(w, v, result.val)
    <3>1. result.ok => result.val = v
      BY <2>3, GoodFields DEF Yields
    <3> QED
      BY <1>6, <3>1 DEF ClampedPlain
  <2> QED
    BY <2>4, <2>5, <2>6 DEF Recovers, b, result
<1> QED
  BY <1>1, <1>2, <1>3, <1>4, <1>5, <1>6 DEF PlainMatch

-----------------------------------------------------------------------------
(* Reads one after another *)

(* The recursion of Walk.                                                  *)
Walks(acc, reads, p, n) ==
  acc = [i \in 0..n |-> IF i = 0 THEN Good(p, <<>>) ELSE After(acc[i - 1], reads[i])]

LEMMA WalkExists ==
  ASSUME NEW reads, NEW p, NEW n \in Nat
  PROVE  \E acc : Walks(acc, reads, p, n)
<1> DEFINE S == {m \in Nat : \E acc : Walks(acc, reads, p, m)}
           first == Good(p, <<>>)
<1> HIDE DEF first
<1>1. 0 \in S
  <2> DEFINE acc == [i \in 0..0 |-> first]
  <2>1. acc = [i \in 0..0 |-> IF i = 0 THEN first ELSE After(acc[i - 1], reads[i])]
    OBVIOUS
  <2>2. Walks(acc, reads, p, 0)
    BY <2>1 DEF Walks, first
  <2> QED
    BY <2>2
<1>2. ASSUME NEW m \in Nat, m \in S PROVE m + 1 \in S
  <2>1. PICK f : Walks(f, reads, p, m)
    BY <1>2
  <2> DEFINE last == After(f[m], reads[m + 1])
             g == [i \in 0..(m + 1) |-> IF i <= m THEN f[i] ELSE last]
  <2>2. \A i \in 0..m : f[i] = IF i = 0 THEN first ELSE After(f[i - 1], reads[i])
    BY <2>1 DEF Walks, first
  <2> HIDE DEF last
  <2>3. \A i \in 0..m : g[i] = f[i]
    OBVIOUS
  <2>4. ASSUME NEW i \in 0..(m + 1)
        PROVE  g[i] = IF i = 0 THEN first ELSE After(g[i - 1], reads[i])
    <3>1. CASE i <= m
      <4>1. i \in 0..m /\ (i # 0 => i - 1 \in 0..m)
        BY <3>1
      <4> QED
        BY <2>2, <2>3, <4>1
    <3>2. CASE ~(i <= m)
      <4>1. i = m + 1 /\ i # 0 /\ i - 1 = m /\ m \in 0..m
        BY <3>2
      <4>2. g[i] = last
        BY <3>2
      <4> QED
        BY <2>3, <4>1, <4>2 DEF last
    <3> QED
      BY <3>1, <3>2
  <2>5. g = [i \in 0..(m + 1) |-> IF i = 0 THEN first ELSE After(g[i - 1], reads[i])]
    <3> DEFINE h == [i \in 0..(m + 1) |-> IF i = 0 THEN first ELSE After(g[i - 1], reads[i])]
    <3>1. \A i \in 0..(m + 1) : g[i] = h[i]
      BY <2>4
    <3>2. g = [i \in 0..(m + 1) |-> g[i]] /\ h = [i \in 0..(m + 1) |-> h[i]]
      OBVIOUS
    <3> HIDE DEF g, h
    <3>3. g = h
      BY <3>1, <3>2
    <3> QED
      BY <3>3 DEF h
  <2>6. Walks(g, reads, p, m + 1)
    BY <2>5 DEF Walks, first
  <2> QED
    BY <2>6
<1> HIDE DEF S
<1>3. n \in S
  BY <1>1, <1>2, Induction
<1> QED
  BY <1>3 DEF S

LEMMA WalkIs ==
  ASSUME NEW reads, NEW p, Len(reads) \in Nat
  PROVE  \E acc : Walks(acc, reads, p, Len(reads)) /\ Walk(reads, p) = acc[Len(reads)]
<1> DEFINE f == CHOOSE g : g = [i \in 0..Len(reads) |->
                                  IF i = 0 THEN Good(p, <<>>) ELSE After(g[i - 1], reads[i])]
<1>1. Walks(f, reads, p, Len(reads))
  <2>1. \E g : g = [i \in 0..Len(reads) |->
                      IF i = 0 THEN Good(p, <<>>) ELSE After(g[i - 1], reads[i])]
    <3>1. \E acc : Walks(acc, reads, p, Len(reads))
      BY WalkExists
    <3> QED
      BY <3>1, ZenonT(60) DEF Walks
  <2> QED
    BY <2>1, ZenonT(60) DEF Walks
<1>2. Walk(reads, p) = f[Len(reads)]
  BY DEF Walk
<1> QED
  BY <1>1, <1>2, ZenonT(60)

(* A buffer that holds a concatenation holds its parts.                    *)
LEMMA PartsStart ==
  ASSUME NEW buf, IsSeq(buf), NEW ss, IsSeq(ss), \A i \in 1..Len(ss) : IsSeq(ss[i]),
         NEW part, Parts(part, ss), NEW p, Starts(buf, p, FlattenSeq(ss))
  PROVE  /\ \A i \in 0..Len(ss) : Starts(buf, p, part[i])
         /\ Full(buf, p, FlattenSeq(ss)) => \A i \in 0..Len(ss) : Full(buf, p, part[i])
<1> DEFINE n == Len(ss)
           Held(i) == Starts(buf, p, part[i])
                      /\ (Full(buf, p, FlattenSeq(ss)) => Full(buf, p, part[i]))
           S == {m \in Nat : m <= n => Held(n - m)}
<1>1. n \in Nat
  BY SeqFacts
<1>2. 0 \in S
  <2>1. n - 0 = n /\ part[n] = FlattenSeq(ss)
    BY <1>1 DEF Parts
  <2> QED
    BY <2>1
<1>3. ASSUME NEW m \in Nat, m \in S PROVE m + 1 \in S
  <2> SUFFICES ASSUME m + 1 <= n PROVE Held(n - (m + 1))
    OBVIOUS
  <2> DEFINE i == n - m
             j == n - (m + 1)
  <2>1. i \in 1..n /\ i - 1 = j /\ j \in 0..n /\ m <= n
    BY <1>1
  <2>2. Held(i)
    BY <1>3, <2>1
  <2> HIDE DEF i, j
  <2>3. part[i] = part[j] \o ss[i] /\ IsSeq(part[j]) /\ IsSeq(ss[i])
    BY <2>1 DEF Parts
  <2>4. Starts(buf, p, part[j]) /\ (Full(buf, p, part[i]) => Full(buf, p, part[j]))
    BY <2>2, <2>3, StartsConcat
  <2> QED
    BY <2>2, <2>4 DEF j
<1> HIDE DEF S
<1>4. \A m \in Nat : m \in S
  BY <1>2, <1>3, Induction
<1>5. ASSUME NEW i \in 0..n PROVE Held(i)
  <2>1. n - i \in Nat /\ n - i <= n /\ n - (n - i) = i
    BY <1>1
  <2> QED
    BY <1>4, <2>1 DEF S
<1> QED
  BY <1>5

(* x is what the read gives at some place where the buffer holds b.        *)
ReadAs(read, buf, b, x) ==
  \E q \in Nat : Starts(buf, q, b) /\ Full(buf, q, b) /\ read[q] = Good(q + Len(b), x)

(* Framed reads one after another are framed.  What they give is what each *)
(* of them gives at its place, and they fail only if one of them does.     *)
LEMMA WalkReads ==
  ASSUME NEW buf, IsSeq(buf), NEW bs, IsSeq(bs), \A i \in 1..Len(bs) : IsSeq(bs[i]),
         NEW reads, Len(reads) = Len(bs),
         \A i \in 1..Len(bs), q \in Nat :
           Starts(buf, q, bs[i]) => Framed(reads[i][q], buf, q, bs[i]),
         NEW p, Starts(buf, p, FlattenSeq(bs)),
         NEW all, all = Walk(reads, p)
  PROVE  /\ Framed(all, buf, p, FlattenSeq(bs))
         /\ all.ok => /\ IsSeq(all.val) /\ Len(all.val) = Len(bs)
                      /\ \A i \in 1..Len(bs) : ReadAs(reads[i], buf, bs[i], all.val[i])
         /\ Full(buf, p, FlattenSeq(bs))
              /\ (\A i \in 1..Len(bs), q \in Nat :
                    Starts(buf, q, bs[i]) /\ Full(buf, q, bs[i]) => reads[i][q].ok)
            => all.ok
<1> DEFINE n == Len(bs)
           whole == FlattenSeq(bs)
           none == \A i \in 1..n, q \in Nat :
                     Starts(buf, q, bs[i]) /\ Full(buf, q, bs[i]) => reads[i][q].ok
<1>1. n \in Nat /\ Len(buf) \in Nat
  BY SeqFacts
<1>2. PICK part : Parts(part, bs)
  BY FlattenParts
<1>3. /\ \A i \in 0..n : Starts(buf, p, part[i])
      /\ Full(buf, p, whole) => \A i \in 0..n : Full(buf, p, part[i])
  BY <1>2, PartsStart
<1>4. PICK acc : Walks(acc, reads, p, n) /\ all = acc[n]
  BY <1>1, WalkIs
<1>5. \A i \in 0..n : acc[i] = IF i = 0 THEN Good(p, <<>>) ELSE After(acc[i - 1], reads[i])
  BY <1>4 DEF Walks
<1>6. p \in Nat
  BY <1>1 DEF Starts
<1> HIDE DEF whole, none
<1> DEFINE Sound(i, vs) ==
             /\ acc[i] = Good(p + Len(part[i]), vs) /\ Full(buf, p, part[i])
             /\ IsSeq(vs) /\ Len(vs) = i
             /\ \A j \in 1..i : ReadAs(reads[j], buf, bs[j], vs[j])
           Inv(i) == /\ acc[i] = Failed \/ \E vs : Sound(i, vs)
                     /\ Full(buf, p, whole) /\ none => acc[i].ok
           S == {m \in Nat : m <= n => Inv(m)}
<1>7. 0 \in S
  <2>1. part[0] = <<>> /\ Len(part[0]) = 0 /\ 0 \in 0..n
    BY <1>1, <1>2, EmptyIsSeq DEF Parts
  <2>2. acc[0] = Good(p, <<>>)
    BY <1>5, <2>1
  <2>3. p + Len(part[0]) = p /\ Full(buf, p, part[0])
    BY <1>1, <1>3, <1>6, <2>1 DEF Full, Starts
  <2>4. Sound(0, <<>>)
    BY <2>2, <2>3, EmptyIsSeq
  <2>5. acc[0].ok
    BY <2>2, GoodFields
  <2> HIDE DEF Sound
  <2> QED
    BY <2>4, <2>5
<1>8. ASSUME NEW m \in Nat, m \in S PROVE m + 1 \in S
  <2> SUFFICES ASSUME m + 1 <= n PROVE Inv(m + 1)
    OBVIOUS
  <2> DEFINE k == m + 1
             q == p + Len(part[m])
             b == bs[k]
             r == reads[k][q]
  <2>1. m \in 0..n /\ k \in 0..n /\ k \in 1..n /\ k # 0 /\ k - 1 = m /\ m <= n
    BY <1>1
  <2>2. Inv(m)
    BY <1>8, <2>1
  <2>3. acc[k] = After(acc[m], reads[k])
    BY <1>5, <2>1
  <2>4. part[k] = part[m] \o b /\ IsSeq(part[m]) /\ IsSeq(b) /\ IsSeq(part[k])
    BY <1>2, <2>1 DEF Parts
  <2>5. /\ Full(buf, p, part[m]) => Starts(buf, q, b)
        /\ Full(buf, p, part[k]) <=> Full(buf, p, part[m]) /\ Full(buf, q, b)
    <3>1. Starts(buf, p, part[m] \o b)
      BY <1>3, <2>1, <2>4
    <3>2. /\ Full(buf, p, part[m]) => Starts(buf, q, b)
          /\ Full(buf, p, part[m] \o b) <=> Full(buf, p, part[m]) /\ Full(buf, q, b)
      BY <2>4, <3>1, StartsConcat, ZenonT(60)
    <3> QED
      BY <2>4, <3>2
  <2>6. Len(part[k]) = Len(part[m]) + Len(b) /\ Len(part[m]) \in Nat /\ Len(b) \in Nat
    BY <2>4, ConcatFacts, SeqFacts
  <2> HIDE DEF k, Sound
  <2>7. CASE acc[m] = Failed
    <3>1. acc[k] = Failed /\ ~acc[m].ok
      BY <2>3, <2>7, GoodFields DEF After
    <3> QED
      BY <2>2, <3>1 DEF k
  <2>8. ASSUME NEW vs, Sound(m, vs) PROVE Inv(m + 1)
    <3>1. /\ acc[m] = Good(q, vs) /\ Full(buf, p, part[m])
          /\ IsSeq(vs) /\ Len(vs) = m
          /\ \A j \in 1..m : ReadAs(reads[j], buf, bs[j], vs[j])
      BY <2>8 DEF Sound
    <3>2. acc[m].ok /\ acc[m].pos = q /\ acc[m].val = vs
      BY <3>1, GoodFields
    <3>3. q \in Nat /\ Starts(buf, q, b)
      BY <1>6, <2>5, <2>6, <3>1
    <3>4. Framed(r, buf, q, b)
      BY <2>1, <3>3
    <3>5. acc[k] = IF r.ok THEN Good(r.pos, Append(vs, r.val)) ELSE Failed
      BY <2>3, <3>2 DEF After
    <3> HIDE DEF q, b, r
    <3>6. CASE ~r.ok
      <4>1. acc[k] = Failed
        BY <3>5, <3>6
      <4>2. ~(Full(buf, p, whole) /\ none)
        <5>1. ASSUME Full(buf, p, whole), none PROVE FALSE
          <6>1. Full(buf, q, b)
            BY <1>3, <2>1, <2>5, <5>1
          <6>2. r.ok
            BY <2>1, <3>3, <5>1, <6>1 DEF none, r, b
          <6> QED
            BY <3>6, <6>2
        <5> QED
          BY <5>1
      <4> QED
        BY <4>1, <4>2 DEF k
    <3>7. CASE r.ok
      <4>1. Full(buf, q, b) /\ r = Good(q + Len(b), r.val)
        BY <3>4, <3>7, GoodFields DEF Framed
      <4>2. r.pos = q + Len(b)
        BY <4>1, GoodFields
      <4> DEFINE ws == Append(vs, r.val)
      <4>3. acc[k] = Good(q + Len(b), ws)
        BY <3>5, <3>7, <4>2
      <4>4. q + Len(b) = p + Len(part[k])
        BY <1>6, <2>6 DEF q
      <4>5. Full(buf, p, part[k])
        BY <2>5, <3>1, <4>1
      <4>6. /\ IsSeq(ws) /\ Len(ws) = k
            /\ \A j \in 1..m : ws[j] = vs[j]
            /\ ws[k] = r.val
        <5>1. IsSeq(<<r.val>>) /\ Len(<<r.val>>) = 1 /\ <<r.val>>[1] = r.val
          <6>1. <<r.val>> = [i \in 1..1 |-> <<r.val>>[i]]
            OBVIOUS
          <6> QED
            BY <6>1, MadeSeq
        <5>2. ws = vs \o <<r.val>>
          BY <3>1, AppendIsConcat DEF IsSeq
        <5>3. /\ IsSeq(ws) /\ Len(ws) = m + 1 /\ \A j \in 1..m : ws[j] = vs[j]
              /\ \A j \in 1..1 : ws[m + j] = <<r.val>>[j]
          BY <3>1, <5>1, <5>2, ConcatFacts
        <5>4. ws[m + 1] = <<r.val>>[1]
          BY <5>3
        <5> HIDE DEF ws
        <5> QED
          BY <5>1, <5>3, <5>4 DEF k
      <4>7. ReadAs(reads[k], buf, b, r.val)
        BY <3>3, <4>1 DEF ReadAs, r
      <4> HIDE DEF ws
      <4>8. ASSUME NEW j \in 1..k PROVE ReadAs(reads[j], buf, bs[j], ws[j])
        <5>1. CASE j = k
          BY <4>6, <4>7, <5>1 DEF b
        <5>2. CASE j # k
          <6>1. j \in 1..m
            BY <5>2 DEF k
          <6> QED
            BY <3>1, <4>6, <6>1
        <5> QED
          BY <5>1, <5>2
      <4>9. Sound(k, ws)
        BY <4>3, <4>4, <4>5, <4>6, <4>8 DEF Sound
      <4>10. acc[k].ok
        BY <4>3, GoodFields
      <4> QED
        BY <4>9, <4>10 DEF k
    <3> QED
      BY <3>6, <3>7
  <2> QED
    BY <2>2, <2>7, <2>8
<1> HIDE DEF S
<1>9. n \in S
  BY <1>1, <1>7, <1>8, Induction
<1>10. Inv(n)
  BY <1>1, <1>9 DEF S
<1>11. part[n] = whole
  BY <1>2 DEF Parts, whole
<1>12. CASE acc[n] = Failed
  <2>1. Framed(all, buf, p, whole) /\ ~all.ok
    BY <1>4, <1>12, GoodFields DEF Framed
  <2> QED
    BY <1>4, <1>10, <2>1 DEF whole, none
<1>13. ASSUME NEW vs, Sound(n, vs)
       PROVE  /\ Framed(all, buf, p, whole)
              /\ IsSeq(all.val) /\ Len(all.val) = n
              /\ \A j \in 1..n : ReadAs(reads[j], buf, bs[j], all.val[j])
              /\ all.ok
  <2>1. all = Good(p + Len(whole), vs) /\ Full(buf, p, whole)
    BY <1>4, <1>11, <1>13
  <2>2. all.val = vs /\ all.ok
    BY <2>1, GoodFields
  <2>3. Framed(all, buf, p, whole)
    BY <2>1, <2>2 DEF Framed
  <2> QED
    BY <1>13, <2>2, <2>3
<1> HIDE DEF Sound
<1>14. acc[n] = Failed \/ \E vs : Sound(n, vs)
  BY <1>10
<1> QED
  BY <1>12, <1>13, <1>14 DEF whole, none

-----------------------------------------------------------------------------
(* Records and lists, whatever their fields and elements are *)

SameNames(ws, rs) ==
  Len(ws) \in Nat /\ Len(rs) = Len(ws) /\ \A i \in 1..Len(ws) : rs[i].name = ws[i].name

LEMMA NamesFacts ==
  ASSUME NEW ws, NEW rs, SameNames(ws, rs)
  PROVE  /\ Names(rs) = Names(ws)
         /\ \A n \in Range(Names(ws)) : /\ IndexOf(n, Names(ws)) \in 1..Len(ws)
                                        /\ ws[IndexOf(n, Names(ws))].name = n
<1> DEFINE names == Names(ws)
<1>1. names = [i \in 1..Len(ws) |-> ws[i].name]
  BY DEF Names
<1>2. Names(rs) = names
  <2>1. Names(rs) = [i \in 1..Len(ws) |-> rs[i].name] /\ \A i \in 1..Len(ws) : rs[i].name = ws[i].name
    BY DEF SameNames, Names
  <2> HIDE DEF names
  <2> QED
    BY <1>1, <2>1
<1>3. Len(names) = Len(ws) /\ DOMAIN names = 1..Len(ws)
  <2>1. names = [i \in 1..Len(ws) |-> names[i]] /\ Len(ws) \in Nat
    BY <1>1 DEF SameNames
  <2> HIDE DEF names
  <2>2. IsSeq(names) /\ Len(names) = Len(ws)
    BY <2>1, MadeSeq
  <2> QED
    BY <2>1, <2>2
<1> HIDE DEF names
<1>4. ASSUME NEW n \in Range(names)
      PROVE  IndexOf(n, names) \in 1..Len(ws) /\ ws[IndexOf(n, names)].name = n
  <2>1. \E i \in 1..Len(names) : names[i] = n
    BY <1>3 DEF Range
  <2>2. IndexOf(n, names) \in 1..Len(names) /\ names[IndexOf(n, names)] = n
    BY <2>1 DEF IndexOf
  <2> QED
    BY <1>1, <1>3, <2>2
<1> QED
  BY <1>2, <1>4 DEF names

(* A record is framed if its fields are.                                   *)
LEMMA RecordReads ==
  ASSUME NEW ws, NEW rs, SameNames(ws, rs), NEW v, HasFields(ws, v),
         NEW buf, IsSeq(buf), NEW bs, IsSeq(bs), Len(bs) = Len(ws),
         \A i \in 1..Len(ws) : IsSeq(bs[i]),
         NEW reads, Len(reads) = Len(ws),
         \A i \in 1..Len(ws), q \in Nat :
           Starts(buf, q, bs[i]) => Framed(reads[i][q], buf, q, bs[i]),
         NEW p, Starts(buf, p, FlattenSeq(bs)),
         NEW result, result = ReadRecord(rs, reads, p)
  PROVE  /\ Framed(result, buf, p, FlattenSeq(bs))
         /\ (\A i \in 1..Len(ws), q \in Nat :
               Starts(buf, q, bs[i]) => Yields(reads[i][q], buf, q, bs[i], v[ws[i].name]))
            => Yields(result, buf, p, FlattenSeq(bs), v)
         /\ result.ok =>
              \A n \in Range(Names(ws)) :
                LET j == IndexOf(n, Names(ws)) IN ReadAs(reads[j], buf, bs[j], result.val[n])
<1> DEFINE all == Walk(reads, p)
           b == FlattenSeq(bs)
           names == Names(ws)
           made == [n \in Range(names) |-> all.val[IndexOf(n, names)]]
           given == \A i \in 1..Len(ws), q \in Nat :
                      Starts(buf, q, bs[i]) => Yields(reads[i][q], buf, q, bs[i], v[ws[i].name])
<1>1. /\ Framed(all, buf, p, b)
      /\ all.ok => \A i \in 1..Len(ws) : ReadAs(reads[i], buf, bs[i], all.val[i])
      /\ Full(buf, p, b)
           /\ (\A i \in 1..Len(ws), q \in Nat :
                 Starts(buf, q, bs[i]) /\ Full(buf, q, bs[i]) => reads[i][q].ok)
         => all.ok
  <2>1. Len(reads) = Len(bs) /\ 1..Len(ws) = 1..Len(bs)
    OBVIOUS
  <2> QED
    BY <2>1, WalkReads
<1>2. result = IF all.ok THEN Good(all.pos, made) ELSE Failed
  BY NamesFacts DEF ReadRecord
<1>3. \A n \in Range(names) : IndexOf(n, names) \in 1..Len(ws) /\ ws[IndexOf(n, names)].name = n
  BY NamesFacts
<1>4. \A n \in Range(names) : made[n] = all.val[IndexOf(n, names)]
  OBVIOUS
<1>5. made = [n \in Range(names) |-> made[n]] /\ v = [n \in Range(names) |-> v[n]]
  BY DEF HasFields
<1> HIDE DEF all, b, names, made, given
<1>6. CASE ~all.ok
  <2>1. result = Failed /\ ~result.ok
    BY <1>2, <1>6, GoodFields
  <2>2. Framed(result, buf, p, b)
    BY <2>1 DEF Framed
  <2>3. given => ~Full(buf, p, b)
    <3>1. given => \A i \in 1..Len(ws), q \in Nat :
                     Starts(buf, q, bs[i]) /\ Full(buf, q, bs[i]) => reads[i][q].ok
      BY GoodFields DEF given, Yields
    <3> QED
      BY <1>1, <1>6, <3>1
  <2>4. given => Yields(result, buf, p, b, v)
    BY <2>1, <2>3 DEF Yields
  <2> QED
    BY <2>1, <2>2, <2>4 DEF b, given
<1>7. CASE all.ok
  <2>1. Full(buf, p, b) /\ all = Good(p + Len(b), all.val)
    BY <1>1, <1>7, GoodFields DEF Framed
  <2>2. all.pos = p + Len(b)
    BY <2>1, GoodFields
  <2>3. result = Good(p + Len(b), made)
    BY <1>2, <1>7, <2>2
  <2>4. result.val = made
    BY <2>3, GoodFields
  <2>5. Framed(result, buf, p, b)
    BY <2>1, <2>3, <2>4 DEF Framed
  <2>6. ASSUME given PROVE made = v
    <3>1. ASSUME NEW n \in Range(names) PROVE made[n] = v[n]
      <4> DEFINE j == IndexOf(n, names)
      <4>1. j \in 1..Len(ws) /\ ws[j].name = n /\ made[n] = all.val[j]
        BY <1>3, <1>4
      <4> HIDE DEF j
      <4>2. ReadAs(reads[j], buf, bs[j], all.val[j])
        BY <1>1, <1>7, <4>1
      <4>3. PICK q \in Nat : /\ Starts(buf, q, bs[j]) /\ Full(buf, q, bs[j])
                             /\ reads[j][q] = Good(q + Len(bs[j]), all.val[j])
        BY <4>2 DEF ReadAs
      <4>4. Yields(reads[j][q], buf, q, bs[j], v[ws[j].name])
        BY <2>6, <4>1, <4>3 DEF given
      <4>5. reads[j][q] = Good(q + Len(bs[j]), v[ws[j].name])
        BY <4>3, <4>4 DEF Yields
      <4>6. all.val[j] = v[ws[j].name]
        BY <4>3, <4>5, GoodFields
      <4> QED
        BY <4>1, <4>6
    <3> QED
      BY <1>5, <3>1
  <2>7. given => Yields(result, buf, p, b, v)
    BY <2>1, <2>3, <2>6 DEF Yields
  <2>8. ASSUME NEW n \in Range(names)
        PROVE  LET j == IndexOf(n, names) IN ReadAs(reads[j], buf, bs[j], result.val[n])
    BY <1>1, <1>3, <1>4, <1>7, <2>4
  <2> QED
    BY <2>5, <2>7, <2>8 DEF b, given, names
<1> QED
  BY <1>6, <1>7

LEMMA ListIsSeq ==
  ASSUME NEW es, IsSeq(es), \A k \in 1..Len(es) : IsSeq(es[k])
  PROVE  /\ IsSeq(WriteList(es)) /\ IsSeq(FlattenSeq(es))
         /\ IsSeq(Number("int", 4, Len(es))) /\ Len(Number("int", 4, Len(es))) = 4
<1>1. IsSeq(FlattenSeq(es))
  BY FlattenIsSeq
<1>2. IsSeq(Number("int", 4, Len(es))) /\ Len(Number("int", 4, Len(es))) = 4
  <2>1. 4 \in Nat
    OBVIOUS
  <2> QED
    BY <2>1, NumberShape, ZenonT(60)
<1> QED
  BY <1>1, <1>2, ConcatFacts DEF WriteList

(* Elements as they were written, es, of a list vs.                        *)
ElementsFramed(read, buf, es, vs) ==
  /\ IsSeq(es) /\ IsSeq(vs) /\ Len(vs) = Len(es)
  /\ \A k \in 1..Len(es) : IsSeq(es[k])
  /\ \A k \in 1..Len(es), q \in Nat :
       Starts(buf, q, es[k]) => Framed(read[q], buf, q, es[k])

(* What reading the list gives.                                            *)
ListRecovered(f, read, buf, es, vs, p, result) ==
  /\ Framed(result, buf, p, WriteList(es))
  /\ Len(vs) <= f.max
       /\ (f.kind = "map" => DistinctKeys(vs, f.sub[1].name))
       /\ (\A k \in 1..Len(es), q \in Nat :
             Starts(buf, q, es[k]) => Yields(read[q], buf, q, es[k], vs[k]))
     => Yields(result, buf, p, WriteList(es), vs)
  /\ result.ok => /\ Len(result.val) = Len(vs)
                  /\ \A k \in 1..Len(vs) : ReadAs(read, buf, es[k], result.val[k])
                  /\ f.kind = "map" => DistinctKeys(result.val, f.sub[1].name)

(* A list is framed if its elements are.                                   *)
LEMMA ListReads ==
  ASSUME NEW f, f.max \in Nat, NEW read, NEW buf, IsSeq(buf),
         NEW es, NEW vs, ElementsFramed(read, buf, es, vs),
         NEW p, Starts(buf, p, WriteList(es)),
         NEW result, result = ReadList(f, read, buf, p)
  PROVE  ListRecovered(f, read, buf, es, vs, p, result)
<1>0. /\ IsSeq(es) /\ IsSeq(vs) /\ Len(vs) = Len(es)
      /\ \A k \in 1..Len(es) : IsSeq(es[k])
      /\ \A k \in 1..Len(es), q \in Nat :
           Starts(buf, q, es[k]) => Framed(read[q], buf, q, es[k])
  BY DEF ElementsFramed
<1> DEFINE n == Len(es)
           head == Number("int", 4, n)
           rest == FlattenSeq(es)
           b == WriteList(es)
           count == ReadNumber(buf, p, "int", 4)
           given == /\ n <= f.max
                    /\ f.kind = "map" => DistinctKeys(vs, f.sub[1].name)
                    /\ \A k \in 1..n, q \in Nat :
                         Starts(buf, q, es[k]) => Yields(read[q], buf, q, es[k], vs[k])
           same == /\ Len(result.val) = Len(vs)
                   /\ \A k \in 1..Len(vs) : ReadAs(read, buf, es[k], result.val[k])
                   /\ f.kind = "map" => DistinctKeys(result.val, f.sub[1].name)
<1>1. n \in Nat /\ Len(buf) \in Nat /\ p \in Nat
  BY <1>0, SeqFacts DEF Starts
<1>2. IsSeq(head) /\ Len(head) = 4 /\ IsSeq(rest) /\ b = head \o rest
  BY <1>0, ListIsSeq DEF WriteList
<1>3. /\ Starts(buf, p, head)
      /\ Full(buf, p, head) => Starts(buf, p + Len(head), rest)
      /\ Full(buf, p, head \o rest) <=> Full(buf, p, head) /\ Full(buf, p + Len(head), rest)
      /\ Len(head \o rest) = Len(head) + Len(rest)
  <2>1. Starts(buf, p, head \o rest)
    BY <1>2
  <2> HIDE DEF head, rest, b
  <2> QED
    BY <1>2, <2>1, StartsConcat, ConcatFacts, ZenonT(60)
<1>4. Yields(count, buf, p, head, n)
  <2>1. 4 \in Nat \ {0}
    OBVIOUS
  <2> QED
    BY <1>3, <2>1, NumberReads, ZenonT(60)
<1>5. Full(buf, p, b) <=> Full(buf, p, head) /\ Full(buf, p + 4, rest)
  BY <1>2, <1>3
<1>6. Full(buf, p, head) => Starts(buf, p + 4, rest)
  BY <1>2, <1>3
<1>7. Len(b) = 4 + Len(rest) /\ Len(rest) \in Nat
  BY <1>2, <1>3, SeqFacts
<1> SUFFICES /\ Framed(result, buf, p, b)
             /\ given => Yields(result, buf, p, b, vs)
             /\ result.ok => same
  BY <1>0 DEF ListRecovered, n, b, given, same
<1> HIDE DEF head, rest, b
<1>8. CASE ~Full(buf, p, head)
  <2>1. ~count.ok
    <3> HIDE DEF count
    <3> QED
      BY <1>4, <1>8, GoodFields DEF Yields
  <2>2. result = Failed /\ ~result.ok
    BY <2>1, GoodFields DEF ReadList
  <2> HIDE DEF given, same, count
  <2> QED
    BY <1>5, <1>8, <2>2 DEF Framed, Yields
<1>9. CASE Full(buf, p, head)
  <2>1. count.ok /\ count.pos = p + 4 /\ count.val = n
    <3> HIDE DEF count
    <3> QED
      BY <1>2, <1>4, <1>9, GoodFields DEF Yields
  <2> DEFINE reads == [k \in 1..n |-> read]
             all == Walk(reads, p + 4)
             key == f.sub[1].name
             repeated == f.kind = "map" /\ \E i, j \in 1..n :
                                             i # j /\ all.val[i][key] = all.val[j][key]
  <2>2. result = IF n > f.max THEN Failed ELSE IF ~all.ok \/ repeated THEN Failed ELSE all
    <3> HIDE DEF count
    <3>1. result = LET c == count
                       a == Walk([k \in 1..c.val |-> read], c.pos)
                       rep == f.kind = "map" /\ \E i, j \in 1..c.val :
                                                  i # j /\ a.val[i][key] = a.val[j][key]
                   IN  IF ~c.ok \/ c.val > f.max THEN Failed
                       ELSE IF ~a.ok \/ rep THEN Failed ELSE a
      BY DEF ReadList, count
    <3> QED
      BY <2>1, <3>1
  <2>3. Len(reads) = n /\ \A k \in 1..n : reads[k] = read
    <3>1. reads = [k \in 1..n |-> reads[k]] /\ \A k \in 1..n : reads[k] = read
      OBVIOUS
    <3> HIDE DEF reads
    <3> QED
      BY <1>1, <3>1, MadeSeq
  <2> HIDE DEF reads
  <2>4. /\ Framed(all, buf, p + 4, rest)
        /\ all.ok => /\ IsSeq(all.val) /\ Len(all.val) = n
                     /\ \A k \in 1..n : ReadAs(read, buf, es[k], all.val[k])
        /\ Full(buf, p + 4, rest)
             /\ (\A k \in 1..n, q \in Nat :
                   Starts(buf, q, es[k]) /\ Full(buf, q, es[k]) => read[q].ok)
           => all.ok
    <3>1. \A k \in 1..n, q \in Nat :
            Starts(buf, q, es[k]) => Framed(reads[k][q], buf, q, es[k])
      BY <1>0, <2>3
    <3>2. /\ Framed(all, buf, p + 4, rest)
          /\ all.ok => /\ IsSeq(all.val) /\ Len(all.val) = n
                       /\ \A k \in 1..n : ReadAs(reads[k], buf, es[k], all.val[k])
          /\ Full(buf, p + 4, rest)
               /\ (\A k \in 1..n, q \in Nat :
                     Starts(buf, q, es[k]) /\ Full(buf, q, es[k]) => reads[k][q].ok)
             => all.ok
      BY <1>0, <1>6, <1>9, <2>3, <3>1, WalkReads DEF rest
    <3> HIDE DEF all
    <3> QED
      BY <2>3, <3>2
  <2> HIDE DEF all
  <2>5. all.ok => Full(buf, p, b) /\ all = Good(p + Len(b), all.val)
    <3>1. all.ok => Full(buf, p + 4, rest) /\ all = Good(p + 4 + Len(rest), all.val)
      BY <2>4, GoodFields DEF Framed
    <3>2. p + 4 + Len(rest) = p + Len(b)
      BY <1>1, <1>7
    <3> QED
      BY <1>5, <1>9, <3>1, <3>2
  <2>6. Framed(result, buf, p, b)
    BY <2>2, <2>5 DEF Framed
  <2>7. ASSUME result.ok PROVE same
    <3>1. result = all /\ ~repeated /\ all.ok
      BY <2>2, <2>7, GoodFields
    <3> QED
      BY <1>0, <2>4, <3>1 DEF DistinctKeys
  <2>8. ASSUME given PROVE Yields(result, buf, p, b, vs)
    <3>1. CASE ~Full(buf, p, b)
      BY <2>6, <3>1 DEF Framed, Yields
    <3>2. CASE Full(buf, p, b)
      <4>1. all.ok
        <5>1. ASSUME NEW k \in 1..n, NEW q \in Nat, Starts(buf, q, es[k]), Full(buf, q, es[k])
              PROVE  read[q].ok
          BY <2>8, <5>1, GoodFields DEF Yields
        <5> QED
          BY <1>5, <2>4, <3>2, <5>1
      <4>2. ASSUME NEW k \in 1..n PROVE all.val[k] = vs[k]
        <5>1. PICK q \in Nat : /\ Starts(buf, q, es[k]) /\ Full(buf, q, es[k])
                               /\ read[q] = Good(q + Len(es[k]), all.val[k])
          BY <2>4, <4>1 DEF ReadAs
        <5>2. read[q] = Good(q + Len(es[k]), vs[k])
          BY <2>8, <5>1 DEF Yields
        <5> QED
          BY <5>1, <5>2, GoodFields
      <4>3. all.val = vs
        <5>1. all.val = [k \in 1..n |-> all.val[k]] /\ vs = [k \in 1..n |-> vs[k]]
          BY <1>0, <2>4, <4>1, SeqFacts
        <5> QED
          BY <4>2, <5>1
      <4>4. ~repeated /\ ~(n > f.max)
        BY <1>0, <1>1, <2>8, <4>3 DEF DistinctKeys
      <4>5. result = all
        BY <2>2, <4>1, <4>4
      <4> QED
        BY <2>5, <3>2, <4>1, <4>3, <4>5 DEF Yields
    <3> QED
      BY <3>1, <3>2
  <2> QED
    BY <2>6, <2>7, <2>8
<1> QED
  BY <1>8, <1>9

-----------------------------------------------------------------------------
(* Flat records *)

(* What is written matches what is read, field by field.                   *)
FlatMatch(ws, rs) ==
  /\ IsSeq(ws) /\ IsSeq(rs) /\ Len(ws) \in Nat /\ Len(rs) = Len(ws)
  /\ \A i \in 1..Len(ws) : PlainMatch(ws[i], rs[i])

LEMMA FlatMatchConcat ==
  ASSUME NEW a, NEW b, NEW c, NEW d, FlatMatch(a, b), FlatMatch(c, d)
  PROVE  FlatMatch(a \o c, b \o d)
<1>1. /\ IsSeq(a) /\ IsSeq(b) /\ Len(a) \in Nat /\ Len(b) = Len(a)
      /\ IsSeq(c) /\ IsSeq(d) /\ Len(c) \in Nat /\ Len(d) = Len(c)
      /\ \A i \in 1..Len(a) : PlainMatch(a[i], b[i])
      /\ \A i \in 1..Len(c) : PlainMatch(c[i], d[i])
  BY DEF FlatMatch
<1> DEFINE x == a \o c
           y == b \o d
<1>2. /\ IsSeq(x) /\ Len(x) = Len(a) + Len(c)
      /\ \A i \in 1..Len(a) : x[i] = a[i]
      /\ \A i \in 1..Len(c) : x[Len(a) + i] = c[i]
  BY <1>1, ConcatFacts
<1>3. /\ IsSeq(y) /\ Len(y) = Len(b) + Len(d)
      /\ \A i \in 1..Len(b) : y[i] = b[i]
      /\ \A i \in 1..Len(d) : y[Len(b) + i] = d[i]
  BY <1>1, ConcatFacts
<1> HIDE DEF x, y
<1>4. ASSUME NEW i \in 1..Len(x) PROVE PlainMatch(x[i], y[i])
  <2>1. CASE i <= Len(a)
    <3>1. i \in 1..Len(a)
      BY <2>1
    <3> QED
      BY <1>1, <1>2, <1>3, <3>1
  <2>2. CASE ~(i <= Len(a))
    <3> DEFINE j == i - Len(a)
    <3>1. j \in 1..Len(c) /\ i = Len(a) + j
      BY <1>1, <1>2, <2>2
    <3> HIDE DEF j
    <3> QED
      BY <1>1, <1>2, <1>3, <3>1
  <2> QED
    BY <2>1, <2>2
<1> QED
  BY <1>1, <1>2, <1>3, <1>4 DEF FlatMatch, x, y

LEMMA FlatIsSeqParts ==
  ASSUME NEW ws, NEW rs, FlatMatch(ws, rs), NEW v, ProperFlat(ws, v),
         NEW bs, bs = [i \in 1..Len(ws) |-> WritePlain(ws[i], v[ws[i].name])]
  PROVE  /\ SameNames(ws, rs)
         /\ IsSeq(bs) /\ Len(bs) = Len(ws)
         /\ \A i \in 1..Len(ws) : bs[i] = WritePlain(ws[i], v[ws[i].name]) /\ IsSeq(bs[i])
         /\ WriteFlat(ws, v) = FlattenSeq(bs) /\ IsSeq(WriteFlat(ws, v))
<1>1. SameNames(ws, rs)
  BY DEF SameNames, FlatMatch, PlainMatch
<1>2. \A i \in 1..Len(ws) : PlainMatch(ws[i], rs[i]) /\ ProperPlain(ws[i], v[ws[i].name])
  BY DEF FlatMatch, ProperFlat
<1>3. Len(ws) \in Nat /\ bs = [i \in 1..Len(ws) |-> bs[i]]
  BY DEF FlatMatch
<1>4. ASSUME NEW i \in 1..Len(ws)
      PROVE  bs[i] = WritePlain(ws[i], v[ws[i].name]) /\ IsSeq(bs[i])
  <2>1. bs[i] = WritePlain(ws[i], v[ws[i].name])
    OBVIOUS
  <2>2. IsSeq(WritePlain(ws[i], v[ws[i].name]))
    BY <1>2, PlainIsSeq
  <2> QED
    BY <2>1, <2>2
<1>5. IsSeq(bs) /\ Len(bs) = Len(ws)
  BY <1>3, MadeSeq
<1>6. WriteFlat(ws, v) = FlattenSeq(bs)
  BY DEF WriteFlat
<1>7. IsSeq(FlattenSeq(bs))
  BY <1>4, <1>5, FlattenIsSeq
<1> QED
  BY <1>1, <1>4, <1>5, <1>6, <1>7

LEMMA FlatReads ==
  ASSUME NEW buf, IsSeq(buf), NEW ws, NEW rs, FlatMatch(ws, rs), NEW v, ProperFlat(ws, v),
         NEW p, Starts(buf, p, WriteFlat(ws, v))
  PROVE  Recovers(ReadFlat(rs, buf, p), buf, p, WriteFlat(ws, v), v,
                  FitsFlat(rs, v), ClampedFlat(ws, v, ReadFlat(rs, buf, p).val))
<1> DEFINE bs == [i \in 1..Len(ws) |-> WritePlain(ws[i], v[ws[i].name])]
           reads == [i \in 1..Len(rs) |-> [q \in Nat |-> ReadPlain(rs[i], buf, q)]]
           result == ReadFlat(rs, buf, p)
<1>1. /\ SameNames(ws, rs)
      /\ IsSeq(bs) /\ Len(bs) = Len(ws)
      /\ \A i \in 1..Len(ws) : bs[i] = WritePlain(ws[i], v[ws[i].name]) /\ IsSeq(bs[i])
      /\ WriteFlat(ws, v) = FlattenSeq(bs)
  <2> HIDE DEF bs
  <2>1. bs = [i \in 1..Len(ws) |-> WritePlain(ws[i], v[ws[i].name])]
    BY DEF bs
  <2> QED
    BY <2>1, FlatIsSeqParts
<1>2. Len(reads) = Len(ws) /\ \A i \in 1..Len(ws), q \in Nat : reads[i][q] = ReadPlain(rs[i], buf, q)
  <2>1. Len(rs) = Len(ws) /\ Len(ws) \in Nat
    BY DEF FlatMatch
  <2>2. \A i \in 1..Len(ws), q \in Nat : reads[i][q] = ReadPlain(rs[i], buf, q)
    BY <2>1
  <2>3. reads = [i \in 1..Len(rs) |-> reads[i]]
    OBVIOUS
  <2> HIDE DEF reads
  <2>4. Len(reads) = Len(rs)
    BY <2>1, <2>3, MadeSeq
  <2> QED
    BY <2>1, <2>2, <2>4
<1>3. result = ReadRecord(rs, reads, p)
  BY DEF ReadFlat
<1>4. HasFields(ws, v)
  BY DEF ProperFlat
<1> HIDE DEF bs, reads, result
<1>5. ASSUME NEW i \in 1..Len(ws), NEW q \in Nat, Starts(buf, q, bs[i])
      PROVE  Recovers(reads[i][q], buf, q, bs[i], v[ws[i].name],
                      FitsPlain(rs[i], v[ws[i].name]),
                      ClampedPlain(ws[i], v[ws[i].name], reads[i][q].val))
  <2>1. /\ PlainMatch(ws[i], rs[i]) /\ ProperPlain(ws[i], v[ws[i].name])
        /\ bs[i] = WritePlain(ws[i], v[ws[i].name]) /\ reads[i][q] = ReadPlain(rs[i], buf, q)
    BY <1>1, <1>2 DEF FlatMatch, ProperFlat
  <2>2. Starts(buf, q, WritePlain(ws[i], v[ws[i].name]))
    BY <1>5, <2>1
  <2>3. Recovers(ReadPlain(rs[i], buf, q), buf, q, WritePlain(ws[i], v[ws[i].name]), v[ws[i].name],
                 FitsPlain(rs[i], v[ws[i].name]),
                 ClampedPlain(ws[i], v[ws[i].name], ReadPlain(rs[i], buf, q).val))
    BY <2>1, <2>2, PlainReads, ZenonT(60)
  <2> QED
    BY <2>1, <2>3
<1>6. \A i \in 1..Len(ws), q \in Nat :
        Starts(buf, q, bs[i]) => Framed(reads[i][q], buf, q, bs[i])
  BY <1>5 DEF Recovers
<1>7. Starts(buf, p, FlattenSeq(bs))
  BY <1>1
<1>8. /\ Framed(result, buf, p, FlattenSeq(bs))
      /\ (\A i \in 1..Len(ws), q \in Nat :
            Starts(buf, q, bs[i]) => Yields(reads[i][q], buf, q, bs[i], v[ws[i].name]))
         => Yields(result, buf, p, FlattenSeq(bs), v)
      /\ result.ok =>
           \A n \in Range(Names(ws)) :
             LET j == IndexOf(n, Names(ws)) IN ReadAs(reads[j], buf, bs[j], result.val[n])
  BY <1>1, <1>2, <1>3, <1>4, <1>6, <1>7, RecordReads
<1>9. ASSUME FitsFlat(rs, v) PROVE Yields(result, buf, p, FlattenSeq(bs), v)
  <2>1. ASSUME NEW i \in 1..Len(ws) PROVE FitsPlain(rs[i], v[ws[i].name])
    BY <1>1, <1>9 DEF FitsFlat, SameNames
  <2>2. ASSUME NEW i \in 1..Len(ws), NEW q \in Nat, Starts(buf, q, bs[i])
        PROVE  Yields(reads[i][q], buf, q, bs[i], v[ws[i].name])
    BY <1>5, <2>1, <2>2 DEF Recovers
  <2> QED
    BY <1>8, <2>2
<1>10. ASSUME result.ok PROVE ClampedFlat(ws, v, result.val)
  <2>1. ASSUME NEW n \in Range(Names(ws))
        PROVE  ClampedPlain(Field(ws, n), v[n], result.val[n])
    <3> DEFINE j == IndexOf(n, Names(ws))
    <3>1. j \in 1..Len(ws) /\ ws[j].name = n
      BY <1>1, NamesFacts
    <3>2. ReadAs(reads[j], buf, bs[j], result.val[n])
      BY <1>8, <1>10
    <3>3. Field(ws, n) = ws[j]
      BY DEF Field
    <3> HIDE DEF j
    <3>4. PICK q \in Nat : /\ Starts(buf, q, bs[j])
                           /\ reads[j][q] = Good(q + Len(bs[j]), result.val[n])
      BY <3>2 DEF ReadAs
    <3>5. reads[j][q].ok /\ reads[j][q].val = result.val[n]
      BY <3>4, GoodFields
    <3>6. ClampedPlain(ws[j], v[ws[j].name], reads[j][q].val)
      BY <1>5, <3>1, <3>4, <3>5 DEF Recovers
    <3> QED
      BY <3>1, <3>3, <3>5, <3>6
  <2> QED
    BY <2>1 DEF ClampedFlat
<1> QED
  BY <1>1, <1>8, <1>9, <1>10 DEF Recovers, result

LEMMA FlatIsSeq ==
  ASSUME NEW ws, NEW rs, FlatMatch(ws, rs), NEW v, ProperFlat(ws, v)
  PROVE  IsSeq(WriteFlat(ws, v))
BY FlatIsSeqParts

-----------------------------------------------------------------------------
(* Records with lists of flat ones *)

(* A field that may be a list of flat records.                             *)
ShallowMatch(w, r) ==
  \/ PlainMatch(w, r)
  \/ r.name = w.name /\ r.max \in Nat /\ w.kind = "list" /\ r.kind = "list" /\ FlatMatch(w.sub, r.sub)

(* The elements of a list as they are written.                             *)
LEMMA ShallowIsSeqList ==
  ASSUME NEW w, NEW r, ShallowMatch(w, r), ~PlainMatch(w, r), NEW v, ProperShallow(w, v),
         NEW es, es = [k \in 1..Len(v) |-> WriteFlat(w.sub, v[k])]
  PROVE  /\ IsList(w) /\ IsList(r) /\ IsSeq(v) /\ r.max \in Nat /\ w.kind = "list" /\ r.kind = "list" /\ FlatMatch(w.sub, r.sub)
         /\ \A k \in 1..Len(v) : ProperFlat(w.sub, v[k])
         /\ IsSeq(es) /\ Len(es) = Len(v)
         /\ \A k \in 1..Len(v) : es[k] = WriteFlat(w.sub, v[k]) /\ IsSeq(es[k])
         /\ WriteShallow(w, v) = WriteList(es) /\ IsSeq(WriteShallow(w, v))
<1>1. r.max \in Nat /\ w.kind = "list" /\ r.kind = "list" /\ FlatMatch(w.sub, r.sub) /\ IsList(w) /\ IsList(r)
  BY DEF ShallowMatch, IsList
<1>2. IsSeq(v) /\ \A k \in 1..Len(v) : ProperFlat(w.sub, v[k])
  BY <1>1 DEF ProperShallow
<1>3. Len(v) \in Nat /\ es = [k \in 1..Len(v) |-> es[k]]
  BY <1>2, SeqFacts
<1>4. \A k \in 1..Len(v) : es[k] = WriteFlat(w.sub, v[k])
  OBVIOUS
<1>5. ASSUME NEW k \in 1..Len(v) PROVE IsSeq(WriteFlat(w.sub, v[k]))
  BY <1>1, <1>2, FlatIsSeq
<1>6. IsSeq(es) /\ Len(es) = Len(v)
  BY <1>3, MadeSeq
<1>7. \A k \in 1..Len(v) : es[k] = WriteFlat(w.sub, v[k]) /\ IsSeq(es[k])
  BY <1>4, <1>5
<1>8. WriteShallow(w, v) = WriteList(es)
  BY <1>1 DEF WriteShallow
<1>9. IsSeq(WriteList(es))
  BY <1>6, <1>7, ListIsSeq
<1> QED
  BY <1>1, <1>2, <1>6, <1>7, <1>8, <1>9

LEMMA ShallowIsSeq ==
  ASSUME NEW w, NEW r, ShallowMatch(w, r), NEW v, ProperShallow(w, v)
  PROVE  IsSeq(WriteShallow(w, v))
<1>1. CASE PlainMatch(w, r)
  <2>1. ~IsList(w)
    BY <1>1 DEF PlainMatch, IsList
  <2>2. WriteShallow(w, v) = WritePlain(w, v) /\ ProperPlain(w, v)
    BY <2>1 DEF WriteShallow, ProperShallow
  <2> QED
    BY <1>1, <2>2, PlainIsSeq
<1>2. CASE ~PlainMatch(w, r)
  BY <1>2, ShallowIsSeqList
<1> QED
  BY <1>1, <1>2

LEMMA ShallowReads ==
  ASSUME NEW buf, IsSeq(buf), NEW w, NEW r, ShallowMatch(w, r), NEW v, ProperShallow(w, v),
         NEW p, Starts(buf, p, WriteShallow(w, v))
  PROVE  Recovers(ReadShallow(r, buf, p), buf, p, WriteShallow(w, v), v,
                  FitsShallow(r, v), ClampedShallow(w, v, ReadShallow(r, buf, p).val))
<1>1. CASE PlainMatch(w, r)
  <2>1. ~IsList(w) /\ ~IsList(r)
    BY <1>1 DEF PlainMatch, IsList
  <2>2. /\ WriteShallow(w, v) = WritePlain(w, v) /\ ProperPlain(w, v)
        /\ ReadShallow(r, buf, p) = ReadPlain(r, buf, p)
        /\ FitsShallow(r, v) = FitsPlain(r, v)
        /\ ClampedPlain(w, v, ReadPlain(r, buf, p).val) => ClampedShallow(w, v, ReadShallow(r, buf, p).val)
    BY <2>1 DEF WriteShallow, ProperShallow, ReadShallow, FitsShallow, ClampedShallow, IsList
  <2>3. Recovers(ReadPlain(r, buf, p), buf, p, WritePlain(w, v), v,
                 FitsPlain(r, v), ClampedPlain(w, v, ReadPlain(r, buf, p).val))
    BY <1>1, <2>2, PlainReads
  <2> QED
    BY <2>2, <2>3 DEF Recovers
<1>2. CASE ~PlainMatch(w, r)
  <2> DEFINE es == [k \in 1..Len(v) |-> WriteFlat(w.sub, v[k])]
             read == [q \in Nat |-> ReadFlat(r.sub, buf, q)]
             result == ReadShallow(r, buf, p)
  <2>1. /\ IsList(w) /\ IsList(r) /\ IsSeq(v) /\ r.max \in Nat /\ w.kind = "list" /\ r.kind = "list" /\ FlatMatch(w.sub, r.sub)
        /\ \A k \in 1..Len(v) : ProperFlat(w.sub, v[k])
        /\ IsSeq(es) /\ Len(es) = Len(v)
        /\ \A k \in 1..Len(v) : es[k] = WriteFlat(w.sub, v[k]) /\ IsSeq(es[k])
        /\ WriteShallow(w, v) = WriteList(es)
    <3> HIDE DEF es
    <3>1. es = [k \in 1..Len(v) |-> WriteFlat(w.sub, v[k])]
      BY DEF es
    <3> QED
      BY <1>2, <3>1, ShallowIsSeqList
  <2>2. \A q \in Nat : read[q] = ReadFlat(r.sub, buf, q)
    OBVIOUS
  <2>3. result = ReadList(r, read, buf, p)
    BY <2>1 DEF ReadShallow
  <2> HIDE DEF es, read, result
  <2>4. ASSUME NEW k \in 1..Len(v), NEW q \in Nat, Starts(buf, q, es[k])
        PROVE  Recovers(read[q], buf, q, es[k], v[k], FitsFlat(r.sub, v[k]),
                        ClampedFlat(w.sub, v[k], read[q].val))
    <3>1. /\ ProperFlat(w.sub, v[k]) /\ es[k] = WriteFlat(w.sub, v[k])
          /\ read[q] = ReadFlat(r.sub, buf, q)
      BY <2>1, <2>2
    <3>2. Starts(buf, q, WriteFlat(w.sub, v[k]))
      BY <2>4, <3>1
    <3>3. Recovers(ReadFlat(r.sub, buf, q), buf, q, WriteFlat(w.sub, v[k]), v[k], FitsFlat(r.sub, v[k]),
                   ClampedFlat(w.sub, v[k], ReadFlat(r.sub, buf, q).val))
      BY <2>1, <3>1, <3>2, FlatReads, ZenonT(60)
    <3> QED
      BY <3>1, <3>3
  <2>5. \A k \in 1..Len(es), q \in Nat :
          Starts(buf, q, es[k]) => Framed(read[q], buf, q, es[k])
    BY <2>1, <2>4 DEF Recovers
  <2>6. Starts(buf, p, WriteList(es))
    BY <2>1
  <2>7. ListRecovered(r, read, buf, es, v, p, result)
    <3>1. ElementsFramed(read, buf, es, v)
      BY <2>1, <2>5 DEF ElementsFramed
    <3> QED
      BY <2>1, <2>3, <2>6, <3>1, ListReads
  <2>8. /\ Framed(result, buf, p, WriteList(es))
        /\ Len(v) <= r.max
             /\ (r.kind = "map" => DistinctKeys(v, r.sub[1].name))
             /\ (\A k \in 1..Len(es), q \in Nat :
                   Starts(buf, q, es[k]) => Yields(read[q], buf, q, es[k], v[k]))
           => Yields(result, buf, p, WriteList(es), v)
        /\ result.ok => /\ Len(result.val) = Len(v)
                        /\ \A k \in 1..Len(v) : ReadAs(read, buf, es[k], result.val[k])
                        /\ r.kind = "map" => DistinctKeys(result.val, r.sub[1].name)
    BY <2>7 DEF ListRecovered
  <2>9. ASSUME FitsShallow(r, v) PROVE Yields(result, buf, p, WriteList(es), v)
    <3>1. /\ Len(v) <= r.max /\ \A k \in 1..Len(v) : FitsFlat(r.sub, v[k])
          /\ r.kind = "map" => DistinctKeys(v, r.sub[1].name)
      BY <2>1, <2>9 DEF FitsShallow
    <3>2. ASSUME NEW k \in 1..Len(es), NEW q \in Nat, Starts(buf, q, es[k])
          PROVE  Yields(read[q], buf, q, es[k], v[k])
      BY <2>1, <2>4, <3>1, <3>2 DEF Recovers
    <3> QED
      BY <2>8, <3>1, <3>2
  <2>10. ASSUME result.ok PROVE ClampedShallow(w, v, result.val)
    <3>1. ASSUME NEW k \in 1..Len(v) PROVE ClampedFlat(w.sub, v[k], result.val[k])
      <4>1. ReadAs(read, buf, es[k], result.val[k])
        BY <2>8, <2>10
      <4>2. PICK q \in Nat : /\ Starts(buf, q, es[k])
                             /\ read[q] = Good(q + Len(es[k]), result.val[k])
        BY <4>1 DEF ReadAs
      <4>3. read[q].ok /\ read[q].val = result.val[k]
        BY <4>2, GoodFields
      <4> QED
        BY <2>4, <4>2, <4>3 DEF Recovers
    <3> QED
      BY <2>1, <2>8, <2>10, <3>1 DEF ClampedShallow
  <2> QED
    BY <2>1, <2>8, <2>9, <2>10 DEF Recovers, result
<1> QED
  BY <1>1, <1>2

(* The same for records whose fields may be such lists.                    *)
NestedMatch(ws, rs) ==
  /\ IsSeq(ws) /\ IsSeq(rs) /\ Len(ws) \in Nat /\ Len(rs) = Len(ws)
  /\ \A i \in 1..Len(ws) : ShallowMatch(ws[i], rs[i])

LEMMA NestedMatchConcat ==
  ASSUME NEW a, NEW b, NEW c, NEW d, NestedMatch(a, b), NestedMatch(c, d)
  PROVE  NestedMatch(a \o c, b \o d)
<1>1. /\ IsSeq(a) /\ IsSeq(b) /\ Len(a) \in Nat /\ Len(b) = Len(a)
      /\ IsSeq(c) /\ IsSeq(d) /\ Len(c) \in Nat /\ Len(d) = Len(c)
      /\ \A i \in 1..Len(a) : ShallowMatch(a[i], b[i])
      /\ \A i \in 1..Len(c) : ShallowMatch(c[i], d[i])
  BY DEF NestedMatch
<1> DEFINE x == a \o c
           y == b \o d
<1>2. /\ IsSeq(x) /\ Len(x) = Len(a) + Len(c)
      /\ \A i \in 1..Len(a) : x[i] = a[i]
      /\ \A i \in 1..Len(c) : x[Len(a) + i] = c[i]
  BY <1>1, ConcatFacts
<1>3. /\ IsSeq(y) /\ Len(y) = Len(b) + Len(d)
      /\ \A i \in 1..Len(b) : y[i] = b[i]
      /\ \A i \in 1..Len(d) : y[Len(b) + i] = d[i]
  BY <1>1, ConcatFacts
<1> HIDE DEF x, y
<1>4. ASSUME NEW i \in 1..Len(x) PROVE ShallowMatch(x[i], y[i])
  <2>1. CASE i <= Len(a)
    <3>1. i \in 1..Len(a)
      BY <2>1
    <3> QED
      BY <1>1, <1>2, <1>3, <3>1
  <2>2. CASE ~(i <= Len(a))
    <3> DEFINE j == i - Len(a)
    <3>1. j \in 1..Len(c) /\ i = Len(a) + j
      BY <1>1, <1>2, <2>2
    <3> HIDE DEF j
    <3> QED
      BY <1>1, <1>2, <1>3, <3>1
  <2> QED
    BY <2>1, <2>2
<1> QED
  BY <1>1, <1>2, <1>3, <1>4 DEF NestedMatch, x, y

LEMMA NestedIsSeqParts ==
  ASSUME NEW ws, NEW rs, NestedMatch(ws, rs), NEW v, ProperNested(ws, v),
         NEW bs, bs = [i \in 1..Len(ws) |-> WriteShallow(ws[i], v[ws[i].name])]
  PROVE  /\ SameNames(ws, rs)
         /\ IsSeq(bs) /\ Len(bs) = Len(ws)
         /\ \A i \in 1..Len(ws) : bs[i] = WriteShallow(ws[i], v[ws[i].name]) /\ IsSeq(bs[i])
         /\ WriteNested(ws, v) = FlattenSeq(bs) /\ IsSeq(WriteNested(ws, v))
<1>1. SameNames(ws, rs)
  BY DEF SameNames, NestedMatch, ShallowMatch, PlainMatch
<1>2. \A i \in 1..Len(ws) : ShallowMatch(ws[i], rs[i]) /\ ProperShallow(ws[i], v[ws[i].name])
  BY DEF NestedMatch, ProperNested
<1>3. Len(ws) \in Nat /\ bs = [i \in 1..Len(ws) |-> bs[i]]
  BY DEF NestedMatch
<1>4. ASSUME NEW i \in 1..Len(ws)
      PROVE  bs[i] = WriteShallow(ws[i], v[ws[i].name]) /\ IsSeq(bs[i])
  <2>1. bs[i] = WriteShallow(ws[i], v[ws[i].name])
    OBVIOUS
  <2>2. IsSeq(WriteShallow(ws[i], v[ws[i].name]))
    BY <1>2, ShallowIsSeq
  <2> QED
    BY <2>1, <2>2
<1>5. IsSeq(bs) /\ Len(bs) = Len(ws)
  BY <1>3, MadeSeq
<1>6. WriteNested(ws, v) = FlattenSeq(bs)
  BY DEF WriteNested
<1>7. IsSeq(FlattenSeq(bs))
  BY <1>4, <1>5, FlattenIsSeq
<1> QED
  BY <1>1, <1>4, <1>5, <1>6, <1>7

LEMMA NestedReads ==
  ASSUME NEW buf, IsSeq(buf), NEW ws, NEW rs, NestedMatch(ws, rs), NEW v, ProperNested(ws, v),
         NEW p, Starts(buf, p, WriteNested(ws, v))
  PROVE  Recovers(ReadNested(rs, buf, p), buf, p, WriteNested(ws, v), v,
                  FitsNested(rs, v), ClampedNested(ws, v, ReadNested(rs, buf, p).val))
<1> DEFINE bs == [i \in 1..Len(ws) |-> WriteShallow(ws[i], v[ws[i].name])]
           reads == [i \in 1..Len(rs) |-> [q \in Nat |-> ReadShallow(rs[i], buf, q)]]
           result == ReadNested(rs, buf, p)
<1>1. /\ SameNames(ws, rs)
      /\ IsSeq(bs) /\ Len(bs) = Len(ws)
      /\ \A i \in 1..Len(ws) : bs[i] = WriteShallow(ws[i], v[ws[i].name]) /\ IsSeq(bs[i])
      /\ WriteNested(ws, v) = FlattenSeq(bs)
  <2> HIDE DEF bs
  <2>1. bs = [i \in 1..Len(ws) |-> WriteShallow(ws[i], v[ws[i].name])]
    BY DEF bs
  <2> QED
    BY <2>1, NestedIsSeqParts
<1>2. Len(reads) = Len(ws) /\ \A i \in 1..Len(ws), q \in Nat : reads[i][q] = ReadShallow(rs[i], buf, q)
  <2>1. Len(rs) = Len(ws) /\ Len(ws) \in Nat
    BY DEF NestedMatch
  <2>2. \A i \in 1..Len(ws), q \in Nat : reads[i][q] = ReadShallow(rs[i], buf, q)
    BY <2>1
  <2>3. reads = [i \in 1..Len(rs) |-> reads[i]]
    OBVIOUS
  <2> HIDE DEF reads
  <2>4. Len(reads) = Len(rs)
    BY <2>1, <2>3, MadeSeq
  <2> QED
    BY <2>1, <2>2, <2>4
<1>3. result = ReadRecord(rs, reads, p)
  BY DEF ReadNested
<1>4. HasFields(ws, v)
  BY DEF ProperNested
<1> HIDE DEF bs, reads, result
<1>5. ASSUME NEW i \in 1..Len(ws), NEW q \in Nat, Starts(buf, q, bs[i])
      PROVE  Recovers(reads[i][q], buf, q, bs[i], v[ws[i].name],
                      FitsShallow(rs[i], v[ws[i].name]),
                      ClampedShallow(ws[i], v[ws[i].name], reads[i][q].val))
  <2>1. /\ ShallowMatch(ws[i], rs[i]) /\ ProperShallow(ws[i], v[ws[i].name])
        /\ bs[i] = WriteShallow(ws[i], v[ws[i].name]) /\ reads[i][q] = ReadShallow(rs[i], buf, q)
    BY <1>1, <1>2 DEF NestedMatch, ProperNested
  <2>2. Starts(buf, q, WriteShallow(ws[i], v[ws[i].name]))
    BY <1>5, <2>1
  <2>3. Recovers(ReadShallow(rs[i], buf, q), buf, q, WriteShallow(ws[i], v[ws[i].name]), v[ws[i].name],
                 FitsShallow(rs[i], v[ws[i].name]),
                 ClampedShallow(ws[i], v[ws[i].name], ReadShallow(rs[i], buf, q).val))
    BY <2>1, <2>2, ShallowReads, ZenonT(60)
  <2> QED
    BY <2>1, <2>3
<1>6. \A i \in 1..Len(ws), q \in Nat :
        Starts(buf, q, bs[i]) => Framed(reads[i][q], buf, q, bs[i])
  BY <1>5 DEF Recovers
<1>7. Starts(buf, p, FlattenSeq(bs))
  BY <1>1
<1>8. /\ Framed(result, buf, p, FlattenSeq(bs))
      /\ (\A i \in 1..Len(ws), q \in Nat :
            Starts(buf, q, bs[i]) => Yields(reads[i][q], buf, q, bs[i], v[ws[i].name]))
         => Yields(result, buf, p, FlattenSeq(bs), v)
      /\ result.ok =>
           \A n \in Range(Names(ws)) :
             LET j == IndexOf(n, Names(ws)) IN ReadAs(reads[j], buf, bs[j], result.val[n])
  BY <1>1, <1>2, <1>3, <1>4, <1>6, <1>7, RecordReads
<1>9. ASSUME FitsNested(rs, v) PROVE Yields(result, buf, p, FlattenSeq(bs), v)
  <2>1. ASSUME NEW i \in 1..Len(ws) PROVE FitsShallow(rs[i], v[ws[i].name])
    BY <1>1, <1>9 DEF FitsNested, SameNames
  <2>2. ASSUME NEW i \in 1..Len(ws), NEW q \in Nat, Starts(buf, q, bs[i])
        PROVE  Yields(reads[i][q], buf, q, bs[i], v[ws[i].name])
    BY <1>5, <2>1, <2>2 DEF Recovers
  <2> QED
    BY <1>8, <2>2
<1>10. ASSUME result.ok PROVE ClampedNested(ws, v, result.val)
  <2>1. ASSUME NEW n \in Range(Names(ws))
        PROVE  ClampedShallow(Field(ws, n), v[n], result.val[n])
    <3> DEFINE j == IndexOf(n, Names(ws))
    <3>1. j \in 1..Len(ws) /\ ws[j].name = n
      BY <1>1, NamesFacts
    <3>2. ReadAs(reads[j], buf, bs[j], result.val[n])
      BY <1>8, <1>10
    <3>3. Field(ws, n) = ws[j]
      BY DEF Field
    <3> HIDE DEF j
    <3>4. PICK q \in Nat : /\ Starts(buf, q, bs[j])
                           /\ reads[j][q] = Good(q + Len(bs[j]), result.val[n])
      BY <3>2 DEF ReadAs
    <3>5. reads[j][q].ok /\ reads[j][q].val = result.val[n]
      BY <3>4, GoodFields
    <3>6. ClampedShallow(ws[j], v[ws[j].name], reads[j][q].val)
      BY <1>5, <3>1, <3>4, <3>5 DEF Recovers
    <3> QED
      BY <3>1, <3>3, <3>5, <3>6
  <2> QED
    BY <2>1 DEF ClampedNested
<1> QED
  BY <1>1, <1>8, <1>9, <1>10 DEF Recovers, result

LEMMA NestedIsSeq ==
  ASSUME NEW ws, NEW rs, NestedMatch(ws, rs), NEW v, ProperNested(ws, v)
  PROVE  IsSeq(WriteNested(ws, v))
BY NestedIsSeqParts

-----------------------------------------------------------------------------
(* Whole messages: their lists hold nested records, or these as blobs *)

ElementMatch(w, r) ==
  /\ NestedMatch(w.sub, r.sub)
  /\ \/ w.kind = "list" /\ r.kind \in {"list", "map"}
     \/ w.kind = "blobs" /\ r.kind = "blobs"

LEMMA BlobIsSeq ==
  ASSUME NEW b, IsSeq(b)
  PROVE  /\ IsSeq(WriteBlob(b))
         /\ IsSeq(Number("int", 4, Len(b))) /\ Len(Number("int", 4, Len(b))) = 4
         /\ Len(WriteBlob(b)) = 4 + Len(b) /\ Len(b) \in Nat
<1>1. IsSeq(Number("int", 4, Len(b))) /\ Len(Number("int", 4, Len(b))) = 4
  <2>1. 4 \in Nat
    OBVIOUS
  <2> QED
    BY <2>1, NumberShape, ZenonT(60)
<1> DEFINE n == Number("int", 4, Len(b))
<1> HIDE DEF n
<1>2. IsSeq(n \o b) /\ Len(n \o b) = Len(n) + Len(b)
  BY <1>1, ConcatFacts, ZenonT(60) DEF n
<1>3. WriteBlob(b) = n \o b
  BY DEF WriteBlob, n
<1> QED
  BY <1>1, <1>2, <1>3, SeqFacts DEF n

LEMMA ElementIsSeq ==
  ASSUME NEW w, NEW r, ElementMatch(w, r), NEW e, ProperNested(w.sub, e)
  PROVE  IsSeq(WriteElement(w, e))
<1>1. IsSeq(WriteNested(w.sub, e))
  BY NestedIsSeq DEF ElementMatch
<1> QED
  BY <1>1, BlobIsSeq DEF WriteElement

(* A blob is read inside its own bounds, and has to be used up.            *)
LEMMA ElementReads ==
  ASSUME NEW buf, IsSeq(buf), NEW w, NEW r, ElementMatch(w, r), NEW e, ProperNested(w.sub, e),
         NEW p, Starts(buf, p, WriteElement(w, e))
  PROVE  Recovers(ReadElement(r, buf, p), buf, p, WriteElement(w, e), e,
                  FitsNested(r.sub, e), ClampedNested(w.sub, e, ReadElement(r, buf, p).val))
<1>1. CASE w.kind # "blobs"
  <2>1. r.kind # "blobs" /\ NestedMatch(w.sub, r.sub)
    BY <1>1 DEF ElementMatch
  <2>2. /\ WriteElement(w, e) = WriteNested(w.sub, e)
        /\ ReadElement(r, buf, p) = ReadNested(r.sub, buf, p)
    BY <1>1, <2>1 DEF WriteElement, ReadElement
  <2>3. Starts(buf, p, WriteNested(w.sub, e))
    BY <2>2
  <2>4. Recovers(ReadNested(r.sub, buf, p), buf, p, WriteNested(w.sub, e), e,
                 FitsNested(r.sub, e), ClampedNested(w.sub, e, ReadNested(r.sub, buf, p).val))
    BY <2>1, <2>3, NestedReads, ZenonT(60)
  <2> QED
    BY <2>2, <2>4
<1>2. CASE w.kind = "blobs"
  <2> DEFINE b == WriteNested(w.sub, e)
             n == Number("int", 4, Len(b))
             len == ReadNumber(buf, p, "int", 4)
             end == p + 4 + Len(b) - 1
             inner == SubSeq(buf, 1, end)
             x == ReadNested(r.sub, inner, p + 4)
             result == ReadElement(r, buf, p)
             whole == WriteElement(w, e)
  <2>1. r.kind = "blobs" /\ NestedMatch(w.sub, r.sub)
    BY <1>2 DEF ElementMatch
  <2>2. IsSeq(b) /\ IsSeq(n) /\ Len(n) = 4 /\ Len(b) \in Nat
    BY <2>1, NestedIsSeq, BlobIsSeq
  <2>3. whole = n \o b
    BY <1>2 DEF WriteElement, WriteBlob
  <2>4. Starts(buf, p, n \o b)
    BY <2>3
  <2> HIDE DEF b, n, whole
  <2>5. /\ Starts(buf, p, n) /\ (Full(buf, p, n) => Starts(buf, p + Len(n), b))
        /\ Full(buf, p, n \o b) <=> Full(buf, p, n) /\ Full(buf, p + Len(n), b)
        /\ Len(n \o b) = Len(n) + Len(b)
    BY <2>2, <2>4, StartsConcat, ConcatFacts, ZenonT(60)
  <2>6. Yields(len, buf, p, n, Len(b))
    <3>1. 4 \in Nat \ {0}
      OBVIOUS
    <3> QED
      BY <2>5, <3>1, NumberReads, ZenonT(60) DEF n
  <2>7. Len(buf) \in Nat /\ p \in Nat /\ p >= 1
    BY SeqFacts DEF Starts
  <2>8. Len(whole) = 4 + Len(b) /\ (Full(buf, p, whole) <=> Full(buf, p, n) /\ Full(buf, p + 4, b))
    BY <2>2, <2>3, <2>5
  <2>9. CASE ~Full(buf, p, n)
    <3>1. ~len.ok
      <4> HIDE DEF len
      <4> QED
        BY <2>6, <2>9, GoodFields DEF Yields
    <3>2. result = Failed /\ ~result.ok
      BY <2>1, <3>1, GoodFields DEF ReadElement
    <3> HIDE DEF len, inner, x, result
    <3> QED
      BY <2>8, <2>9, <3>2 DEF Recovers, Framed, Yields, result, whole
  <2>10. CASE Full(buf, p, n)
    <3>1. len.ok /\ len.pos = p + 4 /\ len.val = Len(b)
      <4> HIDE DEF len
      <4> QED
        BY <2>2, <2>6, <2>10, GoodFields DEF Yields
    <3>2. result = IF end > Len(buf) THEN Failed
                   ELSE IF ~x.ok \/ x.pos # end + 1 THEN Failed ELSE x
      <4> HIDE DEF len
      <4>1. result = LET l == len
                         last == l.pos + l.val - 1
                         y == ReadNested(r.sub, SubSeq(buf, 1, last), l.pos)
                     IN  IF ~l.ok \/ last > Len(buf) THEN Failed
                         ELSE IF ~y.ok \/ y.pos # last + 1 THEN Failed ELSE y
        BY <2>1 DEF ReadElement, len
      <4> QED
        BY <3>1, <4>1
    <3>3. CASE ~Full(buf, p + 4, b)
      <4>1. end > Len(buf)
        BY <2>2, <2>7, <3>3 DEF Full
      <4>2. result = Failed /\ ~result.ok
        BY <3>2, <4>1, GoodFields
      <4> HIDE DEF len, inner, x, result
      <4> QED
        BY <2>8, <3>3, <4>2 DEF Recovers, Framed, Yields, result, whole
    <3>4. CASE Full(buf, p + 4, b)
      <4>1. end \in 0..Len(buf) /\ end + 1 = p + 4 + Len(b) /\ ~(end > Len(buf))
        BY <2>2, <2>7, <3>4 DEF Full
      <4> HIDE DEF end
      <4>2. IsSeq(inner) /\ Len(inner) = end /\ \A i \in 1..end : inner[i] = buf[i]
        BY <4>1, PrefixFacts
      <4>3. Starts(buf, p + 4, b)
        BY <2>2, <2>5, <2>10
      <4> HIDE DEF inner, len
      <4>4. Starts(inner, p + 4, b) /\ Full(inner, p + 4, b)
        <5>1. p + 4 \in 1..(end + 1)
          BY <2>2, <2>7, <4>1
        <5>2. ASSUME NEW i \in 1..Len(b) PROVE inner[p + 4 + i - 1] = b[i]
          <6>1. p + 4 + i - 1 \in 1..end /\ p + 4 + i <= Len(buf) + 1
            BY <2>2, <2>7, <4>1
          <6>2. buf[p + 4 + i - 1] = b[i]
            BY <4>3, <6>1 DEF Starts
          <6> QED
            BY <4>2, <6>1, <6>2
        <5> QED
          BY <4>1, <4>2, <5>1, <5>2 DEF Starts, Full
      <4>5. Recovers(x, inner, p + 4, b, e, FitsNested(r.sub, e), ClampedNested(w.sub, e, x.val))
        BY <2>1, <4>2, <4>4, NestedReads, ZenonT(60) DEF b
      <4> HIDE DEF x, result
      <4>6. x = Failed \/ x = Good(end + 1, x.val)
        BY <4>1, <4>4, <4>5 DEF Recovers, Framed
      <4>7. result = x
        BY <3>2, <4>1, <4>6, GoodFields
      <4>8. end + 1 = p + Len(whole) /\ Full(buf, p, whole)
        BY <2>2, <2>7, <2>8, <2>10, <3>4, <4>1
      <4>9. Framed(result, buf, p, whole)
        BY <4>6, <4>7, <4>8 DEF Framed
      <4>10. FitsNested(r.sub, e) => Yields(result, buf, p, whole, e)
        BY <4>1, <4>4, <4>5, <4>7, <4>8 DEF Recovers, Yields
      <4>11. result.ok => ClampedNested(w.sub, e, result.val)
        BY <4>5, <4>7 DEF Recovers
      <4> QED
        BY <4>9, <4>10, <4>11 DEF Recovers, result, whole
    <3> QED
      BY <3>3, <3>4
  <2> QED
    BY <2>9, <2>10
<1> QED
  BY <1>1, <1>2

(* What comes back of a field: its value but for texts that were cut, and  *)
(* no two entries of a map with one key.                                   *)
ReadBack(w, r, v, d) ==
  ClampedField(w, v, d) /\ (r.kind = "map" => DistinctKeys(d, r.sub[1].name))

AllReadBack(ws, rs, v, d) ==
  \A n \in Range(Names(ws)) : ReadBack(Field(ws, n), Field(rs, n), v[n], d[n])

(* A field that may be a list.                                             *)
FieldMatch(w, r) ==
  \/ PlainMatch(w, r)
  \/ r.name = w.name /\ r.max \in Nat /\ ElementMatch(w, r)

(* The elements of a list as they are written.                             *)
LEMMA FieldIsSeqList ==
  ASSUME NEW w, NEW r, FieldMatch(w, r), ~PlainMatch(w, r), NEW v, ProperField(w, v),
         NEW es, es = [k \in 1..Len(v) |-> WriteElement(w, v[k])]
  PROVE  /\ IsList(w) /\ IsList(r) /\ IsSeq(v) /\ r.max \in Nat /\ ElementMatch(w, r)
         /\ \A k \in 1..Len(v) : ProperNested(w.sub, v[k])
         /\ IsSeq(es) /\ Len(es) = Len(v)
         /\ \A k \in 1..Len(v) : es[k] = WriteElement(w, v[k]) /\ IsSeq(es[k])
         /\ WriteField(w, v) = WriteList(es) /\ IsSeq(WriteField(w, v))
<1>1. r.max \in Nat /\ ElementMatch(w, r) /\ IsList(w) /\ IsList(r)
  BY DEF FieldMatch, ElementMatch, IsList
<1>2. IsSeq(v) /\ \A k \in 1..Len(v) : ProperNested(w.sub, v[k])
  BY <1>1 DEF ProperField
<1>3. Len(v) \in Nat /\ es = [k \in 1..Len(v) |-> es[k]]
  BY <1>2, SeqFacts
<1>4. \A k \in 1..Len(v) : es[k] = WriteElement(w, v[k])
  OBVIOUS
<1>5. ASSUME NEW k \in 1..Len(v) PROVE IsSeq(WriteElement(w, v[k]))
  BY <1>1, <1>2, ElementIsSeq
<1>6. IsSeq(es) /\ Len(es) = Len(v)
  BY <1>3, MadeSeq
<1>7. \A k \in 1..Len(v) : es[k] = WriteElement(w, v[k]) /\ IsSeq(es[k])
  BY <1>4, <1>5
<1>8. WriteField(w, v) = WriteList(es)
  BY <1>1 DEF WriteField
<1>9. IsSeq(WriteList(es))
  BY <1>6, <1>7, ListIsSeq
<1> QED
  BY <1>1, <1>2, <1>6, <1>7, <1>8, <1>9

LEMMA FieldIsSeq ==
  ASSUME NEW w, NEW r, FieldMatch(w, r), NEW v, ProperField(w, v)
  PROVE  IsSeq(WriteField(w, v))
<1>1. CASE PlainMatch(w, r)
  <2>1. ~IsList(w)
    BY <1>1 DEF PlainMatch, IsList
  <2>2. WriteField(w, v) = WritePlain(w, v) /\ ProperPlain(w, v)
    BY <2>1 DEF WriteField, ProperField
  <2> QED
    BY <1>1, <2>2, PlainIsSeq
<1>2. CASE ~PlainMatch(w, r)
  BY <1>2, FieldIsSeqList
<1> QED
  BY <1>1, <1>2

LEMMA FieldReads ==
  ASSUME NEW buf, IsSeq(buf), NEW w, NEW r, FieldMatch(w, r), NEW v, ProperField(w, v),
         NEW p, Starts(buf, p, WriteField(w, v))
  PROVE  Recovers(ReadField(r, buf, p), buf, p, WriteField(w, v), v,
                  FitsField(r, v), ReadBack(w, r, v, ReadField(r, buf, p).val))
<1>1. CASE PlainMatch(w, r)
  <2>1. ~IsList(w) /\ ~IsList(r)
    BY <1>1 DEF PlainMatch, IsList
  <2>2. /\ WriteField(w, v) = WritePlain(w, v) /\ ProperPlain(w, v)
        /\ ReadField(r, buf, p) = ReadPlain(r, buf, p)
        /\ FitsField(r, v) = FitsPlain(r, v)
        /\ ClampedPlain(w, v, ReadPlain(r, buf, p).val) => ReadBack(w, r, v, ReadField(r, buf, p).val)
    BY <2>1 DEF WriteField, ProperField, ReadField, FitsField, ClampedField, IsList, ReadBack
  <2>3. Recovers(ReadPlain(r, buf, p), buf, p, WritePlain(w, v), v,
                 FitsPlain(r, v), ClampedPlain(w, v, ReadPlain(r, buf, p).val))
    BY <1>1, <2>2, PlainReads
  <2> QED
    BY <2>2, <2>3 DEF Recovers
<1>2. CASE ~PlainMatch(w, r)
  <2> DEFINE es == [k \in 1..Len(v) |-> WriteElement(w, v[k])]
             read == [q \in Nat |-> ReadElement(r, buf, q)]
             result == ReadField(r, buf, p)
  <2>1. /\ IsList(w) /\ IsList(r) /\ IsSeq(v) /\ r.max \in Nat /\ ElementMatch(w, r)
        /\ \A k \in 1..Len(v) : ProperNested(w.sub, v[k])
        /\ IsSeq(es) /\ Len(es) = Len(v)
        /\ \A k \in 1..Len(v) : es[k] = WriteElement(w, v[k]) /\ IsSeq(es[k])
        /\ WriteField(w, v) = WriteList(es)
    <3> HIDE DEF es
    <3>1. es = [k \in 1..Len(v) |-> WriteElement(w, v[k])]
      BY DEF es
    <3> QED
      BY <1>2, <3>1, FieldIsSeqList
  <2>2. \A q \in Nat : read[q] = ReadElement(r, buf, q)
    OBVIOUS
  <2>3. result = ReadList(r, read, buf, p)
    BY <2>1 DEF ReadField
  <2> HIDE DEF es, read, result
  <2>4. ASSUME NEW k \in 1..Len(v), NEW q \in Nat, Starts(buf, q, es[k])
        PROVE  Recovers(read[q], buf, q, es[k], v[k], FitsNested(r.sub, v[k]),
                        ClampedNested(w.sub, v[k], read[q].val))
    <3>1. /\ ProperNested(w.sub, v[k]) /\ es[k] = WriteElement(w, v[k])
          /\ read[q] = ReadElement(r, buf, q)
      BY <2>1, <2>2
    <3>2. Starts(buf, q, WriteElement(w, v[k]))
      BY <2>4, <3>1
    <3>3. Recovers(ReadElement(r, buf, q), buf, q, WriteElement(w, v[k]), v[k], FitsNested(r.sub, v[k]),
                   ClampedNested(w.sub, v[k], ReadElement(r, buf, q).val))
      BY <2>1, <3>1, <3>2, ElementReads, ZenonT(60)
    <3> QED
      BY <3>1, <3>3
  <2>5. \A k \in 1..Len(es), q \in Nat :
          Starts(buf, q, es[k]) => Framed(read[q], buf, q, es[k])
    BY <2>1, <2>4 DEF Recovers
  <2>6. Starts(buf, p, WriteList(es))
    BY <2>1
  <2>7. ListRecovered(r, read, buf, es, v, p, result)
    <3>1. ElementsFramed(read, buf, es, v)
      BY <2>1, <2>5 DEF ElementsFramed
    <3> QED
      BY <2>1, <2>3, <2>6, <3>1, ListReads
  <2>8. /\ Framed(result, buf, p, WriteList(es))
        /\ Len(v) <= r.max
             /\ (r.kind = "map" => DistinctKeys(v, r.sub[1].name))
             /\ (\A k \in 1..Len(es), q \in Nat :
                   Starts(buf, q, es[k]) => Yields(read[q], buf, q, es[k], v[k]))
           => Yields(result, buf, p, WriteList(es), v)
        /\ result.ok => /\ Len(result.val) = Len(v)
                        /\ \A k \in 1..Len(v) : ReadAs(read, buf, es[k], result.val[k])
                        /\ r.kind = "map" => DistinctKeys(result.val, r.sub[1].name)
    BY <2>7 DEF ListRecovered
  <2>9. ASSUME FitsField(r, v) PROVE Yields(result, buf, p, WriteList(es), v)
    <3>1. /\ Len(v) <= r.max /\ \A k \in 1..Len(v) : FitsNested(r.sub, v[k])
          /\ r.kind = "map" => DistinctKeys(v, r.sub[1].name)
      BY <2>1, <2>9 DEF FitsField
    <3>2. ASSUME NEW k \in 1..Len(es), NEW q \in Nat, Starts(buf, q, es[k])
          PROVE  Yields(read[q], buf, q, es[k], v[k])
      BY <2>1, <2>4, <3>1, <3>2 DEF Recovers
    <3> QED
      BY <2>8, <3>1, <3>2
  <2>10. ASSUME result.ok PROVE ReadBack(w, r, v, result.val)
    <3>1. ASSUME NEW k \in 1..Len(v) PROVE ClampedNested(w.sub, v[k], result.val[k])
      <4>1. ReadAs(read, buf, es[k], result.val[k])
        BY <2>8, <2>10
      <4>2. PICK q \in Nat : /\ Starts(buf, q, es[k])
                             /\ read[q] = Good(q + Len(es[k]), result.val[k])
        BY <4>1 DEF ReadAs
      <4>3. read[q].ok /\ read[q].val = result.val[k]
        BY <4>2, GoodFields
      <4> QED
        BY <2>4, <4>2, <4>3 DEF Recovers
    <3> QED
      BY <2>1, <2>8, <2>10, <3>1 DEF ClampedField, ReadBack
  <2> QED
    BY <2>1, <2>8, <2>9, <2>10 DEF Recovers, result
<1> QED
  BY <1>1, <1>2

(* The formats: every field matches.                                       *)
FieldsMatch(ws, rs) ==
  /\ IsSeq(ws) /\ IsSeq(rs) /\ Len(ws) \in Nat /\ Len(rs) = Len(ws)
  /\ \A i \in 1..Len(ws) : FieldMatch(ws[i], rs[i])

LEMMA FieldsMatchConcat ==
  ASSUME NEW a, NEW b, NEW c, NEW d, FieldsMatch(a, b), FieldsMatch(c, d)
  PROVE  FieldsMatch(a \o c, b \o d)
<1>1. /\ IsSeq(a) /\ IsSeq(b) /\ Len(a) \in Nat /\ Len(b) = Len(a)
      /\ IsSeq(c) /\ IsSeq(d) /\ Len(c) \in Nat /\ Len(d) = Len(c)
      /\ \A i \in 1..Len(a) : FieldMatch(a[i], b[i])
      /\ \A i \in 1..Len(c) : FieldMatch(c[i], d[i])
  BY DEF FieldsMatch
<1> DEFINE x == a \o c
           y == b \o d
<1>2. /\ IsSeq(x) /\ Len(x) = Len(a) + Len(c)
      /\ \A i \in 1..Len(a) : x[i] = a[i]
      /\ \A i \in 1..Len(c) : x[Len(a) + i] = c[i]
  BY <1>1, ConcatFacts
<1>3. /\ IsSeq(y) /\ Len(y) = Len(b) + Len(d)
      /\ \A i \in 1..Len(b) : y[i] = b[i]
      /\ \A i \in 1..Len(d) : y[Len(b) + i] = d[i]
  BY <1>1, ConcatFacts
<1> HIDE DEF x, y
<1>4. ASSUME NEW i \in 1..Len(x) PROVE FieldMatch(x[i], y[i])
  <2>1. CASE i <= Len(a)
    <3>1. i \in 1..Len(a)
      BY <2>1
    <3> QED
      BY <1>1, <1>2, <1>3, <3>1
  <2>2. CASE ~(i <= Len(a))
    <3> DEFINE j == i - Len(a)
    <3>1. j \in 1..Len(c) /\ i = Len(a) + j
      BY <1>1, <1>2, <2>2
    <3> HIDE DEF j
    <3> QED
      BY <1>1, <1>2, <1>3, <3>1
  <2> QED
    BY <2>1, <2>2
<1> QED
  BY <1>1, <1>2, <1>3, <1>4 DEF FieldsMatch, x, y

LEMMA FieldsAreSeq ==
  ASSUME NEW ws, NEW rs, FieldsMatch(ws, rs), NEW v, Proper(ws, v),
         NEW bs, bs = [i \in 1..Len(ws) |-> WriteField(ws[i], v[ws[i].name])]
  PROVE  /\ SameNames(ws, rs)
         /\ IsSeq(bs) /\ Len(bs) = Len(ws)
         /\ \A i \in 1..Len(ws) : bs[i] = WriteField(ws[i], v[ws[i].name]) /\ IsSeq(bs[i])
         /\ WriteFields(ws, v) = FlattenSeq(bs) /\ IsSeq(WriteFields(ws, v))
<1>1. SameNames(ws, rs)
  BY DEF SameNames, FieldsMatch, FieldMatch, PlainMatch
<1>2. \A i \in 1..Len(ws) : FieldMatch(ws[i], rs[i]) /\ ProperField(ws[i], v[ws[i].name])
  BY DEF FieldsMatch, Proper
<1>3. Len(ws) \in Nat /\ bs = [i \in 1..Len(ws) |-> bs[i]]
  BY DEF FieldsMatch
<1>4. ASSUME NEW i \in 1..Len(ws)
      PROVE  bs[i] = WriteField(ws[i], v[ws[i].name]) /\ IsSeq(bs[i])
  <2>1. bs[i] = WriteField(ws[i], v[ws[i].name])
    OBVIOUS
  <2>2. IsSeq(WriteField(ws[i], v[ws[i].name]))
    BY <1>2, FieldIsSeq
  <2> QED
    BY <2>1, <2>2
<1>5. IsSeq(bs) /\ Len(bs) = Len(ws)
  BY <1>3, MadeSeq
<1>6. WriteFields(ws, v) = FlattenSeq(bs)
  BY DEF WriteFields
<1>7. IsSeq(FlattenSeq(bs))
  BY <1>4, <1>5, FlattenIsSeq
<1> QED
  BY <1>1, <1>4, <1>5, <1>6, <1>7

LEMMA FieldsRead ==
  ASSUME NEW buf, IsSeq(buf), NEW ws, NEW rs, FieldsMatch(ws, rs), NEW v, Proper(ws, v),
         NEW p, Starts(buf, p, WriteFields(ws, v))
  PROVE  Recovers(ReadFields(rs, buf, p), buf, p, WriteFields(ws, v), v,
                  Fits(rs, v), AllReadBack(ws, rs, v, ReadFields(rs, buf, p).val))
<1> DEFINE bs == [i \in 1..Len(ws) |-> WriteField(ws[i], v[ws[i].name])]
           reads == [i \in 1..Len(rs) |-> [q \in Nat |-> ReadField(rs[i], buf, q)]]
           result == ReadFields(rs, buf, p)
<1>1. /\ SameNames(ws, rs)
      /\ IsSeq(bs) /\ Len(bs) = Len(ws)
      /\ \A i \in 1..Len(ws) : bs[i] = WriteField(ws[i], v[ws[i].name]) /\ IsSeq(bs[i])
      /\ WriteFields(ws, v) = FlattenSeq(bs)
  <2> HIDE DEF bs
  <2>1. bs = [i \in 1..Len(ws) |-> WriteField(ws[i], v[ws[i].name])]
    BY DEF bs
  <2> QED
    BY <2>1, FieldsAreSeq
<1>2. Len(reads) = Len(ws) /\ \A i \in 1..Len(ws), q \in Nat : reads[i][q] = ReadField(rs[i], buf, q)
  <2>1. Len(rs) = Len(ws) /\ Len(ws) \in Nat
    BY DEF FieldsMatch
  <2>2. \A i \in 1..Len(ws), q \in Nat : reads[i][q] = ReadField(rs[i], buf, q)
    BY <2>1
  <2>3. reads = [i \in 1..Len(rs) |-> reads[i]]
    OBVIOUS
  <2> HIDE DEF reads
  <2>4. Len(reads) = Len(rs)
    BY <2>1, <2>3, MadeSeq
  <2> QED
    BY <2>1, <2>2, <2>4
<1>3. result = ReadRecord(rs, reads, p)
  BY DEF ReadFields
<1>4. HasFields(ws, v)
  BY DEF Proper
<1> HIDE DEF bs, reads, result
<1>5. ASSUME NEW i \in 1..Len(ws), NEW q \in Nat, Starts(buf, q, bs[i])
      PROVE  Recovers(reads[i][q], buf, q, bs[i], v[ws[i].name],
                      FitsField(rs[i], v[ws[i].name]),
                      ReadBack(ws[i], rs[i], v[ws[i].name], reads[i][q].val))
  <2>1. /\ FieldMatch(ws[i], rs[i]) /\ ProperField(ws[i], v[ws[i].name])
        /\ bs[i] = WriteField(ws[i], v[ws[i].name]) /\ reads[i][q] = ReadField(rs[i], buf, q)
    BY <1>1, <1>2 DEF FieldsMatch, Proper
  <2>2. Starts(buf, q, WriteField(ws[i], v[ws[i].name]))
    BY <1>5, <2>1
  <2>3. Recovers(ReadField(rs[i], buf, q), buf, q, WriteField(ws[i], v[ws[i].name]), v[ws[i].name],
                 FitsField(rs[i], v[ws[i].name]),
                 ReadBack(ws[i], rs[i], v[ws[i].name], ReadField(rs[i], buf, q).val))
    BY <2>1, <2>2, FieldReads, ZenonT(60)
  <2> QED
    BY <2>1, <2>3
<1>6. \A i \in 1..Len(ws), q \in Nat :
        Starts(buf, q, bs[i]) => Framed(reads[i][q], buf, q, bs[i])
  BY <1>5 DEF Recovers
<1>7. Starts(buf, p, FlattenSeq(bs))
  BY <1>1
<1>8. /\ Framed(result, buf, p, FlattenSeq(bs))
      /\ (\A i \in 1..Len(ws), q \in Nat :
            Starts(buf, q, bs[i]) => Yields(reads[i][q], buf, q, bs[i], v[ws[i].name]))
         => Yields(result, buf, p, FlattenSeq(bs), v)
      /\ result.ok =>
           \A n \in Range(Names(ws)) :
             LET j == IndexOf(n, Names(ws)) IN ReadAs(reads[j], buf, bs[j], result.val[n])
  BY <1>1, <1>2, <1>3, <1>4, <1>6, <1>7, RecordReads
<1>9. ASSUME Fits(rs, v) PROVE Yields(result, buf, p, FlattenSeq(bs), v)
  <2>1. ASSUME NEW i \in 1..Len(ws) PROVE FitsField(rs[i], v[ws[i].name])
    BY <1>1, <1>9 DEF Fits, SameNames
  <2>2. ASSUME NEW i \in 1..Len(ws), NEW q \in Nat, Starts(buf, q, bs[i])
        PROVE  Yields(reads[i][q], buf, q, bs[i], v[ws[i].name])
    BY <1>5, <2>1, <2>2 DEF Recovers
  <2> QED
    BY <1>8, <2>2
<1>10. ASSUME result.ok PROVE AllReadBack(ws, rs, v, result.val)
  <2>1. ASSUME NEW n \in Range(Names(ws))
        PROVE  ReadBack(Field(ws, n), Field(rs, n), v[n], result.val[n])
    <3> DEFINE j == IndexOf(n, Names(ws))
    <3>1. j \in 1..Len(ws) /\ ws[j].name = n
      BY <1>1, NamesFacts
    <3>2. ReadAs(reads[j], buf, bs[j], result.val[n])
      BY <1>8, <1>10
    <3>3. Field(ws, n) = ws[j] /\ Field(rs, n) = rs[j]
      BY <1>1, NamesFacts DEF Field
    <3> HIDE DEF j
    <3>4. PICK q \in Nat : /\ Starts(buf, q, bs[j])
                           /\ reads[j][q] = Good(q + Len(bs[j]), result.val[n])
      BY <3>2 DEF ReadAs
    <3>5. reads[j][q].ok /\ reads[j][q].val = result.val[n]
      BY <3>4, GoodFields
    <3>6. ReadBack(ws[j], rs[j], v[ws[j].name], reads[j][q].val)
      BY <1>5, <3>1, <3>4, <3>5 DEF Recovers
    <3> QED
      BY <3>1, <3>3, <3>5, <3>6
  <2> QED
    BY <2>1 DEF AllReadBack
<1> QED
  BY <1>1, <1>8, <1>9, <1>10 DEF Recovers, result

-----------------------------------------------------------------------------
(* The formats: the fields of each encoder match those of its decoder *)

LEMMA EachFacts ==
  ASSUME NEW names, Len(names) \in Nat, NEW fs, fs = [i \in 1..Len(names) |-> fs[i]]
  PROVE  IsSeq(fs) /\ Len(fs) = Len(names) /\ Len(names) \in Nat
BY MadeSeq

LEMMA NumMatches ==
  ASSUME NEW names, Len(names) \in Nat, NEW width \in Nat \ {0}
  PROVE  FlatMatch(num(width, names), num(width, names))
<1> DEFINE fs == num(width, names)
<1>1. fs = [i \in 1..Len(names) |-> [kind |-> "num", name |-> names[i], width |-> width]]
  BY DEF num, Each
<1>2. fs = [i \in 1..Len(names) |-> fs[i]]
  BY <1>1
<1> HIDE DEF fs
<1>3. IsSeq(fs) /\ Len(fs) = Len(names) /\ Len(names) \in Nat
  BY <1>2, EachFacts
<1>4. ASSUME NEW i \in 1..Len(fs) PROVE PlainMatch(fs[i], fs[i])
  <2>1. fs[i] = [kind |-> "num", name |-> names[i], width |-> width]
    BY <1>1, <1>3
  <2> QED
    BY <2>1 DEF PlainMatch
<1> QED
  BY <1>3, <1>4 DEF FlatMatch, fs

LEMMA WidthsMatch ==
  ASSUME NEW names, Len(names) \in Nat
  PROVE  /\ FlatMatch(u8(names), u8(names))
         /\ FlatMatch(u16(names), u16(names))
         /\ FlatMatch(u32(names), u32(names))
         /\ FlatMatch(u64(names), u64(names))
         /\ FlatMatch(i64(names), i64(names))
BY NumMatches DEF u8, u16, u32, u64, i64

LEMMA FlagMatches ==
  ASSUME NEW names, Len(names) \in Nat
  PROVE  FlatMatch(flag(names), flag(names)) /\ FlatMatch(opt(names), opt(names))
<1>1. ASSUME NEW fs, NEW kind \in {"flag", "opt"},
             fs = [i \in 1..Len(names) |-> [kind |-> kind, name |-> names[i]]]
      PROVE  FlatMatch(fs, fs)
  <2>1. fs = [i \in 1..Len(names) |-> fs[i]]
    BY <1>1
  <2>2. IsSeq(fs) /\ Len(fs) = Len(names) /\ Len(names) \in Nat
    BY <2>1, EachFacts
  <2>3. ASSUME NEW i \in 1..Len(fs) PROVE PlainMatch(fs[i], fs[i])
    <3>1. fs[i] = [kind |-> kind, name |-> names[i]]
      BY <1>1, <2>2
    <3> QED
      BY <3>1 DEF PlainMatch
  <2> QED
    BY <2>2, <2>3 DEF FlatMatch
<1>2. flag(names) = [i \in 1..Len(names) |-> [kind |-> "flag", name |-> names[i]]]
  BY DEF flag, Each
<1>3. opt(names) = [i \in 1..Len(names) |-> [kind |-> "opt", name |-> names[i]]]
  BY DEF opt, Each
<1> QED
  BY <1>1, <1>2, <1>3

(* A format of a single field.                                             *)
LEMMA SingleField ==
  ASSUME NEW f
  PROVE  IsSeq(<<f>>) /\ Len(<<f>>) = 1 /\ <<f>>[1] = f
<1>1. <<f>> = [i \in 1..1 |-> <<f>>[i]]
  OBVIOUS
<1> QED
  BY <1>1, MadeSeq

LEMMA SinglesMatch ==
  ASSUME NEW w, NEW r
  PROVE  /\ PlainMatch(w, r) => FlatMatch(<<w>>, <<r>>)
         /\ ShallowMatch(w, r) => NestedMatch(<<w>>, <<r>>)
         /\ FieldMatch(w, r) => FieldsMatch(<<w>>, <<r>>)
<1> DEFINE a == <<w>>
           b == <<r>>
<1>1. IsSeq(a) /\ Len(a) = 1 /\ a[1] = w /\ IsSeq(b) /\ Len(b) = 1 /\ b[1] = r
  BY SingleField
<1> HIDE DEF a, b
<1>2. \A i \in 1..Len(a) : i = 1
  BY <1>1
<1> QED
  BY <1>1, <1>2 DEF FlatMatch, NestedMatch, FieldsMatch, a, b

LEMMA TextMatches ==
  ASSUME NEW name, NEW m \in TextBounds, NEW n \in TextBounds, n <= m
  PROVE  FlatMatch(text(name, m), text(name, n))
<1> DEFINE w == [kind |-> "text", name |-> name, max |-> TextLimit(m)]
           r == [kind |-> "text", name |-> name, max |-> TextLimit(n)]
<1>1. TextLimit(m) \in Nat /\ TextLimit(n) \in Nat /\ TextLimit(n) <= TextLimit(m)
  BY TextLimitAssumption
<1>2. PlainMatch(w, r)
  BY <1>1 DEF PlainMatch
<1> HIDE DEF w, r
<1>3. FlatMatch(<<w>>, <<r>>)
  BY <1>2, SinglesMatch
<1> QED
  BY <1>3 DEF text, w, r

LEMMA SpanMatches ==
  ASSUME NEW name, NEW max \in TextBounds
  PROVE  FlatMatch(span(name), bytes(name, max))
<1> DEFINE w == [kind |-> "bytes", name |-> name]
           r == [kind |-> "bytes", name |-> name, max |-> TextLimit(max)]
<1>1. PlainMatch(w, r)
  BY TextLimitAssumption DEF PlainMatch
<1> HIDE DEF w, r
<1>2. FlatMatch(<<w>>, <<r>>)
  BY <1>1, SinglesMatch
<1> QED
  BY <1>2 DEF span, bytes, w, r

LEMMA IntMatches ==
  ASSUME NEW name, NEW lo, NEW hi
  PROVE  FlatMatch(int(name, lo, hi), int(name, lo, hi))
<1> DEFINE range == lo..hi
           w == [kind |-> "int", name |-> name, width |-> 1, range |-> range]
<1> HIDE DEF range
<1>1. PlainMatch(w, w)
  BY DEF PlainMatch
<1> HIDE DEF w
<1>2. FlatMatch(<<w>>, <<w>>)
  BY <1>1, SinglesMatch
<1> QED
  BY <1>2 DEF int, w, range

(* What matches as a flat record matches as a nested one and as a message. *)
LEMMA FlatIsNested ==
  ASSUME NEW ws, NEW rs, FlatMatch(ws, rs)
  PROVE  NestedMatch(ws, rs) /\ FieldsMatch(ws, rs)
BY DEF FlatMatch, NestedMatch, FieldsMatch, ShallowMatch, FieldMatch

LEMMA ListMatches ==
  ASSUME NEW name, NEW max \in CountBounds, NEW ws, NEW rs
  PROVE  /\ FlatMatch(ws, rs) => NestedMatch(counted(name, ws), list(name, max, rs))
         /\ NestedMatch(ws, rs) => /\ FieldsMatch(counted(name, ws), list(name, max, rs))
                                   /\ FieldsMatch(counted(name, ws), map(name, max, rs))
                                   /\ FieldsMatch(counted_blobs(name, ws), blobs(name, max, rs))
<1> DEFINE n == CountLimit(max)
           w(kind) == [kind |-> kind, name |-> name, sub |-> ws]
           r(kind) == [kind |-> kind, name |-> name, max |-> n, sub |-> rs]
<1>1. n \in Nat
  BY CountLimitAssumption
<1> HIDE DEF n
<1>2. FlatMatch(ws, rs) => ShallowMatch(w("list"), r("list"))
  BY <1>1 DEF ShallowMatch
<1>3. NestedMatch(ws, rs) => /\ FieldMatch(w("list"), r("list"))
                             /\ FieldMatch(w("list"), r("map"))
                             /\ FieldMatch(w("blobs"), r("blobs"))
  BY <1>1 DEF FieldMatch, ElementMatch
<1>4. /\ counted(name, ws) = <<w("list")>> /\ counted_blobs(name, ws) = <<w("blobs")>>
      /\ list(name, max, rs) = <<r("list")>> /\ map(name, max, rs) = <<r("map")>>
      /\ blobs(name, max, rs) = <<r("blobs")>>
  BY DEF counted, counted_blobs, list, map, blobs, n
<1> HIDE DEF w, r
<1> QED
  BY <1>2, <1>3, <1>4, SinglesMatch

(* protocol/codec.hpp: the reason is written with a larger bound.          *)
LEMMA MessageMatches == FieldsMatch(encode_message, decode_message)
<1> DEFINE f1 == int("type", 1, LastType)
           f2 == u64(<<"coordinator", "epoch", "worker_boot", "worker", "node", "agent">>)
           f3 == u64(<<"reg_gen", "obs_gen", "health_gen", "device_gen", "cap_gen", "request_id">>)
           f4 == flag(<<"ok">>)
           w5 == text("reason", 65535)
           r5 == text("reason", 4096)
           w6 == span("payload")
           r6 == bytes("payload", 2147483647)
<1>1. FlatMatch(f1, f1)
  BY IntMatches
<1>2. FlatMatch(f2, f2) /\ FlatMatch(f3, f3)
  BY WidthsMatch
<1>3. FlatMatch(f4, f4)
  BY FlagMatches
<1>4. FlatMatch(w5, r5) /\ FlatMatch(w6, r6)
  BY TextMatches, SpanMatches DEF TextBounds
<1>5. /\ encode_message = f1 \o f2 \o f3 \o f4 \o w5 \o w6
      /\ decode_message = f1 \o f2 \o f3 \o f4 \o r5 \o r6
  BY DEF encode_message, decode_message
<1> HIDE DEF f1, f2, f3, f4, w5, r5, w6, r6
<1>6. FlatMatch(encode_message, decode_message)
  BY <1>1, <1>2, <1>3, <1>4, <1>5, FlatMatchConcat
<1> QED
  BY <1>6, FlatIsNested

(* fleet/registration.hpp *)
LEMMA RegistrationMatches == FieldsMatch(encode_registration, decode_registration)
<1> DEFINE f1 == u64(<<"node", "worker", "worker_boot">>)
           f2 == u32(<<"major", "minor", "patch", "protocol_version">>)
           f3 == text("os_platform", 128)
           f4 == text("driver_version", 128)
           f5 == u32(<<"runtime_major", "runtime_minor">>)
           w6 == counted("enumerated_devices", text("key", 256))
           r6 == list("enumerated_devices", 4096, text("key", 256))
           w7 == counted("supported_capabilities", text("name", 128))
           r7 == list("supported_capabilities", 4096, text("name", 128))
           f8 == u64(<<"registration_generation", "epoch">>)
<1>1. FlatMatch(f1, f1) /\ FlatMatch(f2, f2) /\ FlatMatch(f5, f5) /\ FlatMatch(f8, f8)
  BY WidthsMatch
<1>2. FlatMatch(f3, f3) /\ FlatMatch(f4, f4)
  BY TextMatches DEF TextBounds
<1>3. FieldsMatch(w6, r6)
  <2>1. NestedMatch(text("key", 256), text("key", 256))
    BY TextMatches, FlatIsNested DEF TextBounds
  <2> QED
    BY <2>1, ListMatches DEF CountBounds
<1>4. FieldsMatch(w7, r7)
  <2>1. NestedMatch(text("name", 128), text("name", 128))
    BY TextMatches, FlatIsNested DEF TextBounds
  <2> QED
    BY <2>1, ListMatches DEF CountBounds
<1>5. /\ encode_registration = f1 \o f2 \o f3 \o f4 \o f5 \o w6 \o w7 \o f8
      /\ decode_registration = f1 \o f2 \o f3 \o f4 \o f5 \o r6 \o r7 \o f8
  BY DEF encode_registration, decode_registration
<1> HIDE DEF f1, f2, f3, f4, f5, w6, r6, w7, r7, f8
<1>6. /\ FieldsMatch(f1, f1) /\ FieldsMatch(f2, f2) /\ FieldsMatch(f3, f3) /\ FieldsMatch(f4, f4)
      /\ FieldsMatch(f5, f5) /\ FieldsMatch(f8, f8)
  BY <1>1, <1>2, <1>3, <1>4, FlatIsNested
<1> QED
  BY <1>1, <1>2, <1>3, <1>4, <1>6, <1>5, FieldsMatchConcat

(* observation/observation_codec.hpp *)
LEMMA CapabilityMatches == FlatMatch(WriteCapability, ReadCapability)
<1> DEFINE f1 == u64(<<"id">>)
           f2 == text("name", 128)
           f3 == u8(<<"kind">>)
           f4 == text("value", 256)
           f5 == text("description", 256)
<1>1. FlatMatch(f1, f1) /\ FlatMatch(f3, f3)
  BY WidthsMatch
<1>2. FlatMatch(f2, f2) /\ FlatMatch(f4, f4) /\ FlatMatch(f5, f5)
  BY TextMatches DEF TextBounds
<1>3. /\ WriteCapability = f1 \o f2 \o f3 \o f4 \o f5
      /\ ReadCapability = f1 \o f2 \o f3 \o f4 \o f5
  BY DEF WriteCapability, ReadCapability
<1> HIDE DEF f1, f2, f3, f4, f5
<1> QED
  BY <1>1, <1>2, <1>3, FlatMatchConcat

LEMMA ObservationMatches == NestedMatch(encode_device_observation, decode_device_observation)
<1> DEFINE f1 == u64(<<"device_id", "observation_generation", "health_generation">>)
           f2 == i64(<<"observed_at">>)
           f3 == u64(<<"source_worker_boot", "source_worker", "source_node", "epoch", "device_generation">>)
           f4 == u8(<<"health">>)
           f5 == text("health_explanation", 4096)
           f6 == u64(<<"total_memory", "used_memory", "free_memory">>)
           f7 == opt(<<"temperature_c", "power_w">>)
           w8 == counted("capabilities", WriteCapability)
           r8 == list("capabilities", 4096, ReadCapability)
           f9 == flag(<<"core_validation_ok">>)
           f10 == text("validation_detail", 4096)
           f11 == flag(<<"enumerated", "present", "driver_runtime_ok", "cuda_init_ok", "memory_alloc_ok">>)
           f12 == flag(<<"h2d_ok", "kernel_exec_ok", "sync_ok", "d2h_ok", "verify_ok">>)
           f13 == u8(<<"vendor">>)
           f14 == text("vendor_name", 128)
           f15 == text("uuid", 128)
           f16 == u32(<<"domain">>)
           f17 == u16(<<"bus", "device", "function">>)
           f18 == text("architecture", 64)
           f19 == u32(<<"cc_major", "cc_minor">>)
           f20 == u64(<<"total_physical_memory">>)
           f21 == i64(<<"numa_node">>)
           f22 == text("driver_version", 128)
           f23 == u32(<<"runtime_major", "runtime_minor">>)
           f24 == u32(<<"gpu_instance_id", "compute_instance_id">>)
           f25 == opt(<<"parent_device">>)
<1>1. /\ FlatMatch(f1, f1) /\ FlatMatch(f2, f2) /\ FlatMatch(f3, f3) /\ FlatMatch(f4, f4)
      /\ FlatMatch(f6, f6) /\ FlatMatch(f13, f13) /\ FlatMatch(f16, f16) /\ FlatMatch(f17, f17)
      /\ FlatMatch(f19, f19) /\ FlatMatch(f20, f20) /\ FlatMatch(f21, f21) /\ FlatMatch(f23, f23)
      /\ FlatMatch(f24, f24)
  BY WidthsMatch
<1>2. /\ FlatMatch(f7, f7) /\ FlatMatch(f9, f9) /\ FlatMatch(f11, f11) /\ FlatMatch(f12, f12)
      /\ FlatMatch(f25, f25)
  BY FlagMatches
<1>3. /\ FlatMatch(f5, f5) /\ FlatMatch(f10, f10) /\ FlatMatch(f14, f14) /\ FlatMatch(f15, f15)
      /\ FlatMatch(f18, f18) /\ FlatMatch(f22, f22)
  BY TextMatches DEF TextBounds
<1>4. NestedMatch(w8, r8)
  BY CapabilityMatches, ListMatches DEF CountBounds
<1>5. /\ encode_device_observation = f1 \o f2 \o f3 \o f4 \o f5 \o f6 \o f7 \o w8 \o f9 \o f10 \o f11 \o f12
                                       \o f13 \o f14 \o f15 \o f16 \o f17 \o f18 \o f19 \o f20 \o f21 \o f22 \o f23 \o f24
                                       \o f25
      /\ decode_device_observation = f1 \o f2 \o f3 \o f4 \o f5 \o f6 \o f7 \o r8 \o f9 \o f10 \o f11 \o f12
                                       \o f13 \o f14 \o f15 \o f16 \o f17 \o f18 \o f19 \o f20 \o f21 \o f22 \o f23 \o f24
                                       \o f25
  BY DEF encode_device_observation, decode_device_observation
<1> HIDE DEF f1, f2, f3, f4, f5, f6, f7, w8, r8, f9, f10, f11, f12, f13, f14, f15, f16, f17, f18, f19, f20, f21, f22, f23, f24, f25
<1>6. /\ NestedMatch(f1, f1) /\ NestedMatch(f2, f2) /\ NestedMatch(f3, f3) /\ NestedMatch(f4, f4)
      /\ NestedMatch(f5, f5) /\ NestedMatch(f6, f6) /\ NestedMatch(f7, f7) /\ NestedMatch(f9, f9)
      /\ NestedMatch(f10, f10) /\ NestedMatch(f11, f11) /\ NestedMatch(f12, f12) /\ NestedMatch(f13, f13)
      /\ NestedMatch(f14, f14) /\ NestedMatch(f15, f15) /\ NestedMatch(f16, f16) /\ NestedMatch(f17, f17)
      /\ NestedMatch(f18, f18) /\ NestedMatch(f19, f19) /\ NestedMatch(f20, f20) /\ NestedMatch(f21, f21)
      /\ NestedMatch(f22, f22) /\ NestedMatch(f23, f23) /\ NestedMatch(f24, f24) /\ NestedMatch(f25, f25)
  BY <1>1, <1>2, <1>3, <1>4, FlatIsNested
<1> QED
  BY <1>1, <1>2, <1>3, <1>4, <1>6, <1>5, NestedMatchConcat

LEMMA BatchMatches == FieldsMatch(encode_observation_batch, decode_observation_batch)
<1> DEFINE w1 == counted_blobs("obs", encode_device_observation)
           r1 == blobs("obs", 4096, decode_device_observation)
<1>1. FieldsMatch(w1, r1)
  BY ObservationMatches, ListMatches DEF CountBounds
<1>2. encode_observation_batch = w1 /\ decode_observation_batch = r1
  BY DEF encode_observation_batch, decode_observation_batch
<1> QED
  BY <1>1, <1>2

(* protocol/admin_payload.hpp *)
LEMMA TargetMatches == FieldsMatch(encode_identity_target, decode_identity_target)
<1> DEFINE f1 == text("identity", 1024)
<1>1. FlatMatch(f1, f1)
  BY TextMatches DEF TextBounds
<1>2. encode_identity_target = f1 /\ decode_identity_target = f1
  BY DEF encode_identity_target, decode_identity_target
<1> QED
  BY <1>1, <1>2, FlatIsNested

LEMMA DrainMatches == FieldsMatch(encode_drain_target, decode_drain_target)
<1> DEFINE f1 == text("identity", 1024)
           f2 == int("level", 0, LastDrain)
<1>1. FlatMatch(f2, f2)
  BY IntMatches
<1>2. FlatMatch(f1, f1)
  BY TextMatches DEF TextBounds
<1>3. /\ encode_drain_target = f1 \o f2
      /\ decode_drain_target = f1 \o f2
  BY DEF encode_drain_target, decode_drain_target
<1> HIDE DEF f1, f2
<1>4. FlatMatch(encode_drain_target, decode_drain_target)
  BY <1>1, <1>2, <1>3, FlatMatchConcat
<1> QED
  BY <1>4, FlatIsNested

LEMMA QuarantineMatches == FieldsMatch(encode_quarantine, decode_quarantine)
<1> DEFINE f1 == text("identity", 1024)
           f2 == text("reason", 512)
           f3 == text("source", 128)
           f4 == u64(<<"generation">>)
<1>1. FlatMatch(f4, f4)
  BY WidthsMatch
<1>2. FlatMatch(f1, f1) /\ FlatMatch(f2, f2) /\ FlatMatch(f3, f3)
  BY TextMatches DEF TextBounds
<1>3. /\ encode_quarantine = f1 \o f2 \o f3 \o f4
      /\ decode_quarantine = f1 \o f2 \o f3 \o f4
  BY DEF encode_quarantine, decode_quarantine
<1> HIDE DEF f1, f2, f3, f4
<1>4. FlatMatch(encode_quarantine, decode_quarantine)
  BY <1>1, <1>2, <1>3, FlatMatchConcat
<1> QED
  BY <1>4, FlatIsNested

(* fleet/snapshot_codec.hpp *)
LEMMA IdentityMatches == FlatMatch(write_identity, read_identity)
<1> DEFINE f1 == u8(<<"vendor">>)
           f2 == text("vendor_name", 128)
           f3 == text("uuid", 128)
           f4 == u32(<<"domain">>)
           f5 == u16(<<"bus", "device", "function">>)
           f6 == text("architecture", 64)
           f7 == u32(<<"cc_major", "cc_minor">>)
           f8 == u64(<<"total_physical_memory">>)
           f9 == i64(<<"numa_node">>)
           f10 == text("driver_version", 128)
           f11 == u32(<<"runtime_major", "runtime_minor">>)
           f12 == u32(<<"gpu_instance_id", "compute_instance_id">>)
           f13 == opt(<<"parent_device">>)
<1>1. /\ FlatMatch(f1, f1) /\ FlatMatch(f4, f4) /\ FlatMatch(f5, f5) /\ FlatMatch(f7, f7)
      /\ FlatMatch(f8, f8) /\ FlatMatch(f9, f9) /\ FlatMatch(f11, f11) /\ FlatMatch(f12, f12)
  BY WidthsMatch
<1>2. FlatMatch(f13, f13)
  BY FlagMatches
<1>3. FlatMatch(f2, f2) /\ FlatMatch(f3, f3) /\ FlatMatch(f6, f6) /\ FlatMatch(f10, f10)
  BY TextMatches DEF TextBounds
<1>4. /\ write_identity = f1 \o f2 \o f3 \o f4 \o f5 \o f6 \o f7 \o f8 \o f9 \o f10 \o f11 \o f12
                            \o f13
      /\ read_identity = f1 \o f2 \o f3 \o f4 \o f5 \o f6 \o f7 \o f8 \o f9 \o f10 \o f11 \o f12
                            \o f13
  BY DEF write_identity, read_identity
<1> HIDE DEF f1, f2, f3, f4, f5, f6, f7, f8, f9, f10, f11, f12, f13
<1> QED
  BY <1>1, <1>2, <1>3, <1>4, FlatMatchConcat

LEMMA DeviceMatches == NestedMatch(write_device_state, read_device_state)
<1> DEFINE f1 == u64(<<"device_id", "generation">>)
           w2 == write_identity
           r2 == read_identity
           f3 == flag(<<"present">>)
           f4 == u8(<<"health">>)
           f5 == text("health_explanation", 4096)
           f6 == u8(<<"eligibility">>)
           w7 == counted("eligibility_reasons", u8(<<"reason">>))
           r7 == list("eligibility_reasons", 32, u8(<<"reason">>))
           f8 == u8(<<"drain">>)
           f9 == flag(<<"quarantined">>)
           f10 == text("quarantine_reason", 512)
           f11 == text("quarantine_source", 128)
           f12 == u64(<<"quarantine_generation">>)
           f13 == i64(<<"quarantine_at">>)
           f14 == u64(<<"quarantine_device_id", "quarantine_authority">>)
           f15 == u64(<<"total_memory", "used_memory", "free_memory">>)
           f16 == opt(<<"temperature_c", "power_w">>)
           w17 == counted("capabilities", WriteCapability)
           r17 == list("capabilities", 4096, ReadCapability)
           f18 == flag(<<"core_validation_ok">>)
           f19 == text("validation_detail", 4096)
           f20 == i64(<<"last_observed_at", "last_validated_at", "last_authoritative_at">>)
           f21 == u64(<<"observation_generation", "health_generation", "source_worker_boot">>)
           f22 == flag(<<"observation_fresh">>)
<1>1. /\ FlatMatch(f1, f1) /\ FlatMatch(f4, f4) /\ FlatMatch(f6, f6) /\ FlatMatch(f8, f8)
      /\ FlatMatch(f12, f12) /\ FlatMatch(f13, f13) /\ FlatMatch(f14, f14) /\ FlatMatch(f15, f15)
      /\ FlatMatch(f20, f20) /\ FlatMatch(f21, f21)
  BY WidthsMatch
<1>2. /\ FlatMatch(f3, f3) /\ FlatMatch(f9, f9) /\ FlatMatch(f16, f16) /\ FlatMatch(f18, f18)
      /\ FlatMatch(f22, f22)
  BY FlagMatches
<1>3. FlatMatch(f5, f5) /\ FlatMatch(f10, f10) /\ FlatMatch(f11, f11) /\ FlatMatch(f19, f19)
  BY TextMatches DEF TextBounds
<1>4. FlatMatch(w2, r2)
  BY IdentityMatches
<1>5. NestedMatch(w7, r7)
  <2>1. FlatMatch(u8(<<"reason">>), u8(<<"reason">>))
    BY WidthsMatch
  <2> QED
    BY <2>1, ListMatches DEF CountBounds
<1>6. NestedMatch(w17, r17)
  BY CapabilityMatches, ListMatches DEF CountBounds
<1>7. /\ write_device_state = f1 \o w2 \o f3 \o f4 \o f5 \o f6 \o w7 \o f8 \o f9 \o f10 \o f11 \o f12
                                \o f13 \o f14 \o f15 \o f16 \o w17 \o f18 \o f19 \o f20 \o f21 \o f22
      /\ read_device_state = f1 \o r2 \o f3 \o f4 \o f5 \o f6 \o r7 \o f8 \o f9 \o f10 \o f11 \o f12
                                \o f13 \o f14 \o f15 \o f16 \o r17 \o f18 \o f19 \o f20 \o f21 \o f22
  BY DEF write_device_state, read_device_state
<1> HIDE DEF f1, w2, r2, f3, f4, f5, f6, w7, r7, f8, f9, f10, f11, f12, f13, f14, f15, f16, w17, r17, f18, f19, f20, f21, f22
<1>8. /\ NestedMatch(f1, f1) /\ NestedMatch(w2, r2) /\ NestedMatch(f3, f3) /\ NestedMatch(f4, f4)
      /\ NestedMatch(f5, f5) /\ NestedMatch(f6, f6) /\ NestedMatch(f8, f8) /\ NestedMatch(f9, f9)
      /\ NestedMatch(f10, f10) /\ NestedMatch(f11, f11) /\ NestedMatch(f12, f12) /\ NestedMatch(f13, f13)
      /\ NestedMatch(f14, f14) /\ NestedMatch(f15, f15) /\ NestedMatch(f16, f16) /\ NestedMatch(f18, f18)
      /\ NestedMatch(f19, f19) /\ NestedMatch(f20, f20) /\ NestedMatch(f21, f21) /\ NestedMatch(f22, f22)
  BY <1>1, <1>2, <1>3, <1>4, <1>5, <1>6, FlatIsNested
<1> QED
  BY <1>1, <1>2, <1>3, <1>4, <1>5, <1>6, <1>8, <1>7, NestedMatchConcat

LEMMA WorkerMatches == NestedMatch(WriteWorker, ReadWorker)
<1> DEFINE f1 == u64(<<"worker", "boot", "registration_generation", "node", "agent">>)
           f2 == u32(<<"major", "minor", "patch", "protocol_version">>)
           f3 == text("os_platform", 128)
           f4 == text("driver_version", 128)
           w5 == counted("device_identities", text("key", 256))
           r5 == list("device_identities", 4096, text("key", 256))
           w6 == counted("supported_capabilities", text("name", 128))
           r6 == list("supported_capabilities", 4096, text("name", 128))
           f7 == i64(<<"registered_at", "last_heartbeat">>)
           f8 == u64(<<"registered_epoch">>)
           f9 == flag(<<"alive", "fenced", "lost">>)
<1>1. FlatMatch(f1, f1) /\ FlatMatch(f2, f2) /\ FlatMatch(f7, f7) /\ FlatMatch(f8, f8)
  BY WidthsMatch
<1>2. FlatMatch(f9, f9)
  BY FlagMatches
<1>3. FlatMatch(f3, f3) /\ FlatMatch(f4, f4)
  BY TextMatches DEF TextBounds
<1>4. NestedMatch(w5, r5)
  <2>1. FlatMatch(text("key", 256), text("key", 256))
    BY TextMatches DEF TextBounds
  <2> QED
    BY <2>1, ListMatches DEF CountBounds
<1>5. NestedMatch(w6, r6)
  <2>1. FlatMatch(text("name", 128), text("name", 128))
    BY TextMatches DEF TextBounds
  <2> QED
    BY <2>1, ListMatches DEF CountBounds
<1>6. /\ WriteWorker = f1 \o f2 \o f3 \o f4 \o w5 \o w6 \o f7 \o f8 \o f9
      /\ ReadWorker = f1 \o f2 \o f3 \o f4 \o r5 \o r6 \o f7 \o f8 \o f9
  BY DEF WriteWorker, ReadWorker
<1> HIDE DEF f1, f2, f3, f4, w5, r5, w6, r6, f7, f8, f9
<1>7. /\ NestedMatch(f1, f1) /\ NestedMatch(f2, f2) /\ NestedMatch(f3, f3) /\ NestedMatch(f4, f4)
      /\ NestedMatch(f7, f7) /\ NestedMatch(f8, f8) /\ NestedMatch(f9, f9)
  BY <1>1, <1>2, <1>3, <1>4, <1>5, FlatIsNested
<1> QED
  BY <1>1, <1>2, <1>3, <1>4, <1>5, <1>7, <1>6, NestedMatchConcat

LEMMA ChangeMatches == FlatMatch(WriteChange, ReadChange)
<1> DEFINE f1 == u8(<<"kind">>)
           f2 == u64(<<"device_id">>)
           f3 == i64(<<"at">>)
           f4 == u64(<<"generation", "epoch">>)
           f5 == text("detail", 512)
           f6 == text("from", 128)
           f7 == text("to", 128)
<1>1. FlatMatch(f1, f1) /\ FlatMatch(f2, f2) /\ FlatMatch(f3, f3) /\ FlatMatch(f4, f4)
  BY WidthsMatch
<1>2. FlatMatch(f5, f5) /\ FlatMatch(f6, f6) /\ FlatMatch(f7, f7)
  BY TextMatches DEF TextBounds
<1>3. /\ WriteChange = f1 \o f2 \o f3 \o f4 \o f5 \o f6 \o f7
      /\ ReadChange = f1 \o f2 \o f3 \o f4 \o f5 \o f6 \o f7
  BY DEF WriteChange, ReadChange
<1> HIDE DEF f1, f2, f3, f4, f5, f6, f7
<1> QED
  BY <1>1, <1>2, <1>3, FlatMatchConcat

LEMMA SnapshotMatches == FieldsMatch(encode_snapshot, decode_snapshot)
<1> DEFINE f1 == u64(<<"coordinator", "epoch", "fleet_generation", "node_generation">>)
           w2 == counted("nodes", u64(<<"node", "generation">>) \o i64(<<"first_seen">>))
           r2 == list("nodes", 100000, u64(<<"node", "generation">>) \o i64(<<"first_seen">>))
           w3 == counted("workers", WriteWorker)
           r3 == map("workers", 100000, ReadWorker)
           w4 == counted("devices", text("key", 256) \o write_device_state)
           r4 == map("devices", 100000, text("key", 256) \o read_device_state)
           w5 == counted("change_log", WriteChange)
           r5 == list("change_log", 200000, ReadChange)
<1>1. FlatMatch(f1, f1)
  BY WidthsMatch
<1>2. FieldsMatch(w2, r2)
  <2> DEFINE a == u64(<<"node", "generation">>)
             b == i64(<<"first_seen">>)
  <2>1. FlatMatch(a, a) /\ FlatMatch(b, b)
    BY WidthsMatch
  <2> HIDE DEF a, b
  <2>2. NestedMatch(a \o b, a \o b)
    BY <2>1, FlatMatchConcat, FlatIsNested
  <2> QED
    BY <2>2, ListMatches DEF a, b, CountBounds
<1>3. FieldsMatch(w3, r3)
  BY WorkerMatches, ListMatches DEF CountBounds
<1>4. FieldsMatch(w4, r4)
  <2> DEFINE a == text("key", 256)
  <2>1. NestedMatch(a, a)
    BY TextMatches, FlatIsNested DEF TextBounds
  <2> HIDE DEF a
  <2>2. NestedMatch(a \o write_device_state, a \o read_device_state)
    BY <2>1, DeviceMatches, NestedMatchConcat
  <2> QED
    BY <2>2, ListMatches DEF a, CountBounds
<1>5. FieldsMatch(w5, r5)
  <2>1. NestedMatch(WriteChange, ReadChange)
    BY ChangeMatches, FlatIsNested
  <2> QED
    BY <2>1, ListMatches DEF CountBounds
<1>6. /\ encode_snapshot = f1 \o w2 \o w3 \o w4 \o w5
      /\ decode_snapshot = f1 \o r2 \o r3 \o r4 \o r5
  BY DEF encode_snapshot, decode_snapshot
<1> HIDE DEF f1, w2, r2, w3, r3, w4, r4, w5, r5
<1>7. FieldsMatch(f1, f1)
  BY <1>1, <1>2, <1>3, <1>4, <1>5, FlatIsNested
<1> QED
  BY <1>1, <1>2, <1>3, <1>4, <1>5, <1>7, <1>6, FieldsMatchConcat

LEMMA FormatsMatch ==
  ASSUME NEW f \in DOMAIN Formats
  PROVE  FieldsMatch(Formats[f].writer, Formats[f].reader)
<1>1. f \in {"message", "registration", "observations", "clear", "drain", "quarantine", "snapshot"}
  BY DEF Formats
<1>2. CASE f = "message"
  BY <1>2, MessageMatches DEF Formats, Format
<1>3. CASE f = "registration"
  BY <1>3, RegistrationMatches DEF Formats, Format
<1>4. CASE f = "observations"
  BY <1>4, BatchMatches DEF Formats, Format
<1>5. CASE f = "clear"
  BY <1>5, TargetMatches DEF Formats, Format
<1>6. CASE f = "drain"
  BY <1>6, DrainMatches DEF Formats, Format
<1>7. CASE f = "quarantine"
  BY <1>7, QuarantineMatches DEF Formats, Format
<1>8. CASE f = "snapshot"
  BY <1>8, SnapshotMatches DEF Formats, Format
<1> QED
  BY <1>1, <1>2, <1>3, <1>4, <1>5, <1>6, <1>7, <1>8

(* The devices of a snapshot are read as a map, by their keys.             *)
LEMMA DevicesAreMap ==
  LET devices == Field(decode_snapshot, "devices")
  IN  /\ "devices" \in Range(Names(encode_snapshot))
      /\ devices.kind = "map" /\ devices.sub[1].name = "key"
<1> DEFINE a == u64(<<"coordinator", "epoch", "fleet_generation", "node_generation">>)
           b == list("nodes", 100000, u64(<<"node", "generation">>) \o i64(<<"first_seen">>))
           c == map("workers", 100000, ReadWorker)
           sub == text("key", 256) \o read_device_state
           d == map("devices", 100000, sub)
           e == list("change_log", 200000, ReadChange)
           Right(f) == f.name = "devices" => f.kind = "map" /\ f.sub = sub
           AllRight(fs) == IsSeq(fs) /\ \A i \in 1..Len(fs) : Right(fs[i])
           Devices(fs) == \E i \in 1..Len(fs) : fs[i].name = "devices"
<1>1. sub[1].name = "key"
  <2> DEFINE t == text("key", 256)
  <2>1. IsSeq(t) /\ Len(t) = 1 /\ t[1].name = "key"
    <3> DEFINE f == [kind |-> "text", name |-> "key", max |-> TextLimit(256)]
    <3>1. t = <<f>> /\ f.name = "key"
      BY DEF text
    <3> HIDE DEF f, t
    <3> QED
      BY <3>1, SingleField
  <2>2. IsSeq(read_device_state)
    BY DeviceMatches DEF NestedMatch
  <2> HIDE DEF t
  <2>3. \A i \in 1..Len(t) : (t \o read_device_state)[i] = t[i]
    BY <2>1, <2>2, ConcatFacts
  <2>4. (t \o read_device_state)[1] = t[1]
    BY <2>1, <2>3
  <2> QED
    BY <2>1, <2>4 DEF t
<1> HIDE DEF sub
<1>2. ASSUME NEW x, NEW y, AllRight(x), AllRight(y)
      PROVE  AllRight(x \o y) /\ (Devices(x) \/ Devices(y) => Devices(x \o y))
  <2> DEFINE z == x \o y
  <2>1. /\ IsSeq(z) /\ Len(z) = Len(x) + Len(y)
        /\ \A i \in 1..Len(x) : z[i] = x[i]
        /\ \A i \in 1..Len(y) : z[Len(x) + i] = y[i]
    BY <1>2, ConcatFacts
  <2>2. Len(x) \in Nat /\ Len(y) \in Nat
    BY <1>2, SeqFacts
  <2> HIDE DEF z
  <2>3. ASSUME NEW i \in 1..Len(z) PROVE Right(z[i])
    <3>1. CASE i <= Len(x)
      <4>1. i \in 1..Len(x) /\ z[i] = x[i]
        BY <2>1, <2>2, <3>1
      <4> QED
        BY <1>2, <4>1
    <3>2. CASE ~(i <= Len(x))
      <4>1. i - Len(x) \in 1..Len(y) /\ i = Len(x) + (i - Len(x))
        BY <2>1, <2>2, <3>2
      <4>2. z[i] = y[i - Len(x)]
        BY <2>1, <4>1
      <4> QED
        BY <1>2, <4>1, <4>2
    <3> QED
      BY <3>1, <3>2
  <2>4. Devices(x) => Devices(z)
    BY <2>1, <2>2
  <2>5. ASSUME NEW i \in 1..Len(y), y[i].name = "devices" PROVE Devices(z)
    <3>1. Len(x) + i \in 1..Len(z) /\ z[Len(x) + i] = y[i]
      BY <2>1, <2>2
    <3> QED
      BY <2>5, <3>1
  <2> QED
    BY <2>1, <2>3, <2>4, <2>5 DEF z
<1>3. ASSUME NEW f, Right(f) PROVE AllRight(<<f>>) /\ (f.name = "devices" => Devices(<<f>>))
  <2> DEFINE s == <<f>>
  <2>1. IsSeq(s) /\ Len(s) = 1 /\ s[1] = f
    BY SingleField
  <2> HIDE DEF s
  <2>2. AllRight(s) /\ (f.name = "devices" => Devices(s))
    <3>1. \A i \in 1..Len(s) : i = 1
      BY <2>1
    <3> QED
      BY <1>3, <2>1, <3>1
  <2> QED
    BY <2>2 DEF s
<1>4. AllRight(a)
  <2> DEFINE names == <<"coordinator", "epoch", "fleet_generation", "node_generation">>
  <2>1. Len(names) = 4 /\ \A i \in 1..4 : names[i] # "devices"
    OBVIOUS
  <2>2. a = [i \in 1..Len(names) |-> [kind |-> "num", name |-> names[i], width |-> 8]]
    BY DEF u64, num, Each
  <2> HIDE DEF names
  <2>3. a = [i \in 1..4 |-> a[i]] /\ \A i \in 1..4 : a[i].name # "devices"
    BY <2>1, <2>2
  <2> HIDE DEF a
  <2> QED
    BY <2>3, MadeSeq
<1>5. AllRight(b) /\ AllRight(c) /\ AllRight(e) /\ AllRight(d) /\ Devices(d)
  <2> HIDE DEF AllRight, Devices
  <2> DEFINE F(kind, name, max, s) == [kind |-> kind, name |-> name, max |-> max, sub |-> s]
             n1 == CountLimit(100000)
             n2 == CountLimit(200000)
             s1 == u64(<<"node", "generation">>) \o i64(<<"first_seen">>)
  <2>1. /\ b = <<F("list", "nodes", n1, s1)>> /\ c = <<F("map", "workers", n1, ReadWorker)>>
        /\ d = <<F("map", "devices", n1, sub)>> /\ e = <<F("list", "change_log", n2, ReadChange)>>
    BY DEF list, map
  <2> HIDE DEF n1, n2, s1, b, c, d, e
  <2>2. /\ Right(F("list", "nodes", n1, s1)) /\ Right(F("map", "workers", n1, ReadWorker))
        /\ Right(F("map", "devices", n1, sub)) /\ Right(F("list", "change_log", n2, ReadChange))
        /\ F("map", "devices", n1, sub).name = "devices"
    OBVIOUS
  <2> HIDE DEF F, Right
  <2> QED
    BY <1>3, <2>1, <2>2
<1>6. AllRight(decode_snapshot) /\ Devices(decode_snapshot)
  <2>1. decode_snapshot = a \o b \o c \o d \o e
    BY DEF decode_snapshot, sub
  <2> HIDE DEF a, b, c, d, e, AllRight, Devices
  <2>2. AllRight(a \o b)
    BY <1>2, <1>4, <1>5
  <2>3. AllRight(a \o b \o c)
    BY <1>2, <1>5, <2>2
  <2>4. AllRight(a \o b \o c \o d) /\ Devices(a \o b \o c \o d)
    BY <1>2, <1>5, <2>3
  <2> QED
    BY <1>2, <1>5, <2>1, <2>4
<1> DEFINE n == "devices"
           ws == encode_snapshot
           rs == decode_snapshot
<1>7. SameNames(ws, rs) /\ SameNames(rs, rs)
  <2>1. FieldsMatch(ws, rs)
    BY SnapshotMatches
  <2> HIDE DEF ws, rs
  <2> QED
    BY <2>1 DEF SameNames, FieldsMatch, FieldMatch, PlainMatch
<1>8. Names(rs) = Names(ws)
  BY <1>7, NamesFacts
<1> HIDE DEF ws, rs
<1>9. n \in Range(Names(rs))
  <2>1. PICK i \in 1..Len(rs) : rs[i].name = n
    BY <1>6 DEF rs
  <2>2. DOMAIN Names(rs) = 1..Len(rs) /\ Names(rs)[i] = n
    BY <2>1 DEF Names
  <2> QED
    BY <2>2 DEF Range
<1>10. IndexOf(n, Names(rs)) \in 1..Len(rs) /\ rs[IndexOf(n, Names(rs))].name = n
  BY <1>7, <1>9, NamesFacts
<1>11. Field(rs, n).kind = "map" /\ Field(rs, n).sub = sub
  <2>1. \A i \in 1..Len(rs) : Right(rs[i])
    BY <1>6 DEF rs
  <2> QED
    BY <1>10, <2>1 DEF Field
<1> QED
  BY <1>1, <1>8, <1>9, <1>11 DEF ws, rs

-----------------------------------------------------------------------------
(* The theorems *)

(* What is on the wire: the encoding, less some of its end, or with more   *)
(* behind it.                                                              *)
WireInv ==
  /\ format \in DOMAIN Formats
  /\ Proper(Formats[format].writer, value)
  /\ LET b == WriteFields(Formats[format].writer, value)
     IN  \/ damage = "none" /\ wire = b
         \/ damage = "cut" /\ \E n \in 0..(Len(b) - 1) : wire = SubSeq(b, 1, n)
         \/ damage = "extended" /\ \E t \in Trailing : wire = b \o t

LEMMA EncodingIsSeq ==
  ASSUME NEW f \in DOMAIN Formats, NEW v, Proper(Formats[f].writer, v)
  PROVE  IsSeq(WriteFields(Formats[f].writer, v))
BY FormatsMatch, FieldsAreSeq

LEMMA WireInductive == Init /\ [][Next]_vars => []WireInv
<1>1. Init => WireInv
  BY ValuesAssumption DEF Init, WireInv
<1>2. WireInv /\ [Next]_vars => WireInv'
  <2> SUFFICES ASSUME WireInv, [Next]_vars PROVE WireInv'
    OBVIOUS
  <2> DEFINE b == WriteFields(Formats[format].writer, value)
  <2>1. IsSeq(b) /\ Len(b) \in Nat
    <3>1. IsSeq(b)
      BY EncodingIsSeq DEF WireInv
    <3> HIDE DEF b
    <3> QED
      BY <3>1, SeqFacts
  <2>2. CASE Cut
    <3>1. PICK n \in 1..Len(wire) : wire' = SubSeq(wire, 1, Len(wire) - n)
      BY <2>2 DEF Cut
    <3>2. wire = b /\ damage' = "cut" /\ format' = format /\ value' = value
      BY <2>2 DEF Cut, WireInv
    <3>3. Len(b) - n \in 0..(Len(b) - 1) /\ wire' = SubSeq(b, 1, Len(b) - n)
      <4> HIDE DEF b
      <4> QED
        BY <2>1, <3>1, <3>2
    <3> QED
      BY <3>2, <3>3 DEF WireInv
  <2>3. CASE Extend
    <3>1. PICK t \in Trailing : wire' = wire \o t
      BY <2>3 DEF Extend
    <3>2. wire = b /\ damage' = "extended" /\ format' = format /\ value' = value
      BY <2>3 DEF Extend, WireInv
    <3> QED
      BY <3>1, <3>2 DEF WireInv
  <2>4. CASE UNCHANGED vars
    BY <2>4 DEF WireInv, vars
  <2> QED
    BY <2>2, <2>3, <2>4 DEF Next
<1> QED
  BY <1>1, <1>2, PTL

(* What the decoder makes of each.                                         *)
LEMMA WireInvDecodes ==
  WireInv => DecodeInvertsEncode /\ OnlyTextsAreCut /\ DamagedIsRefused
<1> SUFFICES ASSUME WireInv PROVE DecodeInvertsEncode /\ OnlyTextsAreCut /\ DamagedIsRefused
  OBVIOUS
<1> DEFINE ws == Formats[format].writer
           rs == Formats[format].reader
           b == WriteFields(ws, value)
           x == ReadFields(rs, wire, 1)
<1>1. /\ format \in DOMAIN Formats /\ Proper(ws, value) /\ FieldsMatch(ws, rs)
      /\ \/ damage = "none" /\ wire = b
         \/ damage = "cut" /\ \E n \in 0..(Len(b) - 1) : wire = SubSeq(b, 1, n)
         \/ damage = "extended" /\ \E t \in Trailing : wire = b \o t
  BY FormatsMatch DEF WireInv
<1>2. IsSeq(b) /\ Len(b) \in Nat
  <2>1. IsSeq(b)
    BY <1>1, EncodingIsSeq
  <2> HIDE DEF b
  <2> QED
    BY <2>1, SeqFacts
<1>3. decoded = IF x.ok /\ x.pos = Len(wire) + 1 THEN x ELSE Failed
  BY DEF decoded, Decode
<1>4. ASSUME IsSeq(wire), Starts(wire, 1, b)
      PROVE  Recovers(x, wire, 1, b, value, Fits(rs, value), AllReadBack(ws, rs, value, x.val))
  <2> HIDE DEF ws, rs
  <2> QED
    BY <1>1, <1>4, FieldsRead
<1> HIDE DEF b, x
<1>5. CASE damage = "none"
  <2>1. wire = b
    BY <1>1, <1>5
  <2>2. IsSeq(wire) /\ Starts(wire, 1, b) /\ Full(wire, 1, b) /\ 1 + Len(b) = Len(wire) + 1
    <3>1. \A i \in 1..Len(b) : 1 + i - 1 = i
      BY <1>2
    <3> QED
      BY <1>2, <2>1, <3>1 DEF Starts, Full
  <2>3. /\ x = Failed \/ x = Good(Len(wire) + 1, x.val)
        /\ Fits(rs, value) => x = Good(Len(wire) + 1, value)
        /\ x.ok => AllReadBack(ws, rs, value, x.val)
    <3> HIDE DEF ws, rs
    <3> QED
      BY <1>4, <2>2 DEF Recovers, Framed, Yields
  <2>4. decoded = x
    BY <1>3, <2>3, GoodFields
  <2>5. DecodeInvertsEncode
    <3>1. Fits(rs, value) => decoded.ok /\ decoded.val = value
      <4> HIDE DEF rs
      <4> QED
        BY <2>3, <2>4, GoodFields
    <3> QED
      BY <3>1 DEF DecodeInvertsEncode
  <2>6. ASSUME decoded.ok PROVE Clamped(ws, value, decoded.val)
    <3> HIDE DEF ws, rs
    <3> QED
      BY <2>3, <2>4, <2>6 DEF AllReadBack, ReadBack, Clamped
  <2>7. ASSUME decoded.ok, format = "snapshot" PROVE DistinctKeys(decoded.val.devices, "key")
    <3>1. ws = encode_snapshot /\ rs = decode_snapshot
      BY <2>7 DEF Formats, Format
    <3>2. AllReadBack(encode_snapshot, decode_snapshot, value, decoded.val)
      BY <2>3, <2>4, <2>7, <3>1
    <3>3. ReadBack(Field(encode_snapshot, "devices"), Field(decode_snapshot, "devices"),
                   value["devices"], decoded.val["devices"])
      BY <3>2, DevicesAreMap DEF AllReadBack
    <3> QED
      BY <3>3, DevicesAreMap DEF ReadBack
  <2>8. OnlyTextsAreCut
    BY <2>6, <2>7 DEF OnlyTextsAreCut
  <2> QED
    BY <1>5, <2>5, <2>8 DEF DamagedIsRefused
<1>6. CASE damage = "cut"
  <2>1. PICK n \in 0..(Len(b) - 1) : wire = SubSeq(b, 1, n)
    BY <1>1, <1>6
  <2>2. n \in 0..Len(b)
    BY <1>2
  <2>3. IsSeq(wire) /\ Len(wire) = n /\ \A i \in 1..n : wire[i] = b[i]
    BY <1>2, <2>1, <2>2, PrefixFacts
  <2>4. Starts(wire, 1, b) /\ ~Full(wire, 1, b)
    <3>1. ASSUME NEW i \in 1..Len(b), 1 + i <= Len(wire) + 1 PROVE wire[1 + i - 1] = b[i]
      <4>1. i \in 1..n /\ 1 + i - 1 = i
        BY <1>2, <2>2, <2>3, <3>1
      <4> QED
        BY <2>3, <4>1
    <3>2. 1 \in 1..(Len(wire) + 1) /\ ~(1 + Len(b) <= Len(wire) + 1)
      BY <1>2, <2>1, <2>3
    <3> QED
      BY <3>1, <3>2 DEF Starts, Full
  <2>5. x = Failed
    <3> HIDE DEF ws, rs
    <3> QED
      BY <1>4, <2>3, <2>4 DEF Recovers, Framed
  <2> QED
    BY <1>3, <1>6, <2>5, GoodFields DEF DecodeInvertsEncode, OnlyTextsAreCut, DamagedIsRefused
<1>7. CASE damage = "extended"
  <2>1. PICK t \in Trailing : wire = b \o t
    BY <1>1, <1>7
  <2>2. IsSeq(t) /\ Len(t) > 0 /\ Len(t) \in Nat
    BY TrailingAssumption, SeqFacts
  <2>3. IsSeq(wire) /\ Len(wire) = Len(b) + Len(t) /\ \A i \in 1..Len(b) : wire[i] = b[i]
    BY <1>2, <2>1, <2>2, ConcatFacts
  <2>4. Starts(wire, 1, b) /\ Full(wire, 1, b)
    <3>1. 1 \in 1..(Len(wire) + 1) /\ 1 + Len(b) <= Len(wire) + 1
          /\ \A i \in 1..Len(b) : 1 + i - 1 = i
      BY <1>2, <2>2, <2>3
    <3> QED
      BY <2>3, <3>1 DEF Starts, Full
  <2>5. x = Failed \/ x = Good(1 + Len(b), x.val)
    <3> HIDE DEF ws, rs
    <3> QED
      BY <1>4, <2>3, <2>4 DEF Recovers, Framed
  <2>6. 1 + Len(b) # Len(wire) + 1
    BY <1>2, <2>2, <2>3
  <2>7. decoded = Failed
    BY <1>3, <2>5, <2>6, GoodFields
  <2> QED
    BY <1>7, <2>7, GoodFields DEF DecodeInvertsEncode, OnlyTextsAreCut, DamagedIsRefused
<1> QED
  BY <1>1, <1>5, <1>6, <1>7

(* Each decoder inverts its encoder, for all values within its bounds and  *)
(* for any scale of the bounds (DecodeInvertsEncode, of Exchange).         *)
THEOREM DecodersInvertEncoders == Spec => []DecodeInvertsEncode
BY WireInductive, WireInvDecodes, PTL DEF Spec

(* What a decoder accepts of a value beyond the bounds differs from it in  *)
(* texts that were cut, and in nothing else.                               *)
THEOREM OnlyTextsLoseAnything == Spec => []OnlyTextsAreCut
BY WireInductive, WireInvDecodes, PTL DEF Spec

(* An encoding that lost any number of bytes at its end, or that any other *)
(* bytes follow, is refused.                                               *)
THEOREM DecodersRefuseDamage == Spec => []DamagedIsRefused
BY WireInductive, WireInvDecodes, PTL DEF Spec

=============================================================================
