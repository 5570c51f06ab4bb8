-------------------------------- MODULE Codec --------------------------------
(***************************************************************************)
(* The binary encodings: ByteWriter and ByteReader (core/codec.hpp), and   *)
(* every encoder and decoder built on them, for messages, registrations,   *)
(* observation batches, operators' requests and the stored snapshot.       *)
(*                                                                         *)
(* An encoder is the list of the fields it writes, a decoder the list of   *)
(* the fields it reads, each transcribed from its own function: widths,    *)
(* order and limits may differ.  WriteFields and ReadFields run such a     *)
(* list on a record and on a buffer.  A buffer is a sequence of bytes; a   *)
(* byte knows the number it is part of, so that a read that is out of step *)
(* with the writer yields Junk.  A number that only passes through is      *)
(* represented by a name; a text is a short sequence of characters, and    *)
(* the limits are scaled down by TextLimit and CountLimit.                 *)
(*                                                                         *)
(* The formats nest lists two deep (the capabilities of the devices of a   *)
(* snapshot), so there are three kinds of record: flat ones, of plain      *)
(* fields; nested ones, whose lists are of flat records; and whole         *)
(* messages, whose lists are of nested records.                            *)
(***************************************************************************)
EXTENDS Integers, Sequences, SequencesExt

CONSTANTS
  TextLimit(_),    \* scaled bound of a text the code bounds by n bytes
  CountLimit(_),   \* scaled bound of a list the code bounds by n elements
  LastType,        \* MessageType::SAVE; HELLO is 1
  LastDrain        \* DrainState::DRAINED; ACTIVE is 0

\* The bounds the code states.  Scaling keeps their order.
TextBounds == {64, 128, 256, 512, 1024, 4096, 65535, 2147483647}
CountBounds == {32, 4096, 100000, 200000}

ASSUME TextLimitAssumption ==
  \A n \in TextBounds : /\ TextLimit(n) \in Nat
                        /\ \A m \in TextBounds : m <= n => TextLimit(m) <= TextLimit(n)

ASSUME CountLimitAssumption == \A n \in CountBounds : CountLimit(n) \in Nat

-----------------------------------------------------------------------------
(* Fields.  "num" passes a number through, "int" has a checked range lo..hi, *)
(* "flag" is a bool, "opt" a presence byte and a number, "text" a            *)
(* length-prefixed string, "bytes" a length-prefixed span, "list" a counted  *)
(* list of sub-records, "map" one whose decoder refuses a repeated key,      *)
(* "blobs" a counted list of length-prefixed sub-encodings.  Writers measure *)
(* their spans and lists and check no bound (span, counted, counted_blobs);  *)
(* readers have one.                                                         *)

Each(names, field(_)) == [i \in 1..Len(names) |-> field(names[i])]

num(width, names) == Each(names, LAMBDA n : [kind |-> "num", name |-> n, width |-> width])
u8(names) == num(1, names)
u16(names) == num(2, names)
u32(names) == num(4, names)
u64(names) == num(8, names)
i64(names) == num(8, names)

int(name, lo, hi) == <<[kind |-> "int", name |-> name, width |-> 1, range |-> lo..hi]>>
flag(names) == Each(names, LAMBDA n : [kind |-> "flag", name |-> n])
opt(names) == Each(names, LAMBDA n : [kind |-> "opt", name |-> n])
text(name, max) == <<[kind |-> "text", name |-> name, max |-> TextLimit(max)]>>
span(name) == <<[kind |-> "bytes", name |-> name]>>
bytes(name, max) == <<[kind |-> "bytes", name |-> name, max |-> TextLimit(max)]>>
counted(name, sub) == <<[kind |-> "list", name |-> name, sub |-> sub]>>
counted_blobs(name, sub) == <<[kind |-> "blobs", name |-> name, sub |-> sub]>>
list(name, max, sub) == <<[kind |-> "list", name |-> name, max |-> CountLimit(max), sub |-> sub]>>
map(name, max, sub) == <<[kind |-> "map", name |-> name, max |-> CountLimit(max), sub |-> sub]>>
blobs(name, max, sub) == <<[kind |-> "blobs", name |-> name, max |-> CountLimit(max), sub |-> sub]>>

IsList(f) == f.kind \in {"list", "map", "blobs"}

-----------------------------------------------------------------------------
(* ByteWriter *)

\* Byte i of v as a number of the given width.  Numbers the decoders look at
\* are integers, the others are names.
Byte(tag, width, v, i) == <<tag, width, v, i>>

Number(tag, width, v) == [i \in 1..width |-> Byte(tag, width, v, i)]

Characters(s) == [i \in 1..Len(s) |-> Byte("chr", 1, s[i], 1)]

\* ByteWriter::string: a text that is too long is cut.
clamp(s, max) == IF Len(s) > max THEN SubSeq(s, 1, max) ELSE s

WriteText(s, max) ==
  LET c == clamp(s, max) IN Number("int", 4, Len(c)) \o Characters(c)

\* ByteWriter::bytes: the length, then the bytes, however many.
WriteBlob(bs) == Number("int", 4, Len(bs)) \o bs

WritePlain(f, v) ==
  CASE f.kind = "num"  -> Number("sym", f.width, v)
    [] f.kind = "int"  -> Number("int", f.width, v)
    [] f.kind = "flag" -> Number("int", 1, IF v THEN 1 ELSE 0)
    [] f.kind = "opt"  -> IF v = <<>> THEN Number("int", 1, 0)
                          ELSE Number("int", 1, 1) \o Number("sym", 8, v[1])
    [] f.kind = "text" -> WriteText(v, f.max)
    [] f.kind = "bytes" -> WriteBlob(Characters(v))

\* u32(size), then the elements.
WriteList(elements) == Number("int", 4, Len(elements)) \o FlattenSeq(elements)

WriteFlat(fs, r) == FlattenSeq([i \in 1..Len(fs) |-> WritePlain(fs[i], r[fs[i].name])])

WriteShallow(f, v) ==
  IF IsList(f) THEN WriteList([k \in 1..Len(v) |-> WriteFlat(f.sub, v[k])]) ELSE WritePlain(f, v)

WriteNested(fs, r) == FlattenSeq([i \in 1..Len(fs) |-> WriteShallow(fs[i], r[fs[i].name])])

WriteElement(f, e) ==
  IF f.kind = "blobs" THEN WriteBlob(WriteNested(f.sub, e)) ELSE WriteNested(f.sub, e)

WriteField(f, v) ==
  IF IsList(f) THEN WriteList([k \in 1..Len(v) |-> WriteElement(f, v[k])]) ELSE WritePlain(f, v)

WriteFields(fs, r) == FlattenSeq([i \in 1..Len(fs) |-> WriteField(fs[i], r[fs[i].name])])

-----------------------------------------------------------------------------
(* ByteReader.  A read succeeds, with what it read and where the next one    *)
(* starts, or fails.                                                         *)

Good(pos, val) == [ok |-> TRUE, pos |-> pos, val |-> val]
Failed == [ok |-> FALSE]

\* What a read yields that is out of step with the writer.
JunkInt == 10^6
Junk == <<"junk", 0>>

ReadNumber(buf, pos, tag, width) ==
  IF pos + width - 1 > Len(buf) THEN Failed
  ELSE LET v == buf[pos][3]
           inStep == \A i \in 1..width : buf[pos + i - 1] = Byte(tag, width, v, i)
       IN  Good(pos + width, IF inStep THEN v ELSE IF tag = "int" THEN JunkInt ELSE Junk)

\* ByteReader::bytes and string: a length over the bound or past the end fails.
ReadText(buf, pos, max) ==
  LET len == ReadNumber(buf, pos, "int", 4)
  IN  IF ~len.ok \/ len.val > max \/ len.pos + len.val - 1 > Len(buf) THEN Failed
      ELSE Good(len.pos + len.val,
                [i \in 1..len.val |->
                   LET b == buf[len.pos + i - 1] IN IF b[1] = "chr" THEN b[3] ELSE Junk])

ReadPlain(f, buf, pos) ==
  CASE f.kind = "num"  -> ReadNumber(buf, pos, "sym", f.width)
    [] f.kind = "int"  -> LET n == ReadNumber(buf, pos, "int", f.width)
                          IN  IF n.ok /\ n.val \in f.range THEN n ELSE Failed
    [] f.kind = "flag" -> LET n == ReadNumber(buf, pos, "int", 1)
                          IN  IF n.ok THEN Good(n.pos, n.val # 0) ELSE Failed
    [] f.kind = "opt"  -> LET n == ReadNumber(buf, pos, "int", 1)
                              v == ReadNumber(buf, n.pos, "sym", 8)
                          IN  IF ~n.ok THEN Failed
                              ELSE IF n.val = 0 THEN Good(n.pos, <<>>)
                              ELSE IF v.ok THEN Good(v.pos, <<v.val>>) ELSE Failed
    [] f.kind \in {"text", "bytes"} -> ReadText(buf, pos, f.max)

\* One more read, from where the ones before it ended, unless one of them has
\* failed.  read[p] is what it gives at position p.
After(prev, read) ==
  LET r == read[prev.pos]
  IN  IF ~prev.ok THEN Failed
      ELSE IF ~r.ok THEN Failed ELSE Good(r.pos, Append(prev.val, r.val))

\* Reads one after another.
Walk(reads, pos) ==
  LET acc[i \in 0..Len(reads)] ==
        IF i = 0 THEN Good(pos, <<>>) ELSE After(acc[i - 1], reads[i])
  IN  acc[Len(reads)]

Names(fs) == [i \in 1..Len(fs) |-> fs[i].name]

IndexOf(n, names) == CHOOSE i \in 1..Len(names) : names[i] = n

\* The record whose fields have been read.
ReadRecord(fs, reads, pos) ==
  LET all == Walk(reads, pos)
  IN  IF all.ok THEN Good(all.pos, [n \in Range(Names(fs)) |-> all.val[IndexOf(n, Names(fs))]]) ELSE Failed

\* A counted list: the count is checked, then the elements are read.  A map
\* refuses an element whose key, its first field, it already holds.
ReadList(f, read, buf, pos) ==
  LET count == ReadNumber(buf, pos, "int", 4)
      all == Walk([k \in 1..count.val |-> read], count.pos)
      key == f.sub[1].name
      repeated == f.kind = "map" /\ \E i, j \in 1..count.val :
                                      i # j /\ all.val[i][key] = all.val[j][key]
  IN  IF ~count.ok \/ count.val > f.max THEN Failed
      ELSE IF ~all.ok \/ repeated THEN Failed ELSE all

ReadFlat(fs, buf, pos) ==
  ReadRecord(fs, [i \in 1..Len(fs) |-> [p \in Nat |-> ReadPlain(fs[i], buf, p)]], pos)

ReadShallow(f, buf, pos) ==
  IF IsList(f) THEN ReadList(f, [p \in Nat |-> ReadFlat(f.sub, buf, p)], buf, pos)
  ELSE ReadPlain(f, buf, pos)

ReadNested(fs, buf, pos) ==
  ReadRecord(fs, [i \in 1..Len(fs) |-> [p \in Nat |-> ReadShallow(fs[i], buf, p)]], pos)

\* An element of a list; a blob has to be used up to its last byte.
ReadElement(f, buf, pos) ==
  LET len == ReadNumber(buf, pos, "int", 4)
      end == len.pos + len.val - 1
      e == ReadNested(f.sub, SubSeq(buf, 1, end), len.pos)
  IN  IF f.kind # "blobs" THEN ReadNested(f.sub, buf, pos)
      ELSE IF ~len.ok \/ end > Len(buf) THEN Failed
      ELSE IF ~e.ok \/ e.pos # end + 1 THEN Failed ELSE e

ReadField(f, buf, pos) ==
  IF IsList(f) THEN ReadList(f, [p \in Nat |-> ReadElement(f, buf, p)], buf, pos)
  ELSE ReadPlain(f, buf, pos)

ReadFields(fs, buf, pos) ==
  ReadRecord(fs, [i \in 1..Len(fs) |-> [p \in Nat |-> ReadField(fs[i], buf, p)]], pos)

Mut_Decode(fs, buf) == ReadFields(fs, buf, 1)

\* A decoder runs its reads over the whole buffer and refuses bytes left over.
Decode(fs, buf) ==
  LET r == ReadFields(fs, buf, 1)
  IN  IF r.ok /\ r.pos = Len(buf) + 1 THEN r ELSE Failed
=============================================================================
