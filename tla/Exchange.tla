------------------------------- MODULE Exchange -------------------------------
(***************************************************************************)
(* A value on its way from an encoder to the decoder it is meant for: the  *)
(* agent's messages to the coordinator and back, and the snapshot file.    *)
(* The encoding arrives whole, or cut short, or with more bytes after it.  *)
(***************************************************************************)
EXTENDS WireFormats

CONSTANTS
  Values,      \* per format, the values encoded
  Lost(_, _),  \* bound: how many bytes of a format's value may be cut off
  Trailing     \* what may follow an encoding

-----------------------------------------------------------------------------
(* Values as the code's types make them: a record has the fields its        *)
(* encoder writes, a text or a list is a sequence of any length.            *)

IsSeq(s) == s \in Seq(Range(s))

ProperPlain(f, v) ==
  CASE f.kind = "num"  -> TRUE
    [] f.kind = "int"  -> v \in f.range
    [] f.kind = "flag" -> v \in BOOLEAN
    [] f.kind = "opt"  -> v = <<>> \/ v = <<v[1]>>
    [] f.kind \in {"text", "bytes"} -> IsSeq(v)

HasFields(fs, r) == r = [n \in Range(Names(fs)) |-> r[n]]

ProperFlat(fs, r) == HasFields(fs, r) /\ \A i \in 1..Len(fs) : ProperPlain(fs[i], r[fs[i].name])

ProperShallow(f, v) ==
  IF IsList(f) THEN IsSeq(v) /\ \A k \in 1..Len(v) : ProperFlat(f.sub, v[k]) ELSE ProperPlain(f, v)

ProperNested(fs, r) == HasFields(fs, r) /\ \A i \in 1..Len(fs) : ProperShallow(fs[i], r[fs[i].name])

ProperField(f, v) ==
  IF IsList(f) THEN IsSeq(v) /\ \A k \in 1..Len(v) : ProperNested(f.sub, v[k]) ELSE ProperPlain(f, v)

Proper(fs, r) == HasFields(fs, r) /\ \A i \in 1..Len(fs) : ProperField(fs[i], r[fs[i].name])

ASSUME ValuesAssumption ==
  \A f \in DOMAIN Formats : \A v \in Values[f] : Proper(Formats[f].writer, v)

ASSUME TrailingAssumption == \A t \in Trailing : IsSeq(t) /\ Len(t) > 0

-----------------------------------------------------------------------------
VARIABLES
  format,    \* which of Formats
  value,     \* what is encoded
  wire,      \* its encoding, as it reaches the decoder
  damage     \* "none", "cut", "extended"

vars == <<format, value, wire, damage>>

Init ==
  /\ format \in DOMAIN Formats
  /\ value \in Values[format]
  /\ wire = WriteFields(Formats[format].writer, value)
  /\ damage = "none"

Cut ==
  /\ damage = "none"
  /\ \E n \in 1..Len(wire) : /\ n \in Lost(format, value)
                             /\ wire' = SubSeq(wire, 1, Len(wire) - n)
  /\ damage' = "cut"
  /\ UNCHANGED <<format, value>>

Extend ==
  /\ damage = "none"
  /\ \E t \in Trailing : wire' = wire \o t
  /\ damage' = "extended"
  /\ UNCHANGED <<format, value>>

Next == Cut \/ Extend

Spec == Init /\ [][Next]_vars

decoded == Decode(Formats[format].reader, wire)

-----------------------------------------------------------------------------
(* Every text and every list is within the bounds its decoder states, and   *)
(* the keys of a map differ.                                                *)

FitsPlain(f, v) == f.kind \in {"text", "bytes"} => Len(v) <= f.max

FitsFlat(fs, r) == \A i \in 1..Len(fs) : FitsPlain(fs[i], r[fs[i].name])

FitsShallow(f, v) ==
  IF IsList(f) THEN Len(v) <= f.max /\ \A k \in 1..Len(v) : FitsFlat(f.sub, v[k]) ELSE FitsPlain(f, v)

FitsNested(fs, r) == \A i \in 1..Len(fs) : FitsShallow(fs[i], r[fs[i].name])

DistinctKeys(s, key) == \A i, j \in 1..Len(s) : i # j => s[i][key] # s[j][key]

FitsField(f, v) ==
  IF IsList(f)
  THEN /\ Len(v) <= f.max
       /\ \A k \in 1..Len(v) : FitsNested(f.sub, v[k])
       /\ f.kind = "map" => DistinctKeys(v, f.sub[1].name)
  ELSE FitsPlain(f, v)

Fits(fs, r) == \A i \in 1..Len(fs) : FitsField(fs[i], r[fs[i].name])

\* Each decoder inverts its encoder: for every value within the decoder's
\* bounds, up to and including the bound, what comes out is what went in, in
\* every field (core/codec.hpp and the encoders and decoders built on it).
DecodeInvertsEncode ==
  (damage = "none" /\ Fits(Formats[format].reader, value)) =>
     decoded.ok /\ decoded.val = value

-----------------------------------------------------------------------------
(* d is v with texts cut short. *)

Field(fs, n) == fs[IndexOf(n, Names(fs))]

ClampedPlain(f, v, d) == IF f.kind = "text" THEN IsPrefix(d, v) ELSE d = v

ClampedFlat(fs, v, d) == \A n \in Range(Names(fs)) : ClampedPlain(Field(fs, n), v[n], d[n])

ClampedShallow(f, v, d) ==
  IF IsList(f) THEN Len(d) = Len(v) /\ \A k \in 1..Len(v) : ClampedFlat(f.sub, v[k], d[k])
  ELSE ClampedPlain(f, v, d)

ClampedNested(fs, v, d) == \A n \in Range(Names(fs)) : ClampedShallow(Field(fs, n), v[n], d[n])

ClampedField(f, v, d) ==
  IF IsList(f) THEN Len(d) = Len(v) /\ \A k \in 1..Len(v) : ClampedNested(f.sub, v[k], d[k])
  ELSE ClampedPlain(f, v, d)

Clamped(fs, v, d) == \A n \in Range(Names(fs)) : ClampedField(Field(fs, n), v[n], d[n])

\* Values beyond the bounds do no other harm than cut texts: what a decoder
\* accepts agrees with what was encoded in every number, flag, span and list,
\* each text is a prefix of the original, and no two devices of a stored
\* snapshot are merged because their keys were cut to the same 256 characters
\* (snapshot_codec.hpp:271 refuses the file).  The property does not say that
\* cut texts are right: ByteWriter::string says "clamp is not acceptable, so we
\* encode the maximum and let the reader treat the truncation as corrupt input",
\* and no reader does, so a peer goes on with a text that nobody wrote.
OnlyTextsAreCut ==
  (damage = "none" /\ decoded.ok) =>
     /\ Clamped(Formats[format].writer, value, decoded.val)
     /\ format = "snapshot" => DistinctKeys(decoded.val.devices, "key")

\* An encoding that was cut at any byte, or that other bytes follow, is refused
\* by every decoder: no length, count or presence byte lets a decoder end early
\* (the reads of core/codec.hpp and the done() tests).
DamagedIsRefused == damage # "none" => ~decoded.ok
=============================================================================
