------------------------------- MODULE MCCodec -------------------------------
(* Drives every format: a typical value, and every value that differs from it
   in one field (a text or a list as short and as long as the bounds allow and
   beyond).  The encoding of the typical value is cut at any byte, the others
   lose their last one. *)
EXTENDS Exchange, TLC

CONSTANTS
  MaxText,     \* bound: longest text tried
  MaxCount     \* bound: longest list tried

MCTextLimit(n) ==
  CASE n = 64 -> 1 [] n = 128 -> 2 [] n = 256 -> 3 [] n = 512 -> 4
    [] n = 1024 -> 5 [] n = 4096 -> 6 [] n = 65535 -> 7 [] OTHER -> 8

MCCountLimit(n) == IF n = 200000 THEN 3 ELSE 2

MCTrailing == {Number("int", 1, 0), Number("int", 4, 0)}

-----------------------------------------------------------------------------
(* Values, derived from the fields a writer expects. *)

Text(name, len) == [i \in 1..len |-> <<name, 0>>]

\* A text of the given length whose last character tells it apart.
KeyText(name, len, k) == [Text(name, len) EXCEPT ![len] = <<name, k>>]

RECURSIVE Base(_)

\* Element k of a list: it differs from the others in its first field.
Element(sub, k, len) ==
  LET f == sub[1]
  IN  [Base(sub) EXCEPT ![f.name] = IF f.kind = "text" THEN KeyText(f.name, len, k)
                                   ELSE IF f.kind = "num" THEN <<f.name, k>> ELSE @]

\* Lists of a typical value have two elements, so that a cut may fall between them.
List(sub, count, len) == [k \in 1..count |-> Element(sub, k, len)]

BaseField(f) ==
  CASE f.kind = "num" -> <<f.name, 0>>
    [] f.kind = "int" -> CHOOSE n \in f.range : \A m \in f.range : m <= n
    [] f.kind = "flag" -> TRUE
    [] f.kind = "opt" -> <<<<f.name, 0>>>>
    [] f.kind \in {"text", "bytes"} -> Text(f.name, 1)
    [] OTHER -> List(f.sub, 2, 2)

Base(fs) == [n \in Range(Names(fs)) |-> BaseField(Field(fs, n))]

RECURSIVE Variants(_, _)

VariantsOfField(f, v) ==
  CASE f.kind = "num" -> {<<f.name, 9>>}
    [] f.kind = "int" -> f.range \ {v}
    [] f.kind = "flag" -> {FALSE}
    [] f.kind = "opt" -> {<<>>}
    [] f.kind \in {"text", "bytes"} -> {Text(f.name, n) : n \in 0..MaxText}
    [] OTHER -> {List(f.sub, n, len) : n \in 0..MaxCount, len \in 1..(MCTextLimit(256) + 1)}
                  \cup {[v EXCEPT ![1] = e] : e \in Variants(f.sub, v[1])}

Variants(fs, r) ==
  UNION {{[r EXCEPT ![fs[i].name] = v] : v \in VariantsOfField(fs[i], r[fs[i].name])} : i \in DOMAIN fs}

Typical == [f \in DOMAIN Formats |-> Base(Formats[f].writer)]

MCValues == [f \in DOMAIN Formats |-> {Typical[f]} \cup Variants(Formats[f].writer, Typical[f])]

MCLost(f, v) == IF v = Typical[f] THEN Nat ELSE {1}

=============================================================================
