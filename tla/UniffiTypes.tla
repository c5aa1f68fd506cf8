---------------------------- MODULE UniffiTypes -----------------------------
(***************************************************************************)
(* The types that cross between Python and the core, the values they have  *)
(* and the cells these are written as.                                     *)
(*                                                                         *)
(* A type is a descriptor; BindingTypes and CoreTypes hold the descriptors *)
(* of the two sides.  A value keeps what the converters tell apart: its    *)
(* kind, where it came from (a path of names) and its size, which is the   *)
(* bit length of an integer and the byte length of a text.  Texts are made *)
(* of two-byte characters.  A buffer holds cells, one per write.           *)
(***************************************************************************)
EXTENDS Integers, Sequences, TLC, SequencesExt

(* Type descriptors. *)

Unsigned(format, bits) == [k |-> "int", f |-> format, bits |-> bits]
UInt8 == Unsigned("B", 8)
UInt32 == Unsigned("I", 32)
UInt64 == Unsigned("Q", 64)
Double == [k |-> "double"]
Str == [k |-> "str"]
Bytes == [k |-> "bytes"]
Void == [k |-> "void"]

\* Python's converter writes any small integer for a Boolean and reads any
\* byte but 0 as true; the core refuses every byte but 0 and 1.
Bool == [k |-> "bool", strict |-> FALSE]
StrictBool == [k |-> "bool", strict |-> TRUE]

Optional(t) == [k |-> "optional", of |-> t]
Sequence(t) == [k |-> "sequence", of |-> t]

\* A record is the sequence of its fields, a union the sequence of its
\* variants with theirs; each is a function from one name.
Record(fields) == [k |-> "record", fields |-> fields]
Union(variants) == [k |-> "union", variants |-> variants]

\* A map is written as the sequence of its entries, each a key and a value.
MapStringString == Sequence(Record(<<"key" :> Str, "value" :> Str>>))
Enum(names) == Union([i \in DOMAIN names |-> names[i] :> <<>>])

Signature(kind, args, ret, err) == [kind |-> kind, args |-> args, ret |-> ret, err |-> err]
Function(args, ret, err) == Signature("sync", args, ret, err)
AsyncFunction(args, ret, err) == Signature("async", args, ret, err)

NameOf(field) == CHOOSE n \in DOMAIN field : TRUE
TypeOf(field) == field[NameOf(field)]

(* Values. *)

Scalar(kind, tag, n) == [is |-> kind, tag |-> tag, n |-> n]
None == [is |-> "none"]
Items(s) == [is |-> "items", items |-> s]
Fields(name, f) == [is |-> "fields", name |-> name, fields |-> f]
NoFields == [n \in {} |-> None]
Garbled == [is |-> "garbled"]

\* A shape chooses one value of every type: full or empty, the variant
\* picked of each union, and an odd value put in place of every scalar it
\* applies to.
Odds == {"big", "negative", "surrogate", "two", "other"}
Shape(full, pick, odd) == [full |-> full, pick |-> pick, odd |-> odd]

IntSize(t, s) ==
    CASE s.odd = "big" -> t.bits + 1
      [] s.odd = "negative" -> -1
      [] OTHER -> IF s.full THEN t.bits ELSE 0

\* A lone surrogate has no UTF-8 encoding: its byte length is given as -1.
TextSize(s) ==
    CASE s.odd = "surrogate" -> -1
      [] OTHER -> IF s.full THEN 20 ELSE 0

Text(kind, tag, n) == Scalar(kind, IF n = 0 THEN <<>> ELSE tag, n)

SampleScalar(t, s, tag) ==
    IF s.odd = "other" THEN Scalar("other", tag, 1)
    ELSE CASE t.k = "int" -> Scalar("int", tag, IntSize(t, s))
           [] t.k = "double" -> Scalar("float", tag, 1)
           [] t.k = "str" -> Text("str", tag, TextSize(s))
           [] t.k = "bytes" -> Text("bytes", tag, IF s.full THEN 20 ELSE 0)
           [] t.k = "bool" -> IF s.odd = "two" THEN Scalar("int", tag, 2)
                              ELSE Scalar("bool", tag, IF s.full THEN 1 ELSE 0)
           [] t.k = "void" -> None

(* Cells: the format, and the origin and the size of what was written. *)

\* An origin is a path of labels: the names of arguments, fields and variants,
\* the places in a list, and what an answer is.
Labels == STRING \cup {"first", "second", "result", "error", "message"}

Cell(format, tag, n) == [f |-> format, tag |-> tag, n |-> n]
Number(n) == Cell("i", <<>>, n)
Flag(n) == Cell("B", <<>>, n)

Width(c) ==
    CASE c.f = "B" -> 1
      [] c.f \in {"i", "I"} -> 4
      [] c.f \in {"Q", "d"} -> 8
      [] c.f = "raw" -> c.n

\* The cells that a buffer can hold.
Cells == {c \in [f : {"B", "i", "I", "Q", "d", "raw"}, tag : Seq(Labels), n : Int] :
            c.f = "raw" => c.n \in Nat}

\* What a converter reads: a value and the cells left, or a failure.
Got(v, rest) == [ok |-> TRUE, v |-> v, rest |-> rest]
Failed == [ok |-> FALSE, v |-> Garbled, rest |-> <<>>]

(* How an argument or a result crosses the interface. *)

\* Numbers and Booleans cross as themselves, everything else in a buffer.
Direct(t) == t.k \in {"int", "double", "bool", "void"}

CType(t) ==
    CASE t.k = "int" -> [Q |-> "u64", I |-> "u32", B |-> "u8"][t.f]
      [] t.k = "double" -> "f64"
      [] t.k = "bool" -> "i8"
      [] t.k = "void" -> "void"
      [] OTHER -> "buffer"

\* A Boolean that crosses directly is 1 for every value Python holds true.
DirectValue(t, v) == IF t.k = "bool" THEN Scalar("bool", v.tag, IF v.n = 0 THEN 0 ELSE 1) ELSE v
=============================================================================
