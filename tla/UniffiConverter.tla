-------------------------- MODULE UniffiConverter ---------------------------
(***************************************************************************)
(* The converters of the generated Python binding: what a type accepts     *)
(* (check_lower), which cells it writes into a RustBuffer (write) and what *)
(* it reads back (read); lower and lift.                                   *)
(*                                                                         *)
(* A converter is defined by those of the parts of its type, which are     *)
(* parameters: CheckLower by check_lower, Write by write.  The converters  *)
(* of the binding are those with which the two are the same (Recursive).   *)
(***************************************************************************)
EXTENDS UniffiTypes

CONSTANTS
    sample(_, _, _),    \* of a part: the value that a shape chooses
    check_lower(_, _),  \* whether its converter accepts a value
    raises(_, _),       \* whether it cannot write an accepted value
    write(_, _),        \* the cells it writes for a value
    read(_, _),         \* what it reads from the front of cells
    agree(_, _, _, _),  \* whether two sides' layouts of it agree
    is_value(_, _, _)   \* whether a value is one it can write

(* The fields of a record or of a variant, the variant of a value. *)

Names(fields) == {NameOf(fields[i]) : i \in DOMAIN fields}
FieldTypes(fields) == [i \in DOMAIN fields |-> TypeOf(fields[i])]
FieldValues(fields, v) == [i \in DOMAIN fields |-> v.fields[NameOf(fields[i])]]
ItemTypes(t, n) == [i \in 1 .. n |-> t.of]
VariantOf(t, v) == CHOOSE i \in DOMAIN t.variants : NameOf(t.variants[i]) = v.name

(* The value of a type that a shape chooses. *)

SampleFields(name, fields, s, tag) ==
    Fields(name, [n \in Names(fields) |->
        LET i == CHOOSE i \in DOMAIN fields : NameOf(fields[i]) = n
        IN  sample(TypeOf(fields[i]), s, Append(tag, n))])

Picked(t, s) == t.variants[((s.pick - 1) % Len(t.variants)) + 1]

Sample(t, s, tag) ==
    CASE t.k = "optional" -> IF s.full THEN sample(t.of, s, tag) ELSE None
      [] t.k = "sequence" ->
            Items([i \in 1 .. (IF s.full THEN 2 ELSE 0) |->
                sample(t.of, s, Append(tag, <<"first", "second">>[i]))])
      [] t.k = "record" -> SampleFields("", t.fields, s, tag)
      [] t.k = "union" ->
            LET v == Picked(t, s)
            IN  SampleFields(NameOf(v), TypeOf(v), s, Append(tag, NameOf(v)))
      [] OTHER -> SampleScalar(t, s, tag)

(* check_lower: what a caller may pass. *)

CheckInt(t, v) == v.is \in {"int", "bool"} /\ v.n \in 0 .. t.bits
CheckStr(v) == v.is = "str"

CheckAll(types, values) == \A i \in DOMAIN types : check_lower(types[i], values[i])

CheckLower(t, v) ==
    CASE t.k = "int" -> CheckInt(t, v)
      [] t.k = "double" -> v.is = "float"
      [] t.k = "bool" -> TRUE
      [] t.k = "str" -> CheckStr(v)
      [] t.k = "bytes" -> v.is = "bytes"
      [] t.k = "optional" -> v.is = "none" \/ check_lower(t.of, v)
      [] t.k = "sequence" -> CheckAll(ItemTypes(t, Len(v.items)), v.items)
      [] t.k = "record" -> CheckAll(FieldTypes(t.fields), FieldValues(t.fields, v))
      [] t.k = "union" ->
            \E i \in DOMAIN t.variants :
                LET fields == TypeOf(t.variants[i])
                IN  /\ NameOf(t.variants[i]) = v.name
                    /\ CheckAll(FieldTypes(fields), FieldValues(fields, v))

(* write: the cells a value becomes, and the values no cell can hold. *)

AnyRaises(types, values) == \E i \in DOMAIN types : raises(types[i], values[i])

\* struct.pack refuses what is not an integer of one byte, str.encode a lone
\* surrogate; check_lower accepted both.
WriteRaises(t, v) ==
    CASE t.k = "bool" -> v.is \notin {"int", "bool"}
      [] t.k = "str" -> v.n < 0
      [] t.k = "optional" -> v.is # "none" /\ raises(t.of, v)
      [] t.k = "sequence" -> AnyRaises(ItemTypes(t, Len(v.items)), v.items)
      [] t.k = "record" -> AnyRaises(FieldTypes(t.fields), FieldValues(t.fields, v))
      [] t.k = "union" ->
            LET fields == TypeOf(t.variants[VariantOf(t, v)])
            IN  AnyRaises(FieldTypes(fields), FieldValues(fields, v))
      [] OTHER -> FALSE

\* The cells of the parts, one after the other.
WriteAll(types, values) ==
    LET from[i \in 1 .. Len(types) + 1] ==
            IF i > Len(types) THEN <<>> ELSE write(types[i], values[i]) \o from[i + 1]
    IN  from[1]

\* Variants are numbered from 1 in the order of their declaration.
Write(t, v) ==
    CASE t.k = "int" -> <<Cell(t.f, v.tag, v.n)>>
      [] t.k = "double" -> <<Cell("d", v.tag, v.n)>>
      [] t.k = "bool" -> <<Cell("B", v.tag, v.n)>>
      [] t.k \in {"str", "bytes"} -> <<Number(v.n)>> \o <<Cell("raw", v.tag, v.n)>>
      [] t.k = "optional" -> IF v.is = "none" THEN <<Flag(0)>> ELSE <<Flag(1)>> \o write(t.of, v)
      [] t.k = "sequence" ->
            <<Number(Len(v.items))>> \o WriteAll(ItemTypes(t, Len(v.items)), v.items)
      [] t.k = "record" -> WriteAll(FieldTypes(t.fields), FieldValues(t.fields, v))
      [] t.k = "union" ->
            LET i == VariantOf(t, v)
                fields == TypeOf(t.variants[i])
            IN  <<Number(i)>> \o WriteAll(FieldTypes(fields), FieldValues(fields, v))

(* read: the value at the front of the cells, and the cells left.          *)
(* Reading a cell in another format than it was written, or past the end   *)
(* of the buffer, is a failure.                                            *)

ReadScalar(format, kind, cells) ==
    IF cells = <<>> \/ Head(cells).f # format THEN Failed
    ELSE Got(Scalar(kind, Head(cells).tag, Head(cells).n), Tail(cells))

ReadBool(strict, cells) ==
    LET r == ReadScalar("B", "bool", cells)
    IN  CASE ~r.ok -> Failed
          [] r.v.n > 1 -> IF strict THEN Failed ELSE Got([r.v EXCEPT !.n = 1], r.rest)
          [] OTHER -> r

ReadText(kind, cells) ==
    LET size == ReadScalar("i", "int", cells)
        r == ReadScalar("raw", kind, size.rest)
    IN  IF size.ok /\ r.ok /\ r.v.n = size.v.n THEN r ELSE Failed

\* The values of the parts, read one after the other.
ReadAll(types, cells) ==
    LET upto[n \in 0 .. Len(types)] ==
            IF n = 0 THEN Got(<<>>, cells)
            ELSE LET before == upto[n - 1]
                     r == read(types[n], before.rest)
                 IN  IF before.ok /\ r.ok THEN Got(Append(before.v, r.v), r.rest) ELSE Failed
    IN  upto[Len(types)]

ReadFields(name, fields, cells) ==
    LET r == ReadAll(FieldTypes(fields), cells)
    IN  IF ~r.ok THEN Failed
        ELSE Got(Fields(name, [n \in Names(fields) |->
                    r.v[CHOOSE i \in DOMAIN fields : NameOf(fields[i]) = n]]), r.rest)

ReadItems(t, n, cells) ==
    LET r == ReadAll(ItemTypes(t, n), cells)
    IN  IF r.ok THEN Got(Items(r.v), r.rest) ELSE Failed

Read(t, cells) ==
    LET size == ReadScalar("i", "int", cells)
        flag == ReadScalar("B", "int", cells)
    IN  CASE t.k = "int" -> ReadScalar(t.f, "int", cells)
          [] t.k = "double" -> ReadScalar("d", "float", cells)
          [] t.k = "bool" -> ReadBool(t.strict, cells)
          [] t.k \in {"str", "bytes"} -> ReadText(t.k, cells)
          [] t.k = "optional" ->
                CASE ~flag.ok \/ flag.v.n \notin 0 .. 1 -> Failed
                  [] flag.v.n = 0 -> Got(None, flag.rest)
                  [] OTHER -> read(t.of, flag.rest)
          [] t.k = "sequence" -> IF size.ok THEN ReadItems(t, size.v.n, size.rest) ELSE Failed
          [] t.k = "record" -> ReadFields("", t.fields, cells)
          [] t.k = "union" ->
                IF ~size.ok \/ size.v.n \notin DOMAIN t.variants THEN Failed
                ELSE LET v == t.variants[size.v.n]
                     IN  ReadFields(NameOf(v), TypeOf(v), size.rest)

(* lower and lift: a value into a buffer of its own and back. *)

\* A text that is an argument or a result of its own has no length before it.
lower(t, v) == IF t.k = "str" THEN <<Cell("raw", v.tag, v.n)>> ELSE write(t, v)

lift(t, cells) == IF t.k = "str" THEN ReadScalar("raw", "str", cells) ELSE read(t, cells)

(* The layouts of the two sides, nested up to a depth, and the values a    *)
(* converter can write.  In both, numbers says whether a number may stand  *)
(* for a nested Boolean: the reader must then be the core's, which refuses *)
(* it.                                                                     *)

Named(fields) ==
    /\ Len(fields) \in Nat /\ DOMAIN fields = 1 .. Len(fields)
    /\ Names(fields) \subseteq STRING
    /\ \A i, j \in DOMAIN fields : NameOf(fields[i]) = NameOf(fields[j]) => i = j

SameNames(written, read_) ==
    /\ Named(written) /\ Named(read_) /\ Len(written) = Len(read_)
    /\ \A i \in DOMAIN written : NameOf(written[i]) = NameOf(read_[i])

FieldsAgree(depth, written, read_, numbers) ==
    /\ SameNames(written, read_)
    /\ \A i \in DOMAIN written : agree(depth - 1, TypeOf(written[i]), TypeOf(read_[i]), numbers)

Agree(depth, w, r, numbers) ==
    /\ depth > 0 /\ w.k = r.k
    /\ CASE w.k = "int" -> w.f = r.f /\ w.f \in {"B", "I", "Q"} /\ w.bits \in Nat
         [] w.k = "bool" -> numbers => r.strict
         [] w.k \in {"double", "str", "bytes"} -> TRUE
         [] w.k \in {"optional", "sequence"} -> agree(depth - 1, w.of, r.of, numbers)
         [] w.k = "record" -> FieldsAgree(depth, w.fields, r.fields, numbers)
         [] w.k = "union" ->
                /\ SameNames(w.variants, r.variants) /\ Len(w.variants) > 0
                /\ \A i \in DOMAIN w.variants :
                      FieldsAgree(depth, TypeOf(w.variants[i]), TypeOf(r.variants[i]), numbers)
         [] OTHER -> FALSE

IsScalar(kind, v) == v = Scalar(kind, v.tag, v.n) /\ v.tag \in Seq(Labels) /\ v.n \in Int

HasFields(name, fields, v, numbers) ==
    /\ v.name = name /\ v = Fields(name, [n \in Names(fields) |-> v.fields[n]])
    /\ \A i \in DOMAIN fields : is_value(TypeOf(fields[i]), v.fields[NameOf(fields[i])], numbers)

IsValue(t, v, numbers) ==
    CASE t.k = "int" -> IsScalar("int", v)
      [] t.k = "double" -> IsScalar("float", v)
      [] t.k = "bool" -> \/ IsScalar("bool", v) /\ v.n \in 0 .. 1
                         \/ numbers /\ IsScalar("int", v) /\ v.n > 1
      [] t.k \in {"str", "bytes"} -> IsScalar(t.k, v) /\ v.n >= 0
      [] t.k = "optional" -> v = None \/ (v.is # "none" /\ is_value(t.of, v, numbers))
      [] t.k = "sequence" ->
            /\ v = Items([i \in 1 .. Len(v.items) |-> v.items[i]]) /\ Len(v.items) \in Nat
            /\ \A i \in 1 .. Len(v.items) : is_value(t.of, v.items[i], numbers)
      [] t.k = "record" -> HasFields("", t.fields, v, numbers)
      [] t.k = "union" -> \E i \in DOMAIN t.variants :
            HasFields(NameOf(t.variants[i]), TypeOf(t.variants[i]), v, numbers)
      [] OTHER -> FALSE

(* The converters of the binding: those of the parts are those of whole    *)
(* types, for all types that have a depth.                                 *)

ByParts(w, r) ==
    /\ \A s, tag : sample(w, s, tag) = Sample(w, s, tag)
    /\ \A v : check_lower(w, v) <=> CheckLower(w, v)
    /\ \A v : raises(w, v) <=> WriteRaises(w, v)
    /\ \A v : write(w, v) = Write(w, v)
    /\ \A v, numbers : is_value(w, v, numbers) <=> IsValue(w, v, numbers)
    /\ \A cells : read(r, cells) = Read(r, cells)

Recursive ==
    \A depth \in Nat : \A w, r, numbers :
        /\ agree(depth, w, r, numbers) <=> Agree(depth, w, r, numbers)
        /\ Agree(depth, w, r, numbers) => ByParts(w, r)
=============================================================================
