----------------------- MODULE BindingAgreementProofs -----------------------
(***************************************************************************)
(* What crosses between Python and the core arrives, because the tables of *)
(* the two sides agree: EveryDepth of UniffiConverterProofs for the types  *)
(* of the tables, and with it the theorems of BindingCallsProofs.          *)
(***************************************************************************)
EXTENDS BindingCallsProofs

-----------------------------------------------------------------------------
(* The values of a call                                                    *)

\* A shape that a call may choose.
ChosenShape(s) ==
    /\ s.full \in BOOLEAN /\ s.pick \in Nat \ {0} /\ s.odd \in Odds \cup {"no"}
    /\ s = Shape(s.full, s.pick, s.odd)

\* Those that Call takes are such shapes, with their odd part and without it.
LEMMA ShapesChosen ==
    ASSUME NEW s \in Ordinary \cup OddShapes
    PROVE  ChosenShape(s) /\ ChosenShape(Unspoilt(s)) /\ Unspoilt(s).odd = "no"
<1>1. ChosenShape(s)
  <2>1. CASE s \in Ordinary
    <3>1. PICK full \in BOOLEAN, p \in Picks : s = Shape(full, p, "no")
      BY <2>1 DEF Ordinary
    <3> QED BY <3>1, PicksAssumption DEF Shape, ChosenShape
  <2>2. CASE s \in OddShapes
    <3>1. PICK o \in Odds : s = Shape(TRUE, 1, o)
      BY <2>2 DEF OddShapes
    <3>2. 1 \in Nat \ {0}
      OBVIOUS
    <3> QED BY <3>1, <3>2 DEF Shape, ChosenShape
  <2> QED BY <2>1, <2>2
<1>2. Unspoilt(s) = Shape(s.full, s.pick, "no")
  BY <1>1 DEF Unspoilt, Shape, ChosenShape
<1> QED BY <1>1, <1>2 DEF ChosenShape, Shape

\* A text that crosses by itself is one cell.
LEMMA TextCrosses ==
    ASSUME NEW w, NEW r, w.k = "str", r.k = "str", NEW v,
           v = Scalar("str", v.tag, v.n), v.tag \in Seq(Labels), v.n \in Nat
    PROVE  lift(r, lower(w, v)) = Got(v, <<>>)
<1> DEFINE c == Cell("raw", v.tag, v.n)
<1>1. c.f = "raw" /\ c.tag = v.tag /\ c.n = v.n
  BY DEF Cell
<1>2. lower(w, v) = <<c>> /\ lift(r, <<c>>) = ReadScalar("raw", "str", <<c>>)
  BY DEF lower, lift
<1> HIDE DEF c
<1>3. <<c>> # <<>> /\ Head(<<c>>) = c /\ Tail(<<c>>) = <<>>
  OBVIOUS
<1>4. ReadScalar("raw", "str", <<c>>) = Got(Scalar("str", c.tag, c.n), <<>>)
  BY <1>1, <1>3 DEF ReadScalar
<1> QED BY <1>1, <1>2, <1>4

\* A value that a shape chooses is lifted as it was lowered, or is refused for a
\* number in the place of a Boolean.
LEMMA SampleCrosses ==
    ASSUME Recursive, NEW w, NEW r, NEW s, ChosenShape(s), NEW tag \in Seq(Labels),
           Agree(Deepest, w, r, s.odd = "two"),
           s.odd = "no" \/ (check_lower(w, sample(w, s, tag)) /\ ~raises(w, sample(w, s, tag)))
    PROVE  LET v == sample(w, s, tag)
               x == lift(r, lower(w, v))
           IN  x = Got(v, <<>>) \/ (s.odd = "two" /\ x.ok = FALSE)
<1> DEFINE v == Sample(w, s, tag)
           numbers == s.odd = "two"
           cells == Write(w, v)
           x == lift(r, lower(w, v))
<1>1. /\ sample(w, s, tag) = v
      /\ write(w, v) = cells
      /\ read(r, cells) = Read(r, cells)
      /\ check_lower(w, v) <=> CheckLower(w, v)
      /\ raises(w, v) <=> WriteRaises(w, v)
  <2>1. ByParts(w, r)
    BY DeepestAssumption DEF Recursive
  <2> QED BY <2>1 DEF ByParts
<1>2. RoundTrip(Deepest) /\ Sampled(Deepest)
  BY DeepestAssumption, EveryDepth
<1>3. IsValue(w, v, numbers)
  <2>0. Agree(Deepest, w, r, numbers) /\ numbers \in BOOLEAN
    OBVIOUS
  <2>1. s \in Shapes
    BY DEF ChosenShape, Shape, Shapes, Odds
  <2>2. Samples(CheckLower(w, v), WriteRaises(w, v), s)
    BY <1>1 DEF Samples
  <2> QED BY <1>2, <2>0, <2>1, <2>2 DEF Sampled
<1>4. cells \in Seq(Cells) /\ Reads(Read(r, cells), v, <<>>, numbers)
  <2>1. /\ cells \in Seq(Cells)
        /\ Reads(Read(r, cells \o <<>>), v, <<>>, numbers)
    <3>1. <<>> \in Seq(Cells) /\ numbers \in BOOLEAN
      OBVIOUS
    <3> QED BY <1>2, <1>3, <3>1 DEF RoundTrip
  <2> HIDE DEF cells
  <2>2. cells \o <<>> = cells
    BY <2>1
  <2> QED BY <2>1, <2>2
<1>5. w.k = r.k
  BY DEF Agree
<1> HIDE DEF v
<1>6. x = Got(v, <<>>) \/ (numbers /\ x.ok = FALSE)
  <2>1. CASE w.k = "str"
    <3>1. IsScalar("str", v) /\ v.n >= 0
      BY <1>3, <2>1 DEF IsValue
    <3>2. v = Scalar("str", v.tag, v.n) /\ v.tag \in Seq(Labels) /\ v.n \in Nat
      BY <3>1 DEF IsScalar
    <3> QED BY <1>5, <2>1, <3>2, TextCrosses
  <2>2. CASE w.k # "str"
    <3>1. x = Read(r, cells)
      BY <1>1, <1>5, <2>2 DEF lift, lower
    <3> QED BY <1>4, <3>1 DEF Reads
  <2> QED BY <2>1, <2>2
<1> QED BY <1>1, <1>6

\* The converters of the two sides agree on the values of every call, because
\* the tables they follow do.
THEOREM ConvertersOfTables == ASSUME Recursive, LayoutsAgree PROVE Agreement
<1>1. ASSUME NEW f \in Called, NEW s \in Ordinary \cup OddShapes,
             NEW i \in DOMAIN Functions[f].args, NEW u \in {s, Unspoilt(s)},
             check_lower(ArgType(f, i), sample(ArgType(f, i), u, <<ArgName(f, i)>>)),
             ~Direct(ArgType(f, i)),
             ~raises(ArgType(f, i), sample(ArgType(f, i), u, <<ArgName(f, i)>>))
      PROVE  LET t == ArgType(f, i)
                 v == sample(t, u, <<ArgName(f, i)>>)
                 r == lift(TypeOf(Core!Functions[f].args[i]), lower(t, v))
             IN  r = Got(v, <<>>) \/ (u.odd = "two" /\ ~r.ok)
  <2> DEFINE t == ArgType(f, i)
             rt == TypeOf(Core!Functions[f].args[i])
             tag == <<ArgName(f, i)>>
  <2>1. tag \in Seq(Labels)
    <3>1. ArgName(f, i) \in Labels
      BY DEF LayoutsAgree, SignaturesAgree, Labels
    <3> QED BY <3>1
  <2>2. Agree(Deepest, t, rt, TRUE)
    BY <1>1 DEF LayoutsAgree, SignaturesAgree
  <2>3. Agree(Deepest, t, rt, u.odd = "two")
    <3>1. Weaken(Deepest)
      BY DeepestAssumption, EveryDepth
    <3> QED BY <2>2, <3>1 DEF Weaken
  <2>4. ChosenShape(u)
    BY ShapesChosen
  <2> HIDE DEF t, rt, tag
  <2>5. check_lower(t, sample(t, u, tag)) /\ ~raises(t, sample(t, u, tag))
    BY <1>1 DEF t, tag
  <2>6. LET x == lift(rt, lower(t, sample(t, u, tag)))
        IN  x = Got(sample(t, u, tag), <<>>) \/ (u.odd = "two" /\ x.ok = FALSE)
    BY <2>1, <2>3, <2>4, <2>5, SampleCrosses
  <2> QED BY <2>6 DEF t, rt, tag
<1>2. ASSUME NEW w, NEW r, Agree(Deepest, w, r, FALSE), NEW s \in Ordinary \cup OddShapes,
             NEW label \in {"result", "error"}
      PROVE  LET v == sample(w, Unspoilt(s), <<label>>)
             IN  lift(r, lower(w, v)) = Got(v, <<>>)
  <2> DEFINE u == Unspoilt(s)
             tag == <<label>>
  <2>1. tag \in Seq(Labels)
    <3>1. label \in Labels
      BY DEF Labels
    <3> QED BY <3>1
  <2>2. ChosenShape(u) /\ u.odd = "no"
    BY ShapesChosen
  <2> HIDE DEF u, tag
  <2>3. u.odd # "two" /\ Agree(Deepest, w, r, u.odd = "two")
    BY <1>2, <2>2
  <2>4. LET x == lift(r, lower(w, sample(w, u, tag)))
        IN  x = Got(sample(w, u, tag), <<>>) \/ (u.odd = "two" /\ x.ok = FALSE)
    BY <2>1, <2>2, <2>3, SampleCrosses
  <2> QED BY <2>3, <2>4 DEF u, tag
<1>3. /\ lift(Str, lower(Str, Message)) = Got(Message, <<>>)
      /\ \E i \in DOMAIN lower(Str, Message) : Width(lower(Str, Message)[i]) > 0
  <2>1. Str.k = "str"
    BY DEF Str
  <2>2. Message = Scalar("str", <<"message">>, 20)
    BY DEF Message, Text
  <2>3. <<"message">> \in Seq(Labels)
    <3>1. "message" \in Labels
      BY DEF Labels
    <3> QED BY <3>1
  <2>4. Message.tag = <<"message">> /\ Message.n = 20
    BY <2>2 DEF Scalar
  <2> HIDE DEF Message
  <2>6. lift(Str, lower(Str, Message)) = Got(Message, <<>>)
    <3>1. /\ Message = Scalar("str", Message.tag, Message.n)
          /\ Message.tag \in Seq(Labels) /\ Message.n \in Nat
      <4>1. Message.n \in Nat
        BY <2>4
      <4>2. Message.tag \in Seq(Labels)
        BY <2>3, <2>4
      <4>3. Message = Scalar("str", Message.tag, Message.n)
        BY <2>2, <2>4, Zenon
      <4> QED BY <4>1, <4>2, <4>3
    <3> QED BY <2>1, <3>1, TextCrosses
  <2>7. lower(Str, Message) = <<Cell("raw", <<"message">>, 20)>>
    BY <2>1, <2>4 DEF lower
  <2>8. Width(Cell("raw", <<"message">>, 20)) = 20
    BY DEF Width, Cell
  <2>9. 1 \in DOMAIN lower(Str, Message) /\ lower(Str, Message)[1] = Cell("raw", <<"message">>, 20)
    BY <2>7
  <2> QED BY <2>6, <2>8, <2>9
<1>4. ASSUME NEW f \in Called, NEW s \in Ordinary \cup OddShapes
      PROVE  LET rs == Core!Functions[f]
                 result == sample(rs.ret, Unspoilt(s), <<"result">>)
                 error == sample(rs.err, Unspoilt(s), <<"error">>)
             IN  /\ ~Direct(rs.ret) => lift(Functions[f].ret, lower(rs.ret, result)) = Got(result, <<>>)
                 /\ ~Direct(rs.err) => lift(Functions[f].err, lower(rs.err, error)) = Got(error, <<>>)
  <2> DEFINE rs == Core!Functions[f]
             py == Functions[f]
  <2>1. /\ ~Direct(rs.ret) => Agree(Deepest, rs.ret, py.ret, FALSE)
        /\ ~Direct(rs.err) => Agree(Deepest, rs.err, py.err, FALSE)
    BY DEF LayoutsAgree
  <2> HIDE DEF rs, py
  <2>2. ~Direct(rs.ret) =>
            lift(py.ret, lower(rs.ret, sample(rs.ret, Unspoilt(s), <<"result">>))) =
                Got(sample(rs.ret, Unspoilt(s), <<"result">>), <<>>)
    BY <1>2, <2>1
  <2>3. ~Direct(rs.err) =>
            lift(py.err, lower(rs.err, sample(rs.err, Unspoilt(s), <<"error">>))) =
                Got(sample(rs.err, Unspoilt(s), <<"error">>), <<>>)
    BY <1>2, <2>1
  <2> QED BY <2>2, <2>3 DEF rs, py
<1> QED BY <1>1, <1>3, <1>4 DEF Agreement, ConvertersAgree, LayoutsAgree

-----------------------------------------------------------------------------
(* Theorems                                                                *)

\* With the converters of the binding the core reads the arguments that the caller
\* passed, for any functions whose tables agree and any shapes of their values.
THEOREM ArgumentsArriveByTables ==
    ASSUME Recursive, LayoutsAgree
    PROVE  Spec => []ArgumentsArrive
<1>1. Agreement
  BY ConvertersOfTables
<1> QED BY <1>1, ArgumentsArriveHolds

\* And the caller gets the result, the error or the message that the core wrote.
THEOREM AnswersArriveByTables ==
    ASSUME Recursive, LayoutsAgree
    PROVE  Spec => []AnswersArrive
<1>1. Agreement
  BY ConvertersOfTables
<1> QED BY <1>1, AnswersArriveHolds
=============================================================================
