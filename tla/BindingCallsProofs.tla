------------------------- MODULE BindingCallsProofs -------------------------
(***************************************************************************)
(* Theorems about BindingCalls, for any functions, any shapes of values    *)
(* and any converters: the buffers of a call are never overrun, never      *)
(* freed twice, and settled when the call ends; and if what one side       *)
(* writes the other side reads, arguments and answers arrive.              *)
(***************************************************************************)
EXTENDS BindingCalls, UniffiConverterProofs

-----------------------------------------------------------------------------
(* Buffers                                                                 *)

Buffer == [cap : Nat, len : Nat, cells : Seq(Cells), overrun : BOOLEAN,
           owner : {"python", "core", "nobody"}, frees : Nat]

\* Nothing was written past the end, and nothing is missing.
Sound(b) == b \in Buffer /\ b.len <= b.cap /\ ~b.overrun

\* Writing changes neither the owner nor the number of times it was freed, and
\* a vector that was never written to has never allocated.
WrittenFrom(b, r) ==
    /\ Sound(r) /\ r.owner = b.owner /\ r.frees = b.frees
    /\ (b.len = 0 => b.cap = 0) => (r.len = 0 => r.cap = 0)

LEMMA WidthIsNatural ==
    ASSUME NEW c \in Cells
    PROVE  Width(c) \in Nat
BY DEF Cells, Width

\* A cell that is written into a sound buffer leaves a sound buffer.
LEMMA PutSound ==
    ASSUME NEW b, Sound(b), NEW c \in Cells
    PROVE  WrittenFrom(b, Put(b, c))
<1> DEFINE w == Width(c)
           room == Reserve(b, w).cap
           end == b.len + w
<1>1. w \in Nat
  BY WidthIsNatural
<1> HIDE DEF w
<1>2. b \in Buffer /\ room \in Nat /\ end <= room /\ (w = 0 => room = b.cap)
  BY <1>1 DEF Reserve, Grown, Sound, Buffer
<1>3. Put(b, c) = [b EXCEPT !.cap = room, !.len = end, !.cells = Append(@, c),
                            !.overrun = @ \/ end > room]
  BY DEF Put, w
<1> HIDE DEF room
<1>4. Append(b.cells, c) \in Seq(Cells)
  BY <1>2 DEF Buffer
<1>5. end \in Nat /\ ~(end > room)
  BY <1>1, <1>2 DEF Buffer
<1>6. Sound(Put(b, c))
  BY <1>2, <1>3, <1>4, <1>5 DEF Sound, Buffer
<1>7. /\ Put(b, c).owner = b.owner /\ Put(b, c).frees = b.frees
      /\ Put(b, c).len = end /\ Put(b, c).cap = room
  BY <1>2, <1>3 DEF Buffer
<1>8. (b.len = 0 => b.cap = 0) => (Put(b, c).len = 0 => Put(b, c).cap = 0)
  BY <1>1, <1>2, <1>7 DEF Sound, Buffer
<1> QED BY <1>6, <1>7, <1>8 DEF WrittenFrom

LEMMA WrittenTransitive ==
    ASSUME NEW a, NEW b, NEW c, WrittenFrom(a, b), WrittenFrom(b, c)
    PROVE  WrittenFrom(a, c)
BY DEF WrittenFrom

\* The buffers that filling one goes through, cell by cell.
Steps(fill, b, cells) ==
    /\ fill[0] = b
    /\ \A m \in 1 .. Len(cells) : fill[m] = Put(fill[m - 1], cells[m])
    /\ Filled(b, cells) = fill[Len(cells)]

LEMMA FilledSteps ==
    ASSUME NEW b, NEW cells \in Seq(Cells)
    PROVE  \E fill : Steps(fill, b, cells)
<1> DEFINE N == Len(cells)
           Step(f, n) == IF n = 0 THEN b ELSE Put(f[n - 1], cells[n])
           Fill(f, m) == f = [n \in 0 .. m |-> Step(f, n)]
<1>1. N \in Nat
  OBVIOUS
<1> HIDE DEF N
<1>2. \E f : Fill(f, N)
  <2> DEFINE S == {m \in 0 .. N : \E f : Fill(f, m)}
  <2>1. S \in SUBSET (0 .. N)
    OBVIOUS
  <2>2. 0 \in S
    <3> DEFINE f == [n \in 0 .. 0 |-> b]
    <3>1. Fill(f, 0)
      OBVIOUS
    <3> HIDE DEF f, Fill
    <3> QED BY <1>1, <3>1
  <2>3. ASSUME NEW m \in S, m + 1 \in 0 .. N PROVE m + 1 \in S
    <3>1. PICK f : Fill(f, m)
      OBVIOUS
    <3> DEFINE g == [n \in 0 .. (m + 1) |-> IF n = m + 1 THEN Put(f[m], cells[n]) ELSE f[n]]
    <3>2. ASSUME NEW n \in 0 .. (m + 1) PROVE g[n] = Step(g, n)
      <4>1. CASE n = 0
        BY <3>1, <4>1, <1>1
      <4>2. CASE n \in 1 .. m
        <5>1. f[n] = Put(f[n - 1], cells[n])
          BY <3>1, <4>2, <1>1
        <5>2. g[n] = f[n] /\ g[n - 1] = f[n - 1]
          BY <4>2, <1>1
        <5> QED BY <5>1, <5>2, <4>2, <1>1
      <4>3. CASE n = m + 1
        <5>1. g[n - 1] = f[m] /\ g[n] = Put(f[m], cells[n])
          BY <4>3, <1>1
        <5> QED BY <5>1, <4>3, <1>1
      <4> QED BY <4>1, <4>2, <4>3, <1>1
    <3>3. g = [n \in 0 .. (m + 1) |-> g[n]]
      OBVIOUS
    <3> HIDE DEF g
    <3>4. Fill(g, m + 1)
      BY <3>2, <3>3
    <3> HIDE DEF Fill
    <3> QED BY <3>4, <2>3
  <2> HIDE DEF S
  <2>4. S = 0 .. N
    BY <1>1, <2>1, <2>2, <2>3, UpTo
  <2>5. N \in S
    BY <2>4, <1>1
  <2> HIDE DEF Fill
  <2> QED BY <2>5 DEF S
<1> DEFINE fill == CHOOSE f : Fill(f, N)
<1>3. Fill(fill, N)
  <2> HIDE DEF Fill
  <2> QED BY <1>2
<1>4. Filled(b, cells) = fill[N]
  BY DEF Filled, N
<1> HIDE DEF fill
<1>5. fill[0] = b
  BY <1>1, <1>3
<1>6. ASSUME NEW m \in 1 .. N PROVE fill[m] = Put(fill[m - 1], cells[m])
  BY <1>1, <1>3
<1> QED BY <1>4, <1>5, <1>6 DEF Steps, N

\* However many cells are written, none goes past the end.
LEMMA FilledSound ==
    ASSUME NEW b, Sound(b), NEW cells \in Seq(Cells)
    PROVE  WrittenFrom(b, Filled(b, cells))
<1>1. PICK fill : Steps(fill, b, cells)
  BY FilledSteps
<1> DEFINE N == Len(cells)
           S == {m \in 0 .. N : WrittenFrom(b, fill[m])}
<1>2. N \in Nat /\ \A n \in 1 .. N : cells[n] \in Cells
  OBVIOUS
<1>3. fill[0] = b /\ (\A m \in 1 .. N : fill[m] = Put(fill[m - 1], cells[m])) /\ Filled(b, cells) = fill[N]
  BY <1>1 DEF Steps
<1> HIDE DEF N
<1>4. 0 \in S
  BY <1>2, <1>3 DEF WrittenFrom
<1>5. ASSUME NEW m \in S, m + 1 \in 0 .. N PROVE m + 1 \in S
  <2>1. m + 1 \in 1 .. N /\ (m + 1) - 1 = m
    BY <1>2, <1>5
  <2>2. fill[m + 1] = Put(fill[m], cells[m + 1]) /\ cells[m + 1] \in Cells
    BY <1>2, <1>3, <2>1
  <2>3. WrittenFrom(b, fill[m]) /\ Sound(fill[m])
    BY DEF WrittenFrom
  <2>4. WrittenFrom(fill[m], fill[m + 1])
    BY <2>2, <2>3, PutSound
  <2> QED BY <1>5, <2>3, <2>4, WrittenTransitive
<1>6. S \in SUBSET (0 .. N)
  OBVIOUS
<1> HIDE DEF S
<1>7. S = 0 .. N
  BY <1>2, <1>4, <1>5, <1>6, UpTo
<1> QED BY <1>2, <1>3, <1>7 DEF S

\* One more cell is in the buffer, and it takes its room.
LEMMA PutContents ==
    ASSUME NEW b, Sound(b), NEW c \in Cells
    PROVE  Put(b, c).cells = Append(b.cells, c) /\ Put(b, c).len = b.len + Width(c)
<1> DEFINE w == Width(c)
           room == Reserve(b, w).cap
<1>1. w \in Nat
  BY WidthIsNatural
<1>2. Put(b, c) = [b EXCEPT !.cap = room, !.len = b.len + w, !.cells = Append(@, c),
                            !.overrun = @ \/ b.len + w > room]
  BY DEF Put
<1> HIDE DEF w, room
<1>3. b \in Buffer
  BY DEF Sound
<1>4. Put(b, c).cells = Append(b.cells, c) /\ Put(b, c).len = b.len + w
  BY <1>2, <1>3 DEF Buffer
<1> QED BY <1>4 DEF w

\* A new buffer holds the cells that were written, in their order, and has
\* room for the widest of them.
LEMMA FilledContents ==
    ASSUME NEW b, Sound(b), b.cells = <<>>, NEW cells \in Seq(Cells)
    PROVE  /\ Filled(b, cells).cells = cells
           /\ \A i \in DOMAIN cells : Width(cells[i]) <= Filled(b, cells).len
<1>1. PICK fill : Steps(fill, b, cells)
  BY FilledSteps
<1> DEFINE N == Len(cells)
           Holds(f, m) == /\ f.cells \in Seq(Cells) /\ Len(f.cells) = m /\ f.len \in Nat
                          /\ \A i \in 1 .. m : f.cells[i] = cells[i] /\ Width(cells[i]) <= f.len
           S == {m \in 0 .. N : WrittenFrom(b, fill[m]) /\ Holds(fill[m], m)}
<1>2. N \in Nat /\ DOMAIN cells = 1 .. N /\ \A n \in 1 .. N : cells[n] \in Cells
  OBVIOUS
<1>3. fill[0] = b /\ (\A m \in 1 .. N : fill[m] = Put(fill[m - 1], cells[m])) /\ Filled(b, cells) = fill[N]
  BY <1>1 DEF Steps
<1> HIDE DEF N
<1>4. 0 \in S
  <2>1. <<>> \in Seq(Cells) /\ Len(<<>>) = 0
    OBVIOUS
  <2> QED BY <1>2, <1>3, <2>1 DEF WrittenFrom, Sound, Buffer
<1>5. ASSUME NEW m \in S, m + 1 \in 0 .. N PROVE m + 1 \in S
  <2> DEFINE c == cells[m + 1]
             f == fill[m]
             g == fill[m + 1]
  <2>1. m \in Nat /\ m + 1 \in 1 .. N /\ (m + 1) - 1 = m
    BY <1>2, <1>5
  <2>2. g = Put(f, c) /\ c \in Cells
    BY <1>2, <1>3, <2>1
  <2>3. WrittenFrom(b, f) /\ Sound(f) /\ Holds(f, m)
    BY DEF WrittenFrom
  <2>4. WrittenFrom(b, g)
    BY <2>2, <2>3, PutSound, WrittenTransitive
  <2>5. g.cells = Append(f.cells, c) /\ g.len = f.len + Width(c) /\ Width(c) \in Nat
    BY <2>2, <2>3, PutContents, WidthIsNatural
  <2>6. c = cells[m + 1]
    OBVIOUS
  <2> HIDE DEF c, f, g
  <2>7. g.cells \in Seq(Cells) /\ Len(g.cells) = m + 1 /\ g.len \in Nat
    BY <2>1, <2>2, <2>3, <2>5
  <2>8. ASSUME NEW i \in 1 .. (m + 1) PROVE g.cells[i] = cells[i] /\ Width(cells[i]) <= g.len
    <3>1. CASE i \in 1 .. m
      <4>1. f.cells[i] = cells[i] /\ Width(cells[i]) <= f.len /\ g.cells[i] = f.cells[i]
        BY <2>1, <2>2, <2>3, <2>5, <3>1
      <4>2. Width(cells[i]) \in Nat
        BY <1>2, <2>1, <3>1, WidthIsNatural
      <4>3. f.len \in Nat
        BY <2>3
      <4> QED BY <4>1, <4>2, <4>3, <2>5
    <3>2. CASE i = m + 1
      <4>1. g.cells[i] = c
        BY <2>1, <2>2, <2>3, <2>5, <3>2
      <4>2. f.len \in Nat
        BY <2>3
      <4> QED BY <4>1, <4>2, <2>5, <2>6, <3>2
    <3> QED BY <2>1, <3>1, <3>2
  <2>9. Holds(g, m + 1)
    BY <2>7, <2>8
  <2> QED BY <1>5, <2>4, <2>9 DEF g
<1>6. S \in SUBSET (0 .. N)
  OBVIOUS
<1>7. \A m \in S : Holds(fill[m], m)
  OBVIOUS
<1> HIDE DEF S
<1>8. S = 0 .. N
  BY <1>2, <1>4, <1>5, <1>6, UpTo
<1>9. Holds(fill[N], N)
  BY <1>2, <1>7, <1>8
<1>10. Filled(b, cells).cells = cells
  BY <1>2, <1>3, <1>9 DEF N
<1> QED BY <1>2, <1>3, <1>9, <1>10

-----------------------------------------------------------------------------
(* The call in progress                                                    *)

CallShapes == Ordinary \cup OddShapes

\* The arguments are values of their types, and lowered only if accepted.
ArgumentsInOrder ==
    /\ pc \in {"check", "lower"} =>
        /\ fn \in Called /\ shape \in CallShapes
        /\ DOMAIN args = DOMAIN Functions[fn].args
        /\ \A i \in DOMAIN args : \E u \in {shape, Unspoilt(shape)} :
              args[i] = sample(ArgType(fn, i), u, <<ArgName(fn, i)>>)
    /\ pc = "lower" => Accepts

Held(i) == \E j \in DOMAIN low : low[j] = InBuffer(i)

\* Owned and not freed.
Alive(b, who) == b.owner = who /\ b.frees = 0

\* Before the call Python owns every buffer and holds it for an argument; after
\* it the core has them, and Python has the buffer of the answer alone.  The
\* answer of a panic without a message has allocated nothing.
OwnersInOrder ==
    /\ pc \in {"import", "idle", "check"} => bufs = <<>> /\ low = <<>>
    /\ pc = "lower" => \A i \in DOMAIN bufs : Alive(bufs[i], "python") /\ Held(i)
    /\ pc = "status" =>
        /\ ret.direct \in BOOLEAN
        /\ ~ret.direct => ret.buf \in DOMAIN bufs /\ Alive(bufs[ret.buf], "python")
        /\ \A i \in DOMAIN bufs : Alive(bufs[i], "core") \/ (~ret.direct /\ i = ret.buf)
        /\ answer.code = 2 => ~ret.direct /\ (bufs[ret.buf].len = 0 => bufs[ret.buf].cap = 0)

\* The inductive invariant.
IInv ==
    /\ TypeOK /\ bufs \in Seq(Buffer) /\ low \in Seq(Range(low))
    /\ \A i \in DOMAIN bufs : Sound(bufs[i])
    /\ ArgumentsInOrder /\ OwnersInOrder /\ BuffersSettled

LEMMA AppendKeepsSequence ==
    ASSUME NEW s, s \in Seq(Range(s)), NEW x
    PROVE  LET a == Append(s, x)
           IN  /\ a \in Seq(Range(a))
               /\ DOMAIN s \subseteq DOMAIN a /\ \A i \in DOMAIN s : a[i] = s[i]
               /\ Len(s) + 1 \in DOMAIN a /\ a[Len(s) + 1] = x
<1> DEFINE a == Append(s, x)
<1>1. /\ Len(s) \in Nat /\ DOMAIN s = 1 .. Len(s)
      /\ DOMAIN a = 1 .. (Len(s) + 1) /\ Len(a) = Len(s) + 1
      /\ \A i \in DOMAIN s : a[i] = s[i]
      /\ a[Len(s) + 1] = x
  <2>1. s \in Seq(Range(s) \cup {x})
    OBVIOUS
  <2>2. x \in Range(s) \cup {x}
    OBVIOUS
  <2> QED BY <2>1, <2>2
<1>2. a \in Seq(Range(s) \cup {x})
  <2>1. s \in Seq(Range(s) \cup {x})
    OBVIOUS
  <2> QED BY <2>1
<1>3. a \in Seq(Range(a))
  <2>1. \A i \in 1 .. Len(a) : a[i] \in Range(a)
    BY <1>1 DEF Range
  <2> HIDE DEF a
  <2> QED BY <1>1, <1>2, <2>1
<1> QED BY <1>1, <1>3

LEMMA AppendBuffer ==
    ASSUME NEW s \in Seq(Buffer), NEW b \in Buffer
    PROVE  LET a == Append(s, b)
           IN  /\ a \in Seq(Buffer)
               /\ DOMAIN a = DOMAIN s \cup {Len(s) + 1}
               /\ Len(s) \in Nat /\ Len(s) + 1 \notin DOMAIN s
               /\ \A i \in DOMAIN s : a[i] = s[i]
               /\ a[Len(s) + 1] = b
OBVIOUS

\* A new buffer is sound, Python's, and not freed.
LEMMA AllocSound ==
    ASSUME NEW n \in Nat
    PROVE  Sound(Alloc(n)) /\ Alive(Alloc(n), "python") /\ Alloc(n).len = 0 /\ Alloc(n).cap = n
<1>1. <<>> \in Seq(Cells)
  OBVIOUS
<1> QED BY <1>1 DEF Alloc, Sound, Buffer, Alive

LEMMA BuiltSound ==
    ASSUME NEW cells \in Seq(Cells)
    PROVE  Sound(Built(cells)) /\ Alive(Built(cells), "python")
BY AllocSound, FilledSound DEF Built, WrittenFrom, Alive

LEMMA CoreBuiltSound ==
    ASSUME NEW cells \in Seq(Cells)
    PROVE  /\ Sound(CoreBuilt(cells)) /\ Alive(CoreBuilt(cells), "python")
           /\ CoreBuilt(cells).len = 0 => CoreBuilt(cells).cap = 0
BY AllocSound, FilledSound DEF CoreBuilt, WrittenFrom, Alive

LEMMA GivenSound ==
    ASSUME NEW b, Sound(b)
    PROVE  /\ Sound(Given(b)) /\ Given(b).owner = "core" /\ Given(b).frees = b.frees
BY DEF Given, Sound, Buffer

LEMMA FreedSound ==
    ASSUME NEW b, Sound(b)
    PROVE  /\ Sound(Freed(b)) /\ Freed(b).owner = "nobody" /\ Freed(b).frees = b.frees + 1
           /\ Freed(b).cap = b.cap
<1>1. b \in Buffer /\ b.frees + 1 \in Nat
  BY DEF Sound, Buffer
<1>2. /\ Freed(b) \in Buffer
      /\ Freed(b).owner = "nobody" /\ Freed(b).frees = b.frees + 1 /\ Freed(b).cap = b.cap
      /\ Freed(b).len = b.len /\ Freed(b).overrun = b.overrun
  BY <1>1 DEF Freed, Buffer
<1> QED BY <1>2 DEF Sound

-----------------------------------------------------------------------------
(* The steps                                                               *)

LEMMA InitInOrder == Init => IInv
<1> SUFFICES ASSUME Init PROVE IInv
  OBVIOUS
<1>1. "add_tags" \in DOMAIN Functions
  BY DEF Functions
<1>2. TypeOK
  BY <1>1 DEF Init, TypeOK, Unanswered, NoOutcome, Outcome
<1>3. bufs \in Seq(Buffer) /\ low \in Seq(Range(low)) /\ DOMAIN bufs = {}
  BY DEF Init
<1>4. ArgumentsInOrder /\ OwnersInOrder /\ BuffersSettled
  BY DEF Init, ArgumentsInOrder, OwnersInOrder, BuffersSettled
<1> QED BY <1>2, <1>3, <1>4 DEF IInv

\* Until the first argument is lowered there is no buffer.
LEMMA EarlyKeeps ==
    ASSUME IInv, bufs = <<>>, low = <<>>, UNCHANGED <<bufs, low>>,
           TypeOK', ArgumentsInOrder', pc' # "status"
    PROVE  IInv'
<1>1. DOMAIN bufs = {} /\ DOMAIN bufs' = {}
  OBVIOUS
<1>2. bufs' \in Seq(Buffer) /\ low' \in Seq(Range(low'))
  OBVIOUS
<1>3. OwnersInOrder' /\ BuffersSettled'
  BY <1>1 DEF OwnersInOrder, BuffersSettled
<1> QED BY <1>1, <1>2, <1>3 DEF IInv

LEMMA ImportKeeps ==
    ASSUME IInv, Import
    PROVE  IInv'
<1>1. bufs = <<>> /\ low = <<>> /\ UNCHANGED <<bufs, low>> /\ pc' \in {"idle", "done"}
  BY DEF IInv, OwnersInOrder, Import
<1>2. TypeOK'
  BY <1>1 DEF IInv, TypeOK, Import, Outcome
<1>3. ArgumentsInOrder'
  BY <1>1 DEF ArgumentsInOrder
<1> QED BY <1>1, <1>2, <1>3, EarlyKeeps

LEMMA CallKeeps ==
    ASSUME IInv, NEW f \in Called, Call(f)
    PROVE  IInv'
<1>1. /\ bufs = <<>> /\ low = <<>> /\ UNCHANGED <<bufs, low, answer, outcome>>
      /\ pc' = "check" /\ fn' = f
  BY DEF IInv, OwnersInOrder, Call
<1>2. TypeOK'
  BY <1>1, CalledAssumption DEF IInv, TypeOK
<1>3. PICK s \in CallShapes, odd \in {0} \cup DOMAIN Functions[f].args :
          shape' = s /\ args' = Arguments(f, s, odd)
  BY DEF Call, CallShapes
<1>4. DOMAIN args' = DOMAIN Functions[f].args
  BY <1>3 DEF Arguments
<1>5. ASSUME NEW i \in DOMAIN args'
      PROVE  \E u \in {shape', Unspoilt(shape')} :
                args'[i] = sample(ArgType(f, i), u, <<ArgName(f, i)>>)
  BY <1>3, <1>4 DEF Arguments
<1>6. ArgumentsInOrder'
  BY <1>1, <1>3, <1>4, <1>5 DEF ArgumentsInOrder, ArgType, ArgName
<1> QED BY <1>1, <1>2, <1>6, EarlyKeeps

LEMMA CheckArgumentsKeeps ==
    ASSUME IInv, CheckArguments
    PROVE  IInv'
<1>1. /\ bufs = <<>> /\ low = <<>> /\ UNCHANGED <<bufs, low, args, fn, shape>>
      /\ pc = "check" /\ pc' \in {"lower", "done"} /\ (pc' = "lower" => Accepts)
  BY DEF IInv, OwnersInOrder, CheckArguments
<1>2. TypeOK'
  BY <1>1 DEF IInv, TypeOK, CheckArguments, Outcome
<1>3. ArgumentsInOrder'
  BY <1>1 DEF IInv, ArgumentsInOrder, Accepts, ArgType, ArgName
<1> QED BY <1>1, <1>2, <1>3, EarlyKeeps

\* What TypeOK says of one buffer.
LEMMA SoundIsTyped ==
    ASSUME NEW b, Sound(b), b.frees \in 0 .. 1
    PROVE  /\ b.owner \in {"python", "core", "nobody"}
           /\ b.len \in Nat /\ b.cap \in Nat
           /\ b.frees \in 0 .. 1
BY DEF Sound, Buffer

\* What check_lower accepts and write does not refuse can be held by a buffer.
LEMMA AcceptedIsWritten ==
    ASSUME IInv, pc = "lower", NEW i \in DOMAIN args,
           ~Direct(ArgType(fn, i)), ~raises(ArgType(fn, i), args[i])
    PROVE  lower(ArgType(fn, i), args[i]) \in Seq(Cells)
<1>1. /\ fn \in Called /\ shape \in Ordinary \cup OddShapes
      /\ i \in DOMAIN Functions[fn].args /\ check_lower(ArgType(fn, i), args[i])
  BY DEF IInv, ArgumentsInOrder, Accepts, CallShapes
<1>2. PICK u \in {shape, Unspoilt(shape)} : args[i] = sample(ArgType(fn, i), u, <<ArgName(fn, i)>>)
  BY DEF IInv, ArgumentsInOrder
<1> QED BY <1>1, <1>2, LowerAssumption

LEMMA LowerArgumentKeeps ==
    ASSUME IInv, LowerArgument
    PROVE  IInv'
<1> DEFINE t == ArgType(fn, NextArg)
           v == args[NextArg]
<1>1. /\ pc = "lower" /\ NextArg \in DOMAIN args
      /\ UNCHANGED <<lib, fn, shape, args, received, answer, ret>>
  BY DEF LowerArgument
<1>2. /\ bufs \in Seq(Buffer) /\ low \in Seq(Range(low))
      /\ \A i \in DOMAIN bufs : Sound(bufs[i]) /\ Alive(bufs[i], "python") /\ Held(i)
  BY <1>1 DEF IInv, OwnersInOrder
<1>3. pc' = "lower" => ArgumentsInOrder'
  BY <1>1 DEF IInv, ArgumentsInOrder, Accepts, ArgType, ArgName
<1>4. CASE Direct(t)
  <2> DEFINE x == AsValue(DirectValue(t, v))
  <2>1. low' = Append(low, x) /\ UNCHANGED <<bufs, pc, outcome>>
    BY <1>4 DEF LowerArgument
  <2> HIDE DEF x
  <2>2. low' \in Seq(Range(low')) /\ \A j \in DOMAIN low : j \in DOMAIN low' /\ low'[j] = low[j]
    BY <1>2, <2>1, AppendKeepsSequence
  <2>3. OwnersInOrder' /\ BuffersSettled'
    BY <1>1, <1>2, <2>1, <2>2 DEF OwnersInOrder, BuffersSettled, Held, Alive
  <2>4. TypeOK'
    BY <1>1, <2>1 DEF IInv, TypeOK
  <2> QED BY <1>1, <1>2, <1>3, <2>1, <2>2, <2>3, <2>4 DEF IInv
<1>5. CASE ~Direct(t) /\ raises(t, v)
  <2> DEFINE b == Discarded(Alloc(16))
  <2>1. /\ bufs' = Append(bufs, b) /\ pc' = "done"
        /\ outcome' = Outcome("unwritable", None) /\ UNCHANGED low
    BY <1>5 DEF LowerArgument
  <2>2. Sound(b) /\ b.owner = "nobody" /\ b.frees = 1
    BY AllocSound, FreedSound DEF Discarded, Alive
  <2> HIDE DEF b
  <2>3. /\ bufs' \in Seq(Buffer) /\ DOMAIN bufs' = DOMAIN bufs \cup {Len(bufs) + 1}
        /\ \A i \in DOMAIN bufs : bufs'[i] = bufs[i]
        /\ bufs'[Len(bufs) + 1] = b
    BY <1>2, <2>1, <2>2, AppendBuffer DEF Sound
  <2>4. \A i \in DOMAIN bufs' : Sound(bufs'[i]) /\ bufs'[i].frees \in 0 .. 1
    BY <1>2, <2>2, <2>3 DEF Alive
  <2>5. TypeOK'
    BY <1>1, <2>1, <2>4, SoundIsTyped DEF IInv, TypeOK, Outcome
  <2>6. BuffersSettled'
    BY <1>2, <2>1, <2>2, <2>3 DEF BuffersSettled, Held, Outcome
  <2>7. OwnersInOrder' /\ ArgumentsInOrder'
    BY <2>1 DEF OwnersInOrder, ArgumentsInOrder
  <2> QED BY <1>2, <2>1, <2>3, <2>4, <2>5, <2>6, <2>7 DEF IInv
<1>6. CASE ~Direct(t) /\ ~raises(t, v)
  <2> DEFINE b == Built(lower(t, v))
  <2>1. /\ bufs' = Append(bufs, b) /\ low' = Append(low, InBuffer(Len(bufs) + 1))
        /\ UNCHANGED <<pc, outcome>>
    BY <1>6 DEF LowerArgument
  <2>2. lower(t, v) \in Seq(Cells)
    BY <1>1, <1>6, AcceptedIsWritten
  <2>3. Sound(b) /\ Alive(b, "python")
    BY <2>2, BuiltSound
  <2> HIDE DEF b
  <2>4. /\ bufs' \in Seq(Buffer) /\ DOMAIN bufs' = DOMAIN bufs \cup {Len(bufs) + 1}
        /\ \A i \in DOMAIN bufs : bufs'[i] = bufs[i]
        /\ bufs'[Len(bufs) + 1] = b
    BY <1>2, <2>1, <2>3, AppendBuffer DEF Sound
  <2>5. /\ low' \in Seq(Range(low')) /\ \A j \in DOMAIN low : j \in DOMAIN low' /\ low'[j] = low[j]
        /\ Len(low) + 1 \in DOMAIN low' /\ low'[Len(low) + 1] = InBuffer(Len(bufs) + 1)
    BY <1>2, <2>1, AppendKeepsSequence
  <2>6. \A i \in DOMAIN bufs' : Sound(bufs'[i]) /\ Alive(bufs'[i], "python")
    BY <1>2, <2>3, <2>4
  <2>7. \A i \in DOMAIN bufs' : \E j \in DOMAIN low' : low'[j] = InBuffer(i)
    BY <1>2, <2>4, <2>5 DEF Held
  <2>8. OwnersInOrder' /\ BuffersSettled'
    BY <1>1, <2>1, <2>6, <2>7 DEF OwnersInOrder, BuffersSettled, Held
  <2>9. TypeOK'
    BY <1>1, <2>1, <2>6, SoundIsTyped DEF IInv, TypeOK, Alive
  <2> QED BY <1>1, <1>3, <2>1, <2>4, <2>5, <2>6, <2>8, <2>9 DEF IInv
<1> QED BY <1>4, <1>5, <1>6

\* The core has every buffer that was held for an argument.
LEMMA HandedSound ==
    ASSUME IInv, pc = "lower"
    PROVE  /\ Handed \in Seq(Buffer) /\ DOMAIN Handed = DOMAIN bufs /\ Len(Handed) = Len(bufs)
           /\ \A i \in DOMAIN bufs : Sound(Handed[i]) /\ Alive(Handed[i], "core")
<1>1. bufs \in Seq(Buffer) /\ DOMAIN bufs = 1 .. Len(bufs) /\ Len(bufs) \in Nat
  BY DEF IInv
<1>2. ASSUME NEW i \in DOMAIN bufs PROVE Handed[i] = Given(bufs[i])
  BY DEF Handed, IInv, OwnersInOrder, Held
<1>3. ASSUME NEW i \in DOMAIN bufs PROVE Sound(Handed[i]) /\ Alive(Handed[i], "core")
  <2>1. Sound(bufs[i]) /\ bufs[i].frees = 0
    BY DEF IInv, OwnersInOrder, Alive
  <2> QED BY <1>2, <2>1, GivenSound DEF Alive
<1>4. DOMAIN Handed = DOMAIN bufs
  BY DEF Handed
<1>5. Handed \in [1 .. Len(bufs) -> Buffer]
  <2>1. Handed = [i \in DOMAIN bufs |-> Handed[i]]
    BY DEF Handed
  <2>2. \A i \in 1 .. Len(bufs) : Handed[i] \in Buffer
    BY <1>1, <1>3 DEF Sound
  <2> QED BY <1>1, <2>1, <2>2
<1>6. Handed \in Seq(Buffer) /\ Len(Handed) = Len(bufs)
  BY <1>1, <1>5
<1> QED BY <1>3, <1>4, <1>6

\* The core's answer is in a buffer of Python's, or crosses as a value.
LEMMA AnswerKeeps ==
    ASSUME IInv, pc = "lower", pc' = "status", UNCHANGED <<fn, low, outcome>>,
           low' \in Seq(Range(low')), answer'.code \in 0 .. 2,
           \/ ret'.direct = TRUE /\ bufs' = Handed /\ answer'.code # 2
           \/ /\ ret' = InBuffer(Len(bufs) + 1)
              /\ \E b : /\ bufs' = Append(Handed, b) /\ Sound(b) /\ Alive(b, "python")
                        /\ b.len = 0 => b.cap = 0
    PROVE  IInv'
<1>1. /\ Handed \in Seq(Buffer) /\ DOMAIN Handed = DOMAIN bufs /\ Len(Handed) = Len(bufs)
      /\ \A i \in DOMAIN bufs : Sound(Handed[i]) /\ Alive(Handed[i], "core")
  BY HandedSound
<1>2. ArgumentsInOrder' /\ BuffersSettled'
  BY DEF ArgumentsInOrder, BuffersSettled
<1>3. ASSUME \A i \in DOMAIN bufs' : Sound(bufs'[i]) /\ bufs'[i].frees = 0 PROVE TypeOK'
  BY <1>3, SoundIsTyped DEF IInv, TypeOK, Unanswered
<1>4. CASE ret'.direct = TRUE /\ bufs' = Handed /\ answer'.code # 2
  <2>1. OwnersInOrder'
    BY <1>1, <1>4 DEF OwnersInOrder
  <2>2. TypeOK'
    BY <1>1, <1>3, <1>4 DEF Alive
  <2> QED BY <1>1, <1>2, <1>4, <2>1, <2>2 DEF IInv
<1>5. ASSUME NEW b, ret' = InBuffer(Len(bufs) + 1),
             bufs' = Append(Handed, b), Sound(b), Alive(b, "python"), b.len = 0 => b.cap = 0
      PROVE  IInv'
  <2>1. /\ bufs' \in Seq(Buffer) /\ DOMAIN bufs' = DOMAIN bufs \cup {Len(bufs) + 1}
        /\ \A i \in DOMAIN bufs : bufs'[i] = Handed[i]
        /\ bufs'[Len(bufs) + 1] = b
    <3>1. Handed \in Seq(Buffer) /\ b \in Buffer
      BY <1>1, <1>5 DEF Sound
    <3>2. /\ bufs' \in Seq(Buffer) /\ DOMAIN bufs' = DOMAIN Handed \cup {Len(Handed) + 1}
          /\ \A i \in DOMAIN Handed : bufs'[i] = Handed[i]
          /\ bufs'[Len(Handed) + 1] = b
      BY <1>5, <3>1, AppendBuffer
    <3> QED BY <1>1, <3>2
  <2>2. ret'.direct = FALSE /\ ret'.buf = Len(bufs) + 1
    BY <1>5 DEF InBuffer
  <2>3. OwnersInOrder'
    BY <1>1, <1>5, <2>1, <2>2 DEF OwnersInOrder
  <2>4. ASSUME NEW i \in DOMAIN bufs' PROVE Sound(bufs'[i]) /\ bufs'[i].frees = 0
    <3>1. CASE i \in DOMAIN bufs
      BY <1>1, <2>1, <3>1 DEF Alive
    <3>2. CASE i = Len(bufs) + 1
      BY <1>5, <2>1, <3>2 DEF Alive
    <3> QED BY <2>1, <3>1, <3>2
  <2>5. TypeOK'
    BY <1>3, <2>4
  <2> QED BY <1>2, <2>1, <2>3, <2>4, <2>5 DEF IInv
<1> QED BY <1>4, <1>5

LEMMA RustCallKeeps ==
    ASSUME IInv, RustCall
    PROVE  IInv'
<1>1. /\ pc = "lower" /\ pc' = "status" /\ UNCHANGED <<fn, low, outcome>>
      /\ fn \in Called /\ shape \in Ordinary \cup OddShapes /\ low' \in Seq(Range(low'))
  BY DEF RustCall, IInv, ArgumentsInOrder, CallShapes
<1>2. ASSUME NEW tag \in {"result", "error"}, NEW code \in {0, 1}, NEW t,
             t = IF tag = "result" THEN Core!Functions[fn].ret ELSE Core!Functions[fn].err,
             CoreAnswers(code, t, tag)
      PROVE  IInv'
  <2> DEFINE v == sample(t, Unspoilt(shape), <<tag>>)
  <2>1. answer'.code \in 0 .. 2 /\ answer'.code # 2
    <3>1. answer'.code = code
      BY <1>2 DEF CoreAnswers
    <3> QED BY <3>1
  <2>2. CASE Direct(t)
    <3>1. ret'.direct = TRUE /\ bufs' = Handed
      BY <1>2, <2>2 DEF CoreAnswers, AsValue
    <3> QED BY <1>1, <2>1, <3>1, AnswerKeeps
  <2>3. CASE ~Direct(t)
    <3> DEFINE b == CoreBuilt(lower(t, v))
    <3>1. ret' = InBuffer(Len(bufs) + 1) /\ bufs' = Append(Handed, b)
      BY <1>2, <2>3 DEF CoreAnswers
    <3>2. lower(t, v) \in Seq(Cells)
      BY <1>1, <1>2, <2>3, LowerAssumption
    <3>3. Sound(b) /\ Alive(b, "python") /\ (b.len = 0 => b.cap = 0)
      BY <3>2, CoreBuiltSound
    <3> HIDE DEF b
    <3> QED BY <1>1, <2>1, <3>1, <3>3, AnswerKeeps
  <2> QED BY <2>2, <2>3
<1>3. ASSUME NEW v \in {Message, None}, CorePanics(v) PROVE IInv'
  <2> DEFINE b == IF v = None THEN Alloc(0) ELSE CoreBuilt(lower(Str, v))
  <2>1. answer'.code = 2 /\ ret' = InBuffer(Len(bufs) + 1) /\ bufs' = Append(Handed, b)
    BY <1>3 DEF CorePanics
  <2>2. Sound(b) /\ Alive(b, "python") /\ (b.len = 0 => b.cap = 0)
    <3>1. CASE v = None
      BY <3>1, AllocSound
    <3>2. CASE v = Message /\ v # None
      BY <3>2, LowerAssumption, CoreBuiltSound
    <3> QED BY <3>1, <3>2
  <2> HIDE DEF b
  <2> QED BY <1>1, <2>1, <2>2, AnswerKeeps
<1>4. \/ CoreAnswers(0, Core!Functions[fn].ret, "result")
      \/ CoreAnswers(1, Core!Functions[fn].err, "error")
      \/ \E v \in {Message, None} : CorePanics(v)
  BY DEF RustCall, CoreSig
<1> QED BY <1>2, <1>3, <1>4

\* The buffer of the answer is freed once it is read, and only then.
LEMMA CheckCallStatusKeeps ==
    ASSUME IInv, CheckCallStatus
    PROVE  IInv'
<1>1. /\ pc = "status" /\ pc' = "done"
      /\ UNCHANGED <<lib, fn, shape, args, low, received, answer, ret>>
      /\ CallSucceeded \/ CallFailed \/ CallPanicked
  BY DEF CheckCallStatus
<1>2. /\ bufs \in Seq(Buffer) /\ \A i \in DOMAIN bufs : Sound(bufs[i])
      /\ ret.direct \in BOOLEAN
      /\ ~ret.direct => ret.buf \in DOMAIN bufs /\ Alive(bufs[ret.buf], "python")
      /\ \A i \in DOMAIN bufs : Alive(bufs[i], "core") \/ (~ret.direct /\ i = ret.buf)
      /\ answer.code = 2 => ~ret.direct /\ (bufs[ret.buf].len = 0 => bufs[ret.buf].cap = 0)
  BY <1>1 DEF IInv, OwnersInOrder
<1>3. ArgumentsInOrder' /\ OwnersInOrder'
  BY <1>1 DEF ArgumentsInOrder, OwnersInOrder
<1>4. ASSUME bufs' \in Seq(Buffer), outcome'.kind \in {"returned", "error", "InternalError", "RuntimeError"},
             \A i \in DOMAIN bufs' :
                /\ Sound(bufs'[i])
                /\ \/ Alive(bufs'[i], "core")
                   \/ bufs'[i].owner = "nobody" /\ bufs'[i].frees = 1
                   \/ bufs'[i].cap = 0 /\ bufs'[i].frees = 0
      PROVE  IInv'
  <2>1. \A i \in DOMAIN bufs' : Sound(bufs'[i]) /\ bufs'[i].frees \in 0 .. 1
    BY <1>4 DEF Alive
  <2>2. TypeOK'
    BY <1>1, <1>4, <2>1, SoundIsTyped DEF IInv, TypeOK
  <2>3. BuffersSettled'
    BY <1>4 DEF BuffersSettled, Alive
  <2> QED BY <1>1, <1>3, <1>4, <2>1, <2>2, <2>3 DEF IInv
<1>5. ASSUME NEW t, NEW kind \in {"returned", "error", "InternalError"}, LiftFrom(t, kind)
      PROVE  IInv'
  <2>1. outcome'.kind \in {"returned", "error", "InternalError", "RuntimeError"}
    BY <1>5 DEF LiftFrom, Outcome
  <2>2. CASE ret.direct
    BY <1>2, <1>4, <1>5, <2>1, <2>2 DEF LiftFrom
  <2>3. CASE ~ret.direct
    <3> DEFINE b == Freed(bufs[ret.buf])
    <3>1. bufs' = [bufs EXCEPT ![ret.buf] = b]
      BY <1>5, <2>3 DEF LiftFrom, Consumed
    <3>2. Sound(b) /\ b.owner = "nobody" /\ b.frees = 1
      BY <1>2, <2>3, FreedSound DEF Alive
    <3> HIDE DEF b
    <3>3. bufs' \in Seq(Buffer) /\ DOMAIN bufs' = DOMAIN bufs
      BY <1>2, <2>3, <3>1, <3>2 DEF Sound
    <3>4. \A i \in DOMAIN bufs' : bufs'[i] = IF i = ret.buf THEN b ELSE bufs[i]
      BY <1>2, <2>3, <3>1
    <3> QED BY <1>2, <1>4, <2>1, <3>2, <3>3, <3>4
  <2> QED BY <1>2, <2>2, <2>3
<1>6. CASE CallSucceeded
  BY <1>5, <1>6 DEF CallSucceeded
<1>7. CASE CallFailed
  BY <1>5, <1>7 DEF CallFailed
<1>8. CASE CallPanicked
  <2>1. CASE bufs[ret.buf].len > 0
    BY <1>5, <1>8, <2>1 DEF CallPanicked
  <2>2. CASE ~(bufs[ret.buf].len > 0)
    <3>1. UNCHANGED bufs /\ outcome'.kind = "InternalError" /\ answer.code = 2
      BY <1>8, <2>2 DEF CallPanicked, Outcome
    <3>2. bufs[ret.buf].cap = 0 /\ bufs[ret.buf].frees = 0
      BY <1>2, <2>2, <3>1 DEF Sound, Buffer, Alive
    <3> QED BY <1>2, <1>4, <3>1, <3>2
  <2> QED BY <2>1, <2>2
<1> QED BY <1>1, <1>6, <1>7, <1>8

LEMMA NextInOrder == IInv /\ [Next]_vars => IInv'
<1> SUFFICES ASSUME IInv, [Next]_vars PROVE IInv'
  OBVIOUS
<1>1. CASE UNCHANGED vars
  <2>1. TypeOK' /\ OwnersInOrder' /\ BuffersSettled'
    BY <1>1 DEF vars, IInv, TypeOK, OwnersInOrder, Held, BuffersSettled
  <2>2. ArgumentsInOrder'
    BY <1>1 DEF vars, IInv, ArgumentsInOrder, Accepts, ArgType, ArgName
  <2> QED BY <1>1, <2>1, <2>2 DEF vars, IInv
<1>2. CASE Done
  BY <1>1, <1>2 DEF Done
<1> QED BY <1>1, <1>2, ImportKeeps, CallKeeps, CheckArgumentsKeeps, LowerArgumentKeeps,
           RustCallKeeps, CheckCallStatusKeeps DEF Next

LEMMA AlwaysInOrder == Spec => []IInv
BY InitInOrder, NextInOrder, PTL DEF Spec

-----------------------------------------------------------------------------
(* Arguments and answers                                                   *)
(* The theorems of this part assume Agreement: the signatures of the two   *)
(* sides agree, and so do their converters on the values of the call.      *)

\* The import let no library with a changed function through.
LibraryInOrder == pc \in {"idle", "check", "lower"} => \A f \in Checksummed : f \notin lib.changed

\* What an argument was lowered to.
LoweredTo(i) ==
    LET t == ArgType(fn, i)
        v == args[i]
    IN  \/ Direct(t) /\ low[i] = AsValue(DirectValue(t, v))
        \/ /\ ~Direct(t) /\ ~raises(t, v)
           /\ low[i].buf \in DOMAIN bufs /\ bufs[low[i].buf].cells = lower(t, v)

LoweredInOrder == pc = "lower" =>
    /\ DOMAIN low \subseteq DOMAIN args
    /\ \A i \in DOMAIN low : LoweredTo(i)

\* The answer is where its type crosses, and reads as what it is.
Returns(t) ==
    IF ret.direct THEN ret.v = answer.v
    ELSE lift(t, bufs[ret.buf].cells) = Got(answer.v, <<>>)

AnswerInOrder ==
    /\ pc \in {"import", "idle", "check", "lower"} => answer.code = Unanswered
    /\ pc = "status" =>
        /\ answer.code = 0 => Returns(Sig.ret)
        /\ answer.code = 1 => Returns(Sig.err)
        /\ answer.code = 2 =>
              IF bufs[ret.buf].len > 0 THEN ~ret.direct /\ Returns(Str) ELSE answer.v = None

\* The inductive invariant of this part.
ArrivalInv ==
    IInv /\ LibraryInOrder /\ LoweredInOrder /\ AnswerInOrder /\ ArgumentsArrive /\ AnswersArrive

\* Before the core has answered, an answer is not yet anything to keep.
LEMMA UnansweredKeeps ==
    ASSUME ArrivalInv, IInv', UNCHANGED <<lib, answer>>, answer.code = Unanswered,
           pc' # "status", pc' \in {"idle", "check", "lower"} => LibraryInOrder',
           LoweredInOrder'
    PROVE  ArrivalInv'
<1>1. AnswerInOrder'
  BY DEF AnswerInOrder, Unanswered
<1>2. ArgumentsArrive' /\ AnswersArrive'
  BY DEF ArgumentsArrive, AnswersArrive
<1>3. LibraryInOrder'
  BY DEF LibraryInOrder
<1> QED BY <1>1, <1>2, <1>3 DEF ArrivalInv

LEMMA InitArrives == Init => ArrivalInv
<1> SUFFICES ASSUME Init PROVE ArrivalInv
  OBVIOUS
<1>1. LibraryInOrder /\ LoweredInOrder /\ AnswerInOrder /\ ArgumentsArrive /\ AnswersArrive
  BY DEF Init, LibraryInOrder, LoweredInOrder, AnswerInOrder, ArgumentsArrive, AnswersArrive
<1> QED BY <1>1, InitInOrder DEF ArrivalInv

LEMMA ImportArrives ==
    ASSUME ArrivalInv, Import, IInv'
    PROVE  ArrivalInv'
<1>1. /\ pc = "import" /\ UNCHANGED <<lib, answer>> /\ pc' \in {"idle", "done"}
      /\ pc' = "idle" => LibraryAccepted
  BY DEF Import
<1>2. answer.code = Unanswered
  BY <1>1 DEF ArrivalInv, AnswerInOrder
<1>3. LibraryInOrder' /\ LoweredInOrder'
  BY <1>1 DEF LibraryInOrder, LibraryAccepted, LoweredInOrder
<1> QED BY <1>1, <1>2, <1>3, UnansweredKeeps

LEMMA CallArrives ==
    ASSUME ArrivalInv, NEW f \in Called, Call(f), IInv'
    PROVE  ArrivalInv'
<1>1. pc = "idle" /\ UNCHANGED <<lib, answer>> /\ pc' = "check"
  BY DEF Call
<1>2. answer.code = Unanswered
  BY <1>1 DEF ArrivalInv, AnswerInOrder
<1>3. LibraryInOrder' /\ LoweredInOrder'
  BY <1>1 DEF ArrivalInv, LibraryInOrder, LoweredInOrder
<1> QED BY <1>1, <1>2, <1>3, UnansweredKeeps

LEMMA CheckArgumentsArrives ==
    ASSUME ArrivalInv, CheckArguments, IInv'
    PROVE  ArrivalInv'
<1>1. pc = "check" /\ UNCHANGED <<lib, answer, low>> /\ pc' \in {"lower", "done"}
  BY DEF CheckArguments
<1>2. answer.code = Unanswered /\ DOMAIN low = {}
  BY <1>1 DEF ArrivalInv, AnswerInOrder, IInv, OwnersInOrder
<1>3. LibraryInOrder' /\ LoweredInOrder'
  BY <1>1, <1>2 DEF ArrivalInv, LibraryInOrder, LoweredInOrder
<1> QED BY <1>1, <1>2, <1>3, UnansweredKeeps

LEMMA LowerArgumentArrives ==
    ASSUME ArrivalInv, LowerArgument, IInv'
    PROVE  ArrivalInv'
<1> DEFINE n == NextArg
           t == ArgType(fn, n)
           v == args[n]
<1>1. /\ pc = "lower" /\ n \in DOMAIN args /\ UNCHANGED <<lib, fn, shape, args, answer>>
      /\ bufs \in Seq(Buffer) /\ low \in Seq(Range(low)) /\ n = Len(low) + 1
  BY DEF LowerArgument, ArrivalInv, IInv, NextArg
<1>2. /\ answer.code = Unanswered /\ LibraryInOrder
      /\ DOMAIN low \subseteq DOMAIN args /\ \A i \in DOMAIN low : LoweredTo(i)
  BY <1>1 DEF ArrivalInv, AnswerInOrder, LoweredInOrder
<1>3. pc' \in {"lower", "done"} /\ LibraryInOrder'
  BY <1>1, <1>2 DEF LowerArgument, LibraryInOrder
<1> HIDE DEF n
<1>4. CASE Direct(t)
  <2> DEFINE x == AsValue(DirectValue(t, v))
  <2>1. low' = Append(low, x) /\ UNCHANGED bufs
    BY <1>4 DEF LowerArgument, n
  <2>2. ASSUME NEW y, low' = Append(low, y)
        PROVE  /\ DOMAIN low' = DOMAIN low \cup {n} /\ n \notin DOMAIN low
               /\ low'[n] = y /\ \A i \in DOMAIN low : low'[i] = low[i]
    <3>1. low \in Seq(Range(low) \cup {y}) /\ y \in Range(low) \cup {y}
      BY <1>1
    <3> QED BY <1>1, <2>2, <3>1
  <2>3. /\ DOMAIN low' = DOMAIN low \cup {n} /\ n \notin DOMAIN low
        /\ low'[n] = x /\ \A i \in DOMAIN low : low'[i] = low[i]
    <3> HIDE DEF x
    <3> QED BY <2>1, <2>2
  <2>4. \A i \in DOMAIN low : LoweredTo(i)'
    BY <1>1, <1>2, <2>1, <2>3 DEF LoweredTo, ArgType
  <2>5. ASSUME NEW i, i = n PROVE LoweredTo(i)'
    BY <1>1, <1>4, <2>3, <2>5 DEF LoweredTo, ArgType
  <2>6. LoweredInOrder'
    BY <1>1, <1>2, <2>3, <2>4, <2>5 DEF LoweredInOrder
  <2> QED BY <1>1, <1>2, <1>3, <2>6, UnansweredKeeps
<1>5. CASE ~Direct(t) /\ raises(t, v)
  <2>1. pc' = "done"
    BY <1>5 DEF LowerArgument, n
  <2> QED BY <1>1, <1>2, <1>3, <2>1, UnansweredKeeps DEF LoweredInOrder
<1>6. CASE ~Direct(t) /\ ~raises(t, v)
  <2> DEFINE b == Built(lower(t, v))
             x == InBuffer(Len(bufs) + 1)
  <2>1. bufs' = Append(bufs, b) /\ low' = Append(low, x)
    BY <1>6 DEF LowerArgument, n
  <2>2. lower(t, v) \in Seq(Cells)
    BY <1>1, <1>6, AcceptedIsWritten DEF ArrivalInv, n
  <2>3. Sound(b) /\ b.cells = lower(t, v)
    <3>1. Sound(Alloc(16)) /\ Alloc(16).cells = <<>>
      BY AllocSound DEF Alloc
    <3> QED BY <2>2, <3>1, BuiltSound, FilledContents DEF Built
  <2>4. x.buf = Len(bufs) + 1
    BY DEF InBuffer
  <2> HIDE DEF b, x
  <2>5. /\ DOMAIN bufs' = DOMAIN bufs \cup {Len(bufs) + 1}
        /\ \A i \in DOMAIN bufs : bufs'[i] = bufs[i]
        /\ bufs'[Len(bufs) + 1] = b
    BY <1>1, <2>1, <2>3, AppendBuffer DEF Sound
  <2>6. /\ DOMAIN low' = DOMAIN low \cup {n}
        /\ low'[n] = x /\ \A i \in DOMAIN low : low'[i] = low[i]
    <3>1. low \in Seq(Range(low) \cup {x}) /\ x \in Range(low) \cup {x}
      BY <1>1
    <3> QED BY <1>1, <2>1, <3>1
  <2>7. ASSUME NEW i \in DOMAIN low PROVE LoweredTo(i)'
    <3>1. low'[i] = low[i] /\ LoweredTo(i)
      BY <1>2, <2>6
    <3> QED BY <1>1, <2>5, <3>1 DEF LoweredTo, ArgType
  <2>8. ASSUME NEW i, i = n PROVE LoweredTo(i)'
    BY <1>1, <1>6, <2>3, <2>4, <2>5, <2>6, <2>8 DEF LoweredTo, ArgType
  <2>9. LoweredInOrder'
    BY <1>1, <1>2, <2>6, <2>7, <2>8 DEF LoweredInOrder
  <2> QED BY <1>1, <1>2, <1>3, <2>9, UnansweredKeeps
<1> QED BY <1>4, <1>5, <1>6

\* When every argument is lowered, each is where its type crosses.
LEMMA AllLowered ==
    ASSUME ArrivalInv, SignaturesAgree, pc = "lower", NextArg \notin DOMAIN args
    PROVE  /\ fn \in Called /\ DOMAIN args = DOMAIN CoreSig.args
           /\ \A i \in DOMAIN args : LoweredTo(i)
<1>1. /\ fn \in Called /\ DOMAIN args = DOMAIN Functions[fn].args
      /\ low \in Seq(Range(low)) /\ DOMAIN low \subseteq DOMAIN args
      /\ \A i \in DOMAIN low : LoweredTo(i)
  BY DEF ArrivalInv, IInv, ArgumentsInOrder, LoweredInOrder
<1> DEFINE N == Len(CoreSig.args)
<1>2. N \in Nat /\ DOMAIN args = 1 .. N /\ DOMAIN CoreSig.args = 1 .. N
  BY <1>1 DEF SignaturesAgree, CoreSig
<1> HIDE DEF N
<1> DEFINE K == Len(low)
<1>3. K \in Nat /\ DOMAIN low = 1 .. K /\ K + 1 \notin 1 .. N
  BY <1>1, <1>2 DEF NextArg
<1> HIDE DEF K
<1>4. DOMAIN low = DOMAIN args
  <2>1. K > 0 => K \in 1 .. N
    BY <1>1, <1>2, <1>3
  <2>2. K = N
    BY <1>2, <1>3, <2>1
  <2> QED BY <1>2, <1>3, <2>2
<1> QED BY <1>1, <1>2, <1>4

\* The core lifts the value that was passed, or refuses a nested Boolean.
LEMMA ArgumentArrives ==
    ASSUME ArrivalInv, Agreement, pc = "lower", NextArg \notin DOMAIN args,
           NEW i \in DOMAIN args
    PROVE  \/ Lifted(i) = DirectValue(ArgType(fn, i), args[i])
           \/ shape.odd = "two" /\ Lifted(i) = Garbled
<1> DEFINE py == ArgType(fn, i)
           rs == TypeOf(CoreSig.args[i])
           v == args[i]
           r == lift(rs, bufs[low[i].buf].cells)
<1>1. fn \in Called /\ i \in DOMAIN CoreSig.args /\ LoweredTo(i)
  BY AllLowered DEF Agreement
<1>2. DeclaredRight
  <2>1. fn \notin lib.changed
    BY <1>1, CalledAssumption DEF ArrivalInv, LibraryInOrder, Checksummed
  <2> QED BY <1>1, <2>1 DEF DeclaredRight, Agreement, SignaturesAgree, CoreSig
<1>3. Direct(rs) <=> Direct(py)
  BY <1>1 DEF Agreement, SignaturesAgree, CoreSig
<1>4. Lifted(i) = CASE Direct(rs) -> low[i].v
                    [] ~Direct(rs) /\ r.ok /\ r.rest = <<>> -> r.v
                    [] OTHER -> Garbled
  BY <1>2 DEF Lifted
<1>5. CASE Direct(py)
  BY <1>1, <1>3, <1>4, <1>5 DEF LoweredTo, AsValue
<1>6. CASE ~Direct(py)
  <2>1. ~raises(py, v) /\ bufs[low[i].buf].cells = lower(py, v)
    BY <1>1, <1>6 DEF LoweredTo
  <2>2. /\ shape \in Ordinary \cup OddShapes /\ i \in DOMAIN Functions[fn].args
        /\ check_lower(py, v)
    BY DEF ArrivalInv, IInv, ArgumentsInOrder, Accepts, CallShapes
  <2>3. PICK u \in {shape, Unspoilt(shape)} : v = sample(py, u, <<ArgName(fn, i)>>)
    BY DEF ArrivalInv, IInv, ArgumentsInOrder
  <2>4. r = Got(v, <<>>) \/ (u.odd = "two" /\ ~r.ok)
    BY <1>1, <1>6, <2>1, <2>2, <2>3 DEF Agreement, ConvertersAgree, CoreSig
  <2>5. u.odd = "two" => shape.odd = "two"
    BY <2>2, <2>3 DEF Unspoilt, Ordinary, OddShapes, Shape
  <2>6. DirectValue(py, v) = v
    BY <1>6 DEF DirectValue, Direct
  <2>7. CASE r = Got(v, <<>>)
    BY <1>3, <1>4, <1>6, <2>6, <2>7 DEF Got
  <2>8. CASE u.odd = "two" /\ ~r.ok
    BY <1>3, <1>4, <1>6, <2>5, <2>8
  <2> QED BY <2>4, <2>7, <2>8
<1> QED BY <1>5, <1>6

\* The buffer of an answer holds its cells.
LEMMA CoreBuiltContents ==
    ASSUME NEW cells \in Seq(Cells)
    PROVE  /\ CoreBuilt(cells).cells = cells /\ CoreBuilt(cells).len \in Nat
           /\ \A i \in DOMAIN cells : Width(cells[i]) <= CoreBuilt(cells).len
<1>1. Sound(Alloc(0)) /\ Alloc(0).cells = <<>>
  BY AllocSound DEF Alloc
<1>2. CoreBuilt(cells).len \in Nat
  BY CoreBuiltSound DEF Sound, Buffer
<1> QED BY <1>1, <1>2, FilledContents DEF CoreBuilt

\* The new buffer is the one the answer refers to.
LEMMA AnswerBuffer ==
    ASSUME ArrivalInv, pc = "lower", NEW b, Sound(b), ret' = InBuffer(Len(bufs) + 1),
           bufs' = Append(Handed, b)
    PROVE  ret'.direct = FALSE /\ bufs'[ret'.buf] = b
<1>1. Handed \in Seq(Buffer) /\ Len(Handed) = Len(bufs) /\ b \in Buffer
  BY HandedSound DEF ArrivalInv, Sound
<1>2. bufs'[Len(Handed) + 1] = b
  BY <1>1, AppendBuffer
<1> QED BY <1>1, <1>2 DEF InBuffer

LEMMA RustCallArrives ==
    ASSUME ArrivalInv, Agreement, RustCall, IInv'
    PROVE  ArrivalInv'
<1>1. /\ pc = "lower" /\ NextArg \notin DOMAIN args /\ pc' = "status"
      /\ UNCHANGED <<lib, fn, shape, args, low, outcome>>
      /\ received' = [i \in DOMAIN args |-> Lifted(i)]
  BY DEF RustCall
<1>2. fn \in Called /\ shape \in Ordinary \cup OddShapes
  BY <1>1 DEF ArrivalInv, IInv, ArgumentsInOrder, CallShapes
<1>3. LibraryInOrder' /\ LoweredInOrder' /\ AnswersArrive'
  BY <1>1 DEF LibraryInOrder, LoweredInOrder, AnswersArrive
<1>4. ArgumentsArrive'
  <2> SUFFICES ASSUME NEW i \in DOMAIN args
               PROVE  \/ received'[i] = DirectValue(ArgType(fn, i), args[i])
                      \/ shape.odd = "two" /\ received'[i] = Garbled /\ answer'.code = 2
    BY <1>1 DEF ArgumentsArrive, ArgType
  <2>1. received'[i] = Lifted(i)
    BY <1>1
  <2>2. Garbled \in Range(received') => answer'.code = 2
    BY DEF RustCall, CorePanics
  <2>3. received'[i] = Garbled => Garbled \in Range(received')
    BY <1>1 DEF Range
  <2> QED BY <1>1, <2>1, <2>2, <2>3, ArgumentArrives
<1>5. ASSUME NEW rs, NEW py, NEW tag, NEW code \in {0, 1}, CoreAnswers(code, rs, tag),
             LET v == sample(rs, Unspoilt(shape), <<tag>>)
             IN  ~Direct(rs) => lower(rs, v) \in Seq(Cells) /\ lift(py, lower(rs, v)) = Got(v, <<>>)
      PROVE  answer'.code = code /\ IF ret'.direct THEN ret'.v = answer'.v
                                    ELSE lift(py, bufs'[ret'.buf].cells) = Got(answer'.v, <<>>)
  <2> DEFINE v == sample(rs, Unspoilt(shape), <<tag>>)
  <2>1. answer'.code = code /\ answer'.v = v
    BY <1>5 DEF CoreAnswers
  <2>2. CASE Direct(rs)
    <3>1. ret' = AsValue(v)
      BY <1>5, <2>2 DEF CoreAnswers
    <3> QED BY <2>1, <3>1 DEF AsValue
  <2>3. CASE ~Direct(rs)
    <3> DEFINE b == CoreBuilt(lower(rs, v))
    <3>1. ret' = InBuffer(Len(bufs) + 1) /\ bufs' = Append(Handed, b)
      BY <1>5, <2>3 DEF CoreAnswers
    <3>2. Sound(b) /\ b.cells = lower(rs, v)
      BY <1>5, <2>3, CoreBuiltSound, CoreBuiltContents
    <3> HIDE DEF b
    <3>3. ret'.direct = FALSE /\ bufs'[ret'.buf] = b
      BY <1>1, <3>1, <3>2, AnswerBuffer
    <3> QED BY <1>5, <2>1, <2>3, <3>2, <3>3
  <2> QED BY <2>2, <2>3
<1>6. CASE CoreAnswers(0, CoreSig.ret, "result")
  <2>1. answer'.code = 0 /\ Returns(Sig.ret)'
    BY <1>1, <1>2, <1>5, <1>6, LowerAssumption
       DEF Agreement, ConvertersAgree, CoreSig, Sig, Returns
  <2>2. AnswerInOrder'
    BY <1>1, <2>1 DEF AnswerInOrder
  <2> QED BY <1>3, <1>4, <2>2 DEF ArrivalInv
<1>7. CASE CoreAnswers(1, CoreSig.err, "error")
  <2>1. answer'.code = 1 /\ Returns(Sig.err)'
    BY <1>1, <1>2, <1>5, <1>7, LowerAssumption
       DEF Agreement, ConvertersAgree, CoreSig, Sig, Returns
  <2>2. AnswerInOrder'
    BY <1>1, <2>1 DEF AnswerInOrder
  <2> QED BY <1>3, <1>4, <2>2 DEF ArrivalInv
<1>8. ASSUME NEW v \in {Message, None}, CorePanics(v) PROVE ArrivalInv'
  <2> DEFINE b == IF v = None THEN Alloc(0) ELSE CoreBuilt(lower(Str, v))
  <2>1. answer'.code = 2 /\ answer'.v = v /\ ret' = InBuffer(Len(bufs) + 1) /\ bufs' = Append(Handed, b)
    BY <1>8 DEF CorePanics
  <2>2. Sound(b) /\ IF b.len > 0 THEN lift(Str, b.cells) = Got(v, <<>>) ELSE v = None
    <3>1. CASE v = None
      BY <3>1, AllocSound
    <3>2. CASE v # None
      <4>1. v = Message /\ b = CoreBuilt(lower(Str, Message)) /\ lower(Str, Message) \in Seq(Cells)
        BY <3>2, LowerAssumption
      <4>2. Sound(b) /\ b.cells = lower(Str, Message)
        BY <4>1, CoreBuiltSound, CoreBuiltContents
      <4>3. b.len > 0
        <5>1. PICK i \in DOMAIN lower(Str, Message) : Width(lower(Str, Message)[i]) > 0
          BY DEF Agreement, ConvertersAgree
        <5>2. lower(Str, Message)[i] \in Cells
          BY <4>1, <5>1
        <5> DEFINE w == Width(lower(Str, Message)[i])
        <5>3. w \in Nat /\ w > 0 /\ w <= b.len /\ b.len \in Nat
          BY <4>1, <5>1, <5>2, WidthIsNatural, CoreBuiltContents
        <5> HIDE DEF w, b
        <5> QED BY <5>3
      <4> HIDE DEF b
      <4> QED BY <4>1, <4>2, <4>3 DEF Agreement, ConvertersAgree
    <3> QED BY <3>1, <3>2
  <2> HIDE DEF b
  <2>3. ret'.direct = FALSE /\ bufs'[ret'.buf] = b
    BY <1>1, <2>1, <2>2, AnswerBuffer
  <2>4. AnswerInOrder'
    BY <1>1, <2>1, <2>2, <2>3 DEF AnswerInOrder, Returns
  <2> QED BY <1>3, <1>4, <2>4 DEF ArrivalInv
<1> QED BY <1>6, <1>7, <1>8 DEF RustCall

\* The buffer is read as what the core answered, with nothing left over.
LEMMA LiftArrives ==
    ASSUME NEW t, NEW kind, Returns(t), LiftFrom(t, kind), ret.direct \in BOOLEAN
    PROVE  outcome' = Outcome(kind, answer.v)
<1>1. CASE ret.direct
  BY <1>1 DEF Returns, LiftFrom
<1>2. CASE ~ret.direct
  <2> DEFINE r == lift(t, bufs[ret.buf].cells)
  <2>1. r = Got(answer.v, <<>>)
    BY <1>2 DEF Returns
  <2>2. r.ok /\ r.rest = <<>> /\ r.v = answer.v
    BY <2>1 DEF Got
  <2>3. outcome' = CASE ~r.ok -> Outcome("InternalError", None)
                     [] r.ok /\ r.rest # <<>> -> Outcome("RuntimeError", None)
                     [] OTHER -> Outcome(kind, r.v)
    BY <1>2 DEF LiftFrom
  <2> HIDE DEF r
  <2> QED BY <2>2, <2>3
<1> QED BY <1>1, <1>2

LEMMA CheckCallStatusArrives ==
    ASSUME ArrivalInv, CheckCallStatus, IInv'
    PROVE  ArrivalInv'
<1>1. /\ pc = "status" /\ pc' = "done"
      /\ UNCHANGED <<lib, fn, shape, args, low, received, answer, ret>>
      /\ CallSucceeded \/ CallFailed \/ CallPanicked
      /\ ret.direct \in BOOLEAN
  BY DEF CheckCallStatus, ArrivalInv, IInv, OwnersInOrder
<1>2. /\ answer.code = 0 => Returns(Sig.ret)
      /\ answer.code = 1 => Returns(Sig.err)
      /\ answer.code = 2 =>
            IF bufs[ret.buf].len > 0 THEN ~ret.direct /\ Returns(Str) ELSE answer.v = None
  BY <1>1 DEF ArrivalInv, AnswerInOrder
<1>3. LibraryInOrder' /\ LoweredInOrder' /\ AnswerInOrder'
  BY <1>1 DEF LibraryInOrder, LoweredInOrder, AnswerInOrder
<1>4. ArgumentsArrive'
  BY <1>1 DEF ArrivalInv, ArgumentsArrive, ArgType
<1>5. AnswersArrive'
  <2>1. CASE CallSucceeded
    <3>1. answer.code = 0 /\ outcome' = Outcome("returned", answer.v)
      BY <1>1, <1>2, <2>1, LiftArrives DEF CallSucceeded
    <3> QED BY <1>1, <3>1 DEF AnswersArrive
  <2>2. CASE CallFailed
    <3>1. answer.code = 1 /\ outcome' = Outcome("error", answer.v)
      BY <1>1, <1>2, <2>2, LiftArrives DEF CallFailed
    <3> QED BY <1>1, <3>1 DEF AnswersArrive
  <2>3. CASE CallPanicked
    <3>1. answer.code = 2 /\ outcome' = Outcome("InternalError", answer.v)
      BY <1>1, <1>2, <2>3, LiftArrives DEF CallPanicked
    <3> QED BY <1>1, <3>1 DEF AnswersArrive
  <2> QED BY <1>1, <2>1, <2>2, <2>3
<1> QED BY <1>3, <1>4, <1>5 DEF ArrivalInv

LEMMA NextArrives == Agreement /\ ArrivalInv /\ [Next]_vars => ArrivalInv'
<1> SUFFICES ASSUME Agreement, ArrivalInv, [Next]_vars PROVE ArrivalInv'
  OBVIOUS
<1>1. IInv'
  BY NextInOrder DEF ArrivalInv
<1>2. CASE UNCHANGED vars
  <2>1. LibraryInOrder' /\ LoweredInOrder'
    BY <1>2 DEF vars, ArrivalInv, LibraryInOrder, LoweredInOrder, LoweredTo, ArgType
  <2>2. AnswerInOrder' /\ ArgumentsArrive' /\ AnswersArrive'
    BY <1>2 DEF vars, ArrivalInv, AnswerInOrder, Returns, Sig, ArgumentsArrive, ArgType, AnswersArrive
  <2> QED BY <1>1, <2>1, <2>2 DEF ArrivalInv
<1>3. CASE Done
  BY <1>2, <1>3 DEF Done
<1> QED BY <1>1, <1>2, <1>3, ImportArrives, CallArrives, CheckArgumentsArrives, LowerArgumentArrives,
           RustCallArrives, CheckCallStatusArrives DEF Next

-----------------------------------------------------------------------------
(* Theorems                                                                *)

\* The state of a call stays well typed, whichever function is called and
\* whatever its converters write: in particular no buffer is freed twice.
THEOREM TypeCorrect == Spec => []TypeOK
BY AlwaysInOrder, PTL DEF IInv

\* No write of a RustBufferBuilder goes past the end of its buffer, however many
\* cells of whatever width a value is made of.
THEOREM NoOverrunHolds == Spec => []NoOverrun
<1>1. IInv => NoOverrun
  BY DEF IInv, NoOverrun, Sound
<1> QED BY <1>1, AlwaysInOrder, PTL

\* When a call ends, on whatever path, every buffer was handed over or freed
\* once, but for those of earlier arguments when a later one cannot be written.
THEOREM BuffersSettledHolds == Spec => []BuffersSettled
BY AlwaysInOrder, PTL DEF IInv

\* Whatever the converters are, if those of the two sides agree on the values of
\* the calls, the core reads the arguments that the caller passed: the two passes
\* over them, the buffers they cross in and the declared C types lose nothing.
THEOREM ArgumentsArriveHolds == ASSUME Agreement PROVE Spec => []ArgumentsArrive
<1>1. ArrivalInv /\ [Next]_vars => ArrivalInv'
  BY NextArrives
<1> QED BY <1>1, InitArrives, PTL DEF Spec, ArrivalInv

\* Under the same assumption the caller gets what the core answered, whether a
\* result, an error or a panic, and however many cells it takes.
THEOREM AnswersArriveHolds == ASSUME Agreement PROVE Spec => []AnswersArrive
<1>1. ArrivalInv /\ [Next]_vars => ArrivalInv'
  BY NextArrives
<1> QED BY <1>1, InitArrives, PTL DEF Spec, ArrivalInv
=============================================================================
