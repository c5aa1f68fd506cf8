----------------------- MODULE UniffiConverterProofs ------------------------
(***************************************************************************)
(* What the converter of one side writes, the converter of the other side  *)
(* reads: proved for a type if it holds of the parts of the type, and so,  *)
(* for the converters of the binding, of types of every depth.             *)
(***************************************************************************)
EXTENDS UniffiConverter, TLAPS, WellFoundedInduction, SequenceTheorems

-----------------------------------------------------------------------------
(* Induction over the natural numbers up to a bound, for sets.             *)

\* A set of natural numbers that is not empty has a least member.
LEMMA LeastOf ==
    ASSUME NEW T \in SUBSET Nat, T # {}
    PROVE  \E x \in T : \A y \in T : x <= y
<1> DEFINE R == {ss \in Nat \X Nat : ss[1] < ss[2]}
<1>1. IsWellFoundedOn(R, Nat)
  BY NatLessThanWellFounded, Zenon DEF OpToRel
<1> HIDE DEF R
<1>2. PICK x \in T : \A y \in T : ~ (<<y, x>> \in R)
  BY <1>1, WFMin, Zenon
<1>3. ASSUME NEW y \in T PROVE x <= y
  <2>1. x \in Nat /\ y \in Nat /\ <<y, x>> \in Nat \X Nat
    OBVIOUS
  <2>2. ~(y < x)
    BY <1>2, <2>1 DEF R
  <2> QED BY <2>1, <2>2
<1> QED BY <1>3

\* What holds of 0, and of n + 1 whenever it holds of n, holds up to the bound.
LEMMA UpTo ==
    ASSUME NEW N \in Nat, NEW S \in SUBSET (0 .. N), 0 \in S,
           \A n \in S : n + 1 \in 0 .. N => n + 1 \in S
    PROVE  S = 0 .. N
<1> DEFINE T == (0 .. N) \ S
<1>1. SUFFICES ASSUME T # {} PROVE FALSE
  OBVIOUS
<1>2. T \in SUBSET Nat
  OBVIOUS
<1> HIDE DEF T
<1>3. PICK x \in T : \A y \in T : x <= y
  BY <1>1, <1>2, LeastOf
<1>4. x # 0 /\ x - 1 \in 0 .. N
  BY <1>3 DEF T
<1>5. x - 1 \in S
  BY <1>3, <1>4 DEF T
<1> QED BY <1>3, <1>4, <1>5 DEF T

-----------------------------------------------------------------------------
(* One part after the other                                                *)

\* The cells from a part on, back from the last part.
Written(from, types, values) ==
    /\ from[Len(types) + 1] = <<>>
    /\ \A i \in 1 .. Len(types) : from[i] = write(types[i], values[i]) \o from[i + 1]
    /\ WriteAll(types, values) = from[1]

\* The recursive function of WriteAll exists.
LEMMA WriteSteps ==
    ASSUME NEW types, NEW values, Len(types) \in Nat
    PROVE  \E from : Written(from, types, values)
<1> DEFINE N == Len(types)
           Step(f, i) == IF i > N THEN <<>> ELSE write(types[i], values[i]) \o f[i + 1]
           From(f, m) == f = [i \in (N + 1 - m) .. (N + 1) |-> Step(f, i)]
<1>1. N \in Nat
  OBVIOUS
<1>2. WriteAll(types, values) = (CHOOSE f : f = [i \in 1 .. N + 1 |-> Step(f, i)])[1]
  BY DEF WriteAll
<1> HIDE DEF N
<1>3. \E f : From(f, N)
  <2> DEFINE S == {m \in 0 .. N : \E f : From(f, m)}
  <2>1. S \in SUBSET (0 .. N)
    OBVIOUS
  <2>2. 0 \in S
    <3> DEFINE f == [i \in (N + 1) .. (N + 1) |-> <<>>]
    <3>1. N + 1 - 0 = N + 1 /\ \A i \in (N + 1) .. (N + 1) : Step(f, i) = <<>>
      BY <1>1
    <3>2. From(f, 0)
      BY <3>1
    <3> HIDE DEF f, From
    <3> QED BY <1>1, <3>2
  <2>3. ASSUME NEW m \in S, m + 1 \in 0 .. N PROVE m + 1 \in S
    <3>1. PICK f : From(f, m)
      OBVIOUS
    <3> DEFINE k == N - m
               g == [i \in k .. (N + 1) |-> IF i = k THEN Step(f, k) ELSE f[i]]
    <3>2. /\ m \in Nat /\ k \in Nat /\ k <= N /\ N + 1 - m = k + 1 /\ N + 1 - (m + 1) = k
          /\ f = [i \in (k + 1) .. (N + 1) |-> Step(f, i)]
      <4>1. m \in Nat /\ k \in Nat /\ k <= N /\ N + 1 - m = k + 1 /\ N + 1 - (m + 1) = k
        BY <1>1, <2>3
      <4> QED BY <3>1, <4>1
    <3> HIDE DEF k
    <3>3. ASSUME NEW i \in k .. (N + 1) PROVE g[i] = Step(g, i)
      <4>1. CASE i = k
        <5>1. g[k + 1] = f[k + 1]
          BY <1>1, <3>2
        <5> QED BY <1>1, <3>2, <4>1, <5>1
      <4>2. CASE i \in (k + 1) .. N
        <5>1. f[i] = Step(f, i)
          <6>1. i \in (k + 1) .. (N + 1)
            <7>1. k \in Nat
              BY <3>2
            <7> QED BY <1>1, <4>2, <7>1
          <6> HIDE DEF Step
          <6> QED BY <3>2, <6>1
        <5>2. i \in k .. (N + 1) /\ i + 1 \in k .. (N + 1) /\ i # k /\ i + 1 # k
          <6>1. k \in Nat
            BY <3>2
          <6> QED BY <1>1, <4>2, <6>1
        <5>3. g[i] = f[i] /\ g[i + 1] = f[i + 1]
          BY <5>2
        <5> QED BY <5>1, <5>3
      <4>3. CASE i = N + 1
        BY <1>1, <3>2, <4>3
      <4> QED BY <1>1, <3>2, <4>1, <4>2, <4>3
    <3>4. g = [i \in k .. (N + 1) |-> g[i]]
      OBVIOUS
    <3> HIDE DEF g
    <3>5. From(g, m + 1)
      BY <3>2, <3>3, <3>4
    <3> HIDE DEF From
    <3> QED BY <2>3, <3>5
  <2> HIDE DEF S
  <2>4. S = 0 .. N
    BY <1>1, <2>1, <2>2, <2>3, UpTo
  <2>5. N \in S
    BY <1>1, <2>4
  <2> HIDE DEF From
  <2> QED BY <2>5 DEF S
<1>4. N + 1 - N = 1
  BY <1>1
<1> DEFINE from == CHOOSE f : From(f, N)
<1>5. From(from, N)
  <2> HIDE DEF From
  <2> QED BY <1>3
<1>6. WriteAll(types, values) = from[1]
  BY <1>2, <1>4
<1> HIDE DEF from
<1>7. \A i \in 1 .. (N + 1) : from[i] = Step(from, i)
  BY <1>4, <1>5
<1>8. from[N + 1] = <<>>
  <2>1. N + 1 \in 1 .. (N + 1) /\ N + 1 > N
    BY <1>1
  <2> QED BY <1>7, <2>1
<1>9. ASSUME NEW i \in 1 .. N PROVE from[i] = write(types[i], values[i]) \o from[i + 1]
  <2>1. i \in 1 .. (N + 1) /\ ~(i > N)
    BY <1>1
  <2> QED BY <1>7, <2>1
<1> QED BY <1>6, <1>8, <1>9 DEF Written, N

\* What one part after the other was read as.
ReadNext(types, n, before) ==
    LET r == read(types[n], before.rest)
    IN  IF before.ok /\ r.ok THEN Got(Append(before.v, r.v), r.rest) ELSE Failed

ReadOn(upto, types, cells) ==
    /\ upto[0] = Got(<<>>, cells)
    /\ \A n \in 1 .. Len(types) : upto[n] = ReadNext(types, n, upto[n - 1])
    /\ ReadAll(types, cells) = upto[Len(types)]

\* The recursive function of ReadAll exists.
LEMMA ReadSteps ==
    ASSUME NEW types, NEW cells, Len(types) \in Nat
    PROVE  \E upto : ReadOn(upto, types, cells)
<1> DEFINE N == Len(types)
           Step(f, n) == IF n = 0 THEN Got(<<>>, cells) ELSE ReadNext(types, n, f[n - 1])
           Upto(f, m) == f = [n \in 0 .. m |-> Step(f, n)]
<1>1. N \in Nat
  OBVIOUS
<1>2. ReadAll(types, cells) = (CHOOSE f : Upto(f, N))[N]
  BY DEF ReadAll, ReadNext
<1> HIDE DEF N
<1>3. \E f : Upto(f, N)
  <2> DEFINE S == {m \in 0 .. N : \E f : Upto(f, m)}
  <2>1. S \in SUBSET (0 .. N)
    OBVIOUS
  <2>2. 0 \in S
    <3> DEFINE f == [n \in 0 .. 0 |-> Got(<<>>, cells)]
    <3>1. Upto(f, 0)
      OBVIOUS
    <3> HIDE DEF f, Upto
    <3> QED BY <1>1, <3>1
  <2>3. ASSUME NEW m \in S, m + 1 \in 0 .. N PROVE m + 1 \in S
    <3>1. PICK f : Upto(f, m)
      OBVIOUS
    <3> DEFINE g == [n \in 0 .. (m + 1) |-> IF n = m + 1 THEN ReadNext(types, n, f[m]) ELSE f[n]]
    <3>2. ASSUME NEW n \in 0 .. (m + 1) PROVE g[n] = Step(g, n)
      <4>1. CASE n = 0
        BY <1>1, <3>1, <4>1
      <4>2. CASE n \in 1 .. m
        <5>1. f[n] = Step(f, n) /\ n # 0
          BY <1>1, <3>1, <4>2
        <5>2. g[n] = f[n] /\ g[n - 1] = f[n - 1]
          BY <1>1, <4>2
        <5> QED BY <5>1, <5>2
      <4>3. CASE n = m + 1
        <5>1. g[n - 1] = f[m] /\ g[n] = ReadNext(types, n, f[m]) /\ n # 0
          BY <1>1, <4>3
        <5> QED BY <5>1
      <4> QED BY <1>1, <4>1, <4>2, <4>3
    <3>3. g = [n \in 0 .. (m + 1) |-> g[n]]
      OBVIOUS
    <3> HIDE DEF g
    <3>4. Upto(g, m + 1)
      BY <3>2, <3>3
    <3> HIDE DEF Upto
    <3> QED BY <2>3, <3>4
  <2> HIDE DEF S
  <2>4. S = 0 .. N
    BY <1>1, <2>1, <2>2, <2>3, UpTo
  <2>5. N \in S
    BY <1>1, <2>4
  <2> HIDE DEF Upto
  <2> QED BY <2>5 DEF S
<1> DEFINE upto == CHOOSE f : Upto(f, N)
<1>4. Upto(upto, N)
  <2> HIDE DEF Upto
  <2> QED BY <1>3
<1>5. ReadAll(types, cells) = upto[N]
  BY <1>2
<1> HIDE DEF upto
<1>6. upto[0] = Got(<<>>, cells)
  BY <1>1, <1>4
<1>7. ASSUME NEW n \in 1 .. N PROVE upto[n] = ReadNext(types, n, upto[n - 1])
  <2>1. n \in 0 .. N /\ n # 0
    BY <1>1
  <2> QED BY <1>4, <2>1
<1> QED BY <1>5, <1>6, <1>7 DEF ReadOn, N

-----------------------------------------------------------------------------
(* The round trip                                                          *)

\* A value was read and the cells after it are left, or there was a number where
\* the reader wants a Boolean.
Reads(r, v, rest, numbers) == r = Got(v, rest) \/ (numbers /\ r.ok = FALSE)

\* The converters of the parts read what those of the other side write.
PartsRoundTrip(depth) ==
    \A w, r, v : \A numbers \in BOOLEAN : \A rest \in Seq(Cells) :
        agree(depth - 1, w, r, numbers) /\ is_value(w, v, numbers) =>
            /\ write(w, v) \in Seq(Cells)
            /\ Reads(read(r, write(w, v) \o rest), v, rest, numbers)

\* And so do the converters made of them.
RoundTrip(depth) ==
    \A w, r, v : \A numbers \in BOOLEAN : \A rest \in Seq(Cells) :
        Agree(depth, w, r, numbers) /\ IsValue(w, v, numbers) =>
            /\ Write(w, v) \in Seq(Cells)
            /\ Reads(Read(r, Write(w, v) \o rest), v, rest, numbers)

\* A list of values, one longer.
LEMMA AppendNext ==
    ASSUME NEW values, NEW n \in Nat
    PROVE  Append([i \in 1 .. n |-> values[i]], values[n + 1]) = [i \in 1 .. (n + 1) |-> values[i]]
<1> DEFINE T == {values[i] : i \in 1 .. (n + 1)}
           s == [i \in 1 .. n |-> values[i]]
           e == values[n + 1]
           u == [i \in 1 .. (n + 1) |-> values[i]]
<1>1. s \in [1 .. n -> T] /\ e \in T /\ u \in [1 .. (n + 1) -> T]
  OBVIOUS
<1>2. s \in Seq(T) /\ Len(s) = n /\ u \in Seq(T) /\ Len(u) = n + 1
  BY <1>1, IsASeq
<1>3. /\ \A i \in 1 .. n : s[i] = values[i] /\ u[i] = values[i]
      /\ u[n + 1] = e
  OBVIOUS
<1> HIDE DEF s, e, u, T
<1>4. /\ Append(s, e) \in Seq(T) /\ Len(Append(s, e)) = n + 1
      /\ \A i \in 1 .. n : Append(s, e)[i] = s[i]
      /\ Append(s, e)[n + 1] = e
  BY <1>1, <1>2, AppendProperties
<1>5. ASSUME NEW i \in 1 .. (n + 1) PROVE Append(s, e)[i] = u[i]
  <2>1. i \in 1 .. n \/ i = n + 1
    OBVIOUS
  <2> QED BY <1>3, <1>4, <2>1
<1> DEFINE a == Append(s, e)
<1>6. a \in Seq(T) /\ u \in Seq(T) /\ Len(a) = Len(u) /\ \A i \in 1 .. Len(a) : a[i] = u[i]
  BY <1>2, <1>4, <1>5
<1> HIDE DEF a
<1>7. a = u
  BY <1>6, SeqEqual
<1> QED BY <1>7 DEF a, s, e, u

\* The converter of one side reads what that of the other wrote for a value.
Crosses(w, r, v, numbers) ==
    /\ write(w, v) \in Seq(Cells)
    /\ \A after \in Seq(Cells) : Reads(read(r, write(w, v) \o after), v, after, numbers)

\* It does so for every value of a part whose layouts agree.
LEMMA PartCrosses ==
    ASSUME NEW depth, PartsRoundTrip(depth), NEW numbers \in BOOLEAN, NEW w, NEW r, NEW v,
           agree(depth - 1, w, r, numbers), is_value(w, v, numbers)
    PROVE  Crosses(w, r, v, numbers)
<1>1. ASSUME NEW after \in Seq(Cells)
      PROVE  write(w, v) \in Seq(Cells) /\ Reads(read(r, write(w, v) \o after), v, after, numbers)
  BY Zenon DEF PartsRoundTrip
<1>2. <<>> \in Seq(Cells)
  OBVIOUS
<1> QED BY <1>1, <1>2, Zenon DEF Crosses

\* Parts that are written one after the other are read one after the other.
LEMMA AllRead ==
    ASSUME NEW numbers \in BOOLEAN, NEW N \in Nat,
           NEW ws, NEW rs, NEW vs, Len(ws) = N, Len(rs) = N,
           \A i \in 1 .. N : Crosses(ws[i], rs[i], vs[i], numbers),
           NEW rest \in Seq(Cells)
    PROVE  /\ WriteAll(ws, vs) \in Seq(Cells)
           /\ Reads(ReadAll(rs, WriteAll(ws, vs) \o rest), [i \in 1 .. N |-> vs[i]], rest, numbers)
<1>1. PICK from : Written(from, ws, vs)
  BY WriteSteps
<1>2. /\ from[N + 1] = <<>> /\ WriteAll(ws, vs) = from[1]
      /\ \A i \in 1 .. N : from[i] = write(ws[i], vs[i]) \o from[i + 1]
  BY <1>1 DEF Written
<1>3. ASSUME NEW i \in 1 .. N
      PROVE  /\ write(ws[i], vs[i]) \in Seq(Cells)
             /\ \A after \in Seq(Cells) :
                   Reads(read(rs[i], write(ws[i], vs[i]) \o after), vs[i], after, numbers)
  BY <1>3 DEF Crosses
<1>4. \A i \in 1 .. (N + 1) : from[i] \in Seq(Cells)
  <2> DEFINE S == {m \in 0 .. N : from[N + 1 - m] \in Seq(Cells)}
  <2>1. 0 \in S
    <3>1. N + 1 - 0 = N + 1 /\ 0 \in 0 .. N /\ <<>> \in Seq(Cells)
      OBVIOUS
    <3>2. from[N + 1 - 0] \in Seq(Cells)
      BY <1>2, <3>1
    <3> QED BY <3>1, <3>2
  <2>2. ASSUME NEW m \in S, m + 1 \in 0 .. N PROVE m + 1 \in S
    <3> DEFINE k == N + 1 - (m + 1)
    <3>1. k \in 1 .. N /\ k + 1 = N + 1 - m
      BY <2>2
    <3>2. from[k + 1] \in Seq(Cells)
      BY <3>1
    <3>3. from[k] \in Seq(Cells)
      BY <1>2, <1>3, <3>1, <3>2, ConcatProperties
    <3> QED BY <2>2, <3>3
  <2>3. S \in SUBSET (0 .. N)
    OBVIOUS
  <2> HIDE DEF S
  <2>4. S = 0 .. N
    BY <2>1, <2>2, <2>3, UpTo
  <2>5. ASSUME NEW i \in 1 .. (N + 1) PROVE from[i] \in Seq(Cells)
    <3>1. N + 1 - i \in S /\ N + 1 - (N + 1 - i) = i
      BY <2>4
    <3> QED BY <3>1 DEF S
  <2> QED BY <2>5
<1> DEFINE cells == WriteAll(ws, vs) \o rest
<1>5. PICK upto : ReadOn(upto, rs, cells)
  BY ReadSteps
<1>6. /\ upto[0] = Got(<<>>, cells) /\ ReadAll(rs, cells) = upto[N]
      /\ \A n \in 1 .. N : upto[n] = ReadNext(rs, n, upto[n - 1])
  BY <1>5 DEF ReadOn
<1> DEFINE values(n) == [i \in 1 .. n |-> vs[i]]
           Good(n) == Reads(upto[n], values(n), from[n + 1] \o rest, numbers)
           S == {n \in 0 .. N : Good(n)}
<1>7. 0 \in S
  <2>1. values(0) = <<>>
    <3>1. 1 .. 0 = {}
      OBVIOUS
    <3> QED BY <3>1
  <2>2. cells = from[0 + 1] \o rest
    BY <1>2
  <2> HIDE DEF values, cells
  <2> QED BY <1>6, <2>1, <2>2 DEF Reads
<1>8. ASSUME NEW n \in S, n + 1 \in 0 .. N PROVE n + 1 \in S
  <2> DEFINE k == n + 1
             after == from[k + 1] \o rest
             w == write(ws[k], vs[k])
             r == read(rs[k], upto[n].rest)
  <2>1. n \in Nat /\ k \in 1 .. N /\ k - 1 = n /\ k + 1 \in 1 .. (N + 1)
    BY <1>8
  <2>2. upto[k] = ReadNext(rs, k, upto[n])
    BY <1>6, <2>1
  <2>3. from[k + 1] \in Seq(Cells) /\ w \in Seq(Cells) /\ from[k] = w \o from[k + 1]
    BY <1>2, <1>3, <1>4, <2>1
  <2>4. after \in Seq(Cells) /\ from[k] \o rest = w \o after
    <3> DEFINE f == from[k + 1]
    <3>1. f \in Seq(Cells) /\ w \in Seq(Cells) /\ from[k] = w \o f
      BY <2>3
    <3> HIDE DEF f, w
    <3>2. f \o rest \in Seq(Cells)
      BY <3>1, ConcatProperties
    <3>3. (w \o f) \o rest = w \o (f \o rest)
      BY <3>1, ConcatAssociative
    <3> QED BY <3>1, <3>2, <3>3 DEF f
  <2>5. Reads(read(rs[k], w \o after), vs[k], after, numbers)
    BY <1>3, <2>1, <2>4
  <2>6. CASE upto[n] = Got(values(n), from[k] \o rest)
    <3>1. r = read(rs[k], w \o after) /\ upto[n].ok = TRUE /\ upto[n].v = values(n)
      BY <2>4, <2>6 DEF Got
    <3>2. CASE r = Got(vs[k], after)
      <4>1. Append(values(n), vs[k]) = values(k)
        BY <2>1, AppendNext
      <4>2. upto[k] = Got(Append(upto[n].v, r.v), r.rest)
        BY <2>2, <3>1, <3>2 DEF ReadNext, Got
      <4>3. upto[k] = Got(values(k), after)
        <5>1. r.v = vs[k] /\ r.rest = after
          BY <3>2 DEF Got
        <5> HIDE DEF r, values, after
        <5> QED BY <3>1, <4>1, <4>2, <5>1
      <4> QED BY <1>8, <2>1, <4>3 DEF Reads
    <3>3. CASE numbers /\ r.ok = FALSE
      <4>1. upto[k] = Failed
        BY <2>2, <3>3 DEF ReadNext
      <4> QED BY <1>8, <2>1, <3>3, <4>1 DEF Reads, Failed
    <3> QED BY <2>5, <3>1, <3>2, <3>3 DEF Reads
  <2>7. CASE numbers /\ upto[n].ok = FALSE
    <3>1. upto[k] = Failed
      BY <2>2, <2>7 DEF ReadNext
    <3> QED BY <1>8, <2>1, <2>7, <3>1 DEF Reads, Failed
  <2> QED BY <2>6, <2>7 DEF Reads
<1>9. S \in SUBSET (0 .. N)
  OBVIOUS
<1>10. \A n \in S : Good(n)
  OBVIOUS
<1> HIDE DEF S, Good
<1>11. S = 0 .. N
  BY <1>7, <1>8, <1>9, UpTo
<1>12. Good(N)
  BY <1>10, <1>11
<1>13. from[N + 1] \o rest = rest /\ 1 \in 1 .. (N + 1)
  BY <1>2, ConcatEmptySeq
<1> QED BY <1>2, <1>4, <1>6, <1>12, <1>13 DEF Good
-----------------------------------------------------------------------------
(* The round trip of a type                                                *)

\* A function on 1 .. n is a list of length n.
LEMMA LenOfList ==
    ASSUME NEW n \in Nat, NEW f, f = [i \in 1 .. n |-> f[i]]
    PROVE  Len(f) = n /\ DOMAIN f = 1 .. n
<1> DEFINE T == {f[i] : i \in 1 .. n}
<1>1. f \in [1 .. n -> T]
  OBVIOUS
<1>2. f \in Seq(T) /\ Len(f) = n
  BY <1>1, IsASeq
<1> QED BY <1>1, <1>2

\* A cell in front of others.
LEMMA CellFirst ==
    ASSUME NEW c \in Cells, NEW cells \in Seq(Cells), NEW rest \in Seq(Cells)
    PROVE  /\ <<c>> \o cells \in Seq(Cells)
           /\ <<c>> \o cells # <<>> /\ Head(<<c>> \o cells) = c /\ Tail(<<c>> \o cells) = cells
           /\ (<<c>> \o cells) \o rest = <<c>> \o (cells \o rest) /\ cells \o rest \in Seq(Cells)
<1>1. <<c>> \in Seq(Cells) /\ Len(<<c>>) = 1 /\ <<c>>[1] = c
  OBVIOUS
<1> DEFINE d == <<c>>
           s == d \o cells
<1>2. d \in Seq(Cells) /\ Len(d) = 1 /\ d[1] = c
  BY <1>1
<1> HIDE DEF d
<1>3. /\ s \in Seq(Cells) /\ Len(s) = 1 + Len(cells)
      /\ \A i \in 1 .. 1 + Len(cells) : s[i] = IF i <= 1 THEN d[i] ELSE cells[i - 1]
  <2>1. /\ s \in Seq(Cells) /\ Len(s) = Len(d) + Len(cells)
        /\ \A i \in 1 .. Len(d) + Len(cells) : s[i] = IF i <= Len(d) THEN d[i] ELSE cells[i - Len(d)]
    <3>1. d \in Seq(Cells)
      BY <1>2
    <3> QED BY <3>1, ConcatProperties
  <2> HIDE DEF s
  <2> QED BY <1>2, <2>1
<1>4. cells \o rest \in Seq(Cells)
  BY ConcatProperties
<1>5. s \o rest = d \o (cells \o rest)
  BY <1>2, ConcatAssociative
<1> HIDE DEF s
<1> DEFINE K == Len(cells)
<1>6. K \in Nat
  OBVIOUS
<1> HIDE DEF K
<1>7. s # <<>>
  <2>1. Len(<<>>) = 0 /\ 1 + K # 0
    BY <1>6
  <2> QED BY <1>3, <2>1 DEF K
<1>8. s[1] = c
  <2>1. 1 \in 1 .. 1 + K
    BY <1>6
  <2> QED BY <1>2, <1>3, <2>1 DEF K
<1>9. Head(s) = c
  BY <1>3, <1>7, <1>8, HeadTailProperties
<1>10. Tail(s) = cells
  <2>1. /\ Tail(s) \in Seq(Cells) /\ Len(Tail(s)) = Len(s) - 1
        /\ \A i \in 1 .. Len(Tail(s)) : Tail(s)[i] = s[i + 1]
    BY <1>3, <1>7, HeadTailProperties
  <2>2. Len(Tail(s)) = K
    BY <1>3, <1>6, <2>1 DEF K
  <2>3. ASSUME NEW i \in 1 .. K PROVE Tail(s)[i] = cells[i]
    <3>1. i + 1 \in 1 .. 1 + K /\ ~(i + 1 <= 1) /\ (i + 1) - 1 = i
      BY <1>6
    <3> QED BY <1>3, <2>1, <2>2, <3>1 DEF K
  <2>4. \A i \in 1 .. Len(Tail(s)) : Tail(s)[i] = cells[i]
    BY <2>2, <2>3
  <2> DEFINE x == Tail(s)
  <2>5. x \in Seq(Cells) /\ Len(x) = Len(cells) /\ \A i \in 1 .. Len(x) : x[i] = cells[i]
    BY <2>1, <2>2, <2>4 DEF K
  <2> HIDE DEF x
  <2>6. x = cells
    BY <2>5, SeqEqual
  <2> QED BY <2>6 DEF x
<1> QED BY <1>3, <1>4, <1>5, <1>7, <1>9, <1>10 DEF d, s

\* A cell is read in the format it was written in.
LEMMA ScalarRead ==
    ASSUME NEW c \in Cells, NEW kind, NEW cells \in Seq(Cells)
    PROVE  ReadScalar(c.f, kind, <<c>> \o cells) = Got(Scalar(kind, c.tag, c.n), cells)
BY CellFirst DEF ReadScalar

\* A buffer can hold the cell of a scalar, which keeps what it was made of.
LEMMA ScalarCell ==
    ASSUME NEW f \in {"B", "i", "I", "Q", "d", "raw"}, NEW tag \in Seq(Labels), NEW n \in Int,
           f = "raw" => n \in Nat
    PROVE  /\ Cell(f, tag, n) \in Cells
           /\ Cell(f, tag, n).f = f /\ Cell(f, tag, n).tag = tag /\ Cell(f, tag, n).n = n
BY DEF Cell, Cells

\* And so it can hold a length and a flag.
LEMMA LengthCell ==
    ASSUME NEW n \in Int
    PROVE  Number(n) \in Cells /\ Number(n).f = "i" /\ Flag(n) \in Cells /\ Flag(n).f = "B"
<1>1. <<>> \in Seq(Labels)
  OBVIOUS
<1>2. Number(n) \in Cells /\ Number(n).f = "i"
  BY <1>1 DEF Number, Cell, Cells
<1>3. Flag(n) \in Cells /\ Flag(n).f = "B"
  BY <1>1 DEF Flag, Cell, Cells
<1> QED BY <1>2, <1>3

\* One cell is a sequence of cells.
LEMMA OneCell ==
    ASSUME NEW c \in Cells
    PROVE  <<c>> \in Seq(Cells)
OBVIOUS

\* The fields of a record or a variant.
LEMMA FieldsRead ==
    ASSUME NEW depth, PartsRoundTrip(depth), NEW numbers \in BOOLEAN, NEW name, NEW wf, NEW rf, NEW v,
           FieldsAgree(depth, wf, rf, numbers), HasFields(name, wf, v, numbers), NEW rest \in Seq(Cells)
    PROVE  LET cells == WriteAll(FieldTypes(wf), FieldValues(wf, v))
           IN  cells \in Seq(Cells) /\ Reads(ReadFields(name, rf, cells \o rest), v, rest, numbers)
<1> DEFINE N == Len(wf)
           ws == FieldTypes(wf)
           rs == FieldTypes(rf)
           vs == FieldValues(wf, v)
           cells == WriteAll(ws, vs)
           r == ReadAll(rs, cells \o rest)
           read_ == ReadFields(name, rf, cells \o rest)
<1>1. /\ N \in Nat /\ DOMAIN wf = 1 .. N /\ DOMAIN rf = 1 .. N
      /\ \A i, j \in 1 .. N : NameOf(rf[i]) = NameOf(rf[j]) => i = j
      /\ \A i \in 1 .. N : NameOf(wf[i]) = NameOf(rf[i]) /\ agree(depth - 1, TypeOf(wf[i]), TypeOf(rf[i]), numbers)
  BY DEF FieldsAgree, SameNames, Named
<1>2. /\ v = Fields(name, [n \in Names(wf) |-> v.fields[n]])
      /\ \A i \in 1 .. N : is_value(TypeOf(wf[i]), v.fields[NameOf(wf[i])], numbers)
  BY <1>1 DEF HasFields
<1> HIDE DEF N
<1>3. /\ \A i \in 1 .. N : ws[i] = TypeOf(wf[i]) /\ vs[i] = v.fields[NameOf(wf[i])]
      /\ \A i \in 1 .. N : rs[i] = TypeOf(rf[i])
      /\ ws = [i \in 1 .. N |-> ws[i]] /\ rs = [i \in 1 .. N |-> rs[i]]
  BY <1>1 DEF FieldTypes, FieldValues
<1> HIDE DEF ws, rs, vs
<1>4. Len(ws) = N /\ Len(rs) = N
  BY <1>1, <1>3, LenOfList
<1>5. \A i \in 1 .. N : Crosses(ws[i], rs[i], vs[i], numbers)
  <2>1. ASSUME NEW i \in 1 .. N
        PROVE  agree(depth - 1, ws[i], rs[i], numbers) /\ is_value(ws[i], vs[i], numbers)
    BY <1>1, <1>2, <1>3
  <2> QED BY <2>1, PartCrosses, Zenon
<1>6. cells \in Seq(Cells) /\ Reads(r, [i \in 1 .. N |-> vs[i]], rest, numbers)
  <2> HIDE DEF cells, r
  <2>1. /\ WriteAll(ws, vs) \in Seq(Cells)
        /\ Reads(ReadAll(rs, WriteAll(ws, vs) \o rest), [i \in 1 .. N |-> vs[i]], rest, numbers)
    BY <1>1, <1>4, <1>5, AllRead
  <2> QED BY <2>1 DEF cells, r
<1>7. read_ = IF ~r.ok THEN Failed
              ELSE Got(Fields(name, [n \in Names(rf) |->
                          r.v[CHOOSE i \in DOMAIN rf : NameOf(rf[i]) = n]]), r.rest)
  BY DEF ReadFields, rs
<1> HIDE DEF r, read_, cells
<1>8. CASE r = Got([i \in 1 .. N |-> vs[i]], rest)
  <2>1. r.ok = TRUE /\ r.rest = rest /\ r.v = [i \in 1 .. N |-> vs[i]]
    BY <1>8 DEF Got
  <2>2. Names(rf) = Names(wf)
    BY <1>1 DEF Names
  <2>3. ASSUME NEW n \in Names(wf)
        PROVE  r.v[CHOOSE i \in DOMAIN rf : NameOf(rf[i]) = n] = v.fields[n]
    <3>1. PICK j \in 1 .. N : NameOf(wf[j]) = n
      BY <1>1 DEF Names
    <3>2. (CHOOSE i \in DOMAIN rf : NameOf(rf[i]) = n) = j
      BY <1>1, <3>1
    <3>3. r.v[j] = vs[j] /\ vs[j] = v.fields[n]
      BY <1>3, <2>1, <3>1
    <3> QED BY <3>2, <3>3
  <2>4. [n \in Names(rf) |-> r.v[CHOOSE i \in DOMAIN rf : NameOf(rf[i]) = n]]
          = [n \in Names(wf) |-> v.fields[n]]
    BY <2>2, <2>3
  <2>5. read_ = Got(v, rest)
    BY <1>2, <1>7, <2>1, <2>4
  <2> QED BY <1>6, <2>5 DEF Reads, cells, read_, ws, vs
<1>9. CASE numbers /\ r.ok = FALSE
  <2>1. read_.ok = FALSE
    BY <1>7, <1>9 DEF Failed
  <2> QED BY <1>6, <1>9, <2>1 DEF Reads, cells, read_, ws, vs
<1> QED BY <1>6, <1>8, <1>9 DEF Reads

\* What a converter writes for a value of its type, the converter of the other
\* side reads as that value and leaves what comes after it, if the converters of
\* the parts do so.  A number in the place of a Boolean is refused.
THEOREM RoundTripOfParts == ASSUME NEW depth, PartsRoundTrip(depth) PROVE RoundTrip(depth)
<1> SUFFICES ASSUME NEW w, NEW r, NEW v, NEW numbers \in BOOLEAN, NEW rest \in Seq(Cells),
                    Agree(depth, w, r, numbers), IsValue(w, v, numbers)
             PROVE  Write(w, v) \in Seq(Cells) /\ Reads(Read(r, Write(w, v) \o rest), v, rest, numbers)
  BY DEF RoundTrip
<1>1. w.k = r.k
  BY DEF Agree
<1>2. ASSUME NEW c \in Cells, Write(w, v) = <<c>>,
             Reads(Read(r, <<c>> \o rest), v, rest, numbers)
      PROVE  Write(w, v) \in Seq(Cells) /\ Reads(Read(r, Write(w, v) \o rest), v, rest, numbers)
  BY <1>2, OneCell
<1>3. CASE w.k = "int"
  <2> DEFINE c == Cell(w.f, v.tag, v.n)
  <2>1. w.f = r.f /\ w.f \in {"B", "I", "Q"} /\ IsScalar("int", v)
    BY <1>3 DEF Agree, IsValue
  <2>2. c \in Cells /\ c.f = w.f /\ c.tag = v.tag /\ c.n = v.n
    BY <2>1 DEF Cell, Cells, IsScalar
  <2>3. Write(w, v) = <<c>>
    BY <1>3 DEF Write
  <2> HIDE DEF c
  <2>4. Read(r, <<c>> \o rest) = Got(v, rest)
    <3>1. Read(r, <<c>> \o rest) = ReadScalar(c.f, "int", <<c>> \o rest)
      BY <1>1, <1>3, <2>1, <2>2 DEF Read
    <3>2. ReadScalar(c.f, "int", <<c>> \o rest) = Got(Scalar("int", c.tag, c.n), rest)
      BY <2>2, ScalarRead
    <3> QED BY <2>1, <2>2, <3>1, <3>2 DEF IsScalar
  <2> QED BY <1>2, <2>2, <2>3, <2>4 DEF Reads
<1>4. CASE w.k = "double"
  <2> DEFINE c == Cell("d", v.tag, v.n)
  <2>1. IsScalar("float", v)
    BY <1>4 DEF IsValue
  <2>2. c \in Cells /\ c.f = "d" /\ c.tag = v.tag /\ c.n = v.n
    BY <2>1 DEF Cell, Cells, IsScalar
  <2>3. Write(w, v) = <<c>>
    BY <1>4 DEF Write
  <2> HIDE DEF c
  <2>4. Read(r, <<c>> \o rest) = Got(v, rest)
    <3>1. Read(r, <<c>> \o rest) = ReadScalar(c.f, "float", <<c>> \o rest)
      BY <1>1, <1>4, <2>2 DEF Read
    <3>2. ReadScalar(c.f, "float", <<c>> \o rest) = Got(Scalar("float", c.tag, c.n), rest)
      BY <2>2, ScalarRead
    <3> QED BY <2>1, <2>2, <3>1, <3>2 DEF IsScalar
  <2> QED BY <1>2, <2>2, <2>3, <2>4 DEF Reads
<1>5. CASE w.k = "bool"
  <2> DEFINE c == Cell("B", v.tag, v.n)
             x == ReadScalar("B", "bool", <<c>> \o rest)
  <2>1. /\ v.tag \in Seq(Labels) /\ v.n \in Int
        /\ \/ v = Scalar("bool", v.tag, v.n) /\ v.n \in 0 .. 1
           \/ numbers /\ r.strict /\ v.n > 1
    BY <1>5 DEF Agree, IsValue, IsScalar
  <2>2. c \in Cells /\ c.f = "B" /\ c.tag = v.tag /\ c.n = v.n
    BY <2>1 DEF Cell, Cells
  <2>3. Write(w, v) = <<c>>
    BY <1>5 DEF Write
  <2> HIDE DEF c
  <2>4. x = Got(Scalar("bool", v.tag, v.n), rest)
    BY <2>2, ScalarRead
  <2>5. Read(r, <<c>> \o rest) = ReadBool(r.strict, <<c>> \o rest)
    BY <1>1, <1>5 DEF Read
  <2>6. x.ok = TRUE /\ x.v.n = v.n
    BY <2>4 DEF Got, Scalar
  <2>7. CASE v = Scalar("bool", v.tag, v.n) /\ v.n \in 0 .. 1
    <3>1. ReadBool(r.strict, <<c>> \o rest) = x
      BY <2>1, <2>6, <2>7 DEF ReadBool
    <3> QED BY <1>2, <2>2, <2>3, <2>4, <2>5, <2>7, <3>1 DEF Reads
  <2>8. CASE numbers /\ r.strict /\ v.n > 1
    <3>1. ReadBool(r.strict, <<c>> \o rest) = Failed
      BY <2>1, <2>6, <2>8 DEF ReadBool
    <3>2. Reads(Read(r, <<c>> \o rest), v, rest, numbers)
      <4>1. Read(r, <<c>> \o rest) = Failed
        BY <2>5, <3>1
      <4>2. Failed.ok = FALSE
        BY DEF Failed
      <4> QED BY <2>8, <4>1, <4>2 DEF Reads
    <3> QED BY <1>2, <2>2, <2>3, <3>2
  <2> QED BY <2>1, <2>7, <2>8
<1>6. CASE w.k \in {"str", "bytes"}
  <2> DEFINE size == Number(v.n)
             c == Cell("raw", v.tag, v.n)
             s == <<c>> \o rest
             x == ReadScalar("i", "int", <<size>> \o s)
  <2>1. IsScalar(w.k, v) /\ v.n \in Nat
    <3>1. IsScalar(w.k, v) /\ v.n >= 0
      BY <1>6 DEF IsValue
    <3> QED BY <3>1 DEF IsScalar
  <2>2. c \in Cells /\ c.f = "raw" /\ c.tag = v.tag /\ c.n = v.n
    BY <2>1 DEF Cell, Cells, IsScalar
  <2>3. size \in Cells /\ size.f = "i" /\ size.n = v.n
    BY <2>1, LengthCell DEF Number, Cell
  <2>4. Write(w, v) = <<size>> \o <<c>>
    BY <1>6 DEF Write
  <2> HIDE DEF size, c
  <2>5. <<c>> \in Seq(Cells)
    BY <2>2, OneCell
  <2>6. Write(w, v) \in Seq(Cells) /\ Write(w, v) \o rest = <<size>> \o s /\ s \in Seq(Cells)
    BY <2>2, <2>3, <2>4, <2>5, CellFirst
  <2>7. x = Got(Scalar("int", size.tag, v.n), s)
    BY <2>3, <2>6, ScalarRead
  <2>8. ReadScalar("raw", w.k, s) = Got(v, rest)
    <3>1. ReadScalar(c.f, w.k, s) = Got(Scalar(w.k, c.tag, c.n), rest)
      BY <2>2, ScalarRead
    <3> QED BY <2>1, <2>2, <3>1 DEF IsScalar
  <2>9. Read(r, Write(w, v) \o rest) = ReadText(w.k, <<size>> \o s)
    BY <1>1, <1>6, <2>6 DEF Read
  <2> HIDE DEF x, s
  <2>10. x.ok = TRUE /\ x.v.n = v.n /\ x.rest = s
    BY <2>7 DEF Got, Scalar
  <2>11. ReadText(w.k, <<size>> \o s) = Got(v, rest)
    BY <2>8, <2>10 DEF ReadText, x, Got
  <2> QED BY <2>6, <2>9, <2>11 DEF Reads
<1>7. CASE w.k = "optional"
  <2>1. agree(depth - 1, w.of, r.of, numbers) /\ (v = None \/ (v.is # "none" /\ is_value(w.of, v, numbers)))
    BY <1>7 DEF Agree, IsValue
  <2>2. CASE v = None
    <3> DEFINE c == Flag(0)
               x == ReadScalar("B", "int", <<c>> \o rest)
    <3>1. Write(w, v) = <<c>>
      BY <1>7, <2>2 DEF Write, None
    <3>2. c \in Cells /\ c.f = "B" /\ c.n = 0
      BY LengthCell DEF Flag, Cell
    <3> HIDE DEF c
    <3>3. x = Got(Scalar("int", c.tag, 0), rest)
      BY <3>2, ScalarRead
    <3>4. x.ok = TRUE /\ x.v.n = 0 /\ x.rest = rest
      BY <3>3 DEF Got, Scalar
    <3>5. Read(r, <<c>> \o rest) = Got(None, rest)
      BY <1>1, <1>7, <3>4 DEF Read
    <3> QED BY <1>2, <2>2, <3>1, <3>2, <3>5 DEF Reads
  <2>3. CASE v.is # "none" /\ is_value(w.of, v, numbers)
    <3> DEFINE c == Flag(1)
               part == write(w.of, v)
               s == part \o rest
               x == ReadScalar("B", "int", <<c>> \o s)
    <3>1. Write(w, v) = <<c>> \o part
      BY <1>7, <2>3 DEF Write
    <3>2. c \in Cells /\ c.f = "B" /\ c.n = 1
      BY LengthCell DEF Flag, Cell
    <3> HIDE DEF c
    <3>3. part \in Seq(Cells) /\ Reads(read(r.of, part \o rest), v, rest, numbers)
      BY <2>1, <2>3 DEF PartsRoundTrip
    <3>4. Write(w, v) \in Seq(Cells) /\ Write(w, v) \o rest = <<c>> \o s /\ s \in Seq(Cells)
      BY <3>1, <3>2, <3>3, CellFirst
    <3>5. x = Got(Scalar("int", c.tag, 1), s)
      BY <3>2, <3>4, ScalarRead
    <3> HIDE DEF x, s
    <3>6. x.ok = TRUE /\ x.v.n = 1 /\ x.rest = s
      BY <3>5 DEF Got, Scalar
    <3>7. Read(r, <<c>> \o s) = read(r.of, s)
      <4>1. Read(r, <<c>> \o s) = CASE ~x.ok \/ x.v.n \notin 0 .. 1 -> Failed
                                    [] x.v.n = 0 -> Got(None, x.rest)
                                    [] OTHER -> read(r.of, x.rest)
        BY <1>1, <1>7 DEF Read, x
      <4> QED BY <3>6, <4>1
    <3> QED BY <3>3, <3>4, <3>7 DEF s
  <2> QED BY <2>1, <2>2, <2>3
<1>8. CASE w.k = "sequence"
  <2> DEFINE N == Len(v.items)
             items == [i \in 1 .. N |-> v.items[i]]
             c == Number(N)
             ws == ItemTypes(w, N)
             rs == ItemTypes(r, N)
             part == WriteAll(ws, v.items)
             s == part \o rest
             x == ReadScalar("i", "int", <<c>> \o s)
             y == ReadAll(rs, s)
  <2>1. /\ agree(depth - 1, w.of, r.of, numbers) /\ N \in Nat /\ v = Items(items)
        /\ \A i \in 1 .. N : is_value(w.of, v.items[i], numbers)
    BY <1>8 DEF Agree, IsValue
  <2>2. Write(w, v) = <<c>> \o part
    BY <1>8 DEF Write
  <2>3. c \in Cells /\ c.f = "i" /\ c.n = N
    BY <2>1, LengthCell DEF Number, Cell
  <2> HIDE DEF c, N
  <2>4. /\ ws = [i \in 1 .. N |-> ws[i]] /\ rs = [i \in 1 .. N |-> rs[i]]
        /\ \A i \in 1 .. N : ws[i] = w.of /\ rs[i] = r.of
    BY DEF ItemTypes
  <2> HIDE DEF ws, rs
  <2>5. Len(ws) = N /\ Len(rs) = N
    BY <2>1, <2>4, LenOfList
  <2>6. part \in Seq(Cells) /\ Reads(y, items, rest, numbers)
    <3>1. N \in Nat /\ \A i \in 1 .. N :
            Crosses(ws[i], rs[i], v.items[i], numbers)
      BY <2>1, <2>4, PartCrosses
    <3> QED BY <2>5, <3>1, AllRead
  <2> HIDE DEF part
  <2>7. Write(w, v) \in Seq(Cells) /\ Write(w, v) \o rest = <<c>> \o s /\ s \in Seq(Cells)
    BY <2>2, <2>3, <2>6, CellFirst
  <2>8. x = Got(Scalar("int", c.tag, N), s)
    BY <2>3, <2>7, ScalarRead
  <2>9. x.ok = TRUE /\ x.v.n = N /\ x.rest = s
    BY <2>8 DEF Got, Scalar
  <2>10. Read(r, <<c>> \o s) = ReadItems(r, N, s)
    BY <1>1, <1>8, <2>9 DEF Read
  <2>11. ReadItems(r, N, s) = IF y.ok THEN Got(Items(y.v), y.rest) ELSE Failed
    BY DEF ReadItems, rs
  <2> HIDE DEF y, s, items
  <2>12. CASE y = Got(items, rest)
    <3>1. y.ok = TRUE /\ y.v = items /\ y.rest = rest
      BY <2>12 DEF Got
    <3> QED BY <2>1, <2>7, <2>10, <2>11, <3>1 DEF Reads
  <2>13. CASE numbers /\ y.ok = FALSE
    BY <2>7, <2>10, <2>11, <2>13 DEF Reads, Failed
  <2> QED BY <2>6, <2>12, <2>13 DEF Reads
<1>9. CASE w.k = "record"
  <2>1. FieldsAgree(depth, w.fields, r.fields, numbers) /\ HasFields("", w.fields, v, numbers)
    BY <1>9 DEF Agree, IsValue
  <2>2. Write(w, v) = WriteAll(FieldTypes(w.fields), FieldValues(w.fields, v))
    BY <1>9 DEF Write
  <2> DEFINE part == WriteAll(FieldTypes(w.fields), FieldValues(w.fields, v))
  <2>3. Read(r, part \o rest) = ReadFields("", r.fields, part \o rest)
    BY <1>1, <1>9 DEF Read
  <2>4. part \in Seq(Cells) /\ Reads(ReadFields("", r.fields, part \o rest), v, rest, numbers)
    BY <2>1, FieldsRead
  <2> QED BY <2>2, <2>3, <2>4
<1>10. CASE w.k = "union"
  <2>1. SameNames(w.variants, r.variants)
    BY <1>10 DEF Agree
  <2>2. PICK j \in DOMAIN w.variants :
            HasFields(NameOf(w.variants[j]), TypeOf(w.variants[j]), v, numbers)
    BY <1>10 DEF IsValue
  <2> DEFINE wf == TypeOf(w.variants[j])
             rf == TypeOf(r.variants[j])
             name == NameOf(w.variants[j])
             c == Number(j)
             part == WriteAll(FieldTypes(wf), FieldValues(wf, v))
             s == part \o rest
             x == ReadScalar("i", "int", <<c>> \o s)
  <2>3. /\ j \in Int /\ j \in DOMAIN r.variants /\ NameOf(r.variants[j]) = name
        /\ \A i \in DOMAIN w.variants : NameOf(w.variants[i]) = name => i = j
    BY <2>1 DEF SameNames, Named
  <2>4. FieldsAgree(depth, wf, rf, numbers)
    BY <1>10 DEF Agree
  <2>5. v.name = name
    BY <2>2 DEF HasFields, Fields
  <2>6. VariantOf(w, v) = j
    BY <2>3, <2>5 DEF VariantOf
  <2>7. Write(w, v) = <<c>> \o part
    BY <1>10, <2>6 DEF Write
  <2>8. part \in Seq(Cells) /\ Reads(ReadFields(name, rf, s), v, rest, numbers)
    BY <2>2, <2>4, FieldsRead
  <2>9. c \in Cells /\ c.f = "i" /\ c.n = j
    BY <2>3, LengthCell DEF Number, Cell
  <2> HIDE DEF c, part
  <2>10. Write(w, v) \in Seq(Cells) /\ Write(w, v) \o rest = <<c>> \o s /\ s \in Seq(Cells)
    BY <2>7, <2>8, <2>9, CellFirst
  <2>11. x = Got(Scalar("int", c.tag, j), s)
    BY <2>9, <2>10, ScalarRead
  <2>12. x.ok = TRUE /\ x.v.n = j /\ x.rest = s
    BY <2>11 DEF Got, Scalar
  <2>13. Read(r, <<c>> \o s) = ReadFields(name, rf, s)
    BY <1>1, <1>10, <2>3, <2>12 DEF Read
  <2> QED BY <2>8, <2>10, <2>13
<1> QED BY <1>3, <1>4, <1>5, <1>6, <1>7, <1>8, <1>9, <1>10 DEF Agree

-----------------------------------------------------------------------------
(* The sampled values                                                      *)

Shapes == [full : BOOLEAN, pick : Nat \ {0}, odd : Odds \cup {"no"}]

\* A sampled value that is accepted and can be written, or that has no odd part,
\* is a value of its type.
Samples(accepted, raised, s) == s.odd = "no" \/ (accepted /\ ~raised)

PartsSampled(depth) ==
    \A t, u : \A numbers \in BOOLEAN : \A s \in Shapes : \A tag \in Seq(Labels) :
        LET v == sample(t, s, tag)
        IN  agree(depth - 1, t, u, numbers) =>
                /\ v = None \/ v.is # "none"
                /\ Samples(check_lower(t, v), raises(t, v), s) => is_value(t, v, s.odd = "two")

Sampled(depth) ==
    \A t, u : \A numbers \in BOOLEAN : \A s \in Shapes : \A tag \in Seq(Labels) :
        LET v == Sample(t, s, tag)
        IN  Agree(depth, t, u, numbers) =>
                /\ v = None \/ v.is # "none"
                /\ Samples(CheckLower(t, v), WriteRaises(t, v), s) => IsValue(t, v, s.odd = "two")

\* A text keeps its size.
LEMMA TextSampled ==
    ASSUME NEW kind, NEW tag \in Seq(Labels), NEW n \in Int
    PROVE  Text(kind, tag, n).is = kind /\ IsScalar(kind, Text(kind, tag, n)) /\ Text(kind, tag, n).n = n
<1> DEFINE origin == IF n = 0 THEN <<>> ELSE tag
<1>1. origin \in Seq(Labels)
  <2>1. <<>> \in Seq(Labels)
    OBVIOUS
  <2> QED BY <2>1
<1>2. Text(kind, tag, n) = Scalar(kind, origin, n)
  BY DEF Text
<1> HIDE DEF origin
<1> QED BY <1>1, <1>2 DEF Scalar, IsScalar

\* The scalars.
LEMMA ScalarSampled ==
    ASSUME NEW depth, NEW t, NEW u, NEW numbers \in BOOLEAN, NEW s \in Shapes,
           NEW tag \in Seq(Labels), Agree(depth, t, u, numbers), t.k \in {"int", "double", "bool", "str", "bytes"}
    PROVE  LET v == Sample(t, s, tag)
           IN  /\ v = None \/ v.is # "none"
               /\ Samples(CheckLower(t, v), WriteRaises(t, v), s) => IsValue(t, v, s.odd = "two")
<1> DEFINE v == Sample(t, s, tag)
<1>1. v = SampleScalar(t, s, tag)
  BY DEF Sample
<1>2. s.full \in BOOLEAN /\ <<>> \in Seq(Labels)
  BY DEF Shapes
<1>3. CASE s.odd = "other"
  <2>1. v = Scalar("other", tag, 1)
    BY <1>1, <1>3 DEF SampleScalar
  <2>2. v.is = "other"
    BY <2>1 DEF Scalar
  <2> HIDE DEF v
  <2>3. ~Samples(CheckLower(t, v), WriteRaises(t, v), s)
    BY <1>3, <2>2 DEF Samples, CheckLower, WriteRaises, CheckInt, CheckStr
  <2> QED BY <2>2, <2>3 DEF v
<1>4. CASE s.odd # "other" /\ t.k = "int"
  <2>1. v = Scalar("int", tag, IntSize(t, s)) /\ t.bits \in Nat
    BY <1>1, <1>4 DEF SampleScalar, Agree
  <2>2. IntSize(t, s) \in Int
    BY <2>1 DEF IntSize
  <2>3. v.is = "int" /\ IsScalar("int", v)
    BY <2>1, <2>2 DEF Scalar, IsScalar
  <2> HIDE DEF v
  <2>4. IsValue(t, v, s.odd = "two")
    BY <1>4, <2>3 DEF IsValue
  <2> QED BY <2>3, <2>4 DEF v
<1>5. CASE s.odd # "other" /\ t.k = "double"
  <2>1. v = Scalar("float", tag, 1)
    BY <1>1, <1>5 DEF SampleScalar
  <2>2. v.is = "float" /\ IsScalar("float", v)
    BY <2>1 DEF Scalar, IsScalar
  <2> HIDE DEF v
  <2>3. IsValue(t, v, s.odd = "two")
    BY <1>5, <2>2 DEF IsValue
  <2> QED BY <2>2, <2>3 DEF v
<1>6. CASE s.odd # "other" /\ t.k = "bool"
  <2>1. v = IF s.odd = "two" THEN Scalar("int", tag, 2)
            ELSE Scalar("bool", tag, IF s.full THEN 1 ELSE 0)
    BY <1>1, <1>6 DEF SampleScalar
  <2>2. CASE s.odd = "two"
    <3>1. v = Scalar("int", tag, 2)
      BY <2>1, <2>2
    <3>2. v.is = "int" /\ IsScalar("int", v) /\ v.n > 1
      BY <3>1 DEF Scalar, IsScalar
    <3> HIDE DEF v
    <3>3. IsValue(t, v, TRUE)
      BY <1>6, <3>2 DEF IsValue
    <3> QED BY <2>2, <3>2, <3>3 DEF v
  <2>3. CASE s.odd # "two"
    <3>1. v = Scalar("bool", tag, 0) \/ v = Scalar("bool", tag, 1)
      BY <1>2, <2>1, <2>3
    <3>2. v.is = "bool" /\ IsScalar("bool", v) /\ v.n \in 0 .. 1
      BY <3>1 DEF Scalar, IsScalar
    <3> HIDE DEF v
    <3>3. IsValue(t, v, s.odd = "two")
      BY <1>6, <3>2 DEF IsValue
    <3> QED BY <3>2, <3>3 DEF v
  <2> QED BY <2>2, <2>3
<1>7. CASE s.odd # "other" /\ t.k = "str"
  <2>1. v = Text("str", tag, TextSize(s)) /\ TextSize(s) \in {-1, 0, 20}
    BY <1>1, <1>2, <1>7 DEF SampleScalar, TextSize
  <2>2. v.is = "str" /\ IsScalar("str", v) /\ v.n = TextSize(s)
    BY <2>1, TextSampled
  <2> HIDE DEF v
  <2>3. ASSUME Samples(CheckLower(t, v), WriteRaises(t, v), s) PROVE v.n >= 0
    <3>1. CASE s.odd = "no"
      BY <1>2, <2>2, <3>1 DEF TextSize
    <3>2. CASE ~WriteRaises(t, v)
      BY <1>7, <2>1, <2>2, <3>2 DEF WriteRaises
    <3> QED BY <2>3, <3>1, <3>2 DEF Samples
  <2>4. v.n >= 0 => IsValue(t, v, s.odd = "two")
    BY <1>7, <2>2 DEF IsValue
  <2> QED BY <2>2, <2>3, <2>4 DEF v
<1>8. CASE s.odd # "other" /\ t.k = "bytes"
  <2>1. v = Text("bytes", tag, 0) \/ v = Text("bytes", tag, 20)
    BY <1>1, <1>2, <1>8 DEF SampleScalar
  <2>2. v.is = "bytes" /\ IsScalar("bytes", v) /\ v.n >= 0
    BY <2>1, TextSampled
  <2> HIDE DEF v
  <2>3. IsValue(t, v, s.odd = "two")
    BY <1>8, <2>2 DEF IsValue
  <2> QED BY <2>2, <2>3 DEF v
<1> QED BY <1>3, <1>4, <1>5, <1>6, <1>7, <1>8

\* The fields of a record or a variant.
LEMMA FieldsSampled ==
    ASSUME NEW depth, PartsSampled(depth), NEW numbers \in BOOLEAN, NEW s \in Shapes, NEW tag \in Seq(Labels),
           NEW name, NEW fields, NEW others, FieldsAgree(depth, fields, others, numbers)
    PROVE  LET v == SampleFields(name, fields, s, tag)
               types == FieldTypes(fields)
               values == FieldValues(fields, v)
           IN  /\ v.is = "fields" /\ v.name = name
               /\ Samples(CheckAll(types, values), AnyRaises(types, values), s) =>
                      HasFields(name, fields, v, s.odd = "two")
<1> DEFINE v == SampleFields(name, fields, s, tag)
           types == FieldTypes(fields)
           values == FieldValues(fields, v)
           N == Len(fields)
<1>1. /\ N \in Nat /\ DOMAIN fields = 1 .. N
      /\ \A i, j \in 1 .. N : NameOf(fields[i]) = NameOf(fields[j]) => i = j
      /\ \A i \in 1 .. N : NameOf(fields[i]) \in STRING /\ NameOf(fields[i]) \in Names(fields)
      /\ \A i \in 1 .. N : agree(depth - 1, TypeOf(fields[i]), TypeOf(others[i]), numbers)
  BY DEF FieldsAgree, SameNames, Named, Names
<1> HIDE DEF N
<1>2. v = Fields(name, [n \in Names(fields) |-> v.fields[n]]) /\ v.is = "fields" /\ v.name = name
  <2> DEFINE f == [n \in Names(fields) |->
                      LET i == CHOOSE i \in DOMAIN fields : NameOf(fields[i]) = n
                      IN  sample(TypeOf(fields[i]), s, Append(tag, n))]
  <2>1. v = Fields(name, f) /\ f = [n \in Names(fields) |-> f[n]]
    BY DEF SampleFields
  <2> HIDE DEF f, v
  <2>2. v.fields = f
    BY <2>1 DEF Fields
  <2> QED BY <2>1, <2>2 DEF Fields
<1>3. ASSUME NEW i \in 1 .. N
      PROVE  v.fields[NameOf(fields[i])] = sample(TypeOf(fields[i]), s, Append(tag, NameOf(fields[i])))
  <2>1. (CHOOSE j \in DOMAIN fields : NameOf(fields[j]) = NameOf(fields[i])) = i
    BY <1>1
  <2> QED BY <1>1, <2>1 DEF SampleFields, Fields
<1>4. ASSUME NEW i \in 1 .. N
      PROVE  /\ types[i] = TypeOf(fields[i]) /\ values[i] = v.fields[NameOf(fields[i])]
             /\ i \in DOMAIN types
  BY <1>1 DEF FieldTypes, FieldValues
<1> HIDE DEF v, types, values
<1>5. ASSUME Samples(CheckAll(types, values), AnyRaises(types, values), s), NEW i \in 1 .. N
      PROVE  is_value(TypeOf(fields[i]), v.fields[NameOf(fields[i])], s.odd = "two")
  <2> DEFINE part == v.fields[NameOf(fields[i])]
             t == TypeOf(fields[i])
             place == Append(tag, NameOf(fields[i]))
  <2>1. place \in Seq(Labels)
    <3>1. NameOf(fields[i]) \in Labels
      BY <1>1 DEF Labels
    <3> QED BY <3>1
  <2>2. agree(depth - 1, t, TypeOf(others[i]), numbers) /\ part = sample(t, s, place)
    BY <1>1, <1>3
  <2>3. Samples(check_lower(t, part), raises(t, part), s)
    BY <1>4, <1>5 DEF Samples, CheckAll, AnyRaises
  <2> HIDE DEF part, t, place
  <2>4. is_value(t, part, s.odd = "two")
    BY <2>1, <2>2, <2>3 DEF PartsSampled
  <2> QED BY <2>4 DEF part, t
<1> QED BY <1>1, <1>2, <1>5 DEF HasFields, v, types, values

\* The value of a type that a shape chooses is a value of the type, unless an odd
\* part of it is refused by check_lower or cannot be written, if this holds of
\* the parts.
THEOREM SampledOfParts == ASSUME NEW depth, PartsSampled(depth) PROVE Sampled(depth)
<1> SUFFICES ASSUME NEW t, NEW u, NEW numbers \in BOOLEAN, NEW s \in Shapes,
                    NEW tag \in Seq(Labels), Agree(depth, t, u, numbers)
             PROVE  LET v == Sample(t, s, tag)
                    IN  /\ v = None \/ v.is # "none"
                        /\ Samples(CheckLower(t, v), WriteRaises(t, v), s) =>
                               IsValue(t, v, s.odd = "two")
  BY DEF Sampled
<1> DEFINE v == Sample(t, s, tag)
<1>1. CASE t.k \in {"int", "double", "bool", "str", "bytes"}
  BY <1>1, ScalarSampled
<1>2. CASE t.k = "optional"
  <2> DEFINE part == sample(t.of, s, tag)
  <2>1. v = (IF s.full THEN part ELSE None) /\ agree(depth - 1, t.of, u.of, numbers)
    BY <1>2 DEF Sample, Agree
  <2>2. /\ part = None \/ part.is # "none"
        /\ Samples(check_lower(t.of, part), raises(t.of, part), s) =>
              is_value(t.of, part, s.odd = "two")
    BY <2>1 DEF PartsSampled
  <2> HIDE DEF part, v
  <2>3. v = None \/ (v = part /\ v.is # "none")
    BY <2>1, <2>2
  <2>4. ASSUME v # None, Samples(CheckLower(t, v), WriteRaises(t, v), s)
        PROVE  is_value(t.of, v, s.odd = "two")
    <3>1. /\ CheckLower(t, v) => check_lower(t.of, part)
          /\ ~WriteRaises(t, v) => ~raises(t.of, part)
      BY <1>2, <2>3, <2>4 DEF CheckLower, WriteRaises
    <3> QED BY <2>2, <2>3, <2>4, <3>1 DEF Samples
  <2> QED BY <1>2, <2>3, <2>4 DEF IsValue, v
<1>3. CASE t.k = "sequence"
  <2> DEFINE N == IF s.full THEN 2 ELSE 0
             place(i) == Append(tag, <<"first", "second">>[i])
             items == [i \in 1 .. N |-> sample(t.of, s, place(i))]
             types == ItemTypes(t, N)
  <2>1. v = Items(items) /\ agree(depth - 1, t.of, u.of, numbers)
    BY <1>3 DEF Sample, Agree
  <2>2. N \in Nat /\ \A i \in 1 .. N : i = 1 \/ i = 2
    BY DEF Shapes
  <2>3. \A i \in 1 .. N : place(i) \in Seq(Labels)
    <3>1. <<"first", "second">>[1] = "first" /\ <<"first", "second">>[2] = "second"
      OBVIOUS
    <3>2. "first" \in Labels /\ "second" \in Labels
      BY DEF Labels
    <3> QED BY <2>2, <3>1, <3>2
  <2>4. \A i \in 1 .. N : items[i] = sample(t.of, s, place(i))
    OBVIOUS
  <2>5. items = [i \in 1 .. N |-> items[i]]
    OBVIOUS
  <2>6. types = [i \in 1 .. N |-> types[i]] /\ \A i \in 1 .. N : types[i] = t.of
    BY DEF ItemTypes
  <2> HIDE DEF N, place, items, v
  <2>7. Len(items) = N
    BY <2>2, <2>5, LenOfList
  <2>8. v.is = "items" /\ v.items = items
    BY <2>1 DEF Items
  <2>9. ASSUME Samples(CheckLower(t, v), WriteRaises(t, v), s), NEW i \in 1 .. N
        PROVE  is_value(t.of, items[i], s.odd = "two")
    <3>1. DOMAIN types = 1 .. N
      BY DEF ItemTypes
    <3> HIDE DEF types
    <3>2. /\ CheckLower(t, v) = CheckAll(types, items)
          /\ WriteRaises(t, v) = AnyRaises(types, items)
      BY <1>3, <2>7, <2>8 DEF CheckLower, WriteRaises, types
    <3>3. Samples(check_lower(t.of, items[i]), raises(t.of, items[i]), s)
      BY <2>6, <2>9, <3>1, <3>2 DEF Samples, CheckAll, AnyRaises
    <3> QED BY <2>1, <2>3, <2>4, <3>3 DEF PartsSampled
  <2>10. ASSUME Samples(CheckLower(t, v), WriteRaises(t, v), s)
         PROVE  IsValue(t, v, s.odd = "two")
    <3>1. v = Items([i \in 1 .. Len(v.items) |-> v.items[i]])
      BY <2>1, <2>5, <2>7, <2>8
    <3>2. Len(v.items) \in Nat
      BY <2>2, <2>7, <2>8
    <3>3. \A i \in 1 .. Len(v.items) : is_value(t.of, v.items[i], s.odd = "two")
      BY <2>7, <2>8, <2>9, <2>10
    <3> QED BY <1>3, <3>1, <3>2, <3>3 DEF IsValue
  <2> QED BY <2>8, <2>10 DEF v
<1>4. CASE t.k = "record"
  <2>1. v = SampleFields("", t.fields, s, tag) /\ FieldsAgree(depth, t.fields, u.fields, numbers)
    BY <1>4 DEF Sample, Agree
  <2>2. /\ v.is = "fields"
        /\ Samples(CheckAll(FieldTypes(t.fields), FieldValues(t.fields, v)),
                   AnyRaises(FieldTypes(t.fields), FieldValues(t.fields, v)), s) =>
               HasFields("", t.fields, v, s.odd = "two")
    <3> DEFINE name == ""
               fields == t.fields
               w == SampleFields(name, fields, s, tag)
    <3>1. /\ w.is = "fields"
          /\ Samples(CheckAll(FieldTypes(fields), FieldValues(fields, w)),
                     AnyRaises(FieldTypes(fields), FieldValues(fields, w)), s) =>
                 HasFields(name, fields, w, s.odd = "two")
      <4>1. FieldsAgree(depth, fields, u.fields, numbers)
        BY <2>1
      <4> HIDE DEF name, fields, v
      <4> QED BY <4>1, FieldsSampled
    <3> HIDE DEF v, w
    <3>2. v = w
      BY <2>1 DEF w
    <3> QED BY ONLY <3>1, <3>2
  <2> HIDE DEF v
  <2>3. /\ CheckLower(t, v) = CheckAll(FieldTypes(t.fields), FieldValues(t.fields, v))
        /\ WriteRaises(t, v) = AnyRaises(FieldTypes(t.fields), FieldValues(t.fields, v))
        /\ IsValue(t, v, s.odd = "two") = HasFields("", t.fields, v, s.odd = "two")
    BY <1>4 DEF CheckLower, WriteRaises, IsValue
  <2> QED BY <2>2, <2>3 DEF v
<1>5. CASE t.k = "union"
  <2> DEFINE N == Len(t.variants)
             j == ((s.pick - 1) % N) + 1
             name == NameOf(t.variants[j])
             fields == TypeOf(t.variants[j])
             types == FieldTypes(fields)
             values == FieldValues(fields, v)
  <2>1. /\ SameNames(t.variants, u.variants) /\ N > 0
        /\ \A i \in DOMAIN t.variants :
              FieldsAgree(depth, TypeOf(t.variants[i]), TypeOf(u.variants[i]), numbers)
    BY <1>5 DEF Agree
  <2>2. /\ N \in Nat /\ DOMAIN t.variants = 1 .. N
        /\ \A i \in 1 .. N : NameOf(t.variants[i]) \in STRING
        /\ \A i, k \in 1 .. N : NameOf(t.variants[i]) = NameOf(t.variants[k]) => i = k
    BY <2>1 DEF SameNames, Named, Names
  <2>3. v = SampleFields(name, fields, s, Append(tag, name))
    BY <1>5 DEF Sample, Picked
  <2>4. j \in 1 .. N
    <3>1. s.pick - 1 \in Int
      BY DEF Shapes
    <3> DEFINE x == s.pick - 1
    <3> HIDE DEF x, N
    <3>2. x % N \in 0 .. N - 1
      BY <2>1, <2>2, <3>1 DEF x
    <3> QED BY <2>1, <2>2, <3>2 DEF x
  <2> HIDE DEF j, N, v
  <2>5. name \in STRING /\ FieldsAgree(depth, fields, TypeOf(u.variants[j]), numbers)
    BY <2>1, <2>2, <2>4
  <2>6. Append(tag, name) \in Seq(Labels)
    <3>1. name \in Labels
      BY <2>5 DEF Labels
    <3> HIDE DEF name
    <3> QED BY <3>1
  <2>7. /\ v.is = "fields" /\ v.name = name
        /\ Samples(CheckAll(types, values), AnyRaises(types, values), s) =>
               HasFields(name, fields, v, s.odd = "two")
    <3> DEFINE others == TypeOf(u.variants[j])
               place == Append(tag, name)
               w == SampleFields(name, fields, s, place)
    <3>1. /\ w.is = "fields" /\ w.name = name
          /\ Samples(CheckAll(types, FieldValues(fields, w)), AnyRaises(types, FieldValues(fields, w)), s) =>
                 HasFields(name, fields, w, s.odd = "two")
      <4>1. FieldsAgree(depth, fields, others, numbers) /\ place \in Seq(Labels)
        BY <2>5, <2>6
      <4> HIDE DEF others, place, fields, name
      <4> QED BY <4>1, FieldsSampled DEF w, types
    <3> HIDE DEF w, types, name, fields
    <3>2. v = w
      BY <2>3 DEF w, name, fields, place
    <3> QED BY ONLY <3>1, <3>2 DEF values
  <2>8. VariantOf(t, v) = j
    BY <2>2, <2>4, <2>7 DEF VariantOf
  <2>9. CheckLower(t, v) => CheckAll(types, values)
    <3>1. ASSUME CheckLower(t, v)
          PROVE  \E i \in DOMAIN t.variants :
                     /\ NameOf(t.variants[i]) = v.name
                     /\ CheckAll(FieldTypes(TypeOf(t.variants[i])),
                                 FieldValues(TypeOf(t.variants[i]), v))
      BY <1>5, <3>1 DEF CheckLower
    <3> QED BY <2>2, <2>4, <2>7, <3>1
  <2>10. WriteRaises(t, v) = AnyRaises(types, values)
    BY <1>5, <2>8 DEF WriteRaises
  <2>11. HasFields(name, fields, v, s.odd = "two") => IsValue(t, v, s.odd = "two")
    BY <1>5, <2>2, <2>4 DEF IsValue
  <2>12. Samples(CheckLower(t, v), WriteRaises(t, v), s) => IsValue(t, v, s.odd = "two")
    BY <2>7, <2>9, <2>10, <2>11 DEF Samples
  <2> QED BY <2>7, <2>12 DEF v
<1> QED BY <1>1, <1>2, <1>3, <1>4, <1>5 DEF Agree
-----------------------------------------------------------------------------
(* Layouts that agree even where a number stands for a Boolean             *)

PartsWeaken(depth) == \A w, r : agree(depth - 1, w, r, TRUE) => agree(depth - 1, w, r, FALSE)

Weaken(depth) == \A w, r : Agree(depth, w, r, TRUE) => Agree(depth, w, r, FALSE)

\* Layouts that agree where numbers are let through agree where none are.
LEMMA WeakenOfParts == ASSUME NEW depth, PartsWeaken(depth) PROVE Weaken(depth)
<1> SUFFICES ASSUME NEW w, NEW r, Agree(depth, w, r, TRUE) PROVE Agree(depth, w, r, FALSE)
  BY DEF Weaken
<1>1. ASSUME NEW wf, NEW rf, FieldsAgree(depth, wf, rf, TRUE) PROVE FieldsAgree(depth, wf, rf, FALSE)
  BY <1>1 DEF FieldsAgree, PartsWeaken
<1>2. CASE w.k \in {"int", "bool", "double", "str", "bytes"}
  BY <1>2 DEF Agree
<1>3. CASE w.k \in {"optional", "sequence"}
  BY <1>3 DEF Agree, PartsWeaken
<1>4. CASE w.k = "record"
  BY <1>1, <1>4 DEF Agree
<1>5. CASE w.k = "union"
  BY <1>1, <1>5 DEF Agree
<1> QED BY <1>2, <1>3, <1>4, <1>5 DEF Agree

-----------------------------------------------------------------------------
(* Every depth                                                             *)

\* With the converters of the binding, what holds of a type if it holds of its
\* parts holds of the types of every depth.
THEOREM EveryDepth ==
    ASSUME Recursive, NEW depth \in Nat
    PROVE  RoundTrip(depth) /\ Sampled(depth) /\ Weaken(depth)
<1> DEFINE Holds(d) == RoundTrip(d) /\ Sampled(d) /\ Weaken(d)
           Bad == {d \in Nat : ~Holds(d)}
<1>1. \A d \in Nat : \A w, r, numbers :
        /\ agree(d, w, r, numbers) <=> Agree(d, w, r, numbers)
        /\ Agree(d, w, r, numbers) => ByParts(w, r)
  BY DEF Recursive
<1>2. ASSUME NEW c \in Nat, Holds(c), NEW d, c = d - 1 PROVE PartsRoundTrip(d)
  BY <1>1, <1>2 DEF PartsRoundTrip, RoundTrip, ByParts
<1>3. ASSUME NEW c \in Nat, Holds(c), NEW d, c = d - 1 PROVE PartsSampled(d)
  BY <1>1, <1>3 DEF PartsSampled, Sampled, ByParts, Samples
<1>4. ASSUME NEW c \in Nat, Holds(c), NEW d, c = d - 1 PROVE PartsWeaken(d)
  <2>1. ASSUME NEW w, NEW r, agree(c, w, r, TRUE) PROVE agree(c, w, r, FALSE)
    <3>1. Agree(c, w, r, TRUE)
      BY <1>1, <2>1, Zenon
    <3>2. Agree(c, w, r, FALSE)
      BY <1>4, <3>1 DEF Weaken
    <3> QED BY <1>1, <3>2, Zenon
  <2> QED BY <1>4, <2>1, Zenon DEF PartsWeaken
<1>5. ASSUME NEW c \in Nat, Holds(c), NEW d, c = d - 1 PROVE Holds(d)
  BY <1>2, <1>3, <1>4, <1>5, RoundTripOfParts, SampledOfParts, WeakenOfParts
<1>6. Holds(0)
  BY DEF RoundTrip, Sampled, Weaken, Agree
<1> HIDE DEF Holds
<1>7. Bad = {}
  <2>1. SUFFICES ASSUME Bad # {} PROVE FALSE
    OBVIOUS
  <2>2. PICK d \in Bad : \A e \in Bad : d <= e
    BY <2>1, LeastOf
  <2>3. d \in Nat /\ d # 0 /\ ~Holds(d)
    BY <1>6, <2>2
  <2>4. d - 1 \in Nat /\ Holds(d - 1)
    BY <2>2, <2>3
  <2> QED BY <1>5, <2>3, <2>4
<1>8. Holds(depth)
  BY <1>7
<1> QED BY <1>8 DEF Holds
=============================================================================
