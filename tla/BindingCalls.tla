---------------------------- MODULE BindingCalls ----------------------------
(***************************************************************************)
(* One call of an exported function through the generated Python binding:  *)
(* the import that checks the library, the two passes over the arguments   *)
(* (check_lower for all of them, then lower one after the other), the call *)
(* into the core, the call status, and the result lifted from its buffer.  *)
(* Asynchronous functions pass arguments and results in the same way; when *)
(* their futures are polled is the subject of BindingAsync.                *)
(***************************************************************************)
EXTENDS BindingTypes, UniffiConverter

Core == INSTANCE CoreTypes

CONSTANTS
    Picks,              \* which variant of a union a sample holds
    Called,             \* the functions whose calls are explored
    Deepest             \* how deep their types are nested

ASSUME PicksAssumption == \A p \in Picks : p \in Nat \ {0}
ASSUME CalledAssumption == Called \subseteq DOMAIN Functions
ASSUME DeepestAssumption == Deepest \in Nat

VARIABLES
    lib,        \* the library found by the loader: contract version, changed functions
    pc,         \* where the call is
    fn,         \* the function called
    shape,      \* the shape of the arguments and of the answer
    args,       \* the values the caller passed
    low,        \* what each argument was lowered to: a value or a buffer
    bufs,       \* every RustBuffer allocated during the call
    received,   \* the arguments as the core lifted them
    answer,     \* what the core answered: status code, value
    ret,        \* the returned value: a value or a buffer
    outcome     \* what the caller gets

vars == <<lib, pc, fn, shape, args, low, bufs, received, answer, ret, outcome>>

Sig == Functions[fn]
CoreSig == Core!Functions[fn]

(* The library. *)

Contract == 26
Checksummed == DOMAIN Functions

LibraryAccepted ==
    /\ lib.contract = Contract
    /\ \A f \in Checksummed : f \notin lib.changed

(* Buffers: capacity and length in bytes, the cells written, who has it.   *)

Alloc(size) == [cap |-> size, len |-> 0, cells |-> <<>>, overrun |-> FALSE,
                owner |-> "python", frees |-> 0]

\* The core's reserve grows a vector to twice its capacity or to what is needed.
Grown(b, n) == [b EXCEPT !.cap = IF 2 * b.cap > b.len + n THEN 2 * b.cap ELSE b.len + n]

\* Slip: the room for the bytes to come is not counted.
ReserveWithoutTheBytes(b, n) == IF b.len > b.cap THEN Grown(b, n) ELSE b

Reserve(b, n) == IF b.len + n > b.cap THEN Grown(b, n) ELSE b

Put(b, c) ==
    LET room == Reserve(b, Width(c)).cap
        end == b.len + Width(c)
    IN  [b EXCEPT !.cap = room, !.len = end, !.cells = Append(@, c), !.overrun = @ \/ end > room]

\* The buffer after one write for each cell.
Filled(b, cells) ==
    LET fill[n \in 0 .. Len(cells)] == IF n = 0 THEN b ELSE Put(fill[n - 1], cells[n])
    IN  fill[Len(cells)]

Built(cells) == Filled(Alloc(16), cells)

\* A buffer the core fills and hands to the caller starts as an empty vector.
CoreBuilt(cells) == Filled(Alloc(0), cells)

Freed(b) == [b EXCEPT !.owner = "nobody", !.frees = @ + 1]
Given(b) == [b EXCEPT !.owner = "core"]

\* Slip: a builder whose write raised is dropped without discard.
DiscardedNever(b) == b

Discarded(b) == Freed(b)

AsValue(v) == [direct |-> TRUE, v |-> v, buf |-> 0]
InBuffer(i) == [direct |-> FALSE, v |-> None, buf |-> i]

Outcome(what, v) == [kind |-> what, v |-> v]
Unanswered == -1
NoOutcome == Outcome("none", None)

(* Inputs: every function with ordinary values of every variant, and every *)
(* argument in turn replaced by an odd one.                                *)

Ordinary == {Shape(full, p, "no") : full \in BOOLEAN, p \in Picks}
OddShapes == {Shape(TRUE, 1, o) : o \in Odds}
Unspoilt(s) == [s EXCEPT !.odd = "no"]

ArgName(f, i) == NameOf(Functions[f].args[i])
ArgType(f, i) == TypeOf(Functions[f].args[i])

Arguments(f, s, odd) ==
    [i \in DOMAIN Functions[f].args |->
        sample(ArgType(f, i), IF i = odd \/ odd = 0 THEN s ELSE Unspoilt(s), <<ArgName(f, i)>>)]

Message == Text("str", <<"message">>, 20)

\* What is accepted is written as cells that a buffer can hold; so is every
\* answer of the core.
ASSUME LowerAssumption ==
    /\ \A f \in Called : \A s \in Ordinary \cup OddShapes :
        /\ \A i \in DOMAIN Functions[f].args : \A u \in {s, Unspoilt(s)} :
              LET t == ArgType(f, i)
                  v == sample(t, u, <<ArgName(f, i)>>)
              IN  check_lower(t, v) /\ ~Direct(t) /\ ~raises(t, v) => lower(t, v) \in Seq(Cells)
        /\ \A tag \in {"result", "error"} :
              LET t == IF tag = "result" THEN Core!Functions[f].ret ELSE Core!Functions[f].err
              IN  ~Direct(t) => lower(t, sample(t, Unspoilt(s), <<tag>>)) \in Seq(Cells)
    /\ lower(Str, Message) \in Seq(Cells)

Init ==
    /\ lib \in [contract : {Contract}, changed : {{f} : f \in Called} \cup {{}}]
               \cup [contract : {Contract - 1}, changed : {{}}]
    /\ pc = "import"
    /\ fn = "add_tags" /\ shape = Shape(TRUE, 1, "no")
    /\ args = <<>> /\ low = <<>> /\ bufs = <<>> /\ received = <<>>
    /\ answer = [code |-> Unanswered, v |-> None]
    /\ ret = AsValue(None)
    /\ outcome = NoOutcome

Import ==
    /\ pc = "import"
    /\ IF LibraryAccepted THEN pc' = "idle" /\ UNCHANGED outcome
       ELSE pc' = "done" /\ outcome' = Outcome("InternalError", None)
    /\ UNCHANGED <<lib, fn, shape, args, low, bufs, received, answer, ret>>

Call(f) ==
    /\ pc = "idle"
    /\ fn' = f
    /\ \/ \E s \in Ordinary : shape' = s /\ args' = Arguments(f, s, 0)
       \/ \E s \in OddShapes, i \in DOMAIN Functions[f].args :
            shape' = s /\ args' = Arguments(f, s, i)
    /\ pc' = "check"
    /\ UNCHANGED <<lib, low, bufs, received, answer, ret, outcome>>

Accepts == \A i \in DOMAIN args : check_lower(ArgType(fn, i), args[i])

CheckArguments ==
    /\ pc = "check"
    /\ IF Accepts THEN pc' = "lower" /\ UNCHANGED outcome
       ELSE pc' = "done" /\ outcome' = Outcome("refused", None)
    /\ UNCHANGED <<lib, fn, shape, args, low, bufs, received, answer, ret>>

NextArg == Len(low) + 1

LowerArgument ==
    /\ pc = "lower" /\ NextArg \in DOMAIN args
    /\ LET t == ArgType(fn, NextArg)
           v == args[NextArg]
       IN  CASE Direct(t) ->
                    /\ low' = Append(low, AsValue(DirectValue(t, v)))
                    /\ UNCHANGED <<bufs, pc, outcome>>
             [] ~Direct(t) /\ raises(t, v) ->
                    /\ bufs' = Append(bufs, Discarded(Alloc(16)))
                    /\ pc' = "done" /\ outcome' = Outcome("unwritable", None)
                    /\ UNCHANGED low
             [] OTHER ->
                    /\ bufs' = Append(bufs, Built(lower(t, v)))
                    /\ low' = Append(low, InBuffer(Len(bufs) + 1))
                    /\ UNCHANGED <<pc, outcome>>
    /\ UNCHANGED <<lib, fn, shape, args, received, answer, ret>>

(* The core: its scaffolding takes every buffer, lifts the arguments and   *)
(* runs the function; its answer is lowered into a buffer for the caller.  *)

\* The call is made by the declared C types, which must be the core's.
DeclaredRight ==
    /\ fn \notin lib.changed
    /\ Declared[fn].args = [i \in DOMAIN CoreSig.args |-> CType(TypeOf(CoreSig.args[i]))]
    /\ Declared[fn].ret = CType(CoreSig.ret)

Lifted(i) ==
    IF ~DeclaredRight THEN Garbled
    ELSE LET t == TypeOf(CoreSig.args[i])
             r == lift(t, bufs[low[i].buf].cells)
         IN  CASE Direct(t) -> low[i].v
               [] ~Direct(t) /\ r.ok /\ r.rest = <<>> -> r.v
               [] OTHER -> Garbled

Handed == [i \in DOMAIN bufs |->
    IF \E j \in DOMAIN low : low[j] = InBuffer(i) THEN Given(bufs[i]) ELSE bufs[i]]

\* A panic has a message, or none that the core could take.
CorePanics(v) ==
    /\ answer' = [code |-> 2, v |-> v]
    /\ bufs' = Append(Handed, IF v = None THEN Alloc(0) ELSE CoreBuilt(lower(Str, v)))
    /\ ret' = InBuffer(Len(bufs) + 1)

CoreAnswers(code, t, tag) ==
    LET v == sample(t, Unspoilt(shape), <<tag>>)
    IN  /\ answer' = [code |-> code, v |-> v]
        /\ IF Direct(t) THEN ret' = AsValue(v) /\ bufs' = Handed
           ELSE /\ ret' = InBuffer(Len(bufs) + 1)
                /\ bufs' = Append(Handed, CoreBuilt(lower(t, v)))

RustCall ==
    /\ pc = "lower" /\ NextArg \notin DOMAIN args
    /\ received' = [i \in DOMAIN args |-> Lifted(i)]
    /\ \/ /\ Garbled \notin Range(received')
          /\ \/ CoreAnswers(0, CoreSig.ret, "result")
             \/ CoreAnswers(1, CoreSig.err, "error")
       \/ \E v \in {Message, None} : CorePanics(v)
    /\ pc' = "status"
    /\ UNCHANGED <<lib, fn, shape, args, low, outcome>>

(* The call status and the result. *)

\* Slip: lift frees the buffer that consume_with_stream has freed already.
ConsumedTwice(b) == Freed(Freed(b))

Consumed(b) == Freed(b)

\* consume_with_stream: read, refuse what is left over, free in any case.
LiftFrom(t, kind) ==
    IF ret.direct
    THEN outcome' = Outcome(kind, ret.v) /\ UNCHANGED bufs
    ELSE LET r == lift(t, bufs[ret.buf].cells)
         IN  /\ outcome' = CASE ~r.ok -> Outcome("InternalError", None)
                             [] r.ok /\ r.rest # <<>> -> Outcome("RuntimeError", None)
                             [] OTHER -> Outcome(kind, r.v)
             /\ bufs' = [bufs EXCEPT ![ret.buf] = Consumed(@)]

CallSucceeded == answer.code = 0 /\ LiftFrom(Sig.ret, "returned")

CallFailed == answer.code = 1 /\ LiftFrom(Sig.err, "error")

CallPanicked ==
    /\ answer.code = 2
    /\ IF bufs[ret.buf].len > 0
       THEN LiftFrom(Str, "InternalError")
       ELSE outcome' = Outcome("InternalError", None) /\ UNCHANGED bufs

CheckCallStatus ==
    /\ pc = "status"
    /\ CallSucceeded \/ CallFailed \/ CallPanicked
    /\ pc' = "done"
    /\ UNCHANGED <<lib, fn, shape, args, low, received, answer, ret>>

Done == pc = "done" /\ UNCHANGED vars

Next ==
    \/ Import
    \/ \E f \in Called : Call(f)
    \/ CheckArguments
    \/ LowerArgument
    \/ RustCall
    \/ CheckCallStatus
    \/ Done

Spec == Init /\ [][Next]_vars

(* Properties. *)

TypeOK ==
    /\ pc \in {"import", "idle", "check", "lower", "status", "done"}
    /\ fn \in DOMAIN Functions
    /\ answer.code \in Unanswered .. 2
    /\ outcome.kind \in {"none", "returned", "error", "refused", "unwritable", "InternalError",
                        "RuntimeError"}
    /\ \A i \in DOMAIN bufs :
        /\ bufs[i].owner \in {"python", "core", "nobody"}
        /\ bufs[i].len \in Nat /\ bufs[i].cap \in Nat
        /\ bufs[i].frees \in 0 .. 1

\* The core's scaffolding reads, by the core's own layouts, exactly the values
\* the caller passed by the binding's layouts: no field changes places, no
\* length is misread, and no argument the binding let through is lost.  Only a
\* number other than 0 and 1 given for a nested Boolean is let through by
\* check_lower and refused by the core.
ArgumentsArrive ==
    answer.code # Unanswered => \A i \in DOMAIN received :
        \/ received[i] = DirectValue(ArgType(fn, i), args[i])
        \/ shape.odd = "two" /\ received[i] = Garbled /\ answer.code = 2

\* What the caller gets is what the core answered: its result, its error with
\* the same variant and fields, or, for a panic, InternalError with the
\* message of the panic.
AnswersArrive ==
    pc = "done" /\ answer.code # Unanswered =>
        outcome = CASE answer.code = 0 -> Outcome("returned", answer.v)
                    [] answer.code = 1 -> Outcome("error", answer.v)
                    [] answer.code = 2 -> Outcome("InternalError", answer.v)

\* No write into a RustBuffer goes past its capacity, whatever the lengths of
\* the texts and lists that are lowered.
NoOverrun == \A i \in DOMAIN bufs : ~bufs[i].overrun

\* At the end of a call every buffer was handed to the core or freed, and
\* freed once; the one exception are the buffers of earlier arguments when a
\* later argument's lower raises, which nobody frees.
BuffersSettled ==
    pc = "done" => \A i \in DOMAIN bufs :
        \/ bufs[i].owner = "core" /\ bufs[i].frees = 0
        \/ bufs[i].owner = "nobody" /\ bufs[i].frees = 1
        \/ bufs[i].cap = 0
        \/ /\ outcome.kind = "unwritable"
           /\ \E j \in DOMAIN low : low[j] = InBuffer(i)

(* What a call relies on: the binding and the core were generated from one *)
(* interface, so that what one side writes the other side reads.           *)

\* A function has the same arguments on both sides, its C declaration is the
\* core's, and what crosses as a value on one side does so on the other.
SignaturesAgree == \A f \in Called :
    LET py == Functions[f]
        rs == Core!Functions[f]
    IN  /\ Len(rs.args) \in Nat
        /\ DOMAIN py.args = 1 .. Len(rs.args) /\ DOMAIN rs.args = 1 .. Len(rs.args)
        /\ \A i \in DOMAIN py.args : ArgName(f, i) \in STRING
        /\ Declared[f].args = [i \in DOMAIN rs.args |-> CType(TypeOf(rs.args[i]))]
        /\ Declared[f].ret = CType(rs.ret)
        /\ \A i \in DOMAIN rs.args : Direct(TypeOf(rs.args[i])) <=> Direct(ArgType(f, i))
        /\ Direct(rs.ret) <=> Direct(py.ret)
        /\ Direct(rs.err) <=> Direct(py.err)

\* What the converter of one side wrote for the values of a call, the converter
\* of the other reads: the value itself, or nothing where a nested Boolean was
\* given a number.
ConvertersAgree ==
    /\ \A f \in Called : \A s \in Ordinary \cup OddShapes :
        /\ \A i \in DOMAIN Functions[f].args : \A u \in {s, Unspoilt(s)} :
              LET t == ArgType(f, i)
                  v == sample(t, u, <<ArgName(f, i)>>)
                  r == lift(TypeOf(Core!Functions[f].args[i]), lower(t, v))
              IN  check_lower(t, v) /\ ~Direct(t) /\ ~raises(t, v) =>
                    r = Got(v, <<>>) \/ (u.odd = "two" /\ ~r.ok)
        /\ LET rs == Core!Functions[f]
               result == sample(rs.ret, Unspoilt(s), <<"result">>)
               error == sample(rs.err, Unspoilt(s), <<"error">>)
           IN  /\ ~Direct(rs.ret) => lift(Functions[f].ret, lower(rs.ret, result)) = Got(result, <<>>)
               /\ ~Direct(rs.err) => lift(Functions[f].err, lower(rs.err, error)) = Got(error, <<>>)
    /\ lift(Str, lower(Str, Message)) = Got(Message, <<>>)
    /\ \E i \in DOMAIN lower(Str, Message) : Width(lower(Str, Message)[i]) > 0

Agreement == SignaturesAgree /\ ConvertersAgree

\* The generated tables of the binding are those of the core: every function has
\* the same arguments, and every record, variant and list that crosses in a
\* buffer has the same parts in the same order on both sides, as deep as they
\* are nested.  The core alone is strict about the Booleans it is given.
LayoutsAgree ==
    /\ SignaturesAgree
    /\ \A f \in Called :
        LET py == Functions[f]
            rs == Core!Functions[f]
        IN  /\ \A i \in DOMAIN rs.args :
                  LET t == TypeOf(rs.args[i])
                  IN  ~Direct(t) => Agree(Deepest, ArgType(f, i), t, TRUE)
            /\ ~Direct(rs.ret) => Agree(Deepest, rs.ret, py.ret, FALSE)
            /\ ~Direct(rs.err) => Agree(Deepest, rs.err, py.err, FALSE)

\* No step changes a table: it is enough to look where a run starts.
TablesAgree == pc = "import" => LayoutsAgree
=============================================================================
