-------------------------- MODULE BindingAsyncProofs --------------------------
(***************************************************************************)
(* Proofs about BindingAsync, for any set of calls and of event loops: the *)
(* handle map of the binding holds exactly the futures the core waits to   *)
(* call back, no callback raises, and ffi_complete always has a result.    *)
(***************************************************************************)
EXTENDS BindingAsync, TLAPS

USE DEF READY, MAYBE_READY, PcStates, Running, FutStates, SchedStates, JobStates, Outcomes

\* uniffi_set_event_loop touches no call.
LEMMA SetLoopKeeps ==
    ASSUME IInv, NEW l \in Loops, uniffi_set_event_loop(l) PROVE IInv'
<1>1. TypeOK'
  BY DEF IInv, TypeOK, uniffi_set_event_loop
<1>2. LoopsKnown'
  BY DEF IInv, TypeOK, LoopsKnown, uniffi_set_event_loop
<1>3. HandlesDistinct'
  BY DEF IInv, TypeOK, HandlesDistinct, uniffi_set_event_loop
<1>4. WaitingUnresolved'
  BY DEF IInv, TypeOK, WaitingUnresolved, uniffi_set_event_loop
<1>5. QueuedUnresolved'
  BY DEF IInv, TypeOK, QueuedUnresolved, Waiting, uniffi_set_event_loop
<1>6. CoroutineFutures'
  BY DEF IInv, TypeOK, CoroutineFutures, uniffi_set_event_loop
<1>7. ReadyIsFinished'
  BY DEF IInv, TypeOK, ReadyIsFinished, Finished, uniffi_set_event_loop
<1>8. HandlesAreWaiting'
  BY DEF IInv, TypeOK, HandlesAreWaiting, Waiting, uniffi_set_event_loop
<1>9. NoCallbackRaises'
  BY DEF IInv, TypeOK, NoCallbackRaises, uniffi_set_event_loop
<1> QED BY <1>1, <1>2, <1>3, <1>4, <1>5, <1>6, <1>7, <1>8, <1>9 DEF IInv

\* A call starts with no future.
LEMMA CallKeeps ==
    ASSUME IInv, NEW c \in Calls, NEW l \in Loops, Call(c, l) PROVE IInv'
<1>1. TypeOK'
  BY DEF IInv, TypeOK, Call, Goto
<1>2. LoopsKnown'
  BY DEF IInv, TypeOK, LoopsKnown, Call, Goto
<1>3. HandlesDistinct'
  BY DEF IInv, TypeOK, HandlesDistinct, Call, Goto
<1>4. WaitingUnresolved'
  BY DEF IInv, TypeOK, WaitingUnresolved, Call, Goto
<1>5. QueuedUnresolved'
  BY DEF IInv, TypeOK, QueuedUnresolved, Waiting, Call, Goto
<1>6. CoroutineFutures'
  BY DEF IInv, TypeOK, CoroutineFutures, Call, Goto
<1>7. ReadyIsFinished'
  BY DEF IInv, TypeOK, ReadyIsFinished, Finished, Call, Goto
<1>8. HandlesAreWaiting'
  BY DEF IInv, TypeOK, HandlesAreWaiting, Waiting, Call, Goto
<1>9. NoCallbackRaises'
  BY DEF IInv, TypeOK, NoCallbackRaises, Call, Goto
<1> QED BY <1>1, <1>2, <1>3, <1>4, <1>5, <1>6, <1>7, <1>8, <1>9 DEF IInv

\* _uniffi_get_event_loop fixes the loop before the first future is made.
LEMMA GetLoopKeeps ==
    ASSUME IInv, NEW c \in Calls, uniffi_get_event_loop(c) PROVE IInv'
<1>1. TypeOK'
  BY DEF IInv, TypeOK, uniffi_get_event_loop, EventLoop, Goto
<1>2. LoopsKnown'
  BY DEF IInv, TypeOK, LoopsKnown, uniffi_get_event_loop, EventLoop, Goto
<1>3. HandlesDistinct'
  BY DEF IInv, TypeOK, HandlesDistinct, uniffi_get_event_loop, EventLoop, Goto
<1>4. WaitingUnresolved'
  BY DEF IInv, TypeOK, WaitingUnresolved, uniffi_get_event_loop, EventLoop, Goto
<1>5. QueuedUnresolved'
  BY DEF IInv, TypeOK, QueuedUnresolved, Waiting, uniffi_get_event_loop, EventLoop, Goto
<1>6. CoroutineFutures'
  BY DEF IInv, TypeOK, CoroutineFutures, uniffi_get_event_loop, EventLoop, Goto
<1>7. ReadyIsFinished'
  BY DEF IInv, TypeOK, ReadyIsFinished, Finished, uniffi_get_event_loop, EventLoop, Goto
<1>8. HandlesAreWaiting'
  <2>1. ~Waiting(c)
    BY DEF IInv, WaitingUnresolved, Waiting, uniffi_get_event_loop
  <2>2. /\ UNCHANGED <<conts, fut, sched>>
        /\ \A d \in Calls : Waiting(d)' <=> Waiting(d)
        /\ \A d \in Calls \ {c} : loop'[d] = loop[d]
    BY DEF IInv, TypeOK, Waiting, uniffi_get_event_loop, Goto
  <2> QED BY <2>1, <2>2 DEF IInv, HandlesAreWaiting
<1>9. NoCallbackRaises'
  BY DEF IInv, TypeOK, NoCallbackRaises, uniffi_get_event_loop, EventLoop, Goto
<1> QED BY <1>1, <1>2, <1>3, <1>4, <1>5, <1>6, <1>7, <1>8, <1>9 DEF IInv

\* await goes on, suspends or fails; it leaves the future as it is.
LEMMA AwaitKeeps ==
    ASSUME IInv, NEW c \in Calls, Await(c) PROVE IInv'
<1>1. TypeOK'
  BY DEF IInv, TypeOK, Await, AfterPoll, End, Goto
<1>2. LoopsKnown'
  BY DEF IInv, TypeOK, LoopsKnown, Await, AfterPoll, End, Goto
<1>3. HandlesDistinct'
  BY DEF IInv, TypeOK, HandlesDistinct, Await, AfterPoll, End, Goto
<1>4. WaitingUnresolved'
  BY DEF IInv, TypeOK, WaitingUnresolved, Await, AfterPoll, End, Goto
<1>5. QueuedUnresolved'
  BY DEF IInv, TypeOK, QueuedUnresolved, Waiting, Await, AfterPoll, End, Goto
<1>6. CoroutineFutures'
  BY DEF IInv, TypeOK, CoroutineFutures, Await, AfterPoll, End, Goto
<1>7. ReadyIsFinished'
  BY DEF IInv, TypeOK, ReadyIsFinished, Finished, Await, AfterPoll, End, Goto
<1>8. HandlesAreWaiting'
  BY DEF IInv, TypeOK, HandlesAreWaiting, Waiting, Await, AfterPoll, End, Goto
<1>9. NoCallbackRaises'
  BY DEF IInv, TypeOK, NoCallbackRaises, Await, AfterPoll, End, Goto
<1> QED BY <1>1, <1>2, <1>3, <1>4, <1>5, <1>6, <1>7, <1>8, <1>9 DEF IInv

\* A coroutine resumes on a resolved future, or because it was cancelled.
LEMMA ResumeKeeps ==
    ASSUME IInv, NEW c \in Calls, Resume(c) PROVE IInv'
<1>1. TypeOK'
  BY DEF IInv, TypeOK, Resume, AfterPoll, AfterCancel, End, Goto
<1>2. LoopsKnown'
  BY DEF IInv, TypeOK, LoopsKnown, Resume, AfterPoll, AfterCancel, End, Goto
<1>3. HandlesDistinct'
  BY DEF IInv, TypeOK, HandlesDistinct, Resume, AfterPoll, AfterCancel, End, Goto
<1>4. WaitingUnresolved'
  BY DEF IInv, TypeOK, WaitingUnresolved, CoroutineFutures, Resume, AfterPoll,
     AfterCancel, End, Goto
<1>5. QueuedUnresolved'
  BY DEF IInv, TypeOK, QueuedUnresolved, Waiting, Resume, AfterPoll, AfterCancel, End,
     Goto
<1>6. CoroutineFutures'
  BY DEF IInv, TypeOK, CoroutineFutures, Resume, AfterPoll, AfterCancel, End, Goto
<1>7. ReadyIsFinished'
  BY DEF IInv, TypeOK, ReadyIsFinished, Finished, CoroutineFutures, Resume, AfterPoll,
     AfterCancel, End, Goto
<1>8. HandlesAreWaiting'
  BY DEF IInv, TypeOK, HandlesAreWaiting, Waiting, Resume, AfterPoll, AfterCancel, End,
     Goto
<1>9. NoCallbackRaises'
  BY DEF IInv, TypeOK, NoCallbackRaises, Resume, AfterPoll, AfterCancel, End, Goto
<1> QED BY <1>1, <1>2, <1>3, <1>4, <1>5, <1>6, <1>7, <1>8, <1>9 DEF IInv

\* task.cancel() cancels a pending future and leaves its handle to the core.
LEMMA CancelKeeps ==
    ASSUME IInv, NEW c \in Calls, Cancel(c) PROVE IInv'
<1>1. TypeOK'
  <2>1. fut' \in [Calls -> [h : Nat, st : FutStates, code : {READY, MAYBE_READY}]]
    <3>1. CASE fut[c].st = "pending"
      BY <3>1 DEF IInv, TypeOK, Cancel, FutStates
    <3>2. CASE fut[c].st # "pending"
      BY <3>2 DEF IInv, TypeOK, Cancel
    <3> QED BY <3>1, <3>2
  <2>2. stopping' \in [Calls -> BOOLEAN]
    BY DEF IInv, TypeOK, Cancel
  <2> QED BY <2>1, <2>2 DEF IInv, TypeOK, Cancel
<1>2. LoopsKnown'
  BY DEF IInv, TypeOK, LoopsKnown, Cancel
<1>3. HandlesDistinct'
  BY DEF IInv, TypeOK, HandlesDistinct, Cancel
<1>4. WaitingUnresolved'
  BY DEF IInv, TypeOK, WaitingUnresolved, Cancel
<1>5. QueuedUnresolved'
  BY DEF IInv, TypeOK, QueuedUnresolved, Waiting, Cancel
<1>6. CoroutineFutures'
  BY DEF IInv, TypeOK, CoroutineFutures, Cancel
<1>7. ReadyIsFinished'
  BY DEF IInv, TypeOK, ReadyIsFinished, Finished, Cancel
<1>8. HandlesAreWaiting'
  BY DEF IInv, TypeOK, HandlesAreWaiting, Waiting, Cancel
<1>9. NoCallbackRaises'
  BY DEF IInv, TypeOK, NoCallbackRaises, Cancel
<1> QED BY <1>1, <1>2, <1>3, <1>4, <1>5, <1>6, <1>7, <1>8, <1>9 DEF IInv

\* ffi_complete is reached after READY only.
LEMMA CompleteKeeps ==
    ASSUME IInv, NEW c \in Calls, Complete(c) PROVE IInv'
<1>1. TypeOK'
  BY DEF IInv, TypeOK, Complete, End, Goto
<1>2. LoopsKnown'
  BY DEF IInv, TypeOK, LoopsKnown, Complete, End, Goto
<1>3. HandlesDistinct'
  BY DEF IInv, TypeOK, HandlesDistinct, Complete, End, Goto
<1>4. WaitingUnresolved'
  BY DEF IInv, TypeOK, WaitingUnresolved, Complete, End, Goto
<1>5. QueuedUnresolved'
  BY DEF IInv, TypeOK, QueuedUnresolved, Waiting, Complete, End, Goto
<1>6. CoroutineFutures'
  BY DEF IInv, TypeOK, CoroutineFutures, Complete, End, Goto
<1>7. ReadyIsFinished'
  BY DEF IInv, TypeOK, ReadyIsFinished, Finished, Complete, End, Goto
<1>8. HandlesAreWaiting'
  BY DEF IInv, TypeOK, HandlesAreWaiting, Waiting, Complete, End, Goto
<1>9. NoCallbackRaises'
  BY DEF IInv, TypeOK, NoCallbackRaises, Complete, End, Goto
<1> QED BY <1>1, <1>2, <1>3, <1>4, <1>5, <1>6, <1>7, <1>8, <1>9 DEF IInv

\* A job ends in the runtime.
LEMMA JobEndsKeeps ==
    ASSUME IInv, NEW c \in Calls, JobEnds(c) PROVE IInv'
<1>1. TypeOK'
  BY DEF IInv, TypeOK, JobEnds
<1>2. LoopsKnown'
  BY DEF IInv, TypeOK, LoopsKnown, JobEnds
<1>3. HandlesDistinct'
  BY DEF IInv, TypeOK, HandlesDistinct, JobEnds
<1>4. WaitingUnresolved'
  BY DEF IInv, TypeOK, WaitingUnresolved, JobEnds
<1>5. QueuedUnresolved'
  BY DEF IInv, TypeOK, QueuedUnresolved, Waiting, JobEnds
<1>6. CoroutineFutures'
  BY DEF IInv, TypeOK, CoroutineFutures, JobEnds
<1>7. ReadyIsFinished'
  BY DEF IInv, TypeOK, ReadyIsFinished, Finished, JobEnds
<1>8. HandlesAreWaiting'
  BY DEF IInv, TypeOK, HandlesAreWaiting, Waiting, JobEnds
<1>9. NoCallbackRaises'
  BY DEF IInv, TypeOK, NoCallbackRaises, JobEnds
<1> QED BY <1>1, <1>2, <1>3, <1>4, <1>5, <1>6, <1>7, <1>8, <1>9 DEF IInv

\* While the core holds a call's handle, the continuation callback finds it in
\* the map, takes it out and schedules the call's own future on its own loop.
LEMMA CallbackFinds ==
    ASSUME IInv, NEW c \in Calls, Waiting(c), NEW code \in {READY, MAYBE_READY},
           Callback(c, fut[c].h, code)
    PROVE  /\ queue' = queue \cup {[h |-> fut[c].h, call |-> c, loop |-> loop[c], code |-> code]}
           /\ DOMAIN conts' = DOMAIN conts \ {fut[c].h}
           /\ \A k \in DOMAIN conts' : conts'[k] = conts[k]
           /\ raised' = raised
           /\ loop[c] \in Loops
           /\ fut[c].h \in Nat /\ fut[c].st \in {"pending", "cancelled"}
<1>1. fut[c].h \in DOMAIN conts /\ conts[fut[c].h] = [loop |-> loop[c], call |-> c]
  BY DEF IInv, HandlesAreWaiting
<1>2. fut[c].st \in {"pending", "cancelled"} /\ pc[c] \notin {"new", "start"}
  BY DEF IInv, TypeOK, WaitingUnresolved, Waiting
<1>3. /\ queue' = queue \cup {[h |-> fut[c].h, call |-> c, loop |-> loop[c], code |-> code]}
      /\ conts' = [k \in DOMAIN conts \ {fut[c].h} |-> conts[k]]
      /\ raised' = raised
  BY <1>1 DEF Callback, Scheduled, Remaining
<1>4. loop[c] \in Loops /\ fut[c].h \in Nat
  BY <1>2 DEF IInv, TypeOK, LoopsKnown
<1> QED BY <1>2, <1>3, <1>4

\* The callback of a waiting call, whoever makes it, keeps the handle map exact
\* and the scheduled callbacks single.
LEMMA CallbackKeeps ==
    ASSUME IInv, NEW c \in Calls, Waiting(c), NEW code \in {READY, MAYBE_READY},
           Callback(c, fut[c].h, code), UNCHANGED <<fut, loop>>,
           \A d \in Calls : Waiting(d)' <=> Waiting(d) /\ d # c
    PROVE  /\ queue' \subseteq [h : Nat, call : Calls, loop : Loops, code : {READY, MAYBE_READY}]
           /\ DOMAIN conts' \subseteq Nat
           /\ \A h \in DOMAIN conts' : conts'[h] \in [loop : Loops, call : Calls]
           /\ \A e \in queue' : e \in queue \/ (e.call = c /\ e.code = code)
           /\ raised' = {}
           /\ HandlesAreWaiting' /\ QueuedUnresolved'
<1> DEFINE new == [h |-> fut[c].h, call |-> c, loop |-> loop[c], code |-> code]
<1>1. /\ queue' = queue \cup {new}
      /\ DOMAIN conts' = DOMAIN conts \ {fut[c].h}
      /\ \A k \in DOMAIN conts' : conts'[k] = conts[k]
      /\ raised' = raised
      /\ loop[c] \in Loops
      /\ fut[c].h \in Nat /\ fut[c].st \in {"pending", "cancelled"}
  BY CallbackFinds
<1>2. \A d \in Calls : d # c /\ Waiting(d) => fut[d].h # fut[c].h
  BY <1>1 DEF IInv, HandlesDistinct, WaitingUnresolved, Waiting
<1>3. \A e \in queue : e.call \in Calls /\ e.call # c
  BY DEF IInv, TypeOK, QueuedUnresolved
<1>4. HandlesAreWaiting'
  BY <1>1, <1>2 DEF IInv, HandlesAreWaiting
<1>5. QueuedUnresolved'
  BY <1>1, <1>3 DEF IInv, QueuedUnresolved
<1>6. /\ queue' \subseteq [h : Nat, call : Calls, loop : Loops, code : {READY, MAYBE_READY}]
      /\ \A e \in queue' : e \in queue \/ (e.call = c /\ e.code = code)
  BY <1>1 DEF IInv, TypeOK
<1>7. DOMAIN conts' \subseteq Nat /\ \A h \in DOMAIN conts' : conts'[h] \in [loop : Loops, call : Calls]
  BY <1>1 DEF IInv, TypeOK
<1> QED BY <1>1, <1>4, <1>5, <1>6, <1>7 DEF IInv, NoCallbackRaises

\* Storing the continuation in the scheduler, before or after a wake.
LEMMA StoreKeeps ==
    ASSUME IInv, NEW c \in Calls, Store(c) PROVE IInv'
<1>1. /\ Waiting(c) /\ pc[c] = "store" /\ pc' = [pc EXCEPT ![c] = "await"]
      /\ UNCHANGED <<globalLoop, home, loop, fut, stopping, counter, job, outcome>>
  BY DEF Store, Waiting, Goto
<1>2. LoopsKnown' /\ HandlesDistinct' /\ CoroutineFutures'
  BY <1>1 DEF IInv, TypeOK, LoopsKnown, HandlesDistinct, CoroutineFutures
<1>3. CASE sched[c].st = "empty"
  <2>1. /\ sched' = [sched EXCEPT ![c] = [st |-> "set", h |-> fut[c].h]]
        /\ UNCHANGED <<queue, conts, raised>>
    BY <1>3 DEF Store
  <2>2. \A d \in Calls : Waiting(d)' <=> Waiting(d)
    BY <1>1, <2>1 DEF IInv, TypeOK, Waiting
  <2>3. TypeOK'
    BY <1>1, <2>1 DEF IInv, TypeOK
  <2>4. WaitingUnresolved'
    BY <1>1, <2>1 DEF IInv, TypeOK, WaitingUnresolved
  <2>5. QueuedUnresolved' /\ HandlesAreWaiting' /\ NoCallbackRaises'
    BY <1>1, <2>1, <2>2 DEF IInv, TypeOK, QueuedUnresolved, HandlesAreWaiting, NoCallbackRaises
  <2>6. ReadyIsFinished'
    BY <1>1, <2>1 DEF IInv, TypeOK, ReadyIsFinished, Finished
  <2> QED BY <1>2, <2>3, <2>4, <2>5, <2>6 DEF IInv
<1>4. CASE sched[c].st = "waked"
  <2>1. /\ sched' = [sched EXCEPT ![c].st = "empty"]
        /\ Callback(c, fut[c].h, MAYBE_READY)
    BY <1>4 DEF Store
  <2>2. \A d \in Calls : Waiting(d)' <=> Waiting(d) /\ d # c
    BY <1>1, <2>1 DEF IInv, TypeOK, Waiting
  <2>3. /\ queue' \subseteq [h : Nat, call : Calls, loop : Loops, code : {READY, MAYBE_READY}]
        /\ DOMAIN conts' \subseteq Nat
        /\ \A h \in DOMAIN conts' : conts'[h] \in [loop : Loops, call : Calls]
        /\ \A e \in queue' : e \in queue \/ (e.call = c /\ e.code = MAYBE_READY)
        /\ raised' = {}
        /\ HandlesAreWaiting' /\ QueuedUnresolved'
    BY <1>1, <2>1, <2>2, CallbackKeeps
  <2>4. TypeOK'
    <3>1. /\ pc' \in [Calls -> PcStates]
          /\ sched' \in [Calls -> [st : SchedStates, h : Nat]]
      BY <1>1, <2>1 DEF IInv, TypeOK, PcStates, Running, SchedStates
    <3> QED BY <1>1, <2>3, <3>1 DEF IInv, TypeOK
  <2>5. WaitingUnresolved'
    BY <1>1, <2>1 DEF IInv, TypeOK, WaitingUnresolved
  <2>6. ReadyIsFinished'
    BY <1>1, <2>1, <2>3 DEF IInv, TypeOK, ReadyIsFinished, Finished
  <2> QED BY <1>2, <2>3, <2>4, <2>5, <2>6 DEF IInv, NoCallbackRaises
<1> QED BY <1>3, <1>4 DEF Store

\* ffi_free, which calls a kept continuation back.
LEMMA FreeKeeps ==
    ASSUME IInv, NEW c \in Calls, Free(c) PROVE IInv'
<1>1. /\ pc[c] = "free" /\ pc' = [pc EXCEPT ![c] = "done"]
      /\ sched' = [sched EXCEPT ![c].st = "cancelled"]
      /\ UNCHANGED <<globalLoop, home, loop, fut, stopping, counter, job, outcome>>
  BY DEF Free, Goto
<1>2. LoopsKnown' /\ HandlesDistinct' /\ CoroutineFutures' /\ WaitingUnresolved'
  BY <1>1 DEF IInv, TypeOK, LoopsKnown, HandlesDistinct, CoroutineFutures, WaitingUnresolved
<1>3. CASE sched[c].st # "set"
  <2>1. UNCHANGED <<queue, conts, raised>>
    BY <1>3 DEF Free
  <2>2. \A d \in Calls : Waiting(d)' <=> Waiting(d)
    BY <1>1, <1>3 DEF IInv, TypeOK, Waiting
  <2>3. TypeOK'
    BY <1>1, <2>1 DEF IInv, TypeOK
  <2>4. QueuedUnresolved' /\ HandlesAreWaiting' /\ NoCallbackRaises'
    BY <1>1, <2>1, <2>2 DEF IInv, TypeOK, QueuedUnresolved, HandlesAreWaiting, NoCallbackRaises
  <2>5. ReadyIsFinished'
    BY <1>1, <2>1 DEF IInv, TypeOK, ReadyIsFinished, Finished
  <2> QED BY <1>2, <2>3, <2>4, <2>5 DEF IInv
<1>4. CASE sched[c].st = "set"
  <2>1. Waiting(c) /\ Callback(c, fut[c].h, READY)
    BY <1>4 DEF Free, Waiting, IInv, WaitingUnresolved
  <2>2. \A d \in Calls : Waiting(d)' <=> Waiting(d) /\ d # c
    BY <1>1 DEF IInv, TypeOK, Waiting
  <2>3. /\ queue' \subseteq [h : Nat, call : Calls, loop : Loops, code : {READY, MAYBE_READY}]
        /\ DOMAIN conts' \subseteq Nat
        /\ \A h \in DOMAIN conts' : conts'[h] \in [loop : Loops, call : Calls]
        /\ \A e \in queue' : e \in queue \/ (e.call = c /\ e.code = READY)
        /\ raised' = {}
        /\ HandlesAreWaiting' /\ QueuedUnresolved'
    BY <1>1, <2>1, <2>2, CallbackKeeps
  <2>4. TypeOK'
    BY <1>1, <2>3 DEF IInv, TypeOK
  <2>5. ReadyIsFinished'
    BY <1>1, <2>3 DEF IInv, TypeOK, ReadyIsFinished, Finished
  <2> QED BY <1>2, <2>3, <2>4, <2>5 DEF IInv, NoCallbackRaises
<1> QED BY <1>3, <1>4

\* The wake of a finished job, which may come after the call is over.
LEMMA WakeKeeps ==
    ASSUME IInv, NEW c \in Calls, Wake(c) PROVE IInv'
<1>1. /\ job[c] = "ending" /\ job' = [job EXCEPT ![c] = "finished"]
      /\ UNCHANGED <<globalLoop, pc, home, loop, fut, stopping, counter, outcome>>
  BY DEF Wake
<1>2. LoopsKnown' /\ HandlesDistinct' /\ CoroutineFutures'
  BY <1>1 DEF IInv, TypeOK, LoopsKnown, HandlesDistinct, CoroutineFutures
<1>3. \A d \in Calls : /\ Finished(job[d]) => Finished(job'[d])
                       /\ job[d] = "panicked" => job'[d] = "panicked"
  BY <1>1 DEF IInv, TypeOK, Finished
<1>4. job' \in [Calls -> JobStates]
  BY <1>1 DEF IInv, TypeOK, JobStates
<1>5. CASE sched[c].st = "set"
  <2>1. /\ Waiting(c) /\ Callback(c, fut[c].h, MAYBE_READY)
        /\ sched' = [sched EXCEPT ![c].st = "empty"]
    BY <1>5 DEF Wake, Waiting, IInv, WaitingUnresolved
  <2>2. \A d \in Calls : Waiting(d)' <=> Waiting(d) /\ d # c
    BY <1>1, <1>5, <2>1 DEF IInv, TypeOK, Waiting, WaitingUnresolved
  <2>3. /\ queue' \subseteq [h : Nat, call : Calls, loop : Loops, code : {READY, MAYBE_READY}]
        /\ DOMAIN conts' \subseteq Nat
        /\ \A h \in DOMAIN conts' : conts'[h] \in [loop : Loops, call : Calls]
        /\ \A e \in queue' : e \in queue \/ (e.call = c /\ e.code = MAYBE_READY)
        /\ raised' = {}
        /\ HandlesAreWaiting' /\ QueuedUnresolved'
    BY <1>1, <2>1, <2>2, CallbackKeeps
  <2>4. TypeOK'
    <3>1. sched' \in [Calls -> [st : SchedStates, h : Nat]]
      BY <2>1 DEF IInv, TypeOK, SchedStates
    <3> QED BY <1>1, <1>4, <2>3, <3>1 DEF IInv, TypeOK
  <2>5. WaitingUnresolved'
    BY <1>1, <2>1 DEF IInv, TypeOK, WaitingUnresolved
  <2>6. ReadyIsFinished'
    <3>1. \A e \in queue' : e.code = READY => Finished(job[e.call]) \/ pc[e.call] = "done"
      BY <2>3 DEF IInv, ReadyIsFinished, READY, MAYBE_READY
    <3>2. \A e \in queue' : e.call \in Calls
      BY <2>3
    <3> QED BY <1>1, <1>3, <3>1, <3>2 DEF IInv, ReadyIsFinished
  <2> QED BY <1>2, <2>3, <2>4, <2>5, <2>6 DEF IInv, NoCallbackRaises
<1>6. CASE sched[c].st # "set"
  <2>1. /\ UNCHANGED <<queue, conts, raised>>
        /\ sched' = sched \/ sched' = [sched EXCEPT ![c].st = "waked"]
    BY <1>6 DEF Wake
  <2>2. \A d \in Calls : sched'[d].st = "set" <=> sched[d].st = "set"
    BY <1>6, <2>1 DEF IInv, TypeOK
  <2>3. \A d \in Calls : Waiting(d)' <=> Waiting(d)
    BY <1>1, <2>2 DEF Waiting
  <2>4. TypeOK'
    <3>1. sched' \in [Calls -> [st : SchedStates, h : Nat]]
      BY <2>1 DEF IInv, TypeOK, SchedStates
    <3> QED BY <1>1, <1>4, <2>1, <3>1 DEF IInv, TypeOK
  <2>5. WaitingUnresolved'
    <3>1. \A d \in Calls : sched'[d].h = sched[d].h
      <4>1. CASE sched' = [sched EXCEPT ![c].st = "waked"]
        BY <4>1 DEF IInv, TypeOK
      <4> QED BY <2>1, <4>1
    <3> QED BY <1>1, <2>2, <3>1 DEF IInv, WaitingUnresolved
  <2>6. QueuedUnresolved' /\ HandlesAreWaiting' /\ NoCallbackRaises'
    BY <1>1, <2>1, <2>3 DEF IInv, TypeOK, QueuedUnresolved, HandlesAreWaiting, NoCallbackRaises
  <2>7. ReadyIsFinished'
    BY <1>1, <1>3, <2>1 DEF IInv, TypeOK, ReadyIsFinished
  <2> QED BY <1>2, <2>4, <2>5, <2>6, <2>7 DEF IInv
<1> QED BY <1>5, <1>6

\* _uniffi_set_future_result on a pending or on a cancelled future.
LEMMA SetResultKeeps ==
    ASSUME IInv, NEW e \in queue, uniffi_set_future_result(e) PROVE IInv'
<1> DEFINE c == e.call
<1>1. /\ c \in Calls /\ e.h = fut[c].h /\ fut[c].st \in {"pending", "cancelled"}
      /\ ~Waiting(c) /\ e.code \in {READY, MAYBE_READY}
  BY DEF IInv, TypeOK, QueuedUnresolved
<1>2. /\ queue' = queue \ {e}
      /\ UNCHANGED <<globalLoop, pc, home, loop, stopping, counter, conts, sched, job, outcome>>
  BY DEF uniffi_set_future_result
<1>3. /\ fut' = fut \/ fut' = [fut EXCEPT ![c] = [h |-> e.h, st |-> "resolved", code |-> e.code]]
      /\ raised' = raised
  BY <1>1 DEF uniffi_set_future_result, MustSet, SetResult
<1>4. /\ fut' \in [Calls -> [h : Nat, st : FutStates, code : {READY, MAYBE_READY}]]
      /\ \A d \in Calls : fut'[d].h = fut[d].h /\ (d # c => fut'[d] = fut[d])
      /\ fut'[c] = fut[c] \/ (fut'[c].st = "resolved" /\ fut'[c].code = e.code)
  <2>1. fut[c].h \in Nat /\ fut \in [Calls -> [h : Nat, st : FutStates, code : {READY, MAYBE_READY}]]
    BY <1>1 DEF IInv, TypeOK
  <2>2. CASE fut' = fut
    BY <2>1, <2>2
  <2>3. CASE fut' = [fut EXCEPT ![c] = [h |-> e.h, st |-> "resolved", code |-> e.code]]
    <3> HIDE DEF c
    <3>1. [h |-> e.h, st |-> "resolved", code |-> e.code] \in [h : Nat, st : FutStates, code : {READY, MAYBE_READY}]
      BY <1>1, <2>1
    <3> QED BY <1>1, <2>1, <2>3, <3>1
  <2> QED BY <1>3, <2>2, <2>3
<1>5. TypeOK'
  BY <1>2, <1>3, <1>4 DEF IInv, TypeOK
<1>6. LoopsKnown'
  BY <1>2 DEF IInv, LoopsKnown
<1>7. HandlesDistinct'
  BY <1>1, <1>2, <1>4 DEF IInv, HandlesDistinct
<1>8. \A d \in Calls : Waiting(d)' <=> Waiting(d)
  BY <1>2 DEF Waiting
<1>9. WaitingUnresolved'
  BY <1>1, <1>2, <1>4 DEF IInv, WaitingUnresolved, Waiting
<1>10. QueuedUnresolved'
  <2>1. \A f \in queue' : f \in queue /\ f.call \in Calls /\ f.call # c
    BY <1>2 DEF IInv, TypeOK, QueuedUnresolved
  <2> QED BY <1>2, <1>4, <1>8, <2>1 DEF IInv, QueuedUnresolved
<1>11. CoroutineFutures'
  BY <1>1, <1>2, <1>4 DEF IInv, CoroutineFutures
<1>12. ReadyIsFinished'
  BY <1>1, <1>2, <1>4 DEF IInv, ReadyIsFinished
<1>13. HandlesAreWaiting' /\ NoCallbackRaises'
  BY <1>2, <1>3, <1>4, <1>8 DEF IInv, HandlesAreWaiting, NoCallbackRaises
<1> QED BY <1>5, <1>6, <1>7, <1>9, <1>10, <1>11, <1>12, <1>13 DEF IInv

\* ffi_poll with a new future: resolved at once, or handed to the core.
LEMMA PollKeeps ==
    ASSUME IInv, NEW c \in Calls, Poll(c) PROVE IInv'
<1>1. /\ pc[c] = "poll" /\ counter' = counter + 1
      /\ fut' = [fut EXCEPT ![c] = [h |-> counter, st |-> "pending", code |-> READY]]
      /\ UNCHANGED <<globalLoop, home, loop, stopping, sched, outcome, raised>>
  BY DEF Poll
<1>2. PICK j \in Polled(c) :
        /\ job' = [job EXCEPT ![c] = j]
        /\ IF Finished(j)
           THEN /\ queue' = queue \cup {[h |-> counter, call |-> c, loop |-> loop[c], code |-> READY]}
                /\ UNCHANGED conts
                /\ Goto(c, "await")
           ELSE /\ Insert(counter, [loop |-> loop[c], call |-> c])
                /\ UNCHANGED queue
                /\ Goto(c, "store")
  BY DEF Poll
<1>3. /\ j \in JobStates /\ (job[c] # "none" => j = job[c])
      /\ \A d \in Calls : /\ Finished(job[d]) => Finished(job'[d])
                          /\ job[d] = "panicked" => job'[d] = "panicked"
  BY <1>2 DEF Polled, IInv, TypeOK, Finished
<1>4. /\ fut[c].st \in {"none", "resolved"} /\ ~Waiting(c) /\ loop[c] \in Loops
      /\ \A e \in queue : e.call \in Calls /\ e.call # c
  BY <1>1 DEF IInv, TypeOK, LoopsKnown, CoroutineFutures, WaitingUnresolved, QueuedUnresolved, Waiting
<1>5. /\ fut' \in [Calls -> [h : Nat, st : FutStates, code : {READY, MAYBE_READY}]]
      /\ fut'[c] = [h |-> counter, st |-> "pending", code |-> READY]
      /\ \A d \in Calls : d # c => fut'[d] = fut[d]
  BY <1>1 DEF IInv, TypeOK
<1>6. HandlesDistinct'
  BY <1>1, <1>5 DEF IInv, TypeOK, HandlesDistinct
<1>7. CASE Finished(j)
  <2> DEFINE new == [h |-> counter, call |-> c, loop |-> loop[c], code |-> READY]
  <2>1. /\ queue' = queue \cup {new} /\ conts' = conts
        /\ pc' = [pc EXCEPT ![c] = "await"]
    BY <1>2, <1>7 DEF Goto
  <2>2. TypeOK'
    BY <1>1, <1>2, <1>3, <1>4, <1>5, <2>1 DEF IInv, TypeOK
  <2>3. \A d \in Calls : Waiting(d)' <=> Waiting(d)
    BY <1>1, <1>4, <2>1 DEF IInv, TypeOK, Waiting
  <2>4. LoopsKnown' /\ CoroutineFutures'
    BY <1>1, <1>4, <1>5, <2>1 DEF IInv, TypeOK, LoopsKnown, CoroutineFutures
  <2>5. WaitingUnresolved'
    BY <1>1, <1>4, <1>5, <2>1 DEF IInv, TypeOK, WaitingUnresolved, Waiting
  <2>6. QueuedUnresolved'
    BY <1>4, <1>5, <2>1, <2>3 DEF IInv, QueuedUnresolved
  <2>7. Finished(job'[c])
    BY <1>2, <1>7 DEF IInv, TypeOK
  <2>8. ReadyIsFinished'
    BY <1>1, <1>3, <1>4, <1>5, <2>1, <2>7 DEF IInv, TypeOK, ReadyIsFinished
  <2>9. HandlesAreWaiting' /\ NoCallbackRaises'
    BY <1>1, <1>4, <1>5, <2>1, <2>3 DEF IInv, HandlesAreWaiting, NoCallbackRaises
  <2> QED BY <1>6, <2>2, <2>4, <2>5, <2>6, <2>8, <2>9 DEF IInv
<1>8. CASE ~Finished(j)
  <2>1. /\ queue' = queue /\ pc' = [pc EXCEPT ![c] = "store"]
        /\ DOMAIN conts' = DOMAIN conts \cup {counter}
        /\ conts'[counter] = [loop |-> loop[c], call |-> c]
        /\ \A h \in DOMAIN conts : h # counter => conts'[h] = conts[h]
    BY <1>2, <1>8 DEF Goto, Insert
  <2>2. TypeOK'
    <3>1. DOMAIN conts' \subseteq Nat /\ \A h \in DOMAIN conts' : conts'[h] \in [loop : Loops, call : Calls]
      BY <1>4, <2>1 DEF IInv, TypeOK
    <3> QED BY <1>1, <1>2, <1>3, <1>5, <2>1, <3>1 DEF IInv, TypeOK
  <2>3. \A d \in Calls : Waiting(d)' <=> Waiting(d) \/ d = c
    BY <1>1, <2>1 DEF IInv, TypeOK, Waiting
  <2>4. LoopsKnown' /\ CoroutineFutures'
    BY <1>1, <1>4, <1>5, <2>1 DEF IInv, TypeOK, LoopsKnown, CoroutineFutures
  <2>5. WaitingUnresolved'
    BY <1>1, <1>4, <1>5, <2>1 DEF IInv, TypeOK, WaitingUnresolved, Waiting
  <2>6. QueuedUnresolved'
    BY <1>4, <1>5, <2>1, <2>3 DEF IInv, QueuedUnresolved
  <2>7. ReadyIsFinished'
    BY <1>1, <1>3, <1>4, <1>5, <2>1 DEF IInv, TypeOK, ReadyIsFinished
  <2>8. \A d \in Calls : Waiting(d) => fut[d].h # counter
    BY DEF IInv, TypeOK, HandlesDistinct, WaitingUnresolved, Waiting
  <2>9. HandlesAreWaiting' /\ NoCallbackRaises'
    BY <1>1, <1>4, <1>5, <2>1, <2>3, <2>8 DEF IInv, HandlesAreWaiting, NoCallbackRaises
  <2> QED BY <1>6, <2>2, <2>4, <2>5, <2>6, <2>7, <2>9 DEF IInv
<1> QED BY <1>7, <1>8

\* The invariant holds before the first call.
LEMMA InitHolds == Init => IInv
<1> SUFFICES ASSUME Init PROVE IInv
  OBVIOUS
<1>1. TypeOK
  BY DEF Init, TypeOK
<1>2. LoopsKnown /\ HandlesDistinct /\ WaitingUnresolved /\ CoroutineFutures
  BY DEF Init, LoopsKnown, HandlesDistinct, WaitingUnresolved, CoroutineFutures
<1>3. QueuedUnresolved /\ ReadyIsFinished
  BY DEF Init, QueuedUnresolved, ReadyIsFinished
<1>4. HandlesAreWaiting /\ NoCallbackRaises
  BY DEF Init, HandlesAreWaiting, NoCallbackRaises, Waiting
<1> QED BY <1>1, <1>2, <1>3, <1>4 DEF IInv

\* Stuttering keeps every part of the invariant.
LEMMA StutterKeeps == IInv /\ UNCHANGED vars => IInv'
BY DEF vars, IInv, TypeOK, LoopsKnown, HandlesDistinct, WaitingUnresolved, QueuedUnresolved,
   CoroutineFutures, ReadyIsFinished, HandlesAreWaiting, NoCallbackRaises, Waiting

\* Every step of the binding, of the runtime and of the callers keeps it.
LEMMA NextKeeps == IInv /\ [Next]_vars => IInv'
<1> SUFFICES ASSUME IInv, [Next]_vars PROVE IInv'
  OBVIOUS
<1>1. ASSUME NEW l \in Loops, uniffi_set_event_loop(l) PROVE IInv'
  BY <1>1, SetLoopKeeps
<1>2. ASSUME NEW l \in Loops, RunCallback(l) PROVE IInv'
  BY <1>2, SetResultKeeps DEF RunCallback
<1>3. ASSUME NEW c \in Calls, NEW l \in Loops, Call(c, l) PROVE IInv'
  BY <1>3, CallKeeps
<1>4. ASSUME NEW c \in Calls, Cancel(c) PROVE IInv'
  BY <1>4, CancelKeeps
<1>5. ASSUME NEW c \in Calls, Coroutine(c) PROVE IInv'
  BY <1>5, GetLoopKeeps, PollKeeps, StoreKeeps, AwaitKeeps, ResumeKeeps, CompleteKeeps, FreeKeeps
     DEF Coroutine
<1>6. ASSUME NEW c \in Calls, Runtime(c) PROVE IInv'
  BY <1>6, JobEndsKeeps, WakeKeeps DEF Runtime
<1>7. CASE AllDone
  BY <1>7, StutterKeeps DEF AllDone
<1>8. CASE UNCHANGED vars
  BY <1>8, StutterKeeps
<1> QED BY <1>1, <1>2, <1>3, <1>4, <1>5, <1>6, <1>7, <1>8 DEF Next

\* IInv is an inductive invariant of the specification.
THEOREM InvariantHolds == Spec => []IInv
BY InitHolds, NextKeeps, PTL DEF Spec

\* Every variable of the binding keeps its type.
THEOREM TypeCorrect == Spec => []TypeOK
<1>1. IInv => TypeOK
  BY DEF IInv
<1> QED BY <1>1, InvariantHolds, PTL

\* The continuation map never loses a future the core will call back, and never
\* keeps one of a call that is over.
THEOREM HandlesAreWaitingHolds == Spec => []HandlesAreWaiting
<1>1. IInv => HandlesAreWaiting
  BY DEF IInv
<1> QED BY <1>1, InvariantHolds, PTL

\* No continuation callback meets an unknown handle, and no scheduled result a
\* future that is resolved.
THEOREM NoCallbackRaisesHolds == Spec => []NoCallbackRaises
<1>1. IInv => NoCallbackRaises
  BY DEF IInv
<1> QED BY <1>1, InvariantHolds, PTL

\* ffi_complete is called on finished futures only.
THEOREM CompleteHasResultHolds == Spec => []CompleteHasResult
<1>1. IInv => CompleteHasResult
  BY DEF IInv, ReadyIsFinished, CompleteHasResult
<1> QED BY <1>1, InvariantHolds, PTL
=============================================================================
