---------------------------- MODULE BindingAsync ----------------------------
(***************************************************************************)
(* The asynchronous calls of the generated Python binding.  A coroutine of *)
(* an asyncio event loop polls a future of the Rust core.  The core keeps  *)
(* a handle of the waiting Python future and gives it back, through the    *)
(* continuation callback and from any thread, when the coroutine should    *)
(* poll again or can take the result.                                      *)
(*                                                                         *)
(* Actors: the event loops, each running one coroutine step or scheduled   *)
(* callback at a time; the threads of the Tokio runtime, which finish jobs *)
(* and wake futures; and the callers, who start and cancel calls.          *)
(***************************************************************************)
EXTENDS Naturals

CONSTANTS
    Calls,      \* calls of asynchronous functions
    Inline,     \* the calls of decode and get_lnurl_invoice, which spawn no job
    Loops,      \* the event loops of the Python program
    NoLoop      \* no event loop

ASSUME CallsAssumption == Inline \subseteq Calls
ASSUME LoopsAssumption == NoLoop \notin Loops

VARIABLES
    globalLoop, \* UNIFFI_GLOBAL_EVENT_LOOP
    pc,         \* where the coroutine of a call is
    home,       \* the loop that runs the coroutine
    loop,       \* the loop _uniffi_get_event_loop returned
    fut,        \* the asyncio future of the last poll: its handle, state, poll code
    stopping,   \* task.cancel() was called
    counter,    \* _UniffiHandleMap._counter
    conts,      \* _UniffiContinuationHandleMap: handle to (event loop, call)
    queue,      \* the set_result calls scheduled with call_soon_threadsafe
    sched,      \* the scheduler state of the Rust future
    job,        \* what the Rust future waits for
    outcome,    \* how the call ended
    raised      \* calls whose callback raised

vars == <<globalLoop, pc, home, loop, fut, stopping, counter, conts, queue,
          sched, job, outcome, raised>>

READY == 0
MAYBE_READY == 1

\* The states in which a coroutine occupies the thread of its loop.
Running == {"start", "poll", "store", "await", "complete", "free"}
PcStates == Running \cup {"new", "suspended", "done"}
FutStates == {"none", "pending", "resolved", "cancelled"}
SchedStates == {"empty", "set", "waked", "cancelled"}
JobStates == {"none", "running", "ending", "finished", "panicked"}
Outcomes == {"none", "answer", "InternalError", "CancelledError", "RuntimeError"}

Idle(l) == \A c \in Calls : ~(home[c] = l /\ pc[c] \in Running)

Init ==
    /\ globalLoop = NoLoop
    /\ pc = [c \in Calls |-> "new"]
    /\ home = [c \in Calls |-> NoLoop]
    /\ loop = [c \in Calls |-> NoLoop]
    /\ fut = [c \in Calls |-> [h |-> 0, st |-> "none", code |-> READY]]
    /\ stopping = [c \in Calls |-> FALSE]
    /\ counter = 0
    /\ conts = [h \in {} |-> [loop |-> NoLoop, call |-> 0]]
    /\ queue = {}
    /\ sched = [c \in Calls |-> [st |-> "empty", h |-> 0]]
    /\ job = [c \in Calls |-> "none"]
    /\ outcome = [c \in Calls |-> "none"]
    /\ raised = {}

uniffi_set_event_loop(l) ==
    /\ globalLoop' = l
    /\ UNCHANGED <<pc, home, loop, fut, stopping, counter, conts, queue, sched,
                   job, outcome, raised>>

(* The handle map and the continuation callback. *)

Insert(h, entry) ==
    conts' = [k \in DOMAIN conts \cup {h} |-> IF k = h THEN entry ELSE conts[k]]

\* Slip: the callback looks its handle up and leaves it in the map.
RemainingAll(h) == conts

Remaining(h) == [k \in DOMAIN conts \ {h} |-> conts[k]]

\* Slip: only READY resolves the future.
ScheduledIfReady(h, code) ==
    {[h |-> k, call |-> conts[k].call, loop |-> conts[k].loop, code |-> READY] :
        k \in IF code = READY THEN {h} ELSE {}}

\* call_soon_threadsafe: the future's own loop sets its result, later.
Scheduled(h, code) ==
    {[h |-> h, call |-> conts[h].call, loop |-> conts[h].loop, code |-> code]}

\* remove raises for a handle that is not in the map.
Callback(c, h, code) ==
    IF h \in DOMAIN conts
    THEN /\ queue' = queue \cup Scheduled(h, code)
         /\ conts' = Remaining(h)
         /\ UNCHANGED raised
    ELSE raised' = raised \cup {c} /\ UNCHANGED <<queue, conts>>

\* Slip: the result is set whether or not the future was cancelled.
MustSetAlways(c, h) == TRUE

\* _uniffi_set_future_result leaves a cancelled future alone.
MustSet(c, h) == fut[c].h = h => fut[c].st # "cancelled"

\* set_result raises for a future that is resolved or cancelled.
SetResult(e) ==
    IF fut[e.call].h = e.h /\ fut[e.call].st = "pending"
    THEN /\ fut' = [fut EXCEPT ![e.call] = [h |-> e.h, st |-> "resolved", code |-> e.code]]
         /\ UNCHANGED raised
    ELSE raised' = raised \cup {e.call} /\ UNCHANGED fut

uniffi_set_future_result(e) ==
    /\ e \in queue /\ Idle(e.loop)
    /\ queue' = queue \ {e}
    /\ IF MustSet(e.call, e.h) THEN SetResult(e) ELSE UNCHANGED <<fut, raised>>
    /\ UNCHANGED <<globalLoop, pc, home, loop, stopping, counter, conts, sched, job, outcome>>

(* The coroutine. *)

Goto(c, label) == pc' = [pc EXCEPT ![c] = label]

\* The caller awaits the call in a task of loop l; the core makes the future.
Call(c, l) ==
    /\ pc[c] = "new" /\ Idle(l)
    /\ home' = [home EXCEPT ![c] = l]
    /\ Goto(c, "start")
    /\ UNCHANGED <<globalLoop, loop, fut, stopping, counter, conts, queue, sched,
                   job, outcome, raised>>

\* Slip: the running loop is not asked for when no global one is set.
EventLoopGlobal(running) == globalLoop

EventLoop(running) == IF globalLoop # NoLoop THEN globalLoop ELSE running

uniffi_get_event_loop(c) ==
    /\ pc[c] = "start"
    /\ loop' = [loop EXCEPT ![c] = EventLoop(home[c])]
    /\ Goto(c, "poll")
    /\ UNCHANGED <<globalLoop, home, fut, stopping, counter, conts, queue, sched,
                   job, outcome, raised>>

\* What the first and the later polls find: the job spawned by the first poll
\* may be finished at once; a call that is not spawned runs in the poll, on
\* Python's thread, and panics when it goes to the network: the HTTP client
\* needs the reactor of a Tokio runtime.
Polled(c) ==
    CASE job[c] = "none" /\ c \notin Inline -> {"running", "finished"}
      [] job[c] = "none" /\ c \in Inline -> {"finished", "panicked"}
      [] OTHER -> {job[c]}

Finished(j) == j \in {"ending", "finished", "panicked"}

\* ffi_poll with a new future and its handle: READY at once, or on to storing
\* the continuation.
Poll(c) ==
    /\ pc[c] = "poll"
    /\ counter' = counter + 1
    /\ fut' = [fut EXCEPT ![c] = [h |-> counter, st |-> "pending", code |-> READY]]
    /\ \E j \in Polled(c) :
        /\ job' = [job EXCEPT ![c] = j]
        /\ IF Finished(j)
           THEN /\ queue' = queue \cup {[h |-> counter, call |-> c, loop |-> loop[c], code |-> READY]}
                /\ UNCHANGED conts
                /\ Goto(c, "await")
           ELSE /\ Insert(counter, [loop |-> loop[c], call |-> c])
                /\ UNCHANGED queue
                /\ Goto(c, "store")
    /\ UNCHANGED <<globalLoop, home, loop, stopping, sched, outcome, raised>>

\* The scheduler keeps the continuation, unless a wake came first.
Store(c) ==
    /\ pc[c] = "store"
    /\ \/ /\ sched[c].st = "empty"
          /\ sched' = [sched EXCEPT ![c] = [st |-> "set", h |-> fut[c].h]]
          /\ UNCHANGED <<queue, conts, raised>>
       \/ /\ sched[c].st = "waked"
          /\ sched' = [sched EXCEPT ![c].st = "empty"]
          /\ Callback(c, fut[c].h, MAYBE_READY)
    /\ Goto(c, "await")
    /\ UNCHANGED <<globalLoop, home, loop, fut, stopping, counter, job, outcome>>

AfterPoll(code) == IF code = READY THEN "complete" ELSE "poll"

End(c, what) == outcome' = [outcome EXCEPT ![c] = what]

\* await: go on with a resolved future, suspend on a pending one.  asyncio
\* refuses to suspend a task on a future of another loop.
Await(c) ==
    /\ pc[c] = "await"
    /\ \/ /\ fut[c].st = "resolved"
          /\ Goto(c, AfterPoll(fut[c].code))
          /\ UNCHANGED outcome
       \/ /\ fut[c].st = "pending" /\ loop[c] = home[c]
          /\ Goto(c, "suspended")
          /\ UNCHANGED outcome
       \/ /\ fut[c].st = "pending" /\ loop[c] # home[c]
          /\ Goto(c, "free")
          /\ End(c, "RuntimeError")
    /\ UNCHANGED <<globalLoop, home, loop, fut, stopping, counter, conts, queue,
                   sched, job, raised>>

\* Slip: a cancelled wait is taken for a finished one.
AfterCancelCompletes == "complete"

AfterCancel == "free"

Resume(c) ==
    /\ pc[c] = "suspended" /\ Idle(home[c])
    /\ fut[c].st \in {"resolved", "cancelled"}
    /\ IF stopping[c]
       THEN Goto(c, AfterCancel) /\ End(c, "CancelledError")
       ELSE Goto(c, AfterPoll(fut[c].code)) /\ UNCHANGED outcome
    /\ UNCHANGED <<globalLoop, home, loop, fut, stopping, counter, conts, queue,
                   sched, job, raised>>

\* task.cancel() from another task of the loop: the future waited for is
\* cancelled, or, when it is resolved already, the task at its next step.
Cancel(c) ==
    /\ pc[c] = "suspended" /\ ~stopping[c] /\ Idle(home[c])
    /\ stopping' = [stopping EXCEPT ![c] = TRUE]
    /\ fut' = IF fut[c].st = "pending" THEN [fut EXCEPT ![c].st = "cancelled"] ELSE fut
    /\ UNCHANGED <<globalLoop, pc, home, loop, counter, conts, queue, sched, job,
                   outcome, raised>>

\* ffi_complete: a panic of the poll, or no result to give, is InternalError.
Complete(c) ==
    /\ pc[c] = "complete"
    /\ End(c, IF job[c] \in {"ending", "finished"} THEN "answer" ELSE "InternalError")
    /\ Goto(c, "free")
    /\ UNCHANGED <<globalLoop, home, loop, fut, stopping, counter, conts, queue,
                   sched, job, raised>>

\* ffi_free cancels the scheduler, which gives a kept continuation back; the
\* job goes on.
Free(c) ==
    /\ pc[c] = "free"
    /\ sched' = [sched EXCEPT ![c].st = "cancelled"]
    /\ IF sched[c].st = "set" THEN Callback(c, sched[c].h, READY)
       ELSE UNCHANGED <<queue, conts, raised>>
    /\ Goto(c, "done")
    /\ UNCHANGED <<globalLoop, home, loop, fut, stopping, counter, job, outcome>>

(* The Tokio runtime. *)

JobEnds(c) ==
    /\ job[c] = "running"
    /\ job' = [job EXCEPT ![c] = "ending"]
    /\ UNCHANGED <<globalLoop, pc, home, loop, fut, stopping, counter, conts, queue,
                   sched, outcome, raised>>

\* The waker of a finished job: a kept continuation is called, a wake that
\* comes before the continuation is remembered.
Wake(c) ==
    /\ job[c] = "ending"
    /\ job' = [job EXCEPT ![c] = "finished"]
    /\ \/ /\ sched[c].st = "set"
          /\ sched' = [sched EXCEPT ![c].st = "empty"]
          /\ Callback(c, sched[c].h, MAYBE_READY)
       \/ /\ sched[c].st = "empty"
          /\ sched' = [sched EXCEPT ![c].st = "waked"]
          /\ UNCHANGED <<queue, conts, raised>>
       \/ /\ sched[c].st \in {"waked", "cancelled"}
          /\ UNCHANGED <<sched, queue, conts, raised>>
    /\ UNCHANGED <<globalLoop, pc, home, loop, fut, stopping, counter, outcome>>

Coroutine(c) ==
    \/ uniffi_get_event_loop(c) \/ Poll(c) \/ Store(c) \/ Await(c)
    \/ Resume(c) \/ Complete(c) \/ Free(c)

Runtime(c) == JobEnds(c) \/ Wake(c)

RunCallback(l) == \E e \in queue : e.loop = l /\ uniffi_set_future_result(e)

AllDone ==
    /\ \A c \in Calls : pc[c] = "done" /\ job[c] \notin {"running", "ending"}
    /\ queue = {}
    /\ UNCHANGED vars

Next ==
    \/ \E l \in Loops : uniffi_set_event_loop(l) \/ RunCallback(l)
    \/ \E c \in Calls :
        \/ \E l \in Loops : Call(c, l)
        \/ Cancel(c)
        \/ Coroutine(c)
        \/ Runtime(c)
    \/ AllDone

Spec == Init /\ [][Next]_vars

(* Every loop runs its callbacks and its resumable coroutines, and the      *)
(* runtime finishes its jobs and wakes who waits for them.                  *)
Fairness ==
    /\ \A c \in Calls : WF_vars(Coroutine(c)) /\ WF_vars(Runtime(c))
    /\ \A l \in Loops : WF_vars(RunCallback(l))

FairSpec == Spec /\ Fairness

(* Properties. *)

TypeOK ==
    /\ globalLoop \in Loops \cup {NoLoop}
    /\ pc \in [Calls -> PcStates]
    /\ home \in [Calls -> Loops \cup {NoLoop}]
    /\ loop \in [Calls -> Loops \cup {NoLoop}]
    /\ fut \in [Calls -> [h : Nat, st : FutStates, code : {READY, MAYBE_READY}]]
    /\ stopping \in [Calls -> BOOLEAN]
    /\ counter \in Nat
    /\ DOMAIN conts \subseteq Nat
    /\ \A h \in DOMAIN conts : conts[h] \in [loop : Loops, call : Calls]
    /\ queue \subseteq [h : Nat, call : Calls, loop : Loops, code : {READY, MAYBE_READY}]
    /\ sched \in [Calls -> [st : SchedStates, h : Nat]]
    /\ job \in [Calls -> JobStates]
    /\ outcome \in [Calls -> Outcomes]
    /\ raised \subseteq Calls

\* The core holds the handle of a call's future.
Waiting(c) == pc[c] = "store" \/ sched[c].st = "set"

\* The handle map holds exactly the futures the core still has to call back,
\* each under the loop it belongs to: no continuation is lost, none is left
\* behind when its call is over, and no handle is given back twice.
HandlesAreWaiting ==
    /\ \A c \in Calls : Waiting(c) =>
        fut[c].h \in DOMAIN conts /\ conts[fut[c].h] = [loop |-> loop[c], call |-> c]
    /\ \A h \in DOMAIN conts : \E c \in Calls : Waiting(c) /\ fut[c].h = h

\* No callback raises: the handle it is given is in the map, and the future it
\* resolves was not resolved before nor cancelled in between, however late a
\* wake comes.
NoCallbackRaises == raised = {}

\* A call gets InternalError only when the core panicked: ffi_complete is never
\* reached before the future has a result.
CompleteHasResult ==
    \A c \in Calls : outcome[c] = "InternalError" => job[c] = "panicked"

(* The parts of the inductive invariant behind them. *)

\* A started call knows its loop.
LoopsKnown ==
    \A c \in Calls :
        /\ pc[c] # "new" => home[c] \in Loops
        /\ pc[c] \notin {"new", "start"} => loop[c] \in Loops

\* Handles come from the counter, so no two futures share one.
HandlesDistinct ==
    /\ \A c \in Calls : fut[c].st # "none" => fut[c].h < counter
    /\ \A c, d \in Calls :
        c # d /\ fut[c].st # "none" /\ fut[d].st # "none" => fut[c].h # fut[d].h

\* A future the core can still call back is not resolved.
WaitingUnresolved ==
    \A c \in Calls :
        /\ pc[c] = "store" => fut[c].st = "pending" /\ sched[c].st # "set"
        /\ sched[c].st = "set" =>
            /\ sched[c].h = fut[c].h /\ fut[c].st \in {"pending", "cancelled"}
            /\ pc[c] \in {"await", "suspended", "free"}

\* A scheduled callback is the only one of its future, and the core no longer
\* has the handle.
QueuedUnresolved ==
    /\ \A e \in queue :
        /\ e.h = fut[e.call].h /\ fut[e.call].st \in {"pending", "cancelled"}
        /\ ~Waiting(e.call)
    /\ \A e, f \in queue : e.call = f.call => e = f

\* Between two polls the last future is resolved; only task.cancel() cancels.
CoroutineFutures ==
    \A c \in Calls :
        /\ pc[c] \in {"new", "start", "poll", "complete"} => fut[c].st \in {"none", "resolved"}
        /\ fut[c].st = "cancelled" => stopping[c]

\* READY is told of finished futures only, but for the one of ffi_free.
ReadyIsFinished ==
    /\ \A e \in queue : e.code = READY => Finished(job[e.call]) \/ pc[e.call] = "done"
    /\ \A c \in Calls :
        /\ fut[c].st = "resolved" /\ fut[c].code = READY => Finished(job[c]) \/ pc[c] = "done"
        /\ pc[c] = "complete" => Finished(job[c])
        /\ outcome[c] = "InternalError" => job[c] = "panicked"

IInv ==
    /\ TypeOK /\ LoopsKnown /\ HandlesDistinct /\ WaitingUnresolved
    /\ QueuedUnresolved /\ CoroutineFutures /\ ReadyIsFinished
    /\ HandlesAreWaiting /\ NoCallbackRaises

\* Every call ends, whichever way wakes, callbacks and cancellations fall.
CallsEnd == \A c \in Calls : (pc[c] = "start") ~> (pc[c] = "done")
=============================================================================
