------------------------------- MODULE InitDb -------------------------------
(***************************************************************************)
(* Initialisation: the globals DB and ASYNC_DB of lib.rs, which init_db    *)
(* fills and every other call reads.                                       *)
(*                                                                         *)
(* init_db opens two files and runs the statements of their schemas, each  *)
(* committed on its own, and then publishes two connections, each under    *)
(* its own mutex.  Two threads may run it at once, for the same or for two *)
(* base paths; any statement may fail; calls of the two databases run in   *)
(* between; and the process may die at any point, which leaves the files.  *)
(***************************************************************************)
EXTENDS Naturals

CONSTANTS
    Inits,      \* threads that run init_db
    Users,      \* calls of the exported functions
    NoUser,     \* the mutex of ASYNC_DB is free
    Paths,      \* base paths
    NoPath,     \* None
    Statements  \* statements of a schema

ASSUME UsersAssumption == NoUser \notin Users
ASSUME PathsAssumption == NoPath \notin Paths
ASSUME StatementsAssumption == Statements \in Nat \ {0}

VARIABLES
    activitySchema,  \* the statements done, by file base_path/activity.db
    blocktankSchema, \* the same for base_path/blocktank.db
    activity_db,     \* the path of the connection in DB
    blocktank_db,    \* the path of the connection in ASYNC_DB
    guard,           \* the call that holds the mutex of ASYNC_DB
    pc,              \* where a run of init_db is
    path,            \* its base path
    statement,       \* the statement it runs next
    alone,           \* no other run of init_db was seen since it started
    lastAlone,       \* that of the run that returned last
    ready,           \* some init_db has returned Ok in this process
    call,            \* where a call is
    answer           \* what the last one answered

files == <<activitySchema, blocktankSchema>>
run   == <<pc, path, statement, alone>>
vars  == <<activitySchema, blocktankSchema, activity_db, blocktank_db, guard,
           pc, path, statement, alone, lastAlone, ready, call, answer>>

Schema == 1..Statements

\* A cell that is not set and one that holds None answer alike: NoPath.
Init ==
    /\ activitySchema = [p \in Paths |-> {}]
    /\ blocktankSchema = [p \in Paths |-> {}]
    /\ activity_db = NoPath
    /\ blocktank_db = NoPath
    /\ guard = NoUser
    /\ pc = [i \in Inits |-> "idle"]
    /\ path = [i \in Inits |-> NoPath]
    /\ statement = [i \in Inits |-> 1]
    /\ alone = [i \in Inits |-> FALSE]
    /\ lastAlone = TRUE
    /\ ready = FALSE
    /\ call = [u \in Users |-> "idle"]
    /\ answer = [u \in Users |-> "none"]

-----------------------------------------------------------------------------
(* init_db                                                                 *)

Others(i) == {j \in Inits \ {i} : pc[j] # "idle"}

Goto(i, label) == pc' = [pc EXCEPT ![i] = label]

init_db(i, p) ==
    /\ pc[i] = "idle"
    /\ Goto(i, "activity")
    /\ path' = [path EXCEPT ![i] = p]
    /\ statement' = [statement EXCEPT ![i] = 1]
    /\ alone' = [j \in Inits |-> j = i /\ Others(i) = {}]
    /\ UNCHANGED <<files, activity_db, blocktank_db, guard, lastAlone, ready, call, answer>>

\* Slip: a file that has its first table is taken for an initialised one.
StatementAfterIfPresent(schema, s) == IF schema = {} THEN s + 1 ELSE Statements + 1

\* Slip: the loop skips every other statement.
StatementAfterNext(schema, s) == s + 2

\* Every statement is run again: IF NOT EXISTS, INSERT OR IGNORE.
StatementAfter(schema, s) == s + 1

\* The activity file comes first; nothing is published before both are open.
AfterSchema(label) == IF label = "activity" THEN "blocktank" ELSE "publish_activity"

\* The next statement of initialize, committed by itself.
Execute(i, label, schema) ==
    /\ pc[i] = label
    /\ statement[i] \in Schema
    /\ statement' = [statement EXCEPT ![i] = StatementAfter(schema[path[i]], statement[i])]

ExecuteActivity(i) ==
    /\ Execute(i, "activity", activitySchema)
    /\ activitySchema' = [activitySchema EXCEPT ![path[i]] = @ \cup {statement[i]}]
    /\ UNCHANGED <<blocktankSchema, activity_db, blocktank_db, guard, pc, path, alone,
                   lastAlone, ready, call, answer>>

ExecuteBlocktank(i) ==
    /\ Execute(i, "blocktank", blocktankSchema)
    /\ blocktankSchema' = [blocktankSchema EXCEPT ![path[i]] = @ \cup {statement[i]}]
    /\ UNCHANGED <<activitySchema, activity_db, blocktank_db, guard, pc, path, alone,
                   lastAlone, ready, call, answer>>

\* Slip: a connection is published as soon as it is open.
InitializedPublishes(i) ==
    /\ pc[i] \in {"activity", "blocktank"}
    /\ statement[i] \notin Schema
    /\ Goto(i, AfterSchema(pc[i]))
    /\ statement' = [statement EXCEPT ![i] = 1]
    /\ activity_db' = path[i]
    /\ UNCHANGED <<files, blocktank_db, guard, path, alone, lastAlone, ready, call, answer>>

\* initialize returns Ok: on to the other file, or to publishing.
Initialized(i) ==
    /\ pc[i] \in {"activity", "blocktank"}
    /\ statement[i] \notin Schema
    /\ Goto(i, AfterSchema(pc[i]))
    /\ statement' = [statement EXCEPT ![i] = 1]
    /\ UNCHANGED <<files, activity_db, blocktank_db, guard, path, alone, lastAlone,
                   ready, call, answer>>

\* init_db returns, and its locals are gone.
Return(i) ==
    /\ Goto(i, "idle")
    /\ path' = [path EXCEPT ![i] = NoPath]
    /\ statement' = [statement EXCEPT ![i] = 1]
    /\ alone' = [alone EXCEPT ![i] = FALSE]

\* The directory, the file, the HTTP client or a statement fails: `?`.
InitializationError(i) ==
    /\ pc[i] \in {"activity", "blocktank"}
    /\ Return(i)
    /\ UNCHANGED <<files, activity_db, blocktank_db, guard, lastAlone, ready, call, answer>>

PublishActivity(i) ==
    /\ pc[i] = "publish_activity"
    /\ activity_db' = path[i]
    /\ Goto(i, "publish_blocktank")
    /\ UNCHANGED <<files, blocktank_db, guard, path, statement, alone, lastAlone,
                   ready, call, answer>>

ReturnOk(i) ==
    /\ Return(i)
    /\ lastAlone' = alone[i]
    /\ ready' = TRUE
    /\ UNCHANGED <<files, activity_db, guard, call, answer>>

\* Slip: a busy mutex is skipped (try_lock) and init_db answers Ok all the same.
PublishBlocktankIfFree(i) ==
    /\ pc[i] = "publish_blocktank"
    /\ blocktank_db' = IF call = [u \in Users |-> "idle"] THEN path[i] ELSE blocktank_db
    /\ ReturnOk(i)

\* Slip: the cell is set once, like a OnceCell, and keeps its first connection.
PublishBlocktankOnce(i) ==
    /\ pc[i] = "publish_blocktank"
    /\ guard = NoUser
    /\ blocktank_db' = IF blocktank_db = NoPath THEN path[i] ELSE blocktank_db
    /\ ReturnOk(i)

\* rt.block_on waits for the mutex, which a call keeps across its requests.
PublishBlocktank(i) ==
    /\ pc[i] = "publish_blocktank"
    /\ guard = NoUser
    /\ blocktank_db' = path[i]
    /\ ReturnOk(i)

RunInit(i) ==
    \/ ExecuteActivity(i) \/ ExecuteBlocktank(i) \/ Initialized(i)
    \/ InitializationError(i) \/ PublishActivity(i)

-----------------------------------------------------------------------------
(* The other calls                                                         *)

Answered(u, db) ==
    answer' = [answer EXCEPT ![u] = IF db = NoPath THEN "ConnectionError" ELSE "called"]

\* A function of the activity module, under the mutex of DB.
activity_call(u) ==
    /\ call[u] = "idle"
    /\ Answered(u, activity_db)
    /\ UNCHANGED <<files, activity_db, blocktank_db, guard, run, lastAlone, ready, call>>

\* A function of the Blocktank module: rt.spawn, cell.lock().await.
blocktank_call(u) ==
    /\ call[u] = "idle"
    /\ call' = [call EXCEPT ![u] = "wait"]
    /\ UNCHANGED <<files, activity_db, blocktank_db, guard, run, lastAlone, ready, answer>>

Lock(u) ==
    /\ call[u] = "wait"
    /\ guard = NoUser
    /\ IF blocktank_db = NoPath
       THEN call' = [call EXCEPT ![u] = "idle"] /\ UNCHANGED guard
       ELSE call' = [call EXCEPT ![u] = "held"] /\ guard' = u
    /\ Answered(u, blocktank_db)
    /\ UNCHANGED <<files, activity_db, blocktank_db, run, lastAlone, ready>>

\* Slip: the mutex is not released.
ReleaseNever(u) == guard

\* The guard is dropped when the task ends.
Release(u) == NoUser

Finish(u) ==
    /\ call[u] = "held"
    /\ call' = [call EXCEPT ![u] = "idle"]
    /\ guard' = Release(u)
    /\ UNCHANGED <<files, activity_db, blocktank_db, run, lastAlone, ready, answer>>

\* The process dies and starts again: only the files are left.
Crash ==
    /\ activity_db' = NoPath
    /\ blocktank_db' = NoPath
    /\ guard' = NoUser
    /\ pc' = [i \in Inits |-> "idle"]
    /\ path' = [i \in Inits |-> NoPath]
    /\ statement' = [i \in Inits |-> 1]
    /\ alone' = [i \in Inits |-> FALSE]
    /\ lastAlone' = TRUE
    /\ ready' = FALSE
    /\ call' = [u \in Users |-> "idle"]
    /\ answer' = [u \in Users |-> "none"]
    /\ UNCHANGED files

Next ==
    \/ \E i \in Inits : (\E p \in Paths : init_db(i, p)) \/ RunInit(i) \/ PublishBlocktank(i)
    \/ \E u \in Users : activity_call(u) \/ blocktank_call(u) \/ Lock(u) \/ Finish(u)
    \/ Crash

Spec == Init /\ [][Next]_vars

(* A thread that runs goes on, a task that has the mutex ends, and tokio's *)
(* mutex is handed on in the order of arrival.                             *)
FairSpec ==
    /\ Spec
    /\ \A i \in Inits : WF_vars(RunInit(i)) /\ SF_vars(PublishBlocktank(i))
    /\ \A u \in Users : WF_vars(Finish(u))

-----------------------------------------------------------------------------
(* Properties                                                              *)

Labels == {"idle", "activity", "blocktank", "publish_activity", "publish_blocktank"}

TypeOK ==
    /\ activitySchema \in [Paths -> SUBSET Schema]
    /\ blocktankSchema \in [Paths -> SUBSET Schema]
    /\ activity_db \in Paths \cup {NoPath}
    /\ blocktank_db \in Paths \cup {NoPath}
    /\ guard \in Users \cup {NoUser}
    /\ pc \in [Inits -> Labels]
    /\ path \in [Inits -> Paths \cup {NoPath}]
    /\ statement \in [Inits -> 1..Statements + 1]
    /\ alone \in [Inits -> BOOLEAN]
    /\ lastAlone \in BOOLEAN
    /\ ready \in BOOLEAN
    /\ call \in [Users -> {"idle", "wait", "held"}]
    /\ answer \in [Users -> {"none", "ConnectionError", "called"}]

\* A connection that calls can reach has its whole schema in the file, also
\* when an earlier process died, or another run of init_db failed or is still
\* busy, in the middle of creating it.
PublishedIsComplete ==
    /\ activity_db # NoPath => activitySchema[activity_db] = Schema
    /\ blocktank_db # NoPath => blocktankSchema[blocktank_db] = Schema

\* A run of init_db is between its two publications.
HalfPublished == \E i \in Inits : pc[i] = "publish_blocktank"

\* Both databases are open or neither is, but for the moment between the two
\* publications: an init_db that fails leaves no half behind.
BothOrNeither ==
    ~HalfPublished => (activity_db = NoPath <=> blocktank_db = NoPath)

\* The two databases are those of one base path unless the last init_db to
\* return overlapped another: two overlapping runs can leave a mix of two
\* paths, and one more run, alone, repairs it.
OnePathUnlessOverlap ==
    lastAlone /\ ~HalfPublished => activity_db = blocktank_db

(* The parts of the inductive invariant behind them.                       *)

\* A run has done the statements before its cursor; what it opened is complete.
StatementsDone ==
    \A i \in Inits :
        /\ pc[i] # "idle" => path[i] \in Paths
        /\ pc[i] = "activity" => \A s \in Schema :
            s < statement[i] => s \in activitySchema[path[i]]
        /\ pc[i] = "blocktank" => \A s \in Schema :
            s < statement[i] => s \in blocktankSchema[path[i]]
        /\ pc[i] \notin {"idle", "activity"} => activitySchema[path[i]] = Schema
        /\ pc[i] \in {"publish_activity", "publish_blocktank"} =>
            blocktankSchema[path[i]] = Schema

\* The activity database is open whenever the other one is or is about to be.
PublishedInOrder ==
    /\ HalfPublished \/ blocktank_db # NoPath => activity_db # NoPath
    /\ ready => blocktank_db # NoPath

\* A run that is alone is the only one, and what it published is still there.
AloneIsAlone ==
    \A i \in Inits : alone[i] =>
        /\ \A j \in Inits : j # i => pc[j] = "idle"
        /\ pc[i] = "publish_blocktank" => activity_db = path[i]

IInv ==
    /\ TypeOK /\ StatementsDone /\ PublishedIsComplete /\ PublishedInOrder
    /\ BothOrNeither /\ AloneIsAlone /\ OnePathUnlessOverlap

\* Once an init_db has returned Ok, no call of the process answers "Database
\* not initialized" again, whatever runs of init_db fail or overlap later.
ErrorOnlyBeforeInit ==
    [][ready /\ ready' => \A u \in Users :
            answer'[u] # answer[u] => answer'[u] # "ConnectionError"]_vars

\* Every init_db returns: it waits for the Blocktank calls in progress, and
\* those never wait for the thread that init_db blocks.
InitReturns ==
    \A i \in Inits : (pc[i] = "activity") ~> (pc[i] = "idle")
=============================================================================
