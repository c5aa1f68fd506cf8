---------------------------- MODULE InitDbProofs ----------------------------
(***************************************************************************)
(* Proofs about InitDb, for any number of threads that run init_db, of     *)
(* calls, of base paths and of schema statements.                          *)
(***************************************************************************)
EXTENDS InitDb, TLAPS

USE UsersAssumption, PathsAssumption, StatementsAssumption
USE DEF Labels, Schema, files, run

\* A statement is added to one file: no file loses any.
LEMMA SchemaGrows ==
    ASSUME NEW f \in [Paths -> SUBSET Schema], NEW p \in Paths, NEW s \in Schema,
           NEW g, g = [f EXCEPT ![p] = @ \cup {s}]
    PROVE /\ g \in [Paths -> SUBSET Schema]
          /\ s \in g[p]
          /\ \A q \in Paths : f[q] \subseteq g[q]
          /\ \A q \in Paths : f[q] = Schema => g[q] = Schema
<1> HIDE DEF Schema
<1>1. f[p] \cup {s} \in SUBSET Schema
  OBVIOUS
<1>2. \A q \in Paths : g[q] = IF q = p THEN f[p] \cup {s} ELSE f[q]
  OBVIOUS
<1>3. g \in [Paths -> SUBSET Schema]
  BY <1>1
<1> QED BY <1>1, <1>2, <1>3

\* The cursor, while it stands at a statement, can move on.
LEMMA CursorMoves ==
    ASSUME NEW s \in Schema
    PROVE /\ s + 1 \in 1..Statements + 1
          /\ \A r \in Schema : r < s + 1 <=> r < s \/ r = s
OBVIOUS

\* Past the last statement, all of them are done.
LEMMA CursorAtEnd ==
    ASSUME NEW c \in 1..Statements + 1, c \notin Schema,
           NEW S \in SUBSET Schema, \A s \in Schema : s < c => s \in S
    PROVE S = Schema
<1>1. \A s \in Schema : s < c
  OBVIOUS
<1> QED BY <1>1

\* A run starts: it publishes nothing, and whoever runs is no longer alone.
LEMMA StartKeeps ==
    ASSUME IInv, NEW i \in Inits, NEW p \in Paths, init_db(i, p) PROVE IInv'
<1>1. TypeOK'
  BY DEF IInv, TypeOK, init_db, Goto, Others
<1>2. StatementsDone'
  BY DEF IInv, TypeOK, StatementsDone, init_db, Goto, Others
<1>3. PublishedIsComplete'
  BY DEF IInv, TypeOK, PublishedIsComplete, StatementsDone, init_db, Goto, Others
<1>4. PublishedInOrder'
  BY DEF IInv, TypeOK, PublishedInOrder, HalfPublished, StatementsDone, init_db, Goto, Others
<1>5. BothOrNeither'
  BY DEF IInv, TypeOK, BothOrNeither, HalfPublished, PublishedInOrder, StatementsDone, init_db, Goto, Others
<1>6. AloneIsAlone'
  BY DEF IInv, TypeOK, AloneIsAlone, init_db, Goto, Others
<1>7. OnePathUnlessOverlap'
  BY DEF IInv, TypeOK, OnePathUnlessOverlap, HalfPublished, AloneIsAlone, init_db, Goto, Others
<1> QED BY <1>1, <1>2, <1>3, <1>4, <1>5, <1>6, <1>7 DEF IInv

\* A statement of the activity schema: files only grow.
LEMMA ExecuteActivityKeeps ==
    ASSUME IInv, NEW i \in Inits, ExecuteActivity(i) PROVE IInv'
<1> HIDE DEF Schema
<1>a. /\ pc[i] = "activity" /\ path[i] \in Paths /\ statement[i] \in Schema
      /\ statement' = [statement EXCEPT ![i] = statement[i] + 1]
      /\ activitySchema \in [Paths -> SUBSET Schema]
      /\ activitySchema' = [activitySchema EXCEPT ![path[i]] = @ \cup {statement[i]}]
      /\ UNCHANGED <<blocktankSchema, activity_db, blocktank_db, guard, pc, path, alone,
                     lastAlone, ready, call, answer>>
  BY DEF IInv, TypeOK, StatementsDone, ExecuteActivity, Execute, StatementAfter
<1>b. /\ activitySchema' \in [Paths -> SUBSET Schema]
      /\ statement[i] \in activitySchema'[path[i]]
      /\ \A q \in Paths : activitySchema[q] \subseteq activitySchema'[q]
      /\ \A q \in Paths : activitySchema[q] = Schema => activitySchema'[q] = Schema
  BY <1>a, SchemaGrows
<1>c. /\ statement[i] + 1 \in 1..Statements + 1
      /\ \A r \in Schema : r < statement[i] + 1 <=> r < statement[i] \/ r = statement[i]
  BY <1>a, CursorMoves
<1>1. TypeOK'
  BY <1>a, <1>b, <1>c DEF IInv, TypeOK
<1>2. StatementsDone'
  <2> SUFFICES ASSUME NEW j \in Inits PROVE StatementsDone!(j)'
    BY DEF StatementsDone
  <2>1. CASE j = i
    BY <2>1, <1>a, <1>b, <1>c DEF IInv, TypeOK, StatementsDone
  <2>2. CASE j # i
    BY <2>2, <1>a, <1>b DEF IInv, TypeOK, StatementsDone
  <2> QED BY <2>1, <2>2
<1>3. PublishedIsComplete'
  BY <1>a, <1>b DEF IInv, TypeOK, PublishedIsComplete
<1>4. PublishedInOrder'
  BY DEF IInv, TypeOK, PublishedInOrder, HalfPublished, StatementsDone, ExecuteActivity, Execute, StatementAfter
<1>5. BothOrNeither'
  BY DEF IInv, TypeOK, BothOrNeither, HalfPublished, PublishedInOrder, StatementsDone, ExecuteActivity, Execute, StatementAfter
<1>6. AloneIsAlone'
  BY DEF IInv, TypeOK, AloneIsAlone, ExecuteActivity, Execute, StatementAfter
<1>7. OnePathUnlessOverlap'
  BY DEF IInv, TypeOK, OnePathUnlessOverlap, HalfPublished, AloneIsAlone, ExecuteActivity, Execute, StatementAfter
<1> QED BY <1>1, <1>2, <1>3, <1>4, <1>5, <1>6, <1>7 DEF IInv

\* A statement of the Blocktank schema.
LEMMA ExecuteBlocktankKeeps ==
    ASSUME IInv, NEW i \in Inits, ExecuteBlocktank(i) PROVE IInv'
<1> HIDE DEF Schema
<1>a. /\ pc[i] = "blocktank" /\ path[i] \in Paths /\ statement[i] \in Schema
      /\ statement' = [statement EXCEPT ![i] = statement[i] + 1]
      /\ blocktankSchema \in [Paths -> SUBSET Schema]
      /\ blocktankSchema' = [blocktankSchema EXCEPT ![path[i]] = @ \cup {statement[i]}]
      /\ UNCHANGED <<activitySchema, activity_db, blocktank_db, guard, pc, path, alone,
                     lastAlone, ready, call, answer>>
  BY DEF IInv, TypeOK, StatementsDone, ExecuteBlocktank, Execute, StatementAfter
<1>b. /\ blocktankSchema' \in [Paths -> SUBSET Schema]
      /\ statement[i] \in blocktankSchema'[path[i]]
      /\ \A q \in Paths : blocktankSchema[q] \subseteq blocktankSchema'[q]
      /\ \A q \in Paths : blocktankSchema[q] = Schema => blocktankSchema'[q] = Schema
  BY <1>a, SchemaGrows
<1>c. /\ statement[i] + 1 \in 1..Statements + 1
      /\ \A r \in Schema : r < statement[i] + 1 <=> r < statement[i] \/ r = statement[i]
  BY <1>a, CursorMoves
<1>1. TypeOK'
  BY <1>a, <1>b, <1>c DEF IInv, TypeOK
<1>2. StatementsDone'
  <2> SUFFICES ASSUME NEW j \in Inits PROVE StatementsDone!(j)'
    BY DEF StatementsDone
  <2>1. CASE j = i
    BY <2>1, <1>a, <1>b, <1>c DEF IInv, TypeOK, StatementsDone
  <2>2. CASE j # i
    BY <2>2, <1>a, <1>b DEF IInv, TypeOK, StatementsDone
  <2> QED BY <2>1, <2>2
<1>3. PublishedIsComplete'
  BY <1>a, <1>b DEF IInv, TypeOK, PublishedIsComplete
<1>4. PublishedInOrder'
  BY DEF IInv, TypeOK, PublishedInOrder, HalfPublished, StatementsDone, ExecuteBlocktank, Execute, StatementAfter
<1>5. BothOrNeither'
  BY DEF IInv, TypeOK, BothOrNeither, HalfPublished, PublishedInOrder, StatementsDone, ExecuteBlocktank, Execute, StatementAfter
<1>6. AloneIsAlone'
  BY DEF IInv, TypeOK, AloneIsAlone, ExecuteBlocktank, Execute, StatementAfter
<1>7. OnePathUnlessOverlap'
  BY DEF IInv, TypeOK, OnePathUnlessOverlap, HalfPublished, AloneIsAlone, ExecuteBlocktank, Execute, StatementAfter
<1> QED BY <1>1, <1>2, <1>3, <1>4, <1>5, <1>6, <1>7 DEF IInv

\* The cursor is past the last statement: the schema is complete.
LEMMA InitializedKeeps ==
    ASSUME IInv, NEW i \in Inits, Initialized(i) PROVE IInv'
<1>1. TypeOK'
  BY DEF IInv, TypeOK, Initialized, Goto, AfterSchema
<1>2. StatementsDone'
  <2>1. statement[i] \in 1..Statements + 1 /\ statement[i] \notin Schema
        /\ path[i] \in Paths /\ pc[i] \in {"activity", "blocktank"}
        /\ activitySchema[path[i]] \in SUBSET Schema
        /\ blocktankSchema[path[i]] \in SUBSET Schema
    BY DEF IInv, TypeOK, StatementsDone, Initialized
  <2>2. pc[i] = "activity" => activitySchema[path[i]] = Schema
    BY <2>1, CursorAtEnd DEF IInv, StatementsDone
  <2>3. pc[i] = "blocktank" => blocktankSchema[path[i]] = Schema
    BY <2>1, CursorAtEnd DEF IInv, StatementsDone
  <2> HIDE DEF Schema
  <2>4. \A s \in Schema : ~(s < 1)
    BY DEF Schema
  <2> QED BY <2>1, <2>2, <2>3, <2>4 DEF IInv, TypeOK, StatementsDone, Initialized, Goto, AfterSchema
<1>3. PublishedIsComplete'
  BY DEF IInv, TypeOK, PublishedIsComplete, StatementsDone, Initialized, Goto, AfterSchema
<1>4. PublishedInOrder'
  BY DEF IInv, TypeOK, PublishedInOrder, HalfPublished, StatementsDone, Initialized, Goto, AfterSchema
<1>5. BothOrNeither'
  BY DEF IInv, TypeOK, BothOrNeither, HalfPublished, PublishedInOrder, StatementsDone, Initialized, Goto, AfterSchema
<1>6. AloneIsAlone'
  BY DEF IInv, TypeOK, AloneIsAlone, Initialized, Goto, AfterSchema
<1>7. OnePathUnlessOverlap'
  BY DEF IInv, TypeOK, OnePathUnlessOverlap, HalfPublished, AloneIsAlone, Initialized, Goto, AfterSchema
<1> QED BY <1>1, <1>2, <1>3, <1>4, <1>5, <1>6, <1>7 DEF IInv

\* A run that fails has published nothing.
LEMMA ErrorKeeps ==
    ASSUME IInv, NEW i \in Inits, InitializationError(i) PROVE IInv'
<1>1. TypeOK'
  BY DEF IInv, TypeOK, InitializationError, Return, Goto
<1>2. StatementsDone'
  BY DEF IInv, TypeOK, StatementsDone, InitializationError, Return, Goto
<1>3. PublishedIsComplete'
  BY DEF IInv, TypeOK, PublishedIsComplete, StatementsDone, InitializationError, Return, Goto
<1>4. PublishedInOrder'
  BY DEF IInv, TypeOK, PublishedInOrder, HalfPublished, StatementsDone, InitializationError, Return, Goto
<1>5. BothOrNeither'
  BY DEF IInv, TypeOK, BothOrNeither, HalfPublished, PublishedInOrder, StatementsDone, InitializationError, Return, Goto
<1>6. AloneIsAlone'
  BY DEF IInv, TypeOK, AloneIsAlone, InitializationError, Return, Goto
<1>7. OnePathUnlessOverlap'
  BY DEF IInv, TypeOK, OnePathUnlessOverlap, HalfPublished, AloneIsAlone, InitializationError, Return, Goto
<1> QED BY <1>1, <1>2, <1>3, <1>4, <1>5, <1>6, <1>7 DEF IInv

\* The first publication.
LEMMA PublishActivityKeeps ==
    ASSUME IInv, NEW i \in Inits, PublishActivity(i) PROVE IInv'
<1>1. TypeOK'
  BY DEF IInv, TypeOK, PublishActivity, Goto
<1>2. StatementsDone'
  BY DEF IInv, TypeOK, StatementsDone, PublishActivity, Goto
<1>3. PublishedIsComplete'
  BY DEF IInv, TypeOK, PublishedIsComplete, StatementsDone, PublishActivity, Goto
<1>4. PublishedInOrder'
  BY DEF IInv, TypeOK, PublishedInOrder, HalfPublished, StatementsDone, PublishActivity, Goto
<1>5. BothOrNeither'
  BY DEF IInv, TypeOK, BothOrNeither, HalfPublished, PublishedInOrder, StatementsDone, PublishActivity, Goto
<1>6. AloneIsAlone'
  BY DEF IInv, TypeOK, AloneIsAlone, PublishActivity, Goto
<1>7. OnePathUnlessOverlap'
  BY DEF IInv, TypeOK, OnePathUnlessOverlap, HalfPublished, AloneIsAlone, PublishActivity, Goto
<1> QED BY <1>1, <1>2, <1>3, <1>4, <1>5, <1>6, <1>7 DEF IInv

\* The second publication, after the first.
LEMMA PublishBlocktankKeeps ==
    ASSUME IInv, NEW i \in Inits, PublishBlocktank(i) PROVE IInv'
<1>1. TypeOK'
  BY DEF IInv, TypeOK, PublishBlocktank, ReturnOk, Return, Goto
<1>2. StatementsDone'
  BY DEF IInv, TypeOK, StatementsDone, PublishBlocktank, ReturnOk, Return, Goto
<1>3. PublishedIsComplete'
  BY DEF IInv, TypeOK, PublishedIsComplete, StatementsDone, PublishBlocktank, ReturnOk, Return, Goto
<1>4. PublishedInOrder'
  BY DEF IInv, TypeOK, PublishedInOrder, HalfPublished, StatementsDone, PublishBlocktank, ReturnOk, Return, Goto
<1>5. BothOrNeither'
  BY DEF IInv, TypeOK, BothOrNeither, HalfPublished, PublishedInOrder, StatementsDone, PublishBlocktank, ReturnOk, Return, Goto
<1>6. AloneIsAlone'
  BY DEF IInv, TypeOK, AloneIsAlone, PublishBlocktank, ReturnOk, Return, Goto
<1>7. OnePathUnlessOverlap'
  BY DEF IInv, TypeOK, OnePathUnlessOverlap, HalfPublished, AloneIsAlone, PublishBlocktank, ReturnOk, Return, Goto
<1> QED BY <1>1, <1>2, <1>3, <1>4, <1>5, <1>6, <1>7 DEF IInv

\* Calls move the mutex and their answers only.
LEMMA CallKeeps ==
    ASSUME IInv, NEW u \in Users, activity_call(u) \/ blocktank_call(u) \/ Lock(u) \/ Finish(u) PROVE IInv'
<1>1. TypeOK'
  BY DEF IInv, TypeOK, activity_call, blocktank_call, Lock, Finish, Release, Answered
<1>2. StatementsDone'
  BY DEF IInv, TypeOK, StatementsDone, activity_call, blocktank_call, Lock, Finish, Release, Answered
<1>3. PublishedIsComplete'
  BY DEF IInv, TypeOK, PublishedIsComplete, StatementsDone, activity_call, blocktank_call, Lock, Finish, Release, Answered
<1>4. PublishedInOrder'
  BY DEF IInv, TypeOK, PublishedInOrder, HalfPublished, StatementsDone, activity_call, blocktank_call, Lock, Finish, Release, Answered
<1>5. BothOrNeither'
  BY DEF IInv, TypeOK, BothOrNeither, HalfPublished, PublishedInOrder, StatementsDone, activity_call, blocktank_call, Lock, Finish, Release, Answered
<1>6. AloneIsAlone'
  BY DEF IInv, TypeOK, AloneIsAlone, activity_call, blocktank_call, Lock, Finish, Release, Answered
<1>7. OnePathUnlessOverlap'
  BY DEF IInv, TypeOK, OnePathUnlessOverlap, HalfPublished, AloneIsAlone, activity_call, blocktank_call, Lock, Finish, Release, Answered
<1> QED BY <1>1, <1>2, <1>3, <1>4, <1>5, <1>6, <1>7 DEF IInv

\* After a crash the files are as they were and nothing is open.
LEMMA CrashKeeps ==
    ASSUME IInv, Crash PROVE IInv'
<1>1. TypeOK'
  <2>1. 1 \in 1..Statements + 1
    OBVIOUS
  <2> QED BY <2>1 DEF IInv, TypeOK, Crash
<1>2. StatementsDone'
  BY DEF IInv, TypeOK, StatementsDone, Crash
<1>3. PublishedIsComplete'
  BY DEF IInv, TypeOK, PublishedIsComplete, StatementsDone, Crash
<1>4. PublishedInOrder'
  BY DEF IInv, TypeOK, PublishedInOrder, HalfPublished, StatementsDone, Crash
<1>5. BothOrNeither'
  BY DEF IInv, TypeOK, BothOrNeither, HalfPublished, PublishedInOrder, StatementsDone, Crash
<1>6. AloneIsAlone'
  BY DEF IInv, TypeOK, AloneIsAlone, Crash
<1>7. OnePathUnlessOverlap'
  BY DEF IInv, TypeOK, OnePathUnlessOverlap, HalfPublished, AloneIsAlone, Crash
<1> QED BY <1>1, <1>2, <1>3, <1>4, <1>5, <1>6, <1>7 DEF IInv

\* The invariant holds: it holds of the empty process and every step keeps it.
THEOREM InvariantHolds == Spec => []IInv
<1>1. Init => IInv
  <2> SUFFICES ASSUME Init PROVE IInv
    OBVIOUS
  <2>1. TypeOK
    <3>1. 1 \in 1..Statements + 1
      OBVIOUS
    <3>2. {} \in SUBSET Schema
      OBVIOUS
    <3> QED BY <3>1, <3>2 DEF Init, TypeOK
  <2>2. StatementsDone /\ AloneIsAlone
    BY DEF Init, StatementsDone, AloneIsAlone
  <2>3. PublishedIsComplete /\ PublishedInOrder /\ BothOrNeither /\ OnePathUnlessOverlap
    BY DEF Init, PublishedIsComplete, PublishedInOrder, BothOrNeither, OnePathUnlessOverlap,
           HalfPublished
  <2> QED BY <2>1, <2>2, <2>3 DEF IInv
<1>2. IInv /\ [Next]_vars => IInv'
  <2> SUFFICES ASSUME IInv, [Next]_vars PROVE IInv'
    OBVIOUS
  <2>1. ASSUME NEW i \in Inits, \E p \in Paths : init_db(i, p) PROVE IInv'
    BY <2>1, StartKeeps
  <2>2. ASSUME NEW i \in Inits, RunInit(i) PROVE IInv'
    BY <2>2, ExecuteActivityKeeps, ExecuteBlocktankKeeps, InitializedKeeps, ErrorKeeps,
       PublishActivityKeeps DEF RunInit
  <2>3. ASSUME NEW i \in Inits, PublishBlocktank(i) PROVE IInv'
    BY <2>3, PublishBlocktankKeeps
  <2>4. ASSUME NEW u \in Users, activity_call(u) \/ blocktank_call(u) \/ Lock(u) \/ Finish(u)
        PROVE IInv'
    BY <2>4, CallKeeps
  <2>5. CASE Crash
    BY <2>5, CrashKeeps
  <2>6. CASE UNCHANGED vars
    BY <2>6 DEF IInv, TypeOK, StatementsDone, PublishedIsComplete, PublishedInOrder,
                BothOrNeither, AloneIsAlone, OnePathUnlessOverlap, HalfPublished, vars
  <2> QED BY <2>1, <2>2, <2>3, <2>4, <2>5, <2>6 DEF Next
<1> QED BY <1>1, <1>2, PTL DEF Spec

\* The state of initialisation keeps its types.
THEOREM TypeCorrect == Spec => []TypeOK
BY InvariantHolds, PTL DEF IInv

\* A database that calls can reach has its whole schema, whatever failed,
\* crashed or overlapped while it was created.
THEOREM PublishedIsCompleteHolds == Spec => []PublishedIsComplete
BY InvariantHolds, PTL DEF IInv

\* init_db never leaves one of the two databases open without the other.
THEOREM BothOrNeitherHolds == Spec => []BothOrNeither
BY InvariantHolds, PTL DEF IInv

\* Only overlapping runs of init_db leave the databases of two base paths.
THEOREM OnePathHolds == Spec => []OnePathUnlessOverlap
BY InvariantHolds, PTL DEF IInv

\* After an init_db has returned Ok no call answers that the databases are not
\* initialised.
THEOREM NoErrorAfterInit == Spec => ErrorOnlyBeforeInit
<1> DEFINE Step == ready /\ ready' => \A u \in Users :
                answer'[u] # answer[u] => answer'[u] # "ConnectionError"
<1>1. IInv /\ [Next]_vars => [Step]_vars
  <2> SUFFICES ASSUME IInv, Next, ready, ready',
                      NEW u \in Users, answer'[u] # answer[u]
               PROVE answer'[u] # "ConnectionError"
    BY DEF vars
  <2>1. activity_db # NoPath /\ blocktank_db # NoPath
    BY DEF IInv, PublishedInOrder
  <2>2. answer \in [Users -> {"none", "ConnectionError", "called"}]
    BY DEF IInv, TypeOK
  <2>3. ~ Crash
    BY DEF Crash
  <2>4. ASSUME NEW v \in Users, activity_call(v) \/ blocktank_call(v) \/ Lock(v) \/ Finish(v)
        PROVE answer'[u] # "ConnectionError"
    BY <2>1, <2>2, <2>4 DEF activity_call, blocktank_call, Lock, Finish, Answered
  <2>5. ASSUME NEW i \in Inits, (\E p \in Paths : init_db(i, p)) \/ RunInit(i) \/ PublishBlocktank(i)
        PROVE answer' = answer
    BY <2>5 DEF init_db, RunInit, ExecuteActivity, ExecuteBlocktank, Initialized,
                InitializationError, PublishActivity, PublishBlocktank, ReturnOk
  <2> QED BY <2>3, <2>4, <2>5 DEF Next
<1> QED BY <1>1, InvariantHolds, PTL DEF Spec, ErrorOnlyBeforeInit
=============================================================================
