-------------------------- MODULE ActivityDBProofs --------------------------
(***************************************************************************)
(* The activity history is consistent for every set of connections, ids,   *)
(* tags and payloads, whatever fails and whoever dies; what the open       *)
(* transaction of a call has done so far, and what follows for its answer. *)
(***************************************************************************)
EXTENDS ActivityDB, TLAPS

-----------------------------------------------------------------------------
(* What each statement does to the tables                                  *)

\* The statement left this id alone in all three tables.
SameAt(d, e, i) ==
    /\ e.activities[i] = d.activities[i]
    /\ \A t \in ActivityType : e.detail[t][i] = d.detail[t][i]

\* An id that a statement left alone is in order after it if it was before.
LEMMA Untouched ==
    ASSUME NEW d, NEW e, NEW i, SameAt(d, e, i),
           DetailMatchesTypeAt(d, i), ConfirmedLaterAt(d, i)
    PROVE  DetailMatchesTypeAt(e, i) /\ ConfirmedLaterAt(e, i)
BY DEF SameAt, DetailMatchesTypeAt, ConfirmedLaterAt, HasType, Exists, ActivityType

\* INSERT INTO activities on a consistent file leaves only the new row without
\* its detail.
LEMMA InsertActivityRowHalf ==
    ASSUME NEW d \in Database, Consistent(d), NEW id \in Ids, NEW p \in Payloads,
           NEW now \in Clock, InsertActivityOK(d, id, p)
    PROVE  /\ InsertActivityRow(d, id, p, now) \in Database
           /\ HalfInserted(InsertActivityRow(d, id, p, now), id, p)
<1> DEFINE e == InsertActivityRow(d, id, p, now)
           r == [activity_type |-> p.activity_type, tx_type |-> p.tx_type,
                 timestamp |-> p.timestamp, created_at |-> now, updated_at |-> now]
<1>1. r \in ActivityRow /\ r # NoRow /\ r.activity_type = p.activity_type
  BY PayloadsAssumption, NoRowAssumption DEF PayloadType, ActivityRow
<1>2. e = [d EXCEPT !.activities[id] = r]
  BY DEF InsertActivityRow
<1> HIDE DEF e, r
<1>3. /\ e \in Database
      /\ e.activities = [d.activities EXCEPT ![id] = r]
      /\ e.detail = d.detail
      /\ e.tags = d.tags
  BY <1>1, <1>2 DEF Database
<1>4. ASSUME NEW i \in Ids \ {id}
      PROVE  DetailMatchesTypeAt(e, i) /\ ConfirmedLaterAt(e, i)
  <2>1. SameAt(d, e, i)
    BY <1>3 DEF SameAt, Database
  <2> QED BY <2>1, Untouched DEF Consistent
<1>5. TagsOwned(e)
  BY <1>1, <1>3 DEF Consistent, TagsOwned, Exists, Database
<1>6. HasType(e, id, p.activity_type)
  BY <1>1, <1>3 DEF HasType, Exists, Database
<1>7. \A t \in ActivityType : e.detail[t][id] = NoRow
  BY <1>3 DEF Consistent, DetailMatchesTypeAt, HasType, Exists, InsertActivityOK
<1> QED BY <1>3, <1>4, <1>5, <1>6, <1>7 DEF HalfInserted, OthersInOrder, e

\* UPDATE activities on a consistent file keeps the type, so the detail row
\* still matches; only its confirmation time may now be too early.
LEMMA UpdateActivityRowHalf ==
    ASSUME NEW d \in Database, Consistent(d), NEW id \in Ids, NEW p \in Payloads,
           NEW now \in Clock, HasType(d, id, p.activity_type)
    PROVE  /\ UpdateActivityRow(d, id, p, now) \in Database
           /\ HalfUpdated(UpdateActivityRow(d, id, p, now), id, p)
<1> DEFINE e == UpdateActivityRow(d, id, p, now)
           r == [activity_type |-> d.activities[id].activity_type, tx_type |-> p.tx_type,
                 timestamp |-> p.timestamp,
                 created_at |-> d.activities[id].created_at, updated_at |-> now]
<1>0. d.activities[id] \in ActivityRow
  BY DEF Database, HasType, Exists
<1>1. r \in ActivityRow /\ r # NoRow /\ r.activity_type = p.activity_type
  BY <1>0, PayloadsAssumption, NoRowAssumption DEF PayloadType, ActivityRow, HasType
<1>2. e = [d EXCEPT !.activities[id] = r]
  BY DEF UpdateActivityRow
<1> HIDE DEF e, r
<1>3. /\ e \in Database
      /\ e.activities = [d.activities EXCEPT ![id] = r]
      /\ e.detail = d.detail
      /\ e.tags = d.tags
  BY <1>1, <1>2 DEF Database
<1>4. ASSUME NEW i \in Ids \ {id}
      PROVE  DetailMatchesTypeAt(e, i) /\ ConfirmedLaterAt(e, i)
  <2>1. SameAt(d, e, i)
    BY <1>3 DEF SameAt, Database
  <2> QED BY <2>1, Untouched DEF Consistent
<1>5. TagsOwned(e)
  BY <1>1, <1>3 DEF Consistent, TagsOwned, Exists, Database
<1>6. HasType(e, id, p.activity_type)
  BY <1>1, <1>3 DEF HasType, Exists, Database
<1>7. DetailMatchesTypeAt(e, id)
  BY <1>3, <1>6 DEF Consistent, DetailMatchesTypeAt, HasType, Exists
<1> QED BY <1>3, <1>4, <1>5, <1>6, <1>7 DEF HalfUpdated, OthersInOrder, e

\* Writing the detail row that DetailOK admits puts the last id in order too.
LEMMA WriteDetailRowCompletes ==
    ASSUME NEW d \in Database, NEW id \in Ids, NEW p \in Payloads,
           OthersInOrder(d, id), HasType(d, id, p.activity_type), DetailOK(d, id, p),
           \A t \in ActivityType \ {p.activity_type} : d.detail[t][id] = NoRow
    PROVE  /\ WriteDetailRow(d, id, p) \in Database
           /\ Consistent(WriteDetailRow(d, id, p))
<1> DEFINE e == WriteDetailRow(d, id, p)
           r == [confirm_timestamp |-> p.confirm_timestamp, content |-> p.content]
           u == p.activity_type
<1>1. r \in DetailRow /\ r # NoRow /\ u \in ActivityType
      /\ r.confirm_timestamp = p.confirm_timestamp
  BY PayloadsAssumption, NoRowAssumption DEF PayloadType, DetailRow
<1>2. e = [d EXCEPT !.detail[u][id] = r]
  BY DEF WriteDetailRow
<1>9. DetailOK(d, id, p) /\ HasType(d, id, u)
      /\ \A t \in ActivityType \ {u} : d.detail[t][id] = NoRow
  OBVIOUS
<1> HIDE DEF e, r
<1>3. /\ e \in Database
      /\ e.activities = d.activities
      /\ e.detail = [d.detail EXCEPT ![u] = [d.detail[u] EXCEPT ![id] = r]]
      /\ e.tags = d.tags
  BY <1>1, <1>2 DEF Database
<1>4. ASSUME NEW i \in Ids \ {id}
      PROVE  DetailMatchesTypeAt(e, i) /\ ConfirmedLaterAt(e, i)
  <2>1. SameAt(d, e, i)
    BY <1>1, <1>3 DEF SameAt, Database
  <2> QED BY <2>1, Untouched DEF OthersInOrder
<1>5. TagsOwned(e)
  BY <1>3 DEF OthersInOrder, TagsOwned, Exists
<1>6. e.detail[u][id] = r /\ \A t \in ActivityType \ {u} : e.detail[t][id] = NoRow
  BY <1>1, <1>3, <1>9 DEF Database
<1>7. DetailMatchesTypeAt(e, id)
  BY <1>1, <1>3, <1>6, <1>9 DEF DetailMatchesTypeAt, HasType, Exists
<1>8. ConfirmedLaterAt(e, id)
  BY <1>1, <1>3, <1>6, <1>9 DEF ConfirmedLaterAt, DetailOK, ConfirmTrigger, ActivityType
<1> QED BY <1>3, <1>4, <1>5, <1>7, <1>8 DEF Consistent, e

\* The UPDATE of the detail row completes an update.
LEMMA UpdateDetailRowCompletes ==
    ASSUME NEW d \in Database, NEW id \in Ids, NEW p \in Payloads,
           HalfUpdated(d, id, p), DetailOK(d, id, p)
    PROVE  /\ UpdateDetailRow(d, id, p) \in Database
           /\ Consistent(UpdateDetailRow(d, id, p))
<1>1. p.activity_type \in ActivityType
  BY PayloadsAssumption DEF PayloadType
<1>2. d.detail[p.activity_type][id] # NoRow
  BY <1>1 DEF HalfUpdated, DetailMatchesTypeAt
<1>3. \A t \in ActivityType \ {p.activity_type} : d.detail[t][id] = NoRow
  BY DEF HalfUpdated, DetailMatchesTypeAt, HasType
<1>4. UpdateDetailRow(d, id, p) = WriteDetailRow(d, id, p)
  BY <1>2 DEF UpdateDetailRow
<1> QED BY <1>3, <1>4, WriteDetailRowCompletes DEF HalfUpdated

\* The DELETE and its cascades keep a consistent file consistent.
LEMMA DeleteActivityRowConsistent ==
    ASSUME NEW d \in Database, Consistent(d), NEW id \in Ids
    PROVE  /\ DeleteActivityRow(d, id) \in Database
           /\ Consistent(DeleteActivityRow(d, id))
<1> DEFINE e == DeleteActivityRow(d, id)
<1>1. /\ e \in Database
      /\ e.activities = [d.activities EXCEPT ![id] = NoRow]
      /\ e.detail = [t \in ActivityType |-> [d.detail[t] EXCEPT ![id] = NoRow]]
      /\ e.tags = {x \in d.tags : x[1] # id}
  BY DEF DeleteActivityRow, Database
<1> HIDE DEF e
<1>2. ASSUME NEW i \in Ids \ {id}
      PROVE  DetailMatchesTypeAt(e, i) /\ ConfirmedLaterAt(e, i)
  <2>1. SameAt(d, e, i)
    BY <1>1 DEF SameAt, Database
  <2> QED BY <2>1, Untouched DEF Consistent
<1>3. e.activities[id] = NoRow /\ \A t \in ActivityType : e.detail[t][id] = NoRow
  BY <1>1 DEF Database
<1>4. DetailMatchesTypeAt(e, id) /\ ConfirmedLaterAt(e, id)
  BY <1>3 DEF DetailMatchesTypeAt, ConfirmedLaterAt, HasType, Exists, ActivityType
<1>5. TagsOwned(e)
  BY <1>1 DEF Consistent, TagsOwned, Exists, Database
<1> QED BY <1>1, <1>2, <1>4, <1>5 DEF Consistent, e

\* The two statements on activity_tags keep a consistent file consistent.
LEMMA InsertTagConsistent ==
    ASSUME NEW d \in Database, Consistent(d), NEW id \in Ids, NEW t \in Tags,
           InsertTagOK(d, id)
    PROVE  InsertTag(d, id, t) \in Database /\ Consistent(InsertTag(d, id, t))
<1> DEFINE e == InsertTag(d, id, t)
<1>1. /\ e \in Database
      /\ e.activities = d.activities
      /\ e.detail = d.detail
      /\ e.tags = d.tags \cup {<<id, t>>}
  BY DEF InsertTag, Database
<1> HIDE DEF e
<1>2. ASSUME NEW i \in Ids
      PROVE  DetailMatchesTypeAt(e, i) /\ ConfirmedLaterAt(e, i)
  <2>1. SameAt(d, e, i)
    BY <1>1 DEF SameAt
  <2> QED BY <2>1, Untouched DEF Consistent
<1>3. TagsOwned(e)
  BY <1>1 DEF Consistent, TagsOwned, Exists, InsertTagOK
<1> QED BY <1>1, <1>2, <1>3 DEF Consistent, e

LEMMA DeleteTagConsistent ==
    ASSUME NEW d \in Database, Consistent(d), NEW id \in Ids, NEW t \in Tags
    PROVE  DeleteTag(d, id, t) \in Database /\ Consistent(DeleteTag(d, id, t))
<1> DEFINE e == DeleteTag(d, id, t)
<1>1. /\ e \in Database
      /\ e.activities = d.activities
      /\ e.detail = d.detail
      /\ e.tags = d.tags \ {<<id, t>>}
  BY DEF DeleteTag, Database
<1> HIDE DEF e
<1>2. ASSUME NEW i \in Ids
      PROVE  DetailMatchesTypeAt(e, i) /\ ConfirmedLaterAt(e, i)
  <2>1. SameAt(d, e, i)
    BY <1>1 DEF SameAt
  <2> QED BY <2>1, Untouched DEF Consistent
<1>3. TagsOwned(e)
  BY <1>1 DEF Consistent, TagsOwned, Exists
<1> QED BY <1>1, <1>2, <1>3 DEF Consistent, e

LEMMA EmptyDatabaseConsistent ==
    EmptyDatabase \in Database /\ Consistent(EmptyDatabase)
<1>1. EmptyDatabase \in Database
  BY DEF EmptyDatabase, Database
<1>2. ASSUME NEW i \in Ids
      PROVE  DetailMatchesTypeAt(EmptyDatabase, i) /\ ConfirmedLaterAt(EmptyDatabase, i)
  BY DEF EmptyDatabase, DetailMatchesTypeAt, ConfirmedLaterAt, HasType, Exists, ActivityType
<1>3. TagsOwned(EmptyDatabase)
  BY DEF EmptyDatabase, TagsOwned
<1> QED BY <1>1, <1>2, <1>3 DEF Consistent

-----------------------------------------------------------------------------
(* The inductive invariant                                                 *)

IInv == TypeOK /\ TransactionInOrder

\* A call that returns without a commit keeps the invariant: its transaction,
\* if it had one, is rolled back.
LEMMA ReturnKeeps ==
    ASSUME IInv, NEW c \in Conns, NEW o \in Outcome, Return(c, o)
    PROVE  IInv'
<1> USE DEF IInv
<1>1. TypeOK'
  BY DEF Return, Rollback, TypeOK
<1>2. Consistent(db)' /\ (writer = NoConn => work = db)'
  BY NoConnAssumption DEF Return, Rollback, TransactionInOrder
<1>3. ASSUME NEW x \in Conns PROVE ConnInOrder(x)'
  <2>1. CASE x = c
    BY <2>1, NoConnAssumption DEF Return, Rollback, TypeOK, ConnInOrder
  <2>2. CASE x # c
    <3>1. /\ pc'[x] = pc[x] /\ op'[x] = op[x]
          /\ (writer' = x <=> writer = x)
          /\ writer = x => work' = work
      BY <2>2, NoConnAssumption DEF Return, Rollback, TypeOK
    <3> QED BY <3>1 DEF TransactionInOrder, ConnInOrder
  <2> QED BY <2>1, <2>2
<1> QED BY <1>1, <1>2, <1>3 DEF TransactionInOrder

\* Starting a call keeps it.
LEMMA BeginKeeps ==
    ASSUME IInv, NEW c \in Conns, NEW name \in OpName, NEW id \in Ids,
           NEW p \in Payloads \cup {NoRow}, NEW tags \in SUBSET Tags,
           NEW step \in {"insert", "update", "delete", "exists", "untag", "get_type"},
           step \in {"insert", "update"} => p \in Payloads,
           Begin(c, name, id, p, tags, step)
    PROVE  IInv'
<1> USE DEF IInv
<1> DEFINE call == NewCall(name, id, p, tags)
<1>1. call \in Call /\ call.payload = p
  BY DEF NewCall, Call, ActivityType
<1>2. op' = [op EXCEPT ![c] = call]
  BY DEF Begin
<1> HIDE DEF call
<1>3. TypeOK'
  BY <1>1, <1>2 DEF Begin, TypeOK, Step, WriteStep, ReadStep, Outcome
<1>4. ASSUME NEW x \in Conns PROVE ConnInOrder(x)'
  <2>1. CASE x = c
    BY <1>1, <1>2, <2>1 DEF Begin, TypeOK, TransactionInOrder, ConnInOrder
  <2>2. CASE x # c
    BY <1>2, <2>2 DEF Begin, TypeOK, TransactionInOrder, ConnInOrder
  <2> QED BY <2>1, <2>2
<1> QED BY <1>3, <1>4 DEF Begin, TransactionInOrder

\* A statement inside the transaction keeps it, if the content it leaves is as
\* far as the next step expects.
LEMMA ExecuteKeeps ==
    ASSUME IInv, NEW c \in Conns, NEW d \in Database, NEW call \in Call,
           NEW step \in {"insert_detail", "update_detail", "tag", "untag", "commit"},
           step \in {"insert_detail", "update_detail"} => call.payload \in Payloads,
           step = "insert_detail" => HalfInserted(d, call.id, call.payload),
           step = "update_detail" => HalfUpdated(d, call.id, call.payload),
           step \in {"tag", "untag", "commit"} => Consistent(d),
           Execute(c, d, step), op' = [op EXCEPT ![c] = call]
    PROVE  IInv'
<1> USE DEF IInv
<1>1. TypeOK'
  BY DEF Execute, TypeOK, Step, WriteStep
<1>2. ASSUME NEW x \in Conns PROVE ConnInOrder(x)'
  <2>1. CASE x = c
    <3>1. /\ pc'[x] = step /\ op'[x] = call
          /\ writer' = x /\ work' = d
      BY <2>1 DEF Execute, TypeOK
    <3> QED BY <3>1 DEF ConnInOrder
  <2>2. CASE x # c
    <3>1. /\ pc'[x] = pc[x] /\ op'[x] = op[x]
          /\ writer' # x /\ writer # x
      BY <2>2, NoConnAssumption DEF Execute, CanWrite, TypeOK
    <3> QED BY <3>1 DEF TransactionInOrder, ConnInOrder
  <2> QED BY <2>1, <2>2
<1> QED BY <1>1, <1>2, NoConnAssumption DEF Execute, TransactionInOrder

\* A step that only moves one connection on to its next statement keeps it.
LEMMA MoveKeeps ==
    ASSUME IInv, NEW c \in Conns, NEW call \in Call,
           NEW step \in {"tag", "commit", "get_tags", "get_detail"},
           writer = c => pc[c] \in {"tag", "untag"} /\ step = "commit",
           pc' = [pc EXCEPT ![c] = step], op' = [op EXCEPT ![c] = call],
           UNCHANGED <<db, writer, work, ret>>
    PROVE  IInv'
<1> USE DEF IInv
<1>1. TypeOK'
  BY DEF TypeOK, Step, WriteStep, ReadStep
<1>2. ASSUME NEW x \in Conns PROVE ConnInOrder(x)'
  <2>1. CASE x = c
    BY <2>1 DEF TypeOK, TransactionInOrder, ConnInOrder
  <2>2. CASE x # c
    BY <2>2 DEF TypeOK, TransactionInOrder, ConnInOrder
  <2> QED BY <2>1, <2>2
<1> QED BY <1>1, <1>2 DEF TransactionInOrder

\* What a statement sees is a database; at the first statement of a transaction,
\* and in the loops over tags, it is consistent.
LEMMA SeenInOrder ==
    ASSUME IInv, NEW c \in Conns, CanWrite(c)
    PROVE  /\ Seen(c) \in Database
           /\ pc[c] \in {"insert", "update", "delete", "tag", "untag", "commit"}
                 => Consistent(Seen(c))
BY NoConnAssumption DEF IInv, TypeOK, TransactionInOrder, ConnInOrder, CanWrite, Seen

\* The exported functions.
LEMMA StartCallKeeps ==
    ASSUME IInv, NEW c \in Conns, StartCall(c)
    PROVE  IInv'
<1>1. CASE insert_activity(c)
  BY <1>1, BeginKeeps DEF insert_activity, OpName
<1>2. CASE update_activity(c)
  BY <1>2, BeginKeeps DEF update_activity, OpName
<1>3. CASE upsert_activity(c)
  BY <1>3, BeginKeeps DEF upsert_activity, OpName
<1>4. CASE delete_activity_by_id(c)
  BY <1>4, BeginKeeps DEF delete_activity_by_id, OpName
<1>5. CASE add_tags(c)
  BY <1>5, BeginKeeps DEF add_tags, OpName
<1>6. CASE remove_tags(c)
  BY <1>6, BeginKeeps DEF remove_tags, OpName
<1>7. CASE get_activity_by_id(c)
  BY <1>7, BeginKeeps DEF get_activity_by_id, OpName
<1>8. CASE get_tags(c)
  BY <1>8, BeginKeeps DEF get_tags, OpName
<1>9. CASE get_activities(c)
  <2>1. TypeOK'
    BY <1>9 DEF get_activities, IInv, TypeOK, Outcome
  <2>2. TransactionInOrder'
    BY <1>9 DEF get_activities, IInv, TransactionInOrder, ConnInOrder
  <2> QED BY <2>1, <2>2 DEF IInv
<1> QED BY <1>1, <1>2, <1>3, <1>4, <1>5, <1>6, <1>7, <1>8, <1>9 DEF StartCall

\* Every error return, every read that ends a call, every failure.
LEMMA ReturnStepKeeps ==
    ASSUME IInv, NEW c \in Conns,
           \/ InsertEmptyId(c) \/ InsertActivityFails(c) \/ InsertDetailFails(c)
           \/ UpdateActivityFails(c) \/ UpdateDetailFails(c) \/ AddTagFails(c)
           \/ GetDetail(c) \/ GetTags(c) \/ BusyTimeout(c)
           \/ StatementFails(c) \/ Crash(c)
    PROVE  IInv'
<1>1. \E o \in Outcome : Return(c, o)
  BY DEF InsertEmptyId, InsertActivityFails, InsertDetailFails, UpdateActivityFails,
         UpdateDetailFails, AddTagFails, GetDetail, GetTags, BusyTimeout,
         StatementFails, Crash, Outcome
<1> QED BY <1>1, ReturnKeeps

\* The statements of an insert.
LEMMA InsertKeeps ==
    ASSUME IInv, NEW c \in Conns, InsertActivity(c) \/ InsertDetail(c)
    PROVE  IInv'
<1>1. op[c] \in Call /\ op[c].payload \in Payloads /\ op[c].id \in Ids
  BY DEF IInv, TypeOK, TransactionInOrder, ConnInOrder, InsertActivity, InsertDetail, Call
<1>2. CanWrite(c)
  BY DEF InsertActivity, InsertDetail, Execute
<1>3. UNCHANGED op => op' = [op EXCEPT ![c] = op[c]]
  BY DEF IInv, TypeOK
<1>4. CASE InsertActivity(c)
  <2>1. PICK now \in Clock :
          /\ pc[c] = "insert"
          /\ InsertActivityOK(Seen(c), op[c].id, op[c].payload)
          /\ Execute(c, InsertActivityRow(Seen(c), op[c].id, op[c].payload, now), "insert_detail")
          /\ UNCHANGED op
    BY <1>4 DEF InsertActivity
  <2>2. /\ InsertActivityRow(Seen(c), op[c].id, op[c].payload, now) \in Database
        /\ HalfInserted(InsertActivityRow(Seen(c), op[c].id, op[c].payload, now),
                        op[c].id, op[c].payload)
    BY <1>1, <1>2, <2>1, SeenInOrder, InsertActivityRowHalf
  <2> QED BY <1>1, <1>3, <2>1, <2>2, ExecuteKeeps
<1>5. CASE InsertDetail(c)
  <2>1. Seen(c) = work /\ work \in Database /\ HalfInserted(work, op[c].id, op[c].payload)
    BY <1>5 DEF InsertDetail, IInv, TypeOK, TransactionInOrder, ConnInOrder, Seen
  <2>2. /\ WriteDetailRow(Seen(c), op[c].id, op[c].payload) \in Database
        /\ Consistent(WriteDetailRow(Seen(c), op[c].id, op[c].payload))
    BY <1>1, <1>5, <2>1, WriteDetailRowCompletes DEF InsertDetail, HalfInserted
  <2> QED BY <1>1, <1>3, <1>5, <2>2, ExecuteKeeps DEF InsertDetail
<1> QED BY <1>4, <1>5

\* The statements of an update, and the fall back of an upsert.
LEMMA UpdateKeeps ==
    ASSUME IInv, NEW c \in Conns, UpdateActivity(c) \/ UpdateDetail(c) \/ UpdateMisses(c)
    PROVE  IInv'
<1>1. op[c] \in Call /\ op[c].payload \in Payloads /\ op[c].id \in Ids
  BY DEF IInv, TypeOK, TransactionInOrder, ConnInOrder, UpdateActivity, UpdateDetail,
         UpdateMisses, Call
<1>2. CanWrite(c)
  BY DEF UpdateActivity, UpdateDetail, UpdateMisses, Execute
<1>3. UNCHANGED op => op' = [op EXCEPT ![c] = op[c]]
  BY DEF IInv, TypeOK
<1>4. CASE UpdateActivity(c)
  <2>1. PICK now \in Clock :
          /\ pc[c] = "update"
          /\ HasType(Seen(c), op[c].id, op[c].payload.activity_type)
          /\ Execute(c, UpdateActivityRow(Seen(c), op[c].id, op[c].payload, now), "update_detail")
          /\ UNCHANGED op
    BY <1>4 DEF UpdateActivity
  <2>2. /\ UpdateActivityRow(Seen(c), op[c].id, op[c].payload, now) \in Database
        /\ HalfUpdated(UpdateActivityRow(Seen(c), op[c].id, op[c].payload, now),
                       op[c].id, op[c].payload)
    BY <1>1, <1>2, <2>1, SeenInOrder, UpdateActivityRowHalf
  <2> QED BY <1>1, <1>3, <2>1, <2>2, ExecuteKeeps
<1>5. CASE UpdateDetail(c)
  <2>1. Seen(c) = work /\ work \in Database /\ HalfUpdated(work, op[c].id, op[c].payload)
    BY <1>5 DEF UpdateDetail, IInv, TypeOK, TransactionInOrder, ConnInOrder, Seen
  <2>2. /\ UpdateDetailRow(Seen(c), op[c].id, op[c].payload) \in Database
        /\ Consistent(UpdateDetailRow(Seen(c), op[c].id, op[c].payload))
    BY <1>1, <1>5, <2>1, UpdateDetailRowCompletes DEF UpdateDetail
  <2> QED BY <1>1, <1>3, <1>5, <2>2, ExecuteKeeps DEF UpdateDetail
<1>6. CASE UpdateMisses(c)
  <2>1. CASE Return(c, "NotFound")
    BY <2>1, ReturnKeeps DEF Outcome
  <2>2. CASE /\ pc' = [pc EXCEPT ![c] = "insert"]
             /\ Rollback(c)
             /\ UNCHANGED <<db, op, ret>>
    <3>1. writer # c
      BY <1>6 DEF UpdateMisses, IInv, TransactionInOrder, ConnInOrder
    <3>2. UNCHANGED <<writer, work>>
      BY <2>2, <3>1 DEF Rollback
    <3>3. TypeOK'
      BY <2>2, <3>2 DEF IInv, TypeOK, Step, WriteStep
    <3>4. ASSUME NEW x \in Conns PROVE ConnInOrder(x)'
      <4>1. CASE x = c
        BY <1>1, <2>2, <3>1, <3>2, <4>1 DEF IInv, TypeOK, ConnInOrder
      <4>2. CASE x # c
        BY <2>2, <3>2, <4>2 DEF IInv, TypeOK, TransactionInOrder, ConnInOrder
      <4> QED BY <4>1, <4>2
    <3> QED BY <2>2, <3>2, <3>3, <3>4 DEF IInv, TransactionInOrder
  <2> QED BY <1>6, <2>1, <2>2 DEF UpdateMisses
<1> QED BY <1>4, <1>5, <1>6

\* delete_activity_by_id and the loops of add_tags and remove_tags.
LEMMA DeleteAndTagKeeps ==
    ASSUME IInv, NEW c \in Conns,
           DeleteActivity(c) \/ AddTag(c) \/ RemoveTag(c) \/ TagsDone(c)
    PROVE  IInv'
<1>1. op[c] \in Call /\ op[c].id \in Ids /\ op[c].left \in SUBSET Tags
  BY DEF IInv, TypeOK, TransactionInOrder, ConnInOrder, DeleteActivity, AddTag,
         RemoveTag, TagsDone, Call
<1>2. CASE DeleteActivity(c)
  <2> DEFINE call == [op[c] EXCEPT !.rows = Exists(Seen(c), op[c].id)]
  <2>1. call \in Call /\ op' = [op EXCEPT ![c] = call]
    BY <1>1, <1>2 DEF DeleteActivity, Call, Exists
  <2>2. /\ DeleteActivityRow(Seen(c), op[c].id) \in Database
        /\ Consistent(DeleteActivityRow(Seen(c), op[c].id))
    BY <1>1, <1>2, SeenInOrder, DeleteActivityRowConsistent DEF DeleteActivity, Execute
  <2> HIDE DEF call
  <2> QED BY <1>2, <2>1, <2>2, ExecuteKeeps DEF DeleteActivity
<1>3. CASE AddTag(c)
  <2>1. PICK t \in op[c].left :
          /\ Execute(c, InsertTag(Seen(c), op[c].id, t), "tag")
          /\ op' = [op EXCEPT ![c].left = @ \ {t}]
    BY <1>3 DEF AddTag
  <2> DEFINE call == [op[c] EXCEPT !.left = @ \ {t}]
  <2>2. call \in Call /\ op' = [op EXCEPT ![c] = call]
    BY <1>1, <2>1 DEF Call
  <2>3. /\ InsertTag(Seen(c), op[c].id, t) \in Database
        /\ Consistent(InsertTag(Seen(c), op[c].id, t))
    BY <1>1, <1>3, <2>1, SeenInOrder, InsertTagConsistent DEF AddTag, Execute
  <2> HIDE DEF call
  <2> QED BY <2>1, <2>2, <2>3, ExecuteKeeps
<1>4. CASE RemoveTag(c)
  <2>1. PICK t \in op[c].left :
          /\ Execute(c, DeleteTag(Seen(c), op[c].id, t), "untag")
          /\ op' = [op EXCEPT ![c].left = @ \ {t}]
    BY <1>4 DEF RemoveTag
  <2> DEFINE call == [op[c] EXCEPT !.left = @ \ {t}]
  <2>2. call \in Call /\ op' = [op EXCEPT ![c] = call]
    BY <1>1, <2>1 DEF Call
  <2>3. /\ DeleteTag(Seen(c), op[c].id, t) \in Database
        /\ Consistent(DeleteTag(Seen(c), op[c].id, t))
    BY <1>1, <1>4, <2>1, SeenInOrder, DeleteTagConsistent DEF RemoveTag, Execute
  <2> HIDE DEF call
  <2> QED BY <2>1, <2>2, <2>3, ExecuteKeeps
<1>5. CASE TagsDone(c)
  <2>1. op' = [op EXCEPT ![c] = op[c]]
    BY <1>5 DEF TagsDone, IInv, TypeOK
  <2> QED BY <1>1, <1>5, <2>1, MoveKeeps DEF TagsDone
<1> QED BY <1>2, <1>3, <1>4, <1>5

\* The first statements of the calls that read before they go on.
LEMMA ReadKeeps ==
    ASSUME IInv, NEW c \in Conns, CheckExists(c) \/ GetType(c)
    PROVE  IInv'
<1>1. op[c] \in Call /\ op[c].id \in Ids /\ writer # c
  BY DEF IInv, TypeOK, TransactionInOrder, ConnInOrder, CheckExists, GetType, Call
<1>2. CASE CheckExists(c)
  <2>1. CASE \E o \in {"DataError", "Ok"} : Return(c, o)
    BY <2>1, ReturnKeeps DEF Outcome
  <2>2. CASE \E step \in {"tag", "get_tags"} :
               pc' = [pc EXCEPT ![c] = step] /\ UNCHANGED <<db, writer, work, op, ret>>
    <3>1. UNCHANGED op => op' = [op EXCEPT ![c] = op[c]]
      BY DEF IInv, TypeOK
    <3> QED BY <1>1, <2>2, <3>1, MoveKeeps
  <2> QED BY <1>2, <2>1, <2>2 DEF CheckExists
<1>3. CASE GetType(c)
  <2>1. CASE Return(c, "None")
    BY <2>1, ReturnKeeps DEF Outcome
  <2>2. CASE /\ Exists(db, op[c].id)
             /\ pc' = [pc EXCEPT ![c] = "get_detail"]
             /\ op' = [op EXCEPT ![c].type = db.activities[op[c].id].activity_type]
             /\ UNCHANGED <<db, writer, work, ret>>
    <3> DEFINE call == [op[c] EXCEPT !.type = db.activities[op[c].id].activity_type]
    <3>1. db.activities[op[c].id].activity_type \in ActivityType
      BY <1>1, <2>2 DEF IInv, TypeOK, Database, ActivityRow, Exists
    <3>2. call \in Call /\ op' = [op EXCEPT ![c] = call]
      BY <1>1, <2>2, <3>1 DEF Call
    <3> HIDE DEF call
    <3> QED BY <1>1, <2>2, <3>2, MoveKeeps
  <2> QED BY <1>3, <2>1, <2>2 DEF GetType
<1> QED BY <1>2, <1>3

\* The commit publishes what the transaction has done.
LEMMA CommitKeeps ==
    ASSUME IInv, NEW c \in Conns, Commit(c)
    PROVE  IInv'
<1> USE DEF IInv
<1>1. Consistent(Seen(c)) /\ Seen(c) \in Database
  BY DEF TypeOK, TransactionInOrder, ConnInOrder, Commit, Seen
<1>2. TypeOK'
  BY <1>1 DEF Commit, TypeOK, Outcome
<1>3. Consistent(db)'
  BY <1>1 DEF Commit
<1>4. (writer = NoConn => work = db)'
  BY NoConnAssumption DEF Commit, Seen, TransactionInOrder
<1>5. ASSUME NEW x \in Conns PROVE ConnInOrder(x)'
  <2>1. CASE x = c
    BY <2>1, NoConnAssumption DEF Commit, TypeOK, ConnInOrder
  <2>2. CASE x # c
    <3>1. /\ pc'[x] = pc[x] /\ op'[x] = op[x]
          /\ (writer' = x <=> writer = x) /\ work' = work
      BY <2>2, NoConnAssumption DEF Commit, TypeOK
    <3> QED BY <3>1 DEF TransactionInOrder, ConnInOrder
  <2> QED BY <2>1, <2>2
<1> QED BY <1>2, <1>3, <1>4, <1>5 DEF TransactionInOrder

-----------------------------------------------------------------------------
(* The theorems                                                            *)

LEMMA InitInOrder == Init => IInv
<1> SUFFICES ASSUME Init PROVE IInv
  OBVIOUS
<1>1. TypeOK
  BY EmptyDatabaseConsistent DEF Init, TypeOK, Outcome
<1>2. TransactionInOrder
  BY EmptyDatabaseConsistent, NoConnAssumption DEF Init, TransactionInOrder, ConnInOrder
<1> QED BY <1>1, <1>2 DEF IInv

LEMMA NextKeeps == IInv /\ [Next]_vars => IInv'
<1> SUFFICES ASSUME IInv, [Next]_vars PROVE IInv'
  OBVIOUS
<1>1. CASE UNCHANGED vars
  BY <1>1 DEF vars, IInv, TypeOK, TransactionInOrder, ConnInOrder
<1>2. CASE Next
  <2>1. PICK c \in Conns : StartCall(c) \/ Advance(c) \/ StatementFails(c) \/ Crash(c)
    BY <1>2 DEF Next
  <2> QED BY <2>1, StartCallKeeps, ReturnStepKeeps, InsertKeeps, UpdateKeeps,
             DeleteAndTagKeeps, ReadKeeps, CommitKeeps DEF Advance
<1> QED BY <1>1, <1>2

\* The invariant that carries the proofs holds in every reachable state.
LEMMA AlwaysInOrder == Spec => []IInv
BY InitInOrder, NextKeeps, PTL DEF Spec

\* The variables of the activity history keep their types: every statement and
\* every early return of module activity, for any connections and payloads.
THEOREM TypeCorrect == Spec => []TypeOK
<1>1. IInv => TypeOK
  BY DEF IInv
<1> QED BY <1>1, AlwaysInOrder, PTL

\* However many connections compete, whatever statement fails and whichever
\* process dies: every activity has exactly its detail row, no confirmation
\* predates its transaction, no tag is orphaned.
THEOREM IntegrityHolds == Spec => []Integrity
<1>1. IInv => Integrity
  BY DEF IInv, TransactionInOrder, Consistent, Integrity, DetailMatchesType,
         ConfirmedLater, NoOrphanTags
<1> QED BY <1>1, AlwaysInOrder, PTL

\* Each activity has exactly the detail row of its type.
THEOREM DetailMatchesTypeHolds == Spec => []DetailMatchesType
BY IntegrityHolds, PTL DEF Integrity

\* No confirmation time is before the time of its transaction.
THEOREM ConfirmedLaterHolds == Spec => []ConfirmedLater
BY IntegrityHolds, PTL DEF Integrity

\* No tag outlives its activity.
THEOREM NoOrphanTagsHolds == Spec => []NoOrphanTags
BY IntegrityHolds, PTL DEF Integrity

-----------------------------------------------------------------------------
(* Identity                                                                *)

\* An activity in both databases has the same type and creation time in both.
KeepsIdentity(d, e) ==
    \A id \in Ids : (Exists(d, id) /\ Exists(e, id)) =>
        /\ e.activities[id].activity_type = d.activities[id].activity_type
        /\ e.activities[id].created_at = d.activities[id].created_at

LEMMA KeepsIdentityReflexive == \A d : KeepsIdentity(d, d)
BY DEF KeepsIdentity

\* What the transaction sees of the file keeps every identity, because none
\* deletes and inserts the same id.
LEMMA SeenKeepsIdentity ==
    ASSUME KeepsIdentity(db, work), NEW c \in Conns
    PROVE  KeepsIdentity(db, Seen(c))
BY KeepsIdentityReflexive DEF Seen

\* Every statement keeps the identities of the file.
LEMMA StatementsKeepIdentity ==
    ASSUME IInv, KeepsIdentity(db, work), NEW c \in Conns,
           \/ InsertActivity(c) \/ UpdateActivity(c) \/ InsertDetail(c) \/ UpdateDetail(c)
           \/ DeleteActivity(c) \/ AddTag(c) \/ RemoveTag(c)
    PROVE  KeepsIdentity(db, work)' /\ db' = db
<1> DEFINE s == Seen(c)
<1>1. db' = db
  BY DEF InsertActivity, UpdateActivity, InsertDetail, UpdateDetail, DeleteActivity,
         AddTag, RemoveTag, Execute
<1>2. s \in Database /\ KeepsIdentity(db, s) /\ op[c] \in Call
  BY SeenKeepsIdentity DEF IInv, TypeOK, TransactionInOrder, ConnInOrder, Seen, InsertActivity,
         UpdateActivity, InsertDetail, UpdateDetail, DeleteActivity, AddTag, RemoveTag
<1>3. op[c].id \in Ids
  BY <1>2 DEF Call
<1>4. CASE InsertActivity(c)
  <2>1. s = db
    BY <1>4 DEF InsertActivity, IInv, TransactionInOrder, ConnInOrder, Seen
  <2>2. PICK now \in Clock : work' = InsertActivityRow(s, op[c].id, op[c].payload, now)
    BY <1>4 DEF InsertActivity, Execute
  <2>3. ~Exists(db, op[c].id)
    BY <1>4, <2>1 DEF InsertActivity, InsertActivityOK
  <2>4. \A i \in Ids \ {op[c].id} : work'.activities[i] = db.activities[i]
    BY <1>2, <1>3, <2>1, <2>2 DEF InsertActivityRow, Database
  <2> QED BY <1>1, <2>3, <2>4 DEF KeepsIdentity, Exists
<1>5. CASE UpdateActivity(c)
  <2>1. s = db
    BY <1>5 DEF UpdateActivity, IInv, TransactionInOrder, ConnInOrder, Seen
  <2>2. PICK now \in Clock : work' = UpdateActivityRow(s, op[c].id, op[c].payload, now)
    BY <1>5 DEF UpdateActivity, Execute
  <2>3. /\ \A i \in Ids \ {op[c].id} : work'.activities[i] = db.activities[i]
        /\ work'.activities[op[c].id].activity_type = db.activities[op[c].id].activity_type
        /\ work'.activities[op[c].id].created_at = db.activities[op[c].id].created_at
    BY <1>2, <1>3, <2>1, <2>2 DEF UpdateActivityRow, Database
  <2> QED BY <1>1, <2>3 DEF KeepsIdentity, Exists
<1>6. CASE InsertDetail(c) \/ UpdateDetail(c) \/ AddTag(c) \/ RemoveTag(c)
  <2>1. work'.activities = s.activities
    <3>1. CASE InsertDetail(c)
      BY <1>2, <3>1 DEF InsertDetail, Execute, WriteDetailRow, Database
    <3>2. CASE UpdateDetail(c)
      BY <1>2, <3>2 DEF UpdateDetail, Execute, UpdateDetailRow, WriteDetailRow, Database
    <3>3. CASE AddTag(c)
      BY <1>2, <3>3 DEF AddTag, Execute, InsertTag, Database
    <3>4. CASE RemoveTag(c)
      BY <1>2, <3>4 DEF RemoveTag, Execute, DeleteTag, Database
    <3> QED BY <1>6, <3>1, <3>2, <3>3, <3>4
  <2> QED BY <1>1, <1>2, <2>1 DEF KeepsIdentity, Exists
<1>7. CASE DeleteActivity(c)
  <2>1. work'.activities = [s.activities EXCEPT ![op[c].id] = NoRow]
    BY <1>7 DEF DeleteActivity, Execute, DeleteActivityRow
  <2>2. \A i \in Ids : Exists(work', i) => Exists(s, i) /\ work'.activities[i] = s.activities[i]
    BY <1>2, <1>3, <2>1 DEF Exists, Database
  <2> QED BY <1>1, <1>2, <2>2 DEF KeepsIdentity, Exists
<1> QED BY <1>1, <1>4, <1>5, <1>6, <1>7

\* The other steps leave the transaction alone, drop it or commit it.
LEMMA NextKeepsIdentity ==
    ASSUME IInv, KeepsIdentity(db, work), [Next]_vars
    PROVE  KeepsIdentity(db, work)' /\ KeepsIdentity(db, db')
<1> DEFINE Quiet == db' = db /\ work' \in {work, db}
<1>1. CASE Quiet
  BY <1>1, KeepsIdentityReflexive
<1>2. CASE UNCHANGED vars
  BY <1>1, <1>2 DEF vars
<1>3. ASSUME NEW c \in Conns, StartCall(c) \/ StatementFails(c) \/ Crash(c) PROVE Quiet
  BY <1>3 DEF StartCall, insert_activity, update_activity, upsert_activity,
        delete_activity_by_id, add_tags, remove_tags, get_activity_by_id, get_tags,
        get_activities, Begin, StatementFails, Crash, Return, Rollback
<1>4. ASSUME NEW c \in Conns, Commit(c)
      PROVE  KeepsIdentity(db, work)' /\ KeepsIdentity(db, db')
  <2>1. db' = Seen(c) /\ work' = work
    BY <1>4 DEF Commit
  <2>2. KeepsIdentity(db, db')
    BY <2>1, SeenKeepsIdentity
  <2>3. CASE writer = c
    BY <2>1, <2>2, <2>3, KeepsIdentityReflexive DEF Seen
  <2>4. CASE writer # c
    BY <2>1, <2>2, <2>4 DEF Seen
  <2> QED BY <2>2, <2>3, <2>4
<1>5. ASSUME NEW c \in Conns,
             \/ InsertEmptyId(c) \/ InsertActivityFails(c) \/ InsertDetailFails(c)
             \/ UpdateActivityFails(c) \/ UpdateMisses(c) \/ UpdateDetailFails(c)
             \/ CheckExists(c) \/ AddTagFails(c) \/ TagsDone(c)
             \/ GetType(c) \/ GetDetail(c) \/ GetTags(c) \/ BusyTimeout(c)
      PROVE  Quiet
  BY <1>5 DEF InsertEmptyId, InsertActivityFails, InsertDetailFails, UpdateActivityFails,
        UpdateMisses, UpdateDetailFails, CheckExists, AddTagFails, TagsDone, GetType,
        GetDetail, GetTags, BusyTimeout, Return, Rollback
<1>6. ASSUME NEW c \in Conns, Advance(c)
      PROVE  KeepsIdentity(db, work)' /\ KeepsIdentity(db, db')
  BY <1>1, <1>4, <1>5, <1>6, StatementsKeepIdentity, KeepsIdentityReflexive DEF Advance
<1> QED BY <1>1, <1>2, <1>3, <1>6 DEF Next

\* As long as an activity lives nothing changes its type or creation time: no
\* upsert, from any connection, replaces what it should update.
THEOREM IdentityHolds == Spec => IdentityStable
<1> DEFINE J == KeepsIdentity(db, work)
<1>1. Init => J
  BY KeepsIdentityReflexive DEF Init
<1>2. IInv /\ J /\ [Next]_vars => J'
  BY NextKeepsIdentity
<1>3. IInv /\ J /\ [Next]_vars =>
        [\A id \in Ids : (Exists(db, id) /\ Exists(db', id)) =>
            /\ db'.activities[id].activity_type = db.activities[id].activity_type
            /\ db'.activities[id].created_at = db.activities[id].created_at]_vars
  BY NextKeepsIdentity DEF KeepsIdentity
<1> HIDE DEF J
<1> QED BY <1>1, <1>2, <1>3, AlwaysInOrder, PTL DEF Spec, IdentityStable

-----------------------------------------------------------------------------
(* The invariant                                                           *)

\* The statement a connection issues next is one of the call it is in; a call
\* has no outcome before it returns.
StepOfCall(c) ==
    /\ pc[c] = "idle" => op[c] = NoCall
    /\ pc[c] # "idle" => ret[c] = "none"
    /\ pc[c] \in {"insert", "insert_detail"} => op[c].name \in {"insert", "upsert"}
    /\ pc[c] \in {"update", "update_detail"} => op[c].name \in {"update", "upsert"}
    /\ pc[c] = "delete" => op[c].name = "delete"
    /\ pc[c] = "exists" => op[c].name \in {"add_tags", "get_tags"}
    /\ pc[c] = "tag" => op[c].name = "add_tags"
    /\ pc[c] = "untag" => op[c].name = "remove_tags"
    /\ pc[c] \in {"get_type", "get_detail"} => op[c].name = "get_by_id"
    /\ pc[c] = "get_tags" => op[c].name = "get_tags"

\* The loops over tags: what is left is a part of what was asked for, all of it
\* before the transaction has begun and nothing at its end.
LoopOfCall(c) ==
    /\ pc[c] # "idle" => op[c].left \subseteq op[c].tags
    /\ (pc[c] \in {"exists", "tag", "untag", "commit"} /\ writer # c) => op[c].left = op[c].tags
    /\ pc[c] = "commit" /\ op[c].name \in {"add_tags", "remove_tags"} => op[c].left = {}
    /\ pc[c] = "commit" /\ writer # c => op[c].name \in {"add_tags", "remove_tags"}

\* The file with the activity added or replaced.
Created(d, id, p, now) == WriteDetailRow(InsertActivityRow(d, id, p, now), id, p)
Replaced(d, id, p, now) == WriteDetailRow(UpdateActivityRow(d, id, p, now), id, p)

\* The file with some tags of one activity added or removed.
Tagged(d, id, ts) == [d EXCEPT !.tags = @ \cup ({id} \X ts)]
Untagged(d, id, ts) == [d EXCEPT !.tags = @ \ ({id} \X ts)]

\* What has been written differs from the committed file by what the call has
\* done, and by nothing else.
WorkOfCall(c) ==
    LET id == op[c].id
        p  == op[c].payload
        ts == op[c].tags \ op[c].left
    IN  /\ pc[c] = "insert_detail" =>
              InsertActivityOK(db, id, p) /\ \E now \in Clock : work = InsertActivityRow(db, id, p, now)
        /\ pc[c] = "update_detail" =>
              /\ HasType(db, id, p.activity_type) /\ Bindable(p.timestamp) /\ TimestampOK(p)
              /\ \E now \in Clock : work = UpdateActivityRow(db, id, p, now)
        /\ pc[c] = "tag" => Exists(db, id) /\ work = Tagged(db, id, ts)
        /\ pc[c] = "untag" => work = Untagged(db, id, ts)
        /\ pc[c] = "commit" =>
              \/ /\ op[c].name \in {"insert", "upsert"}
                 /\ p \in Payloads /\ WellFormed(p) /\ ~Exists(db, id)
                 /\ \E now \in Clock : work = Created(db, id, p, now)
              \/ /\ op[c].name \in {"update", "upsert"}
                 /\ p \in Payloads /\ WellFormed(p) /\ HasType(db, id, p.activity_type)
                 /\ \E now \in Clock : work = Replaced(db, id, p, now)
              \/ /\ op[c].name = "delete"
                 /\ op[c].rows = Exists(db, id)
                 /\ work = DeleteActivityRow(db, id)
              \/ /\ op[c].name = "add_tags"
                 /\ Exists(db, id) /\ work = Tagged(db, id, ts)
              \/ /\ op[c].name = "remove_tags"
                 /\ work = Untagged(db, id, ts)

CallInOrder(c) == StepOfCall(c) /\ LoopOfCall(c) /\ (writer = c => WorkOfCall(c))

CallsInOrder == \A c \in Conns : CallInOrder(c)

-----------------------------------------------------------------------------
(* The steps of one connection and the calls of the others                 *)

StepOf(c) == StartCall(c) \/ Advance(c) \/ StatementFails(c) \/ Crash(c)

\* Connection x does not notice: its call stands where it stood, and neither its
\* transaction nor the file below it has changed.
Unnoticed(x) ==
    /\ pc'[x] = pc[x] /\ op'[x] = op[x] /\ ret'[x] = ret[x]
    /\ (writer' = x) <=> (writer = x)
    /\ writer = x => work' = work /\ db' = db

LEMMA UnnoticedKeeps ==
    ASSUME NEW x \in Conns, CallInOrder(x), Unnoticed(x)
    PROVE  CallInOrder(x)'
<1>1. (StepOfCall(x) /\ LoopOfCall(x))'
  BY DEF CallInOrder, Unnoticed, StepOfCall, LoopOfCall
<1>2. ASSUME writer' = x PROVE WorkOfCall(x)'
  BY <1>2 DEF CallInOrder, Unnoticed, WorkOfCall
<1> QED BY <1>1, <1>2 DEF CallInOrder

\* A call returns without a commit: the others do not notice.
LEMMA ReturnUnnoticed ==
    ASSUME IInv, NEW c \in Conns, NEW o, Return(c, o), NEW x \in Conns \ {c}
    PROVE  Unnoticed(x)
BY NoConnAssumption DEF IInv, TypeOK, Return, Rollback, Unnoticed

\* A statement runs: it holds the write lock, so nobody else does.
LEMMA ExecuteUnnoticed ==
    ASSUME IInv, NEW c \in Conns, NEW d, NEW step, NEW call, Execute(c, d, step),
           op' = [op EXCEPT ![c] = call], NEW x \in Conns \ {c}
    PROVE  Unnoticed(x)
BY NoConnAssumption DEF IInv, TypeOK, Execute, CanWrite, Unnoticed

\* A step outside any transaction of its own, with an outcome or without.
LEMMA MoveUnnoticed ==
    ASSUME IInv, NEW c \in Conns, NEW step, NEW call, NEW o,
           pc' = [pc EXCEPT ![c] = step], op' = [op EXCEPT ![c] = call],
           ret' = [ret EXCEPT ![c] = o],
           UNCHANGED <<db, writer, work>>, NEW x \in Conns \ {c}
    PROVE  Unnoticed(x)
BY DEF IInv, TypeOK, Unnoticed

\* The commit of one connection: if it held the lock nobody else had a
\* transaction, and otherwise it had nothing to commit.
LEMMA CommitUnnoticed ==
    ASSUME IInv, NEW c \in Conns, Commit(c), NEW x \in Conns \ {c}
    PROVE  Unnoticed(x)
BY NoConnAssumption DEF IInv, TypeOK, Commit, Seen, Unnoticed

-----------------------------------------------------------------------------
(* The connection that takes the step                                      *)

\* After its return a connection is in no call.
LEMMA IdleInOrder ==
    ASSUME NEW c \in Conns, pc'[c] = "idle", op'[c] = NoCall, writer' # c
    PROVE  CallInOrder(c)'
BY DEF CallInOrder, StepOfCall, LoopOfCall

LEMMA ReturnCall ==
    ASSUME IInv, CallsInOrder, NEW c \in Conns, NEW o, Return(c, o)
    PROVE  CallsInOrder'
<1>1. pc'[c] = "idle" /\ op'[c] = NoCall /\ writer' # c
  BY NoConnAssumption DEF IInv, TypeOK, Return, Rollback
<1>2. CallInOrder(c)'
  BY <1>1, IdleInOrder
<1>3. ASSUME NEW x \in Conns \ {c} PROVE CallInOrder(x)'
  BY ReturnUnnoticed, UnnoticedKeeps DEF CallsInOrder
<1> QED BY <1>2, <1>3 DEF CallsInOrder

LEMMA CommitCall ==
    ASSUME IInv, CallsInOrder, NEW c \in Conns, Commit(c)
    PROVE  CallsInOrder'
<1>1. pc'[c] = "idle" /\ op'[c] = NoCall /\ writer' # c
  BY NoConnAssumption DEF IInv, TypeOK, Commit
<1>2. CallInOrder(c)'
  BY <1>1, IdleInOrder
<1>3. ASSUME NEW x \in Conns \ {c} PROVE CallInOrder(x)'
  BY CommitUnnoticed, UnnoticedKeeps DEF CallsInOrder
<1> QED BY <1>2, <1>3 DEF CallsInOrder

\* The exported functions.
LEMMA BeginCall ==
    ASSUME IInv, CallsInOrder, NEW c \in Conns, NEW name, NEW id, NEW p, NEW tags, NEW step,
           Begin(c, name, id, p, tags, step),
           \/ step = "insert" /\ name = "insert"
           \/ step = "update" /\ name \in {"update", "upsert"}
           \/ step = "delete" /\ name = "delete"
           \/ step = "exists" /\ name \in {"add_tags", "get_tags"}
           \/ step = "untag" /\ name = "remove_tags"
           \/ step = "get_type" /\ name = "get_by_id"
    PROVE  CallsInOrder'
<1>1. /\ pc'[c] = step /\ ret'[c] = "none"
      /\ op'[c].name = name /\ op'[c].tags = tags /\ op'[c].left = tags
      /\ writer' # c
  BY DEF Begin, NewCall, IInv, TypeOK, TransactionInOrder, ConnInOrder
<1>2. CallInOrder(c)'
  BY <1>1 DEF CallInOrder, StepOfCall, LoopOfCall
<1>3. ASSUME NEW x \in Conns \ {c} PROVE CallInOrder(x)'
  <2>1. Unnoticed(x)
    BY MoveUnnoticed DEF Begin
  <2> QED BY <2>1, UnnoticedKeeps DEF CallsInOrder
<1> QED BY <1>2, <1>3 DEF CallsInOrder

LEMMA StartCallCall ==
    ASSUME IInv, CallsInOrder, NEW c \in Conns, StartCall(c)
    PROVE  CallsInOrder'
<1>1. CASE get_activities(c)
  <2>1. CallInOrder(c)'
    <3>1. pc[c] = "idle" /\ op[c] = NoCall /\ writer # c
      BY <1>1 DEF get_activities, CallsInOrder, CallInOrder, StepOfCall, IInv,
             TransactionInOrder, ConnInOrder
    <3> QED BY <1>1, <3>1, IdleInOrder DEF get_activities
  <2>2. ASSUME NEW x \in Conns \ {c} PROVE CallInOrder(x)'
    <3>1. Unnoticed(x)
      BY <1>1 DEF get_activities, Unnoticed, IInv, TypeOK
    <3> QED BY <3>1, UnnoticedKeeps DEF CallsInOrder
  <2> QED BY <2>1, <2>2 DEF CallsInOrder
<1>2. CASE ~get_activities(c)
  BY <1>2, BeginCall DEF StartCall, insert_activity, update_activity, upsert_activity,
     delete_activity_by_id, add_tags, remove_tags, get_activity_by_id, get_tags
<1> QED BY <1>1, <1>2

\* What a statement leaves behind for its own connection.
LEMMA ExecuteCall ==
    ASSUME IInv, CallsInOrder, NEW c \in Conns, NEW d, NEW step, NEW call,
           Execute(c, d, step), op' = [op EXCEPT ![c] = call], pc[c] # "idle",
           CallInOrder(c)'
    PROVE  CallsInOrder'
<1>1. ASSUME NEW x \in Conns \ {c} PROVE CallInOrder(x)'
  BY ExecuteUnnoticed, UnnoticedKeeps DEF CallsInOrder
<1> QED BY <1>1 DEF CallsInOrder

LEMMA ExecuteOwn ==
    ASSUME IInv, CallsInOrder, NEW c \in Conns, NEW d, NEW step, NEW call,
           Execute(c, d, step), op' = [op EXCEPT ![c] = call], pc[c] # "idle"
    PROVE  /\ pc'[c] = step /\ op'[c] = call /\ ret'[c] = "none"
           /\ writer' = c /\ work' = d /\ db' = db
BY DEF IInv, TypeOK, Execute, CallsInOrder, CallInOrder, StepOfCall

\* At the first statement of its transaction a call sees the committed file.
LEMMA FirstSeesFile ==
    ASSUME IInv, NEW c \in Conns, pc[c] \in {"insert", "update", "delete"}
    PROVE  writer # c /\ Seen(c) = db
BY DEF IInv, TransactionInOrder, ConnInOrder, Seen

\* The row of `activities` holds the payload's timestamp when the detail row is
\* written, so the trigger compares the payload's two times.
LEMMA TriggerComparesPayload ==
    ASSUME NEW d \in Database, NEW id \in Ids, NEW p, NEW now,
           NEW e \in {InsertActivityRow(d, id, p, now), UpdateActivityRow(d, id, p, now)}
    PROVE  DetailOK(e, id, p) <=>
              /\ p.sound
              /\ p.confirm_timestamp # NoTime =>
                    Bindable(p.confirm_timestamp) /\ p.confirm_timestamp >= p.timestamp
<1>1. e.activities[id].timestamp = p.timestamp
  BY DEF InsertActivityRow, UpdateActivityRow, Database
<1> QED BY <1>1 DEF DetailOK, ConfirmTrigger

LEMMA InsertCall ==
    ASSUME IInv, CallsInOrder, NEW c \in Conns, InsertActivity(c) \/ InsertDetail(c)
    PROVE  CallsInOrder'
<1>1. op' = [op EXCEPT ![c] = op[c]]
  BY DEF InsertActivity, InsertDetail, IInv, TypeOK
<1>2. CASE InsertActivity(c)
  <2>1. PICK now \in Clock :
          Execute(c, InsertActivityRow(Seen(c), op[c].id, op[c].payload, now), "insert_detail")
    BY <1>2 DEF InsertActivity
  <2>2. /\ Seen(c) = db /\ pc[c] = "insert"
        /\ InsertActivityOK(db, op[c].id, op[c].payload)
    BY <1>2, FirstSeesFile DEF InsertActivity
  <2>3. /\ pc'[c] = "insert_detail" /\ op'[c] = op[c] /\ ret'[c] = "none" /\ writer' = c
        /\ work' = InsertActivityRow(db, op[c].id, op[c].payload, now) /\ db' = db
    BY <1>1, <2>1, <2>2, ExecuteOwn
  <2>4. op[c].name \in {"insert", "upsert"} /\ op[c].left \subseteq op[c].tags
    BY <2>2 DEF CallsInOrder, CallInOrder, StepOfCall, LoopOfCall
  <2>5. CallInOrder(c)'
    BY <2>2, <2>3, <2>4 DEF CallInOrder, StepOfCall, LoopOfCall, WorkOfCall
  <2> QED BY <1>1, <2>1, <2>2, <2>5, ExecuteCall
<1>3. CASE InsertDetail(c)
  <2>1. pc[c] = "insert_detail" /\ writer = c /\ Seen(c) = work
        /\ op[c].payload \in Payloads /\ op[c].id \in Ids /\ db \in Database
    BY <1>3 DEF InsertDetail, IInv, TypeOK, TransactionInOrder, ConnInOrder, Seen, Call
  <2>2. op[c].name \in {"insert", "upsert"} /\ op[c].left \subseteq op[c].tags
    BY <2>1 DEF CallsInOrder, CallInOrder, StepOfCall, LoopOfCall
  <2>3. PICK now \in Clock :
          /\ work = InsertActivityRow(db, op[c].id, op[c].payload, now)
          /\ InsertActivityOK(db, op[c].id, op[c].payload)
    BY <2>1 DEF CallsInOrder, CallInOrder, WorkOfCall
  <2>4. Execute(c, Created(db, op[c].id, op[c].payload, now), "commit")
    BY <1>3, <2>1, <2>3 DEF InsertDetail, Created
  <2>5. WellFormed(op[c].payload) /\ ~Exists(db, op[c].id)
    BY <1>3, <2>1, <2>3, TriggerComparesPayload DEF InsertDetail, WellFormed, InsertActivityOK
  <2>6. /\ pc'[c] = "commit" /\ op'[c] = op[c] /\ ret'[c] = "none" /\ writer' = c
        /\ work' = Created(db, op[c].id, op[c].payload, now) /\ db' = db
    BY <1>1, <2>1, <2>4, ExecuteOwn
  <2>7. StepOfCall(c)' /\ WorkOfCall(c)'
    BY <2>1, <2>2, <2>5, <2>6 DEF StepOfCall, WorkOfCall
  <2>8. LoopOfCall(c)'
    BY <2>1, <2>2, <2>6 DEF LoopOfCall
  <2> QED BY <1>1, <2>1, <2>4, <2>7, <2>8, ExecuteCall DEF CallInOrder
<1> QED BY <1>2, <1>3

LEMMA UpdateCall ==
    ASSUME IInv, CallsInOrder, NEW c \in Conns,
           UpdateActivity(c) \/ UpdateDetail(c) \/ UpdateMisses(c)
    PROVE  CallsInOrder'
<1>1. UNCHANGED op => op' = [op EXCEPT ![c] = op[c]]
  BY DEF IInv, TypeOK
<1>2. CASE UpdateActivity(c)
  <2>1. PICK now \in Clock :
          Execute(c, UpdateActivityRow(Seen(c), op[c].id, op[c].payload, now), "update_detail")
    BY <1>2 DEF UpdateActivity
  <2>2. /\ Seen(c) = db /\ pc[c] = "update" /\ op' = op
        /\ HasType(db, op[c].id, op[c].payload.activity_type)
        /\ Bindable(op[c].payload.timestamp) /\ TimestampOK(op[c].payload)
    BY <1>2, FirstSeesFile DEF UpdateActivity
  <2>3. /\ pc'[c] = "update_detail" /\ op'[c] = op[c] /\ ret'[c] = "none" /\ writer' = c
        /\ work' = UpdateActivityRow(db, op[c].id, op[c].payload, now) /\ db' = db
    BY <1>1, <2>1, <2>2, ExecuteOwn
  <2>4. op[c].name \in {"update", "upsert"} /\ op[c].left \subseteq op[c].tags
    BY <2>2 DEF CallsInOrder, CallInOrder, StepOfCall, LoopOfCall
  <2>5. CallInOrder(c)'
    BY <2>2, <2>3, <2>4 DEF CallInOrder, StepOfCall, LoopOfCall, WorkOfCall
  <2> QED BY <1>1, <2>1, <2>2, <2>5, ExecuteCall
<1>3. CASE UpdateDetail(c)
  <2>1. pc[c] = "update_detail" /\ writer = c /\ Seen(c) = work /\ op' = op
        /\ op[c].payload \in Payloads /\ op[c].id \in Ids /\ db \in Database
        /\ HalfUpdated(work, op[c].id, op[c].payload)
    BY <1>3 DEF UpdateDetail, IInv, TypeOK, TransactionInOrder, ConnInOrder, Seen, Call
  <2>2. op[c].name \in {"update", "upsert"} /\ op[c].left \subseteq op[c].tags
    BY <2>1 DEF CallsInOrder, CallInOrder, StepOfCall, LoopOfCall
  <2>3. PICK now \in Clock :
          /\ work = UpdateActivityRow(db, op[c].id, op[c].payload, now)
          /\ HasType(db, op[c].id, op[c].payload.activity_type)
          /\ Bindable(op[c].payload.timestamp) /\ TimestampOK(op[c].payload)
    BY <2>1 DEF CallsInOrder, CallInOrder, WorkOfCall
  <2>4. work.detail[op[c].payload.activity_type][op[c].id] # NoRow
    BY <2>1, PayloadsAssumption DEF HalfUpdated, DetailMatchesTypeAt, PayloadType
  <2>5. Execute(c, Replaced(db, op[c].id, op[c].payload, now), "commit")
    BY <1>3, <2>1, <2>3, <2>4 DEF UpdateDetail, UpdateDetailRow, Replaced
  <2>6. WellFormed(op[c].payload)
    BY <1>3, <2>1, <2>3, TriggerComparesPayload DEF UpdateDetail, WellFormed
  <2>7. /\ pc'[c] = "commit" /\ op'[c] = op[c] /\ ret'[c] = "none" /\ writer' = c
        /\ work' = Replaced(db, op[c].id, op[c].payload, now) /\ db' = db
    BY <1>1, <2>1, <2>5, ExecuteOwn
  <2>8. StepOfCall(c)' /\ WorkOfCall(c)'
    BY <2>1, <2>2, <2>3, <2>6, <2>7 DEF StepOfCall, WorkOfCall
  <2>9. LoopOfCall(c)'
    BY <2>1, <2>2, <2>7 DEF LoopOfCall
  <2> QED BY <1>1, <2>1, <2>5, <2>8, <2>9, ExecuteCall DEF CallInOrder
<1>4. CASE UpdateMisses(c)
  <2>1. CASE Return(c, "NotFound")
    BY <2>1, ReturnCall
  <2>2. CASE /\ op[c].name = "upsert"
             /\ pc' = [pc EXCEPT ![c] = "insert"]
             /\ Rollback(c)
             /\ UNCHANGED <<db, op, ret>>
    <3>1. writer # c /\ pc[c] = "update"
      BY <1>4, FirstSeesFile DEF UpdateMisses
    <3>2. UNCHANGED <<writer, work>>
      BY <2>2, <3>1 DEF Rollback
    <3>3. CallInOrder(c)'
      BY <2>2, <3>1, <3>2 DEF IInv, TypeOK, CallsInOrder, CallInOrder, StepOfCall, LoopOfCall
    <3>4. ASSUME NEW x \in Conns \ {c} PROVE CallInOrder(x)'
      <4>1. Unnoticed(x)
        BY <2>2, <3>2 DEF Unnoticed, IInv, TypeOK
      <4> QED BY <4>1, UnnoticedKeeps DEF CallsInOrder
    <3> QED BY <3>3, <3>4 DEF CallsInOrder
  <2> QED BY <1>4, <2>1, <2>2 DEF UpdateMisses
<1> QED BY <1>2, <1>3, <1>4

\* One more tag: the set of the tags done grows by it.
LEMMA TaggedOnce ==
    ASSUME NEW d \in Database, NEW id, NEW ts, NEW t
    PROVE  /\ InsertTag(Tagged(d, id, ts), id, t) = Tagged(d, id, ts \cup {t})
           /\ DeleteTag(Untagged(d, id, ts), id, t) = Untagged(d, id, ts \cup {t})
<1>1. ({id} \X ts) \cup {<<id, t>>} = {id} \X (ts \cup {t})
  OBVIOUS
<1>2. (d.tags \cup ({id} \X ts)) \cup {<<id, t>>} = d.tags \cup ({id} \X (ts \cup {t}))
  BY <1>1
<1>3. (d.tags \ ({id} \X ts)) \ {<<id, t>>} = d.tags \ ({id} \X (ts \cup {t}))
  BY <1>1
<1>4. InsertTag(Tagged(d, id, ts), id, t) = [d EXCEPT !.tags = (@ \cup ({id} \X ts)) \cup {<<id, t>>}]
  BY DEF InsertTag, Tagged, Database
<1>5. DeleteTag(Untagged(d, id, ts), id, t) = [d EXCEPT !.tags = (@ \ ({id} \X ts)) \ {<<id, t>>}]
  BY DEF DeleteTag, Untagged, Database
<1> QED BY <1>2, <1>3, <1>4, <1>5 DEF Tagged, Untagged

\* Before the first tag nothing has been written.
LEMMA TaggedNone ==
    ASSUME NEW d \in Database, NEW id
    PROVE  Tagged(d, id, {}) = d /\ Untagged(d, id, {}) = d
<1>1. {id} \X {} = {}
  OBVIOUS
<1> QED BY <1>1 DEF Tagged, Untagged, Database

LEMMA DeleteCall ==
    ASSUME IInv, CallsInOrder, NEW c \in Conns, DeleteActivity(c)
    PROVE  CallsInOrder'
<1> DEFINE call == [op[c] EXCEPT !.rows = Exists(Seen(c), op[c].id)]
<1>1. pc[c] = "delete" /\ Seen(c) = db /\ op[c] \in Call
  BY FirstSeesFile DEF DeleteActivity, IInv, TransactionInOrder, ConnInOrder
<1>2. op[c].name = "delete" /\ op[c].left \subseteq op[c].tags
  BY <1>1 DEF CallsInOrder, CallInOrder, StepOfCall, LoopOfCall
<1>3. op' = [op EXCEPT ![c] = call] /\ Execute(c, DeleteActivityRow(db, op[c].id), "commit")
  BY <1>1 DEF DeleteActivity
<1>4. /\ call.name = op[c].name /\ call.id = op[c].id /\ call.rows = Exists(db, op[c].id)
      /\ call.left = op[c].left /\ call.tags = op[c].tags
  BY <1>1 DEF Call
<1> HIDE DEF call
<1>5. /\ pc'[c] = "commit" /\ op'[c] = call /\ ret'[c] = "none" /\ writer' = c
      /\ work' = DeleteActivityRow(db, op[c].id) /\ db' = db
  BY <1>1, <1>3, ExecuteOwn
<1>6. CallInOrder(c)'
  BY <1>2, <1>4, <1>5 DEF CallInOrder, StepOfCall, LoopOfCall, WorkOfCall
<1> QED BY <1>1, <1>3, <1>6, ExecuteCall

\* In the loops a call sees the file with the tags done so far.
LEMMA LoopSees ==
    ASSUME IInv, CallsInOrder, NEW c \in Conns, CanWrite(c)
    PROVE  /\ pc[c] = "tag" => Seen(c) = Tagged(db, op[c].id, op[c].tags \ op[c].left)
           /\ pc[c] = "untag" => Seen(c) = Untagged(db, op[c].id, op[c].tags \ op[c].left)
<1>1. CASE writer = c
  BY <1>1 DEF CallsInOrder, CallInOrder, WorkOfCall, Seen
<1>2. CASE writer # c
  <2>1. pc[c] \in {"tag", "untag"} => op[c].tags \ op[c].left = {}
    BY <1>2 DEF CallsInOrder, CallInOrder, LoopOfCall
  <2> QED BY <1>2, <2>1, TaggedNone DEF IInv, TypeOK, Seen
<1> QED BY <1>1, <1>2

LEMMA TagCall ==
    ASSUME IInv, CallsInOrder, NEW c \in Conns, AddTag(c) \/ RemoveTag(c)
    PROVE  CallsInOrder'
<1> DEFINE id == op[c].id
           ts == op[c].tags \ op[c].left
<1>1. op[c] \in Call /\ db \in Database /\ pc[c] # "idle"
      /\ op[c].left \subseteq op[c].tags
  BY DEF AddTag, RemoveTag, IInv, TypeOK, TransactionInOrder, ConnInOrder,
         CallsInOrder, CallInOrder, LoopOfCall
<1>2. ASSUME NEW t \in op[c].left, op' = [op EXCEPT ![c].left = @ \ {t}]
      PROVE  \E call : /\ op' = [op EXCEPT ![c] = call]
                       /\ call.name = op[c].name /\ call.id = id
                       /\ call.left \subseteq call.tags /\ call.tags \ call.left = ts \cup {t}
  <2> DEFINE call == [op[c] EXCEPT !.left = @ \ {t}]
  <2>1. op' = [op EXCEPT ![c] = call]
    BY <1>1, <1>2
  <2>2. /\ call.name = op[c].name /\ call.id = id /\ call.tags = op[c].tags
        /\ call.left = op[c].left \ {t}
    BY <1>1 DEF Call
  <2> HIDE DEF call
  <2> QED BY <1>1, <2>1, <2>2
<1>3. CASE AddTag(c)
  <2>1. PICK t \in op[c].left :
          /\ Execute(c, InsertTag(Seen(c), id, t), "tag")
          /\ op' = [op EXCEPT ![c].left = @ \ {t}]
    BY <1>3 DEF AddTag
  <2>2. PICK call : /\ op' = [op EXCEPT ![c] = call]
                    /\ call.name = op[c].name /\ call.id = id
                    /\ call.left \subseteq call.tags /\ call.tags \ call.left = ts \cup {t}
    BY <1>2, <2>1
  <2>3. pc[c] = "tag" /\ Seen(c) = Tagged(db, id, ts) /\ Exists(Seen(c), id)
    BY <1>3, <2>1, LoopSees DEF AddTag, Execute, InsertTagOK
  <2>4. Execute(c, Tagged(db, id, ts \cup {t}), "tag") /\ Exists(db, id)
    <3>1. Tagged(db, id, ts).activities = db.activities
      BY <1>1 DEF Tagged, Database
    <3> QED BY <1>1, <2>1, <2>3, <3>1, TaggedOnce DEF Exists
  <2>5. op[c].name = "add_tags"
    BY <2>3 DEF CallsInOrder, CallInOrder, StepOfCall
  <2> HIDE DEF id, ts
  <2>6. /\ pc'[c] = "tag" /\ op'[c] = call /\ ret'[c] = "none" /\ writer' = c
        /\ work' = Tagged(db, id, ts \cup {t}) /\ db' = db
    BY <1>1, <2>2, <2>4, ExecuteOwn
  <2>7. CallInOrder(c)'
    BY <2>2, <2>4, <2>5, <2>6 DEF CallInOrder, StepOfCall, LoopOfCall, WorkOfCall
  <2> QED BY <1>1, <2>2, <2>4, <2>7, ExecuteCall
<1>4. CASE RemoveTag(c)
  <2>1. PICK t \in op[c].left :
          /\ Execute(c, DeleteTag(Seen(c), id, t), "untag")
          /\ op' = [op EXCEPT ![c].left = @ \ {t}]
    BY <1>4 DEF RemoveTag
  <2>2. PICK call : /\ op' = [op EXCEPT ![c] = call]
                    /\ call.name = op[c].name /\ call.id = id
                    /\ call.left \subseteq call.tags /\ call.tags \ call.left = ts \cup {t}
    BY <1>2, <2>1
  <2>3. pc[c] = "untag" /\ Seen(c) = Untagged(db, id, ts)
    BY <1>4, <2>1, LoopSees DEF RemoveTag, Execute
  <2>4. Execute(c, Untagged(db, id, ts \cup {t}), "untag")
    BY <1>1, <2>1, <2>3, TaggedOnce
  <2>5. op[c].name = "remove_tags"
    BY <2>3 DEF CallsInOrder, CallInOrder, StepOfCall
  <2> HIDE DEF id, ts
  <2>6. /\ pc'[c] = "untag" /\ op'[c] = call /\ ret'[c] = "none" /\ writer' = c
        /\ work' = Untagged(db, id, ts \cup {t}) /\ db' = db
    BY <1>1, <2>2, <2>4, ExecuteOwn
  <2>7. CallInOrder(c)'
    BY <2>2, <2>5, <2>6 DEF CallInOrder, StepOfCall, LoopOfCall, WorkOfCall
  <2> QED BY <1>1, <2>2, <2>4, <2>7, ExecuteCall
<1> QED BY <1>3, <1>4

\* The end of a loop over tags, and the first statement of a read.
LEMMA MoveCall ==
    ASSUME IInv, CallsInOrder, NEW c \in Conns, TagsDone(c) \/ CheckExists(c) \/ GetType(c)
    PROVE  CallsInOrder'
<1>1. CASE TagsDone(c)
  <2>1. op' = [op EXCEPT ![c] = op[c]] /\ ret' = [ret EXCEPT ![c] = ret[c]]
    BY <1>1 DEF TagsDone, IInv, TypeOK
  <2>2. pc'[c] = "commit" /\ ret'[c] = ret[c] /\ op' = op
    BY <1>1 DEF TagsDone, IInv, TypeOK
  <2>3. StepOfCall(c)' /\ LoopOfCall(c)'
    BY <1>1, <2>2 DEF TagsDone, CallsInOrder, CallInOrder, StepOfCall, LoopOfCall
  <2>4. writer' = c => WorkOfCall(c)'
    BY <1>1, <2>2 DEF TagsDone, CallsInOrder, CallInOrder, StepOfCall, WorkOfCall
  <2>5. ASSUME NEW x \in Conns \ {c} PROVE CallInOrder(x)'
    <3>1. Unnoticed(x)
      BY <1>1, <2>1, MoveUnnoticed DEF TagsDone
    <3> QED BY <3>1, UnnoticedKeeps DEF CallsInOrder
  <2> QED BY <2>3, <2>4, <2>5 DEF CallsInOrder, CallInOrder
<1>2. CASE \E o : Return(c, o)
  BY <1>2, ReturnCall
<1>3. CASE CheckExists(c) /\ ~\E o : Return(c, o)
  <2>1. /\ pc[c] = "exists"
        /\ pc' = [pc EXCEPT ![c] = IF op[c].name = "add_tags" THEN "tag" ELSE "get_tags"]
        /\ UNCHANGED <<db, writer, work, op, ret>>
    BY <1>3 DEF CheckExists
  <2>2. writer # c
    BY <2>1 DEF IInv, TransactionInOrder, ConnInOrder
  <2>3. CallInOrder(c)'
    BY <2>1, <2>2 DEF IInv, TypeOK, CallsInOrder, CallInOrder, StepOfCall, LoopOfCall
  <2>4. ASSUME NEW x \in Conns \ {c} PROVE CallInOrder(x)'
    <3>1. Unnoticed(x)
      BY <2>1 DEF Unnoticed, IInv, TypeOK
    <3> QED BY <3>1, UnnoticedKeeps DEF CallsInOrder
  <2> QED BY <2>3, <2>4 DEF CallsInOrder
<1>4. CASE GetType(c) /\ ~\E o : Return(c, o)
  <2> DEFINE call == [op[c] EXCEPT !.type = db.activities[op[c].id].activity_type]
  <2>1. /\ pc[c] = "get_type"
        /\ pc' = [pc EXCEPT ![c] = "get_detail"]
        /\ op' = [op EXCEPT ![c] = call]
        /\ UNCHANGED <<db, writer, work, ret>>
    BY <1>4 DEF GetType
  <2>2. writer # c /\ op[c] \in Call
    BY <2>1 DEF IInv, TransactionInOrder, ConnInOrder
  <2>3. call.name = op[c].name /\ call.left = op[c].left /\ call.tags = op[c].tags
    BY <2>2 DEF Call
  <2> HIDE DEF call
  <2>4. op'[c] = call /\ pc'[c] = "get_detail"
    BY <2>1 DEF IInv, TypeOK
  <2>5. CallInOrder(c)'
    BY <2>1, <2>2, <2>3, <2>4 DEF CallsInOrder, CallInOrder, StepOfCall, LoopOfCall
  <2>6. ASSUME NEW x \in Conns \ {c} PROVE CallInOrder(x)'
    <3>1. Unnoticed(x)
      BY <2>1 DEF Unnoticed, IInv, TypeOK
    <3> QED BY <3>1, UnnoticedKeeps DEF CallsInOrder
  <2> QED BY <2>5, <2>6 DEF CallsInOrder
<1> QED BY <1>1, <1>2, <1>3, <1>4

\* Every step that ends a call without a commit is a return.
LEMMA OtherStepsReturn ==
    ASSUME NEW c \in Conns,
           \/ InsertEmptyId(c) \/ InsertActivityFails(c) \/ InsertDetailFails(c)
           \/ UpdateActivityFails(c) \/ UpdateDetailFails(c) \/ AddTagFails(c)
           \/ GetDetail(c) \/ GetTags(c) \/ BusyTimeout(c)
           \/ StatementFails(c) \/ Crash(c)
    PROVE  \E o : Return(c, o)
BY DEF InsertEmptyId, InsertActivityFails, InsertDetailFails, UpdateActivityFails,
       UpdateDetailFails, AddTagFails, GetDetail, GetTags, BusyTimeout,
       StatementFails, Crash

LEMMA CallsNext == IInv /\ CallsInOrder /\ [Next]_vars => CallsInOrder'
<1> SUFFICES ASSUME IInv, CallsInOrder, [Next]_vars PROVE CallsInOrder'
  OBVIOUS
<1>1. CASE UNCHANGED vars
  <2>1. \A x \in Conns : Unnoticed(x)
    BY <1>1 DEF vars, Unnoticed
  <2> QED BY <2>1, UnnoticedKeeps DEF CallsInOrder
<1>2. CASE Next
  <2>1. PICK c \in Conns : StepOf(c)
    BY <1>2 DEF Next, StepOf
  <2>2. CASE \E o : Return(c, o)
    BY <2>2, ReturnCall
  <2> QED BY <2>1, <2>2, OtherStepsReturn, StartCallCall, InsertCall, UpdateCall, DeleteCall,
             TagCall, MoveCall, CommitCall DEF StepOf, Advance
<1> QED BY <1>1, <1>2

LEMMA CallsInit == Init => CallsInOrder
BY NoConnAssumption DEF Init, CallsInOrder, CallInOrder, StepOfCall, LoopOfCall

\* At every moment the open transaction of a call has written what the call has
\* come to, and nothing else: for any connections, failures and crashes.
THEOREM CallsAlwaysInOrder == Spec => []CallsInOrder
BY CallsInit, CallsNext, AlwaysInOrder, PTL DEF Spec

-----------------------------------------------------------------------------
(* Answers                                                                 *)

\* get_activities never meets an activity without its detail row, because a
\* reader never sees a transaction that is still open: for any connections.
THEOREM QueriesNeverFailHolds == Spec => []QueriesNeverFail
<1>1. Init => QueriesNeverFail
  BY DEF Init, QueriesNeverFail
<1>2. IInv /\ QueriesNeverFail /\ [Next]_vars => QueriesNeverFail'
  <2> SUFFICES ASSUME IInv, QueriesNeverFail, [Next]_vars PROVE QueriesNeverFail'
    OBVIOUS
  <2>1. ASSUME NEW c \in Conns, NEW o, o # "RowError", ret' = [ret EXCEPT ![c] = o]
        PROVE  QueriesNeverFail'
    BY <2>1 DEF QueriesNeverFail, IInv, TypeOK
  <2>2. CASE UNCHANGED ret
    BY <2>2 DEF QueriesNeverFail
  <2>3. ASSUME NEW c \in Conns, StartCall(c) PROVE QueriesNeverFail'
    <3>1. CASE get_activities(c)
      <4>1. \A id \in Ids : Exists(db, id) =>
               db.detail[db.activities[id].activity_type][id] # NoRow
        BY DEF IInv, TypeOK, Database, ActivityRow, TransactionInOrder, Consistent,
               DetailMatchesTypeAt, HasType, Exists
      <4> QED BY <2>1, <3>1, <4>1 DEF get_activities
    <3>2. CASE ~get_activities(c)
      BY <2>1, <2>3, <3>2 DEF StartCall, insert_activity, update_activity, upsert_activity,
         delete_activity_by_id, add_tags, remove_tags, get_activity_by_id, get_tags, Begin
    <3> QED BY <3>1, <3>2
  <2>4. ASSUME NEW c \in Conns, StatementFails(c) \/ Crash(c) PROVE QueriesNeverFail'
    BY <2>1, <2>4 DEF StatementFails, Crash, Return
  <2>5. ASSUME NEW c \in Conns, Advance(c) PROVE QueriesNeverFail'
    <3>1. \/ UNCHANGED ret
          \/ \E o : o # "RowError" /\ ret' = [ret EXCEPT ![c] = o]
      BY <2>5 DEF Advance, InsertEmptyId, InsertActivity, InsertActivityFails, InsertDetail,
         InsertDetailFails, UpdateActivity, UpdateActivityFails, UpdateMisses, UpdateDetail,
         UpdateDetailFails, DeleteActivity, CheckExists, AddTag, AddTagFails, RemoveTag,
         TagsDone, GetType, GetDetail, GetTags, Commit, BusyTimeout, Execute, Return
    <3> QED BY <2>1, <2>2, <3>1
  <2> QED BY <2>2, <2>3, <2>4, <2>5 DEF Next, vars
<1> QED BY <1>1, <1>2, AlwaysInOrder, PTL DEF Spec

-----------------------------------------------------------------------------
(* The library's own use: one connection (the process-wide DB)             *)

SoleConnection == \A c, d \in Conns : c = d

\* Nothing comes between the statements of a call that run outside one
\* transaction: the insert of an upsert still misses what its update missed,
\* and the row whose type get_activity_by_id has read is still there.
SoleCall(c) ==
    /\ (pc[c] = "insert" /\ op[c].name = "upsert")
          => ~HasType(db, op[c].id, op[c].payload.activity_type)
    /\ pc[c] = "get_detail" => HasType(db, op[c].id, op[c].type)

SoleInOrder == \A c \in Conns : SoleCall(c)

LEMMA SoleNext ==
    ASSUME SoleConnection, IInv, CallsInOrder, SoleInOrder, [Next]_vars
    PROVE  SoleInOrder'
<1>1. CASE UNCHANGED vars
  BY <1>1 DEF vars, SoleInOrder, SoleCall
<1>2. CASE Next
  <2>1. PICK c \in Conns : StepOf(c)
    BY <1>2 DEF Next, StepOf
  <2>2. SUFFICES SoleCall(c)'
    BY DEF SoleConnection, SoleInOrder
  <2>3. CASE pc'[c] \notin {"insert", "get_detail"}
    BY <2>3 DEF SoleCall
  <2>4. CASE pc' = [pc EXCEPT ![c] = "insert"] /\ op'[c].name = "insert"
    BY <2>4 DEF SoleCall, IInv, TypeOK
  <2>5. ASSUME StartCall(c) PROVE SoleCall(c)'
    <3>1. CASE insert_activity(c)
      <4>1. op'[c].name = "insert"
        BY <3>1 DEF insert_activity, Begin, NewCall, IInv, TypeOK
      <4> QED BY <2>4, <3>1, <4>1 DEF insert_activity, Begin
    <3>2. CASE ~insert_activity(c)
      <4>1. pc'[c] \in {"update", "delete", "exists", "untag", "get_type", "idle"}
        BY <2>5, <3>2 DEF StartCall, update_activity, upsert_activity, delete_activity_by_id,
           add_tags, remove_tags, get_activity_by_id, get_tags, get_activities, Begin,
           IInv, TypeOK
      <4> QED BY <2>3, <4>1
    <3> QED BY <3>1, <3>2
  <2>6. ASSUME UpdateMisses(c) PROVE SoleCall(c)'
    <3>1. pc[c] = "update" /\ Seen(c) = db /\ db' = db
      BY <2>6, FirstSeesFile DEF UpdateMisses, Return
    <3>2. CASE Return(c, "NotFound")
      BY <2>3, <3>2 DEF Return, IInv, TypeOK
    <3>3. CASE op' = op /\ pc' = [pc EXCEPT ![c] = "insert"]
      BY <2>6, <3>1, <3>3 DEF UpdateMisses, SoleCall, IInv, TypeOK, HasType, Exists
    <3> QED BY <2>6, <3>2, <3>3 DEF UpdateMisses
  <2>7. ASSUME GetType(c) PROVE SoleCall(c)'
    <3>1. CASE Return(c, "None")
      BY <2>3, <3>1 DEF Return, IInv, TypeOK
    <3>2. CASE ~Return(c, "None")
      <4> DEFINE call == [op[c] EXCEPT !.type = db.activities[op[c].id].activity_type]
      <4>1. /\ Exists(db, op[c].id) /\ db' = db /\ pc' = [pc EXCEPT ![c] = "get_detail"]
            /\ op' = [op EXCEPT ![c] = call] /\ op[c] \in Call
        BY <2>7, <3>2 DEF GetType, IInv, TransactionInOrder, ConnInOrder
      <4>2. call.id = op[c].id /\ call.type = db.activities[op[c].id].activity_type
        BY <4>1 DEF Call
      <4> HIDE DEF call
      <4>3. pc'[c] = "get_detail" /\ op'[c] = call
        BY <4>1 DEF IInv, TypeOK
      <4> QED BY <4>1, <4>2, <4>3 DEF SoleCall, HasType, Exists
    <3> QED BY <3>1, <3>2
  <2>8. ASSUME (Advance(c) \/ StatementFails(c) \/ Crash(c)), ~UpdateMisses(c), ~GetType(c)
        PROVE  SoleCall(c)'
    <3>1. pc'[c] \notin {"insert", "get_detail"}
      <4>1. CASE \E o : Return(c, o)
        BY <4>1 DEF Return, IInv, TypeOK
      <4>2. CASE \E d : \E step \in {"insert_detail", "update_detail", "tag", "untag", "commit"} :
                   Execute(c, d, step)
        BY <4>2 DEF Execute, IInv, TypeOK
      <4>3. ASSUME \/ InsertActivity(c) \/ InsertDetail(c) \/ UpdateActivity(c) \/ UpdateDetail(c)
                   \/ DeleteActivity(c) \/ AddTag(c) \/ RemoveTag(c)
            PROVE  \E d : \E step \in {"insert_detail", "update_detail", "tag", "untag", "commit"} :
                     Execute(c, d, step)
        BY <4>3 DEF InsertActivity, InsertDetail, UpdateActivity, UpdateDetail, DeleteActivity,
           AddTag, RemoveTag
      <4>4. CASE CheckExists(c) \/ TagsDone(c) \/ Commit(c)
        BY <4>1, <4>4 DEF CheckExists, TagsDone, Commit, IInv, TypeOK
      <4> QED BY <2>8, <4>1, <4>2, <4>3, <4>4, OtherStepsReturn DEF Advance
    <3> QED BY <2>3, <3>1
  <2> QED BY <2>1, <2>5, <2>6, <2>7, <2>8 DEF StepOf
<1> QED BY <1>1, <1>2

LEMMA SoleAlwaysInOrder ==
    ASSUME SoleConnection
    PROVE  Spec => []SoleInOrder
<1>1. Init => SoleInOrder
  BY DEF Init, SoleInOrder, SoleCall
<1>2. IInv /\ CallsInOrder /\ SoleInOrder /\ [Next]_vars => SoleInOrder'
  BY SoleNext
<1> QED BY <1>1, <1>2, AlwaysInOrder, CallsAlwaysInOrder, PTL DEF Spec

\* On one connection get_activity_by_id always finds the detail row of the type
\* it has just read, although it reads the two in separate statements.
THEOREM GetByIdNeverFailsHolds ==
    ASSUME SoleConnection
    PROVE  Spec => []GetByIdNeverFails
<1>1. Init => GetByIdNeverFails
  BY DEF Init, GetByIdNeverFails
<1>2. IInv /\ SoleInOrder /\ GetByIdNeverFails /\ [Next]_vars => GetByIdNeverFails'
  <2> SUFFICES ASSUME IInv, SoleInOrder, GetByIdNeverFails, [Next]_vars
               PROVE  GetByIdNeverFails'
    OBVIOUS
  <2>1. ASSUME NEW c \in Conns, NEW o, o # "RetrievalError", ret' = [ret EXCEPT ![c] = o]
        PROVE  GetByIdNeverFails'
    BY <2>1 DEF GetByIdNeverFails, IInv, TypeOK
  <2>2. CASE UNCHANGED ret
    BY <2>2 DEF GetByIdNeverFails
  <2>3. ASSUME NEW c \in Conns, GetDetail(c) PROVE GetByIdNeverFails'
    <3>1. Exists(db, op[c].id) /\ db.detail[op[c].type][op[c].id] # NoRow
      <4>1. pc[c] = "get_detail" /\ op[c] \in Call
        BY <2>3 DEF GetDetail, IInv, TransactionInOrder, ConnInOrder
      <4>2. op[c].id \in Ids /\ op[c].type \in ActivityType
        BY <4>1 DEF Call
      <4>3. HasType(db, op[c].id, op[c].type)
        BY <4>1 DEF SoleInOrder, SoleCall
      <4>4. DetailMatchesTypeAt(db, op[c].id)
        BY <4>2 DEF IInv, TransactionInOrder, Consistent
      <4> QED BY <4>2, <4>3, <4>4 DEF DetailMatchesTypeAt, HasType
    <3> QED BY <2>1, <2>3, <3>1 DEF GetDetail, Return
  <2>4. ASSUME NEW c \in Conns, StepOf(c), ~GetDetail(c) PROVE GetByIdNeverFails'
    <3>1. \/ UNCHANGED ret
          \/ \E o : o # "RetrievalError" /\ ret' = [ret EXCEPT ![c] = o]
      BY <2>4 DEF StepOf, StartCall, insert_activity, update_activity, upsert_activity,
         delete_activity_by_id, add_tags, remove_tags, get_activity_by_id, get_tags,
         get_activities, Begin, StatementFails, Crash,
         Advance, InsertEmptyId, InsertActivity, InsertActivityFails, InsertDetail,
         InsertDetailFails, UpdateActivity, UpdateActivityFails, UpdateMisses, UpdateDetail,
         UpdateDetailFails, DeleteActivity, CheckExists, AddTag, AddTagFails, RemoveTag,
         TagsDone, GetType, GetTags, Commit, BusyTimeout, Execute, Return
    <3> QED BY <2>1, <2>2, <3>1
  <2> QED BY <2>2, <2>3, <2>4 DEF Next, StepOf, vars
<1> QED BY <1>1, <1>2, AlwaysInOrder, SoleAlwaysInOrder, PTL DEF Spec

\* The steps of an upsert that can end it with a data error, and what each says
\* about the payload or the file.
LEMMA UpsertRefused ==
    ASSUME IInv, CallsInOrder, SoleInOrder, NEW c \in Conns, [Next]_vars, SoleConnection,
           op[c] # NoCall, op[c].name = "upsert", WellFormed(op[c].payload),
           ret'[c] \in {"DataError", "InsertError", "NotFound"}
    PROVE  \/ RefusesId(c)
           \/ Exists(db, op[c].id) /\ ~HasType(db, op[c].id, op[c].payload.activity_type)
<1> DEFINE p == op[c].payload
<1>1. pc[c] # "idle" /\ ret[c] = "none"
  BY DEF CallsInOrder, CallInOrder, StepOfCall
<1>2. StepOf(c)
  BY <1>1 DEF Next, StepOf, vars, SoleConnection
<1>3. pc[c] \notin {"delete", "exists", "tag", "untag", "get_type", "get_detail", "get_tags"}
  BY DEF CallsInOrder, CallInOrder, StepOfCall
<1>4. op[c] \in Call /\ db \in Database
  BY <1>1 DEF IInv, TypeOK, TransactionInOrder, ConnInOrder
<1>5. ASSUME pc[c] \in {"insert_detail", "update_detail"} PROVE DetailOK(Seen(c), op[c].id, p)
  <2>1. writer = c /\ Seen(c) = work
    BY <1>5 DEF IInv, TransactionInOrder, ConnInOrder, Seen
  <2>2. \E now : work \in {InsertActivityRow(db, op[c].id, p, now),
                            UpdateActivityRow(db, op[c].id, p, now)}
    BY <1>5, <2>1 DEF CallsInOrder, CallInOrder, WorkOfCall
  <2> QED BY <1>4, <2>1, <2>2, TriggerComparesPayload DEF WellFormed, Call
<1>6. CASE pc[c] = "insert"
  <2>1. Seen(c) = db /\ ~HasType(db, op[c].id, p.activity_type)
    BY <1>6, FirstSeesFile DEF SoleInOrder, SoleCall
  <2>2. \/ InsertEmptyId(c) \/ InsertActivityFails(c)
    <3>1. \A o : Return(c, o) => ret'[c] = o
      BY DEF Return, IInv, TypeOK
    <3>2. ~InsertActivity(c)
      BY <1>1 DEF InsertActivity, Execute
    <3> QED BY <1>2, <1>6, <3>1, <3>2 DEF StepOf, StartCall, insert_activity, update_activity,
         upsert_activity, delete_activity_by_id, add_tags, remove_tags, get_activity_by_id,
         get_tags, get_activities, Begin, StatementFails, Crash, Advance, InsertDetail,
         InsertDetailFails, UpdateActivity, UpdateActivityFails, UpdateMisses, UpdateDetail,
         UpdateDetailFails, DeleteActivity, CheckExists, AddTag, AddTagFails, RemoveTag,
         TagsDone, GetType, GetDetail, GetTags, Commit, BusyTimeout
  <2> QED BY <2>1, <2>2 DEF InsertEmptyId, InsertActivityFails, InsertActivityOK, WellFormed
<1>7. CASE pc[c] # "insert"
  <2>1. \A o : Return(c, o) => ret'[c] = o
    BY DEF Return, IInv, TypeOK
  <2>2. UNCHANGED ret \/ ret'[c] \in {"SqliteError", "none", "Ok", "true", "false"}
    <3>1. CASE Commit(c)
      BY <3>1 DEF Commit, IInv, TypeOK
    <3>2. CASE ~Commit(c)
      BY <1>1, <1>2, <1>3, <1>5, <1>7, <2>1, <3>2 DEF StepOf, StartCall, insert_activity,
         update_activity, upsert_activity, delete_activity_by_id, add_tags, remove_tags,
         get_activity_by_id, get_tags, get_activities, Begin, StatementFails, Crash, Advance,
         InsertEmptyId, InsertActivity, InsertActivityFails, InsertDetail,
         InsertDetailFails, UpdateActivity, UpdateActivityFails, UpdateMisses, UpdateDetail,
         UpdateDetailFails, DeleteActivity, CheckExists, AddTag, AddTagFails, RemoveTag,
         TagsDone, GetType, GetDetail, GetTags, BusyTimeout, Execute, WellFormed
    <3> QED BY <3>1, <3>2
  <2> QED BY <1>1, <2>2
<1> QED BY <1>6, <1>7

\* On one connection an upsert of a well-formed activity is refused only for the
\* type of the activity that already has its id, or for the empty id.
THEOREM UpsertSettlesHolds ==
    ASSUME SoleConnection
    PROVE  Spec => UpsertSettles
<1>1. IInv /\ CallsInOrder /\ SoleInOrder /\ [Next]_vars =>
        [\A c \in Conns :
           (/\ op[c] # NoCall /\ op[c].name = "upsert" /\ WellFormed(op[c].payload)
            /\ ret'[c] \in {"DataError", "InsertError", "NotFound"})
           => \/ RefusesId(c)
              \/ Exists(db, op[c].id) /\ ~HasType(db, op[c].id, op[c].payload.activity_type)
        ]_vars
  BY UpsertRefused
<1> QED BY <1>1, AlwaysInOrder, CallsAlwaysInOrder, SoleAlwaysInOrder, PTL DEF Spec, UpsertSettles
=============================================================================
