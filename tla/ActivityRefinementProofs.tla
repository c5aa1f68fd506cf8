---------------------- MODULE ActivityRefinementProofs ----------------------
(***************************************************************************)
(* ActivityDB implements ActivityStore, for any connections, ids, tags and *)
(* payloads: the commit of a call is the instant at which it takes effect. *)
(***************************************************************************)
EXTENDS ActivityRefinement, ActivityDBProofs

-----------------------------------------------------------------------------
(* What the join shows of each change of the tables                        *)

\* An activity of a consistent file joins to an entry, never to nothing.
LEMMA JoinedPresent ==
    ASSUME NEW d \in Database, Consistent(d), NEW id \in Ids
    PROVE  /\ (Joined(d, id) = NoRow) <=> ~Exists(d, id)
           /\ Exists(d, id) =>
                 /\ Joined(d, id).activity_type = d.activities[id].activity_type
                 /\ Joined(d, id).created_at = d.activities[id].created_at
<1>1. CASE ~Exists(d, id)
  BY <1>1 DEF Joined
<1>2. CASE Exists(d, id)
  <2> DEFINE a == d.activities[id]
             r == d.detail[a.activity_type][id]
  <2>1. a \in ActivityRow
    BY <1>2 DEF Exists, Database
  <2>2. a.activity_type \in ActivityType
    BY <2>1 DEF ActivityRow
  <2>3. r # NoRow
    BY <1>2, <2>2 DEF Consistent, DetailMatchesTypeAt, HasType
  <2>4. r \in DetailRow
    BY <2>2, <2>3 DEF Database
  <2>5. Joined(d, id) = [activity_type |-> a.activity_type, tx_type |-> a.tx_type,
              timestamp |-> a.timestamp, confirm_timestamp |-> r.confirm_timestamp,
              content |-> r.content, created_at |-> a.created_at]
    BY <1>2 DEF Joined
  <2> HIDE DEF a, r
  <2>6. Joined(d, id) \in [activity_type: ActivityType, tx_type: PaymentType, timestamp: Nat,
              confirm_timestamp: Nat \cup {NoTime}, content: Content, created_at: Clock]
    BY <2>1, <2>4, <2>5 DEF ActivityRow, DetailRow
  <2> QED BY <1>2, <2>5, <2>6, AbsentAssumption DEF a
<1> QED BY <1>1, <1>2

\* The join depends on the rows of its id only.
LEMMA JoinedSame ==
    ASSUME NEW d \in Database, NEW e, NEW i \in Ids, SameAt(d, e, i)
    PROVE  Joined(e, i) = Joined(d, i)
<1>1. Exists(d, i) => d.activities[i].activity_type \in ActivityType
  BY DEF Exists, Database, ActivityRow
<1> QED BY <1>1 DEF SameAt, Joined, Exists

LEMMA JoinedCreated ==
    ASSUME NEW d \in Database, NEW id \in Ids, NEW p \in Payloads, NEW now \in Clock
    PROVE  LET e == Created(d, id, p, now)
           IN  /\ Joined(e, id) = Store!Entry(p, now)
               /\ \A i \in Ids \ {id} : Joined(e, i) = Joined(d, i)
               /\ e.tags = d.tags
<1> DEFINE e == Created(d, id, p, now)
           a == [activity_type |-> p.activity_type, tx_type |-> p.tx_type,
                 timestamp |-> p.timestamp, created_at |-> now, updated_at |-> now]
           r == [confirm_timestamp |-> p.confirm_timestamp, content |-> p.content]
           u == p.activity_type
<1>1. u \in ActivityType /\ a \in ActivityRow
  BY PayloadsAssumption DEF PayloadType, ActivityRow
<1>2. /\ e.activities = [d.activities EXCEPT ![id] = a]
      /\ e.detail = [d.detail EXCEPT ![u] = [d.detail[u] EXCEPT ![id] = r]]
      /\ e.tags = d.tags
  BY <1>1 DEF Created, WriteDetailRow, InsertActivityRow, Database
<1>3. a # NoRow /\ a.activity_type = u
  BY <1>1, NoRowAssumption
<1>4. e.activities[id] = a /\ e.detail[u][id] = r
  BY <1>1, <1>2 DEF Database
<1>5. Joined(e, id) = Store!Entry(p, now)
  <2>1. Joined(e, id) = [activity_type |-> a.activity_type, tx_type |-> a.tx_type,
              timestamp |-> a.timestamp, confirm_timestamp |-> r.confirm_timestamp,
              content |-> r.content, created_at |-> a.created_at]
    <3> HIDE DEF a, r, e
    <3> QED BY <1>3, <1>4 DEF Joined, Exists
  <2> QED BY <1>3, <2>1 DEF Store!Entry
<1>6. ASSUME NEW i \in Ids \ {id} PROVE Joined(e, i) = Joined(d, i)
  <2>1. SameAt(d, e, i)
    BY <1>1, <1>2 DEF SameAt, Database
  <2> QED BY <2>1, JoinedSame
<1> QED BY <1>2, <1>5, <1>6

LEMMA JoinedReplaced ==
    ASSUME NEW d \in Database, NEW id \in Ids, NEW p \in Payloads, NEW now \in Clock,
           HasType(d, id, p.activity_type)
    PROVE  LET e == Replaced(d, id, p, now)
           IN  /\ Joined(e, id) = Store!Entry(p, d.activities[id].created_at)
               /\ \A i \in Ids \ {id} : Joined(e, i) = Joined(d, i)
               /\ e.tags = d.tags
<1> DEFINE e == Replaced(d, id, p, now)
           a == [activity_type |-> d.activities[id].activity_type, tx_type |-> p.tx_type,
                 timestamp |-> p.timestamp,
                 created_at |-> d.activities[id].created_at, updated_at |-> now]
           r == [confirm_timestamp |-> p.confirm_timestamp, content |-> p.content]
           u == p.activity_type
<1>1. d.activities[id] \in ActivityRow /\ d.activities[id].activity_type = u
  BY DEF HasType, Exists, Database
<1>2. u \in ActivityType /\ a \in ActivityRow
  BY <1>1, PayloadsAssumption DEF PayloadType, ActivityRow
<1>3. /\ e.activities = [d.activities EXCEPT ![id] = a]
      /\ e.detail = [d.detail EXCEPT ![u] = [d.detail[u] EXCEPT ![id] = r]]
      /\ e.tags = d.tags
  BY <1>2 DEF Replaced, WriteDetailRow, UpdateActivityRow, Database
<1>4. a # NoRow /\ a.activity_type = u
  BY <1>1, <1>2, NoRowAssumption
<1>5. e.activities[id] = a /\ e.detail[u][id] = r
  BY <1>2, <1>3 DEF Database
<1>6. Joined(e, id) = Store!Entry(p, d.activities[id].created_at)
  <2>1. Joined(e, id) = [activity_type |-> a.activity_type, tx_type |-> a.tx_type,
              timestamp |-> a.timestamp, confirm_timestamp |-> r.confirm_timestamp,
              content |-> r.content, created_at |-> a.created_at]
    <3> HIDE DEF a, r, e
    <3> QED BY <1>4, <1>5 DEF Joined, Exists
  <2> QED BY <1>4, <2>1 DEF Store!Entry
<1>7. ASSUME NEW i \in Ids \ {id} PROVE Joined(e, i) = Joined(d, i)
  <2>1. SameAt(d, e, i)
    BY <1>2, <1>3 DEF SameAt, Database
  <2> QED BY <2>1, JoinedSame
<1> QED BY <1>3, <1>6, <1>7

LEMMA JoinedDeleted ==
    ASSUME NEW d \in Database, NEW id \in Ids
    PROVE  LET e == DeleteActivityRow(d, id)
           IN  /\ Joined(e, id) = NoRow
               /\ \A i \in Ids \ {id} : Joined(e, i) = Joined(d, i)
               /\ e.tags = {x \in d.tags : x[1] # id}
<1> DEFINE e == DeleteActivityRow(d, id)
<1>1. Joined(e, id) = NoRow
  BY DEF DeleteActivityRow, Joined, Exists, Database
<1>2. ASSUME NEW i \in Ids \ {id} PROVE Joined(e, i) = Joined(d, i)
  <2>1. SameAt(d, e, i)
    BY DEF DeleteActivityRow, SameAt, Database
  <2> QED BY <2>1, JoinedSame
<1>3. e.tags = {x \in d.tags : x[1] # id}
  BY DEF DeleteActivityRow
<1> QED BY <1>1, <1>2, <1>3

LEMMA JoinedTagged ==
    ASSUME NEW d \in Database, NEW id \in Ids, NEW ts
    PROVE  /\ \A i \in Ids : Joined(Tagged(d, id, ts), i) = Joined(d, i)
           /\ \A i \in Ids : Joined(Untagged(d, id, ts), i) = Joined(d, i)
           /\ Tagged(d, id, ts).tags = d.tags \cup ({id} \X ts)
           /\ Untagged(d, id, ts).tags = d.tags \ ({id} \X ts)
<1>1. ASSUME NEW i \in Ids
      PROVE  SameAt(d, Tagged(d, id, ts), i) /\ SameAt(d, Untagged(d, id, ts), i)
  BY DEF SameAt, Tagged, Untagged, Database
<1>2. /\ Tagged(d, id, ts).tags = d.tags \cup ({id} \X ts)
      /\ Untagged(d, id, ts).tags = d.tags \ ({id} \X ts)
  BY DEF Tagged, Untagged, Database
<1> QED BY <1>1, <1>2, JoinedSame

-----------------------------------------------------------------------------
(* Every step is a step of the store, or none                              *)

\* How an outcome is reported.
ReportOf(o) ==
    CASE o \in {"none", "true", "false"}  -> o
      [] o \in {"Ok", "Some", "None"}     -> "ok"
      [] OTHER                            -> "refused"

\* A connection in a call has a request, an idle one has none.
LEMMA RequestedPresent ==
    ASSUME IInv, NEW c \in Conns
    PROVE  /\ pc[c] = "idle" => Requested(c) = NoRow
           /\ pc[c] # "idle" =>
                 /\ Requested(c) # NoRow
                 /\ Requested(c) = [name |-> op[c].name, id |-> op[c].id,
                                    payload |-> op[c].payload, tags |-> op[c].tags]
<1>1. ASSUME pc[c] # "idle"
      PROVE  [name |-> op[c].name, id |-> op[c].id,
              payload |-> op[c].payload, tags |-> op[c].tags] # NoRow
  <2>1. op[c] \in Call
    BY <1>1 DEF IInv, TransactionInOrder, ConnInOrder
  <2> QED BY <2>1, AbsentAssumption DEF Call
<1> QED BY <1>1 DEF Requested

\* The end of a call is an answer of the store.
LEMMA EndIsAnswer ==
    ASSUME IInv, NEW c \in Conns, pc[c] # "idle", NEW o,
           pc' = [pc EXCEPT ![c] = "idle"], op' = [op EXCEPT ![c] = NoCall],
           ret' = [ret EXCEPT ![c] = o]
    PROVE  Store!Answer(c, ReportOf(o))
<1>1. [x \in Conns |-> Requested(x)][c] # NoRow
  BY RequestedPresent
<1>2. [x \in Conns |-> Requested(x)'] = [[x \in Conns |-> Requested(x)] EXCEPT ![c] = NoRow]
  <2>1. ASSUME NEW x \in Conns \ {c} PROVE Requested(x)' = Requested(x)
    BY DEF Requested, IInv, TypeOK
  <2>2. Requested(c)' = NoRow
    BY DEF Requested, IInv, TypeOK
  <2> QED BY <2>1, <2>2
<1>3. [x \in Conns |-> Reported(x)'] = [[x \in Conns |-> Reported(x)] EXCEPT ![c] = ReportOf(o)]
  <2>1. ASSUME NEW x \in Conns \ {c} PROVE Reported(x)' = Reported(x)
    BY DEF Reported, IInv, TypeOK
  <2>2. Reported(c)' = ReportOf(o)
    BY DEF Reported, ReportOf, IInv, TypeOK
  <2> QED BY <2>1, <2>2
<1> QED BY <1>1, <1>2, <1>3 DEF Store!Answer

\* A return leaves the store alone: it refuses, or answers a read.
LEMMA ReturnRefines ==
    ASSUME IInv, NEW c \in Conns, pc[c] # "idle", NEW o, Return(c, o),
           \/ o \in {"none", "SqliteError", "NotFound", "DataError", "InsertError", "RetrievalError"}
           \/ o \in {"Ok", "Some", "None"} /\ op[c].name \in {"get_by_id", "get_tags"}
    PROVE  Store!Refuse(c) \/ Store!Read(c)
<1>1. Store!Answer(c, ReportOf(o))
  BY EndIsAnswer DEF Return
<1>2. /\ [id \in Ids |-> Joined(db, id)]' = [id \in Ids |-> Joined(db, id)]
      /\ db'.tags = db.tags
  BY DEF Return
<1>3. CASE o \in {"none", "SqliteError", "NotFound", "DataError", "InsertError", "RetrievalError"}
  <2>1. ReportOf(o) \in {"refused", "none"}
    BY <1>3 DEF ReportOf
  <2> QED BY <1>1, <1>2, <2>1 DEF Store!Refuse
<1>4. CASE o \in {"Ok", "Some", "None"} /\ op[c].name \in {"get_by_id", "get_tags"}
  <2>1. ReportOf(o) = "ok"
    BY <1>4 DEF ReportOf
  <2>2. Requested(c) # NoRow /\ Requested(c).name = op[c].name
    BY RequestedPresent
  <2> QED BY <1>1, <1>2, <1>4, <2>1, <2>2 DEF Store!Read
<1> QED BY <1>3, <1>4

\* A step inside a call does not show.
LEMMA InnerStutters ==
    ASSUME IInv, NEW c \in Conns, pc[c] # "idle", NEW step, step # "idle", NEW call,
           pc' = [pc EXCEPT ![c] = step], op' = [op EXCEPT ![c] = call],
           call.name = op[c].name, call.id = op[c].id,
           call.payload = op[c].payload, call.tags = op[c].tags,
           UNCHANGED <<db, ret>>
    PROVE  UNCHANGED Store!storeVars
<1>1. ASSUME NEW x \in Conns PROVE Requested(x)' = Requested(x) /\ Reported(x)' = Reported(x)
  <2>1. CASE x = c
    BY <2>1 DEF Requested, Reported, IInv, TypeOK
  <2>2. CASE x # c
    BY <2>2 DEF Requested, Reported, IInv, TypeOK
  <2> QED BY <2>1, <2>2
<1> QED BY <1>1 DEF Store!storeVars

\* A call begins.
LEMMA BeginRefines ==
    ASSUME IInv, NEW c \in Conns, NEW name, NEW id, NEW p, NEW tags, NEW step, step # "idle",
           Begin(c, name, id, p, tags, step),
           [name |-> name, id |-> id, payload |-> p, tags |-> tags] \in Store!Request
    PROVE  Store!Submit(c)
<1>1. [x \in Conns |-> Requested(x)][c] = NoRow
  BY DEF Requested, Begin
<1>2. [x \in Conns |-> Requested(x)'] = [[x \in Conns |-> Requested(x)] EXCEPT ![c] =
          [name |-> name, id |-> id, payload |-> p, tags |-> tags]]
  <2>1. ASSUME NEW x \in Conns \ {c} PROVE Requested(x)' = Requested(x)
    BY DEF Requested, Begin, IInv, TypeOK
  <2>2. Requested(c)' = [name |-> name, id |-> id, payload |-> p, tags |-> tags]
    BY DEF Requested, Begin, NewCall, IInv, TypeOK
  <2> QED BY <2>1, <2>2
<1>3. [x \in Conns |-> Reported(x)'] = [[x \in Conns |-> Reported(x)] EXCEPT ![c] = "none"]
  <2>1. ASSUME NEW x \in Conns \ {c} PROVE Reported(x)' = Reported(x)
    BY DEF Reported, Begin, IInv, TypeOK
  <2>2. Reported(c)' = "none"
    BY DEF Reported, Begin, IInv, TypeOK
  <2> QED BY <2>1, <2>2
<1>4. db' = db
  BY DEF Begin
<1> QED BY <1>1, <1>2, <1>3, <1>4 DEF Store!Submit

LEMMA StartCallRefines ==
    ASSUME IInv, NEW c \in Conns, StartCall(c)
    PROVE  Store!Submit(c) \/ Store!ReadAll(c)
<1>1. CASE get_activities(c)
  <2>1. \A id \in Ids : Exists(db, id) => db.detail[db.activities[id].activity_type][id] # NoRow
    BY DEF IInv, TypeOK, Database, ActivityRow, TransactionInOrder, Consistent,
           DetailMatchesTypeAt, HasType, Exists
  <2>2. ret' = [ret EXCEPT ![c] = "Ok"] /\ UNCHANGED <<db, pc, op>> /\ pc[c] = "idle"
    BY <1>1, <2>1 DEF get_activities
  <2>3. [x \in Conns |-> Reported(x)'] = [[x \in Conns |-> Reported(x)] EXCEPT ![c] = "ok"]
    <3>1. ASSUME NEW x \in Conns \ {c} PROVE Reported(x)' = Reported(x)
      BY <2>2 DEF Reported, IInv, TypeOK
    <3>2. Reported(c)' = "ok"
      BY <2>2 DEF Reported, IInv, TypeOK
    <3> QED BY <3>1, <3>2
  <2>4. [x \in Conns |-> Requested(x)]' = [x \in Conns |-> Requested(x)] /\ Requested(c) = NoRow
    BY <2>2 DEF Requested
  <2> QED BY <2>2, <2>3, <2>4 DEF Store!ReadAll
<1>2. CASE ~get_activities(c)
  <2>1. \A id \in Ids, p \in Payloads, name \in {"insert", "update", "upsert"} :
          [name |-> name, id |-> id, payload |-> p, tags |-> {}] \in Store!Request
    BY DEF Store!Request
  <2>2. \A id \in Ids, name \in {"delete", "get_by_id", "get_tags"} :
          [name |-> name, id |-> id, payload |-> NoRow, tags |-> {}] \in Store!Request
    BY DEF Store!Request
  <2>3. \A id \in Ids, ts \in SUBSET Tags, name \in {"add_tags", "remove_tags"} :
          [name |-> name, id |-> id, payload |-> NoRow, tags |-> ts] \in Store!Request
    BY DEF Store!Request
  <2> QED BY <1>2, <2>1, <2>2, <2>3, BeginRefines DEF StartCall, insert_activity,
        update_activity, upsert_activity, delete_activity_by_id, add_tags, remove_tags,
        get_activity_by_id, get_tags
<1> QED BY <1>1, <1>2

\* The statements inside a transaction, the reads that come first, the ends of
\* the loops and the second attempt of an upsert do not show.
LEMMA InnerStepsStutter ==
    ASSUME IInv, CallsInOrder, NEW c \in Conns,
           \/ InsertActivity(c) \/ InsertDetail(c) \/ UpdateActivity(c) \/ UpdateDetail(c)
           \/ DeleteActivity(c) \/ AddTag(c) \/ RemoveTag(c) \/ TagsDone(c)
    PROVE  UNCHANGED Store!storeVars
<1>1. pc[c] # "idle" /\ op[c] \in Call
  BY DEF InsertActivity, InsertDetail, UpdateActivity, UpdateDetail, DeleteActivity,
         AddTag, RemoveTag, TagsDone, IInv, TransactionInOrder, ConnInOrder
<1>2. UNCHANGED op => op' = [op EXCEPT ![c] = op[c]]
  BY DEF IInv, TypeOK
<1>3. CASE InsertActivity(c) \/ InsertDetail(c) \/ UpdateActivity(c) \/ UpdateDetail(c)
           \/ TagsDone(c)
  <2>1. /\ \E step : step # "idle" /\ pc' = [pc EXCEPT ![c] = step]
        /\ UNCHANGED <<db, ret, op>>
    BY <1>3 DEF InsertActivity, InsertDetail, UpdateActivity, UpdateDetail, TagsDone, Execute
  <2> QED BY <1>1, <1>2, <2>1, InnerStutters
<1>4. CASE DeleteActivity(c)
  <2> DEFINE call == [op[c] EXCEPT !.rows = Exists(Seen(c), op[c].id)]
  <2>1. /\ op' = [op EXCEPT ![c] = call] /\ pc' = [pc EXCEPT ![c] = "commit"]
        /\ UNCHANGED <<db, ret>>
    BY <1>4 DEF DeleteActivity, Execute
  <2>2. /\ call.name = op[c].name /\ call.id = op[c].id
        /\ call.payload = op[c].payload /\ call.tags = op[c].tags
    BY <1>1 DEF Call
  <2> HIDE DEF call
  <2> QED BY <1>1, <2>1, <2>2, InnerStutters
<1>5. CASE AddTag(c) \/ RemoveTag(c)
  <2>1. PICK t \in op[c].left : op' = [op EXCEPT ![c].left = @ \ {t}]
    BY <1>5 DEF AddTag, RemoveTag
  <2> DEFINE call == [op[c] EXCEPT !.left = @ \ {t}]
  <2>2. /\ op' = [op EXCEPT ![c] = call] /\ UNCHANGED <<db, ret>>
        /\ \E step : step # "idle" /\ pc' = [pc EXCEPT ![c] = step]
    BY <1>5, <2>1 DEF AddTag, RemoveTag, Execute
  <2>3. /\ call.name = op[c].name /\ call.id = op[c].id
        /\ call.payload = op[c].payload /\ call.tags = op[c].tags
    BY <1>1 DEF Call
  <2> HIDE DEF call
  <2> QED BY <1>1, <2>2, <2>3, InnerStutters
<1> QED BY <1>3, <1>4, <1>5

\* The steps that return or go on, by what they find.
LEMMA ReadStepsRefine ==
    ASSUME IInv, CallsInOrder, NEW c \in Conns,
           CheckExists(c) \/ GetType(c) \/ GetDetail(c) \/ GetTags(c) \/ UpdateMisses(c)
    PROVE  Store!Refuse(c) \/ Store!Read(c) \/ UNCHANGED Store!storeVars
<1>1. pc[c] # "idle" /\ op[c] \in Call
  BY DEF CheckExists, GetType, GetDetail, GetTags, UpdateMisses, IInv, TransactionInOrder,
         ConnInOrder
<1>2. UNCHANGED op => op' = [op EXCEPT ![c] = op[c]]
  BY DEF IInv, TypeOK
<1>3. CASE CheckExists(c)
  <2>1. op[c].name \in {"add_tags", "get_tags"}
    BY <1>3 DEF CheckExists, CallsInOrder, CallInOrder, StepOfCall
  <2>2. CASE /\ pc' = [pc EXCEPT ![c] = IF op[c].name = "add_tags" THEN "tag" ELSE "get_tags"]
             /\ UNCHANGED <<db, writer, work, op, ret>>
    BY <1>1, <1>2, <2>2, InnerStutters
  <2>3. CASE Return(c, IF op[c].name = "add_tags" THEN "DataError" ELSE "Ok")
    BY <1>1, <2>1, <2>3, ReturnRefines
  <2> QED BY <1>3, <2>2, <2>3 DEF CheckExists
<1>4. CASE GetType(c)
  <2>1. op[c].name = "get_by_id"
    BY <1>4 DEF GetType, CallsInOrder, CallInOrder, StepOfCall
  <2>2. CASE Return(c, "None")
    BY <1>1, <2>1, <2>2, ReturnRefines
  <2>3. CASE ~Return(c, "None")
    <3> DEFINE call == [op[c] EXCEPT !.type = db.activities[op[c].id].activity_type]
    <3>1. /\ op' = [op EXCEPT ![c] = call] /\ pc' = [pc EXCEPT ![c] = "get_detail"]
          /\ UNCHANGED <<db, ret>>
      BY <1>4, <2>3 DEF GetType
    <3>2. /\ call.name = op[c].name /\ call.id = op[c].id
          /\ call.payload = op[c].payload /\ call.tags = op[c].tags
      BY <1>1 DEF Call
    <3> HIDE DEF call
    <3> QED BY <1>1, <3>1, <3>2, InnerStutters
  <2> QED BY <2>2, <2>3
<1>5. CASE GetDetail(c)
  <2>1. op[c].name = "get_by_id"
    BY <1>5 DEF GetDetail, CallsInOrder, CallInOrder, StepOfCall
  <2>2. Return(c, "Some") \/ Return(c, "None") \/ Return(c, "RetrievalError")
    BY <1>5 DEF GetDetail
  <2> QED BY <1>1, <2>1, <2>2, ReturnRefines
<1>6. CASE GetTags(c)
  <2>1. op[c].name = "get_tags"
    BY <1>6 DEF GetTags, CallsInOrder, CallInOrder, StepOfCall
  <2> QED BY <1>1, <1>6, <2>1, ReturnRefines DEF GetTags
<1>7. CASE UpdateMisses(c)
  <2>1. CASE Return(c, "NotFound")
    BY <1>1, <2>1, ReturnRefines
  <2>2. CASE pc' = [pc EXCEPT ![c] = "insert"] /\ UNCHANGED <<db, op, ret>>
    BY <1>1, <1>2, <2>2, InnerStutters
  <2> QED BY <1>7, <2>1, <2>2 DEF UpdateMisses
<1> QED BY <1>3, <1>4, <1>5, <1>6, <1>7

\* Errors and failures refuse.
LEMMA FailuresRefine ==
    ASSUME IInv, NEW c \in Conns,
           \/ InsertEmptyId(c) \/ InsertActivityFails(c) \/ InsertDetailFails(c)
           \/ UpdateActivityFails(c) \/ UpdateDetailFails(c) \/ AddTagFails(c)
           \/ BusyTimeout(c) \/ StatementFails(c) \/ Crash(c)
    PROVE  Store!Refuse(c) \/ Store!Read(c)
<1>1. /\ pc[c] # "idle"
      /\ \E o \in {"none", "SqliteError", "DataError", "InsertError"} : Return(c, o)
  BY DEF InsertEmptyId, InsertActivityFails, InsertDetailFails, UpdateActivityFails,
         UpdateDetailFails, AddTagFails, BusyTimeout, Waits, WriteStep, StatementFails, Crash
<1> QED BY <1>1, ReturnRefines

\* Whoever commits without the write lock has been asked to add or remove no
\* tags; everyone else has written what the call asks for.
LEMMA CommitWrites ==
    ASSUME IInv, CallsInOrder, NEW c \in Conns, Commit(c)
    PROVE  LET id == op[c].id
               p  == op[c].payload
           IN  \/ /\ op[c].name \in {"insert", "upsert"}
                  /\ p \in Payloads /\ WellFormed(p) /\ ~Exists(db, id)
                  /\ \E now \in Clock : db' = Created(db, id, p, now)
               \/ /\ op[c].name \in {"update", "upsert"}
                  /\ p \in Payloads /\ WellFormed(p) /\ HasType(db, id, p.activity_type)
                  /\ \E now \in Clock : db' = Replaced(db, id, p, now)
               \/ /\ op[c].name = "delete"
                  /\ op[c].rows = Exists(db, id)
                  /\ db' = DeleteActivityRow(db, id)
               \/ /\ op[c].name = "add_tags"
                  /\ op[c].tags # {} => Exists(db, id)
                  /\ db' = Tagged(db, id, op[c].tags)
               \/ /\ op[c].name = "remove_tags"
                  /\ db' = Untagged(db, id, op[c].tags)
<1>1. pc[c] = "commit" /\ db \in Database
  BY DEF Commit, IInv, TypeOK
<1>2. op[c].name \in {"add_tags", "remove_tags"} => op[c].tags \ op[c].left = op[c].tags
  BY <1>1 DEF CallsInOrder, CallInOrder, LoopOfCall
<1>3. CASE writer = c
  <2>1. db' = work
    BY <1>3 DEF Commit, Seen
  <2> QED BY <1>1, <1>2, <1>3, <2>1 DEF CallsInOrder, CallInOrder, WorkOfCall
<1>4. CASE writer # c
  <2>1. db' = db
    BY <1>4 DEF Commit, Seen
  <2>2. op[c].name \in {"add_tags", "remove_tags"} /\ op[c].tags = {}
    BY <1>1, <1>4 DEF CallsInOrder, CallInOrder, LoopOfCall
  <2> QED BY <1>1, <2>1, <2>2, TaggedNone
<1> QED BY <1>3, <1>4

\* The commit is the instant at which the call takes effect.
LEMMA CommitRefines ==
    ASSUME IInv, CallsInOrder, NEW c \in Conns, Commit(c)
    PROVE  Store!Create(c) \/ Store!Replace(c) \/ Store!Delete(c) \/ Store!Tag(c) \/ Store!Untag(c)
<1> DEFINE id == op[c].id
           p  == op[c].payload
           store == [i \in Ids |-> Joined(db, i)]
           call == [x \in Conns |-> Requested(x)]
<1>0. pc' = [pc EXCEPT ![c] = "idle"] /\ op' = [op EXCEPT ![c] = NoCall]
  BY DEF Commit
<1>1. pc[c] = "commit" /\ op[c] \in Call /\ id \in Ids /\ db \in Database /\ Consistent(db)
  BY DEF Commit, IInv, TypeOK, TransactionInOrder, ConnInOrder, Call
<1>2. /\ call[c] # NoRow
      /\ call[c].name = op[c].name /\ call[c].id = id
      /\ call[c].payload = p /\ call[c].tags = op[c].tags
  BY <1>1, RequestedPresent
<1>3. ASSUME op[c].name # "delete" PROVE Store!Answer(c, "ok")
  <2>1. ret' = [ret EXCEPT ![c] = "Ok"]
    BY <1>3 DEF Commit
  <2>2. Store!Answer(c, ReportOf("Ok"))
    BY <1>0, <1>1, <2>1, EndIsAnswer
  <2>3. ReportOf("Ok") = "ok"
    BY DEF ReportOf
  <2> QED BY <2>2, <2>3
<1>4. /\ store[id] = Joined(db, id)
      /\ (store[id] = NoRow) <=> ~Exists(db, id)
      /\ Exists(db, id) => /\ store[id].activity_type = db.activities[id].activity_type
                           /\ store[id].created_at = db.activities[id].created_at
  BY <1>1, JoinedPresent
<1>5. ASSUME NEW e, \A i \in Ids \ {id} : Joined(db', i) = Joined(db, i), Joined(db', id) = e
      PROVE  [i \in Ids |-> Joined(db', i)] = [store EXCEPT ![id] = e]
  BY <1>1, <1>5
<1>6. ASSUME \A i \in Ids : Joined(db', i) = Joined(db, i)
      PROVE  [i \in Ids |-> Joined(db', i)] = store
  BY <1>6
<1>7. p \in Payloads /\ WellFormed(p) => Store!Acceptable(p)
  BY PayloadsAssumption, MaxIntegerAssumption DEF PayloadType, WellFormed, TimestampOK, Bindable,
     Store!Acceptable
<1>8. CASE /\ op[c].name \in {"insert", "upsert"}
           /\ p \in Payloads /\ WellFormed(p) /\ ~Exists(db, id)
           /\ \E now \in Clock : db' = Created(db, id, p, now)
  <2>1. PICK now \in Clock : db' = Created(db, id, p, now)
    BY <1>8
  <2>2. /\ Joined(db', id) = Store!Entry(p, now)
        /\ \A i \in Ids \ {id} : Joined(db', i) = Joined(db, i)
        /\ db'.tags = db.tags
    BY <1>1, <1>8, <2>1, JoinedCreated
  <2>3. [i \in Ids |-> Joined(db', i)] = [store EXCEPT ![id] = Store!Entry(p, now)]
    BY <1>5, <2>2
  <2> QED BY <1>2, <1>3, <1>4, <1>7, <1>8, <2>2, <2>3 DEF Store!Create
<1>9. CASE /\ op[c].name \in {"update", "upsert"}
           /\ p \in Payloads /\ WellFormed(p) /\ HasType(db, id, p.activity_type)
           /\ \E now \in Clock : db' = Replaced(db, id, p, now)
  <2>1. PICK now \in Clock : db' = Replaced(db, id, p, now)
    BY <1>9
  <2>2. /\ Exists(db, id) /\ db.activities[id].activity_type = p.activity_type
    BY <1>9 DEF HasType
  <2>3. /\ Joined(db', id) = Store!Entry(p, db.activities[id].created_at)
        /\ \A i \in Ids \ {id} : Joined(db', i) = Joined(db, i)
        /\ db'.tags = db.tags
    BY <1>1, <1>9, <2>1, JoinedReplaced
  <2>4. [i \in Ids |-> Joined(db', i)] =
           [store EXCEPT ![id] = Store!Entry(p, store[id].created_at)]
    BY <1>4, <1>5, <2>2, <2>3
  <2> QED BY <1>2, <1>3, <1>4, <1>7, <1>9, <2>2, <2>3, <2>4 DEF Store!Replace
<1>10. CASE /\ op[c].name = "delete"
            /\ op[c].rows = Exists(db, id)
            /\ db' = DeleteActivityRow(db, id)
  <2>1. /\ [i \in Ids |-> Joined(db', i)] = [store EXCEPT ![id] = NoRow]
        /\ db'.tags = {x \in db.tags : x[1] # id}
    BY <1>1, <1>5, <1>10, JoinedDeleted
  <2>2. ret' = [ret EXCEPT ![c] = IF Exists(db, id) THEN "true" ELSE "false"]
    BY <1>10 DEF Commit
  <2>3. ReportOf("true") = "true" /\ ReportOf("false") = "false"
    BY DEF ReportOf
  <2>4. Store!Answer(c, IF store[id] = NoRow THEN "false" ELSE "true")
    <3>1. CASE Exists(db, id)
      <4>1. Store!Answer(c, ReportOf("true"))
        BY <1>0, <1>1, <2>2, <3>1, EndIsAnswer
      <4> QED BY <1>4, <2>3, <3>1, <4>1
    <3>2. CASE ~Exists(db, id)
      <4>1. Store!Answer(c, ReportOf("false"))
        BY <1>0, <1>1, <2>2, <3>2, EndIsAnswer
      <4> QED BY <1>4, <2>3, <3>2, <4>1
    <3> QED BY <3>1, <3>2
  <2> QED BY <1>2, <1>10, <2>1, <2>4 DEF Store!Delete
<1>11. CASE /\ op[c].name = "add_tags"
            /\ op[c].tags # {} => Exists(db, id)
            /\ db' = Tagged(db, id, op[c].tags)
  <2>1. /\ [i \in Ids |-> Joined(db', i)] = store
        /\ db'.tags = db.tags \cup ({id} \X op[c].tags)
    BY <1>1, <1>6, <1>11, JoinedTagged
  <2> QED BY <1>2, <1>3, <1>4, <1>11, <2>1 DEF Store!Tag
<1>12. CASE /\ op[c].name = "remove_tags"
            /\ db' = Untagged(db, id, op[c].tags)
  <2>1. /\ [i \in Ids |-> Joined(db', i)] = store
        /\ db'.tags = db.tags \ ({id} \X op[c].tags)
    BY <1>1, <1>6, <1>12, JoinedTagged
  <2> QED BY <1>2, <1>3, <1>12, <2>1 DEF Store!Untag
<1> QED BY <1>8, <1>9, <1>10, <1>11, <1>12, CommitWrites

-----------------------------------------------------------------------------
(* The theorem                                                             *)

LEMMA InitRefines == Init => Store!Init
<1> SUFFICES ASSUME Init PROVE Store!Init
  OBVIOUS
<1>1. \A i \in Ids : Joined(db, i) = NoRow
  BY DEF Init, EmptyDatabase, Joined, Exists
<1>2. \A c \in Conns : Requested(c) = NoRow /\ Reported(c) = "none"
  BY DEF Init, Requested, Reported
<1> QED BY <1>1, <1>2 DEF Init, EmptyDatabase, Store!Init

LEMMA StepRefines ==
    IInv /\ CallsInOrder /\ [Next]_vars => [Store!Next]_(Store!storeVars)
<1> SUFFICES ASSUME IInv, CallsInOrder, [Next]_vars
             PROVE  Store!Next \/ UNCHANGED Store!storeVars
  OBVIOUS
<1>1. CASE UNCHANGED vars
  <2>1. \A x \in Conns : Requested(x)' = Requested(x) /\ Reported(x)' = Reported(x)
    BY <1>1 DEF vars, Requested, Reported
  <2> QED BY <1>1, <2>1 DEF vars, Store!storeVars
<1>2. CASE Next
  <2>1. PICK c \in Conns : StepOf(c)
    BY <1>2 DEF Next, StepOf
  <2>2. \/ Store!Submit(c) \/ Store!Create(c) \/ Store!Replace(c) \/ Store!Delete(c)
        \/ Store!Tag(c) \/ Store!Untag(c) \/ Store!Read(c) \/ Store!ReadAll(c)
        \/ Store!Refuse(c) \/ UNCHANGED Store!storeVars
    BY <2>1, StartCallRefines, InnerStepsStutter, ReadStepsRefine, FailuresRefine, CommitRefines
       DEF StepOf, Advance
  <2> QED BY <2>1, <2>2 DEF Store!Next
<1> QED BY <1>1, <1>2

\* Each call takes effect at the instant of its commit and in full, or not at
\* all: ActivityDB implements the map from ids to activities that ActivityStore
\* describes, for any connections, payloads, failures and crashes.
THEOREM StoreImplemented == Spec => ImplementsStore
<1>1. Spec => []CallsInOrder /\ []IInv
  BY AlwaysInOrder, CallsAlwaysInOrder, PTL
<1> QED BY <1>1, InitRefines, StepRefines, PTL DEF Spec, ImplementsStore, Store!Spec
=============================================================================
