----------------------------- MODULE ActivityDB -----------------------------
(***************************************************************************)
(* The activity history: ActivityDB and the exported functions over it.    *)
(*                                                                         *)
(* A call on a connection issues its SQL statements one at a time, inside  *)
(* a transaction; other connections to the same file (a second ActivityDB, *)
(* an app extension) step in between.  Any statement may fail, a waiting   *)
(* writer may give up with SQLITE_BUSY, and the process may die anywhere.  *)
(* One connection runs one call at a time: the exported functions hold the *)
(* process-wide mutex DB for the whole call.                               *)
(***************************************************************************)
EXTENDS ActivityTables

CONSTANTS
    Conns,    \* open connections to the file
    NoConn    \* nobody holds the write lock

ASSUME NoConnAssumption == NoConn \notin Conns

VARIABLES
    db,      \* the committed content of the file
    writer,  \* the connection holding SQLite's RESERVED lock
    work,    \* the content as the writer's open transaction sees it
    pc,      \* the statement each connection issues next
    op,      \* the call each connection is in
    ret      \* the outcome of each connection's last call

vars == <<db, writer, work, pc, op, ret>>

OpName == {"insert", "update", "upsert", "delete", "add_tags", "remove_tags",
           "get_by_id", "get_tags"}

\* A call, its arguments and its locals: the tags the loop has not come to yet,
\* `rows > 0` of the DELETE, the activity_type that the first SELECT returned.
Call == [name: OpName, id: Ids, payload: Payloads \cup {NoRow}, tags: SUBSET Tags,
         left: SUBSET Tags, rows: BOOLEAN, type: ActivityType]

NoCall == NoRow

WriteStep == {"update", "update_detail", "insert", "insert_detail", "delete",
              "tag", "untag", "commit"}
ReadStep  == {"exists", "get_type", "get_detail", "get_tags"}
Step      == WriteStep \cup ReadStep

\* Outcomes: Ok / Some / None / true / false, the ActivityError variants, and
\* "SqliteError": whichever variant the failing statement's map_err builds
\* when SQLite, not the data, is the cause.
Outcome == {"none", "Ok", "Some", "None", "true", "false", "NotFound",
            "DataError", "InsertError", "RetrievalError", "RowError", "SqliteError"}

TypeOK ==
    /\ db \in Database
    /\ writer \in Conns \cup {NoConn}
    /\ work \in Database
    /\ pc \in [Conns -> Step \cup {"idle"}]
    /\ op \in [Conns -> Call \cup {NoCall}]
    /\ ret \in [Conns -> Outcome]

Init ==
    /\ db = EmptyDatabase
    /\ writer = NoConn
    /\ work = EmptyDatabase
    /\ pc = [c \in Conns |-> "idle"]
    /\ op = [c \in Conns |-> NoCall]
    /\ ret = [c \in Conns |-> "none"]

-----------------------------------------------------------------------------
(* Calls, statements, transactions                                         *)

NewCall(name, id, p, tags) ==
    [name |-> name, id |-> id, payload |-> p, tags |-> tags,
     left |-> tags, rows |-> FALSE, type |-> "onchain"]

Begin(c, name, id, p, tags, step) ==
    /\ pc[c] = "idle"
    /\ pc' = [pc EXCEPT ![c] = step]
    /\ op' = [op EXCEPT ![c] = NewCall(name, id, p, tags)]
    /\ ret' = [ret EXCEPT ![c] = "none"]
    /\ UNCHANGED <<db, writer, work>>

\* A BEGIN DEFERRED transaction takes the write lock at its first statement
\* and sees, from then on, the committed content plus its own changes.
CanWrite(c) == writer \in {NoConn, c}
Seen(c) == IF writer = c THEN work ELSE db

\* A statement succeeds inside the open transaction.
Execute(c, d, step) ==
    /\ CanWrite(c)
    /\ writer' = c
    /\ work' = d
    /\ pc' = [pc EXCEPT ![c] = step]
    /\ UNCHANGED <<db, ret>>

\* The `tx` value is dropped without a commit: rollback, lock released.
Rollback(c) ==
    IF writer = c THEN writer' = NoConn /\ work' = db ELSE UNCHANGED <<writer, work>>

\* The call returns; whatever its transaction did is gone.
Return(c, outcome) ==
    /\ Rollback(c)
    /\ pc' = [pc EXCEPT ![c] = "idle"]
    /\ op' = [op EXCEPT ![c] = NoCall]
    /\ ret' = [ret EXCEPT ![c] = outcome]
    /\ UNCHANGED db

\* tx.commit() and the return that follows it.
Commit(c) ==
    /\ pc[c] = "commit"
    /\ db' = Seen(c)
    /\ writer' = IF writer = c THEN NoConn ELSE writer
    /\ UNCHANGED work
    /\ pc' = [pc EXCEPT ![c] = "idle"]
    /\ ret' = [ret EXCEPT ![c] =
                IF op[c].name = "delete"
                THEN IF op[c].rows THEN "true" ELSE "false"
                ELSE "Ok"]
    /\ op' = [op EXCEPT ![c] = NoCall]

-----------------------------------------------------------------------------
(* The exported functions: how each call starts                            *)

insert_activity(c) == \E id \in Ids, p \in Payloads :
    Begin(c, "insert", id, p, {}, "insert")

update_activity(c) == \E id \in Ids, p \in Payloads :
    Begin(c, "update", id, p, {}, "update")

\* upsert tries the update first and falls back to the insert (UpdateMisses).
upsert_activity(c) == \E id \in Ids, p \in Payloads :
    Begin(c, "upsert", id, p, {}, "update")

delete_activity_by_id(c) == \E id \in Ids :
    Begin(c, "delete", id, NoRow, {}, "delete")

add_tags(c) == \E id \in Ids, ts \in SUBSET Tags :
    Begin(c, "add_tags", id, NoRow, ts, "exists")

remove_tags(c) == \E id \in Ids, ts \in SUBSET Tags :
    Begin(c, "remove_tags", id, NoRow, ts, "untag")

get_activity_by_id(c) == \E id \in Ids :
    Begin(c, "get_by_id", id, NoRow, {}, "get_type")

get_tags(c) == \E id \in Ids :
    Begin(c, "get_tags", id, NoRow, {}, "exists")

\* One SELECT over one snapshot of the file, so the call is a single step; its
\* filters are left out.  The LEFT JOIN of an activity without its detail row
\* yields NULL columns, which row.get refuses: one such row fails the whole
\* query ("RowError": the DataError "Failed to process row").
get_activities(c) ==
    /\ pc[c] = "idle"
    /\ ret' = [ret EXCEPT ![c] =
                IF \A id \in Ids : Exists(db, id) =>
                       db.detail[db.activities[id].activity_type][id] # NoRow
                THEN "Ok" ELSE "RowError"]
    /\ UNCHANGED <<db, writer, work, pc, op>>

-----------------------------------------------------------------------------
(* insert_onchain_activity, insert_lightning_activity                      *)

\* Only the onchain variant refuses the empty id, before its transaction.
RefusesId(c) == op[c].payload.activity_type = "onchain" /\ op[c].id = EmptyId

InsertEmptyId(c) ==
    /\ pc[c] = "insert"
    /\ RefusesId(c)
    /\ Return(c, "DataError")

\* Slip: the first INSERT runs outside the transaction.
InsertActivityAutocommit(c) == \E now \in Clock :
    /\ pc[c] = "insert"
    /\ ~RefusesId(c)
    /\ writer = NoConn
    /\ InsertActivityOK(db, op[c].id, op[c].payload)
    /\ db' = InsertActivityRow(db, op[c].id, op[c].payload, now)
    /\ work' = db'
    /\ pc' = [pc EXCEPT ![c] = "insert_detail"]
    /\ UNCHANGED <<writer, op, ret>>

InsertActivity(c) == \E now \in Clock :
    /\ pc[c] = "insert"
    /\ ~RefusesId(c)
    /\ InsertActivityOK(Seen(c), op[c].id, op[c].payload)
    /\ Execute(c, InsertActivityRow(Seen(c), op[c].id, op[c].payload, now), "insert_detail")
    /\ UNCHANGED op

\* Primary key taken, timestamp 0 or too large.
InsertActivityFails(c) ==
    /\ pc[c] = "insert"
    /\ ~RefusesId(c)
    /\ CanWrite(c)
    /\ ~InsertActivityOK(Seen(c), op[c].id, op[c].payload)
    /\ Return(c, "InsertError")

InsertDetail(c) ==
    /\ pc[c] = "insert_detail"
    /\ DetailOK(Seen(c), op[c].id, op[c].payload)
    /\ Execute(c, WriteDetailRow(Seen(c), op[c].id, op[c].payload), "commit")
    /\ UNCHANGED op

InsertDetailFails(c) ==
    /\ pc[c] = "insert_detail"
    /\ ~DetailOK(Seen(c), op[c].id, op[c].payload)
    /\ Return(c, "InsertError")

-----------------------------------------------------------------------------
(* update_onchain_activity_by_id, update_lightning_activity_by_id          *)

UpdateActivity(c) == \E now \in Clock :
    /\ pc[c] = "update"
    /\ Bindable(op[c].payload.timestamp)
    /\ HasType(Seen(c), op[c].id, op[c].payload.activity_type)
    /\ TimestampOK(op[c].payload)
    /\ Execute(c, UpdateActivityRow(Seen(c), op[c].id, op[c].payload, now), "update_detail")
    /\ UNCHANGED op

\* The timestamp cannot be bound, or the CHECK fails on the row selected.
UpdateActivityFails(c) ==
    /\ pc[c] = "update"
    /\ CanWrite(c)
    /\ \/ ~Bindable(op[c].payload.timestamp)
       \/ /\ HasType(Seen(c), op[c].id, op[c].payload.activity_type)
          /\ ~TimestampOK(op[c].payload)
    /\ Return(c, "DataError")

\* Slips: upsert gives up with the update, or tries it once more.
UpdateMissesRefuses(c) ==
    /\ pc[c] = "update"
    /\ CanWrite(c)
    /\ Bindable(op[c].payload.timestamp)
    /\ ~HasType(Seen(c), op[c].id, op[c].payload.activity_type)
    /\ Return(c, "NotFound")

UpdateMissesRetries(c) ==
    /\ pc[c] = "update"
    /\ CanWrite(c)
    /\ Bindable(op[c].payload.timestamp)
    /\ ~HasType(Seen(c), op[c].id, op[c].payload.activity_type)
    /\ \/ op[c].name = "update" /\ Return(c, "NotFound")
       \/ op[c].name = "upsert" /\ UNCHANGED vars

\* rows == 0: "No activity found with given ID".  The transaction is dropped;
\* update returns the error, upsert goes on to the insert of its own
\* transaction.
UpdateMisses(c) ==
    /\ pc[c] = "update"
    /\ CanWrite(c)
    /\ Bindable(op[c].payload.timestamp)
    /\ ~HasType(Seen(c), op[c].id, op[c].payload.activity_type)
    /\ \/ /\ op[c].name = "update"
          /\ Return(c, "NotFound")
       \/ /\ op[c].name = "upsert"
          /\ pc' = [pc EXCEPT ![c] = "insert"]
          /\ Rollback(c)
          /\ UNCHANGED <<db, op, ret>>

UpdateDetail(c) ==
    /\ pc[c] = "update_detail"
    /\ DetailOK(Seen(c), op[c].id, op[c].payload)
    /\ Execute(c, UpdateDetailRow(Seen(c), op[c].id, op[c].payload), "commit")
    /\ UNCHANGED op

UpdateDetailFails(c) ==
    /\ pc[c] = "update_detail"
    /\ ~DetailOK(Seen(c), op[c].id, op[c].payload)
    /\ Return(c, "DataError")

-----------------------------------------------------------------------------
(* delete_activity_by_id, add_tags, remove_tags                            *)

DeleteActivity(c) ==
    /\ pc[c] = "delete"
    /\ Execute(c, DeleteActivityRow(Seen(c), op[c].id), "commit")
    /\ op' = [op EXCEPT ![c].rows = Exists(Seen(c), op[c].id)]

\* SELECT 1 FROM activities, outside any transaction: add_tags and get_tags.
CheckExists(c) ==
    /\ pc[c] = "exists"
    /\ \/ /\ Exists(db, op[c].id)
          /\ pc' = [pc EXCEPT ![c] = IF op[c].name = "add_tags" THEN "tag" ELSE "get_tags"]
          /\ UNCHANGED <<db, writer, work, op, ret>>
       \/ /\ ~Exists(db, op[c].id)
          /\ Return(c, IF op[c].name = "add_tags" THEN "DataError" ELSE "Ok")

\* Slip: every tag is committed on its own.
AddTagAutocommit(c) ==
    /\ pc[c] = "tag"
    /\ writer = NoConn
    /\ InsertTagOK(db, op[c].id)
    /\ \E t \in op[c].left :
          /\ db' = InsertTag(db, op[c].id, t)
          /\ op' = [op EXCEPT ![c].left = @ \ {t}]
    /\ work' = db'
    /\ UNCHANGED <<writer, pc, ret>>

\* One pass of the loop over the tags.
AddTag(c) ==
    /\ pc[c] = "tag"
    /\ InsertTagOK(Seen(c), op[c].id)
    /\ \E t \in op[c].left :
          /\ Execute(c, InsertTag(Seen(c), op[c].id, t), "tag")
          /\ op' = [op EXCEPT ![c].left = @ \ {t}]

\* The activity was deleted after CheckExists: foreign key violation.
AddTagFails(c) ==
    /\ pc[c] = "tag"
    /\ op[c].left # {}
    /\ CanWrite(c)
    /\ ~InsertTagOK(Seen(c), op[c].id)
    /\ Return(c, "DataError")

RemoveTag(c) ==
    /\ pc[c] = "untag"
    /\ \E t \in op[c].left :
          /\ Execute(c, DeleteTag(Seen(c), op[c].id, t), "untag")
          /\ op' = [op EXCEPT ![c].left = @ \ {t}]

TagsDone(c) ==
    /\ pc[c] \in {"tag", "untag"}
    /\ op[c].left = {}
    /\ pc' = [pc EXCEPT ![c] = "commit"]
    /\ UNCHANGED <<db, writer, work, op, ret>>

-----------------------------------------------------------------------------
(* get_activity_by_id, get_tags                                            *)

\* SELECT activity_type, the first of the two statements of get_activity_by_id.
GetType(c) ==
    /\ pc[c] = "get_type"
    /\ \/ /\ Exists(db, op[c].id)
          /\ pc' = [pc EXCEPT ![c] = "get_detail"]
          /\ op' = [op EXCEPT ![c].type = db.activities[op[c].id].activity_type]
          /\ UNCHANGED <<db, writer, work, ret>>
       \/ /\ ~Exists(db, op[c].id)
          /\ Return(c, "None")

\* The join with the detail table of that type.  Without a row the onchain
\* branch returns None, the lightning branch an error.
GetDetail(c) ==
    /\ pc[c] = "get_detail"
    /\ Return(c, IF Exists(db, op[c].id) /\ db.detail[op[c].type][op[c].id] # NoRow
                 THEN "Some"
                 ELSE IF op[c].type = "onchain" THEN "None" ELSE "RetrievalError")

GetTags(c) ==
    /\ pc[c] = "get_tags"
    /\ Return(c, "Ok")

-----------------------------------------------------------------------------
(* Failures                                                                *)

\* The next statement needs the write lock and another connection holds it.
Waits(c) ==
    /\ pc[c] \in WriteStep \ {"commit"}
    /\ pc[c] = "insert" => ~RefusesId(c)
    /\ pc[c] \in {"tag", "untag"} => op[c].left # {}
    /\ ~CanWrite(c)

\* SQLITE_BUSY: the busy handler gives up waiting.
BusyTimeout(c) ==
    /\ Waits(c)
    /\ Return(c, "SqliteError")

\* A statement or the commit fails: disk full, I/O error, lock not granted.
StatementFails(c) ==
    /\ pc[c] # "idle"
    /\ Return(c, "SqliteError")

\* The process of this connection dies: SQLite rolls its transaction back.
Crash(c) ==
    /\ pc[c] # "idle"
    /\ Return(c, "none")

-----------------------------------------------------------------------------
StartCall(c) ==
    \/ insert_activity(c) \/ update_activity(c) \/ upsert_activity(c)
    \/ delete_activity_by_id(c) \/ add_tags(c) \/ remove_tags(c)
    \/ get_activity_by_id(c) \/ get_tags(c) \/ get_activities(c)

Advance(c) ==
    \/ InsertEmptyId(c) \/ InsertActivity(c) \/ InsertActivityFails(c)
    \/ InsertDetail(c) \/ InsertDetailFails(c)
    \/ UpdateActivity(c) \/ UpdateActivityFails(c) \/ UpdateMisses(c)
    \/ UpdateDetail(c) \/ UpdateDetailFails(c)
    \/ DeleteActivity(c) \/ CheckExists(c) \/ AddTag(c) \/ AddTagFails(c)
    \/ RemoveTag(c) \/ TagsDone(c)
    \/ GetType(c) \/ GetDetail(c) \/ GetTags(c)
    \/ Commit(c) \/ BusyTimeout(c)

Next == \E c \in Conns :
    StartCall(c) \/ Advance(c) \/ StatementFails(c) \/ Crash(c)

Spec == Init /\ [][Next]_vars

\* A call runs on its caller's thread and the busy handler gives up after a
\* bounded time, so a call in progress goes on; callers owe nothing.
FairSpec == Spec /\ \A c \in Conns : WF_vars(Advance(c))

-----------------------------------------------------------------------------
(* Properties                                                              *)

\* Every activity that a reader can see has the detail row of its type and no
\* other, and no detail row is left without its activity: insert, update and
\* delete write two tables, and a failure, a crash or another connection may
\* come between the two statements (insert_*_activity, update_*_by_id,
\* delete_activity_by_id).
DetailMatchesType == \A id \in Ids : DetailMatchesTypeAt(db, id)

\* A confirmed on-chain activity is never dated after its confirmation, however
\* often both times are updated: each UPDATE statement sees one of the two
\* (triggers onchain_confirm_timestamp_check_insert and _update).
ConfirmedLater == \A id \in Ids : ConfirmedLaterAt(db, id)

\* No tag outlives its activity, although add_tags checks that the activity
\* exists before its transaction begins and a delete may come in between.
NoOrphanTags == TagsOwned(db)

\* The three together: the file is consistent whenever nobody is writing it.
Integrity == DetailMatchesType /\ ConfirmedLater /\ NoOrphanTags

\* Between the two statements of an insert the row has no detail yet; between
\* the two of an update the old detail row may predate the new timestamp.  Every
\* other activity is in order.
OthersInOrder(d, id) ==
    /\ \A i \in Ids \ {id} : DetailMatchesTypeAt(d, i) /\ ConfirmedLaterAt(d, i)
    /\ TagsOwned(d)

HalfInserted(d, id, p) ==
    /\ OthersInOrder(d, id)
    /\ HasType(d, id, p.activity_type)
    /\ \A t \in ActivityType : d.detail[t][id] = NoRow

HalfUpdated(d, id, p) ==
    /\ OthersInOrder(d, id)
    /\ HasType(d, id, p.activity_type)
    /\ DetailMatchesTypeAt(d, id)

Consistent(d) ==
    /\ \A i \in Ids : DetailMatchesTypeAt(d, i) /\ ConfirmedLaterAt(d, i)
    /\ TagsOwned(d)

\* What the open transaction of connection c has done so far, by the statement
\* it issues next.
ConnInOrder(c) ==
    /\ pc[c] # "idle" => op[c] \in Call
    /\ pc[c] \in {"insert", "update", "insert_detail", "update_detail"}
          => op[c].payload \in Payloads
    /\ pc[c] \in {"insert_detail", "update_detail"} => writer = c
    /\ writer = c =>
          /\ pc[c] \in {"insert_detail", "update_detail", "tag", "untag", "commit"}
          /\ pc[c] = "insert_detail" => HalfInserted(work, op[c].id, op[c].payload)
          /\ pc[c] = "update_detail" => HalfUpdated(work, op[c].id, op[c].payload)
          /\ pc[c] \in {"tag", "untag", "commit"} => Consistent(work)

\* The strengthening that makes Integrity inductive.
TransactionInOrder ==
    /\ Consistent(db)
    /\ writer = NoConn => work = db
    /\ \A c \in Conns : ConnInOrder(c)

\* No query over the file ever trips over a half-written activity
\* (get_activities: "Failed to process row").
QueriesNeverFail == \A c \in Conns : ret[c] # "RowError"

\* On the library's single connection get_activity_by_id never fails for want
\* of a detail row, although it reads the type and the row separately.
GetByIdNeverFails == \A c \in Conns : ret[c] # "RetrievalError"

\* The payload passes every check that does not depend on the file.
WellFormed(p) ==
    /\ TimestampOK(p) /\ Bindable(p.timestamp) /\ p.sound
    /\ p.confirm_timestamp # NoTime =>
          p.confirm_timestamp >= p.timestamp /\ Bindable(p.confirm_timestamp)

\* On the library's single connection an upsert of a well-formed activity is
\* refused only when the id already belongs to an activity of the other type
\* (or is the empty id, for an on-chain one): the update that finds nothing and
\* the insert are two transactions (upsert_activity).
UpsertSettles ==
    [][\A c \in Conns :
         (/\ op[c] # NoCall /\ op[c].name = "upsert" /\ WellFormed(op[c].payload)
          /\ ret'[c] \in {"DataError", "InsertError", "NotFound"})
         => \/ RefusesId(c)
            \/ Exists(db, op[c].id) /\ ~HasType(db, op[c].id, op[c].payload.activity_type)
      ]_vars

\* As long as an activity lives, nothing changes its type or its creation time:
\* an upsert updates in place, it never replaces (upsert_activity, and the test
\* test_upsert_activity_timestamps).
IdentityStable ==
    [][\A id \in Ids :
         (Exists(db, id) /\ Exists(db', id)) =>
            /\ db'.activities[id].activity_type = db.activities[id].activity_type
            /\ db'.activities[id].created_at = db.activities[id].created_at
      ]_vars

\* Every call returns, whatever other connections do: no wait for the write
\* lock, no loop over tags and no upsert goes on for ever.
CallsReturn == \A c \in Conns : pc[c] # "idle" ~> pc[c] = "idle"
=============================================================================
