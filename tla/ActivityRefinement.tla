------------------------- MODULE ActivityRefinement -------------------------
(***************************************************************************)
(* ActivityDB, with its statements, transactions, failures and crashes,    *)
(* implements ActivityStore.                                               *)
(***************************************************************************)
EXTENDS ActivityDB

\* The activity that the join of the two tables yields for an id.
Joined(d, id) ==
    IF ~Exists(d, id) THEN NoRow
    ELSE LET a == d.activities[id]
             r == d.detail[a.activity_type][id]
         IN  [activity_type |-> a.activity_type, tx_type |-> a.tx_type,
              timestamp |-> a.timestamp, confirm_timestamp |-> r.confirm_timestamp,
              content |-> r.content, created_at |-> a.created_at]

\* NoRow is neither an activity nor a request.
ASSUME AbsentAssumption ==
    /\ NoRow \notin [activity_type: ActivityType, tx_type: PaymentType, timestamp: Nat,
                     confirm_timestamp: Nat \cup {NoTime}, content: Content, created_at: Clock]
    /\ NoRow \notin [name: OpName, id: Ids, payload: Payloads \cup {NoRow}, tags: SUBSET Tags]

Requested(c) ==
    IF pc[c] = "idle" THEN NoRow
    ELSE [name |-> op[c].name, id |-> op[c].id,
          payload |-> op[c].payload, tags |-> op[c].tags]

Reported(c) ==
    CASE ret[c] \in {"none", "true", "false"}  -> ret[c]
      [] ret[c] \in {"Ok", "Some", "None"}     -> "ok"
      [] OTHER                                 -> "refused"

Store == INSTANCE ActivityStore WITH
    store  <- [id \in Ids |-> Joined(db, id)],
    tags   <- db.tags,
    call   <- [c \in Conns |-> Requested(c)],
    ret    <- [c \in Conns |-> Reported(c)],
    Absent <- NoRow

\* Every call takes effect at one instant and in full, or has no effect at all:
\* the two tables, the tag loop and the two transactions of upsert never show,
\* whether statements fail, processes die or connections compete
\* (insert_*_activity, update_*_by_id, upsert_activity, delete_activity_by_id,
\* add_tags, remove_tags).
ImplementsStore == Store!Spec
=============================================================================
