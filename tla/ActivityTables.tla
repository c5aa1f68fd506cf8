--------------------------- MODULE ActivityTables ---------------------------
(***************************************************************************)
(* The SQLite schema of the activity history: what a value of the database *)
(* is, and what each SQL statement that the module `activity` issues does  *)
(* to such a value.  Statements are pure operators here; which statements  *)
(* a call issues, in which transaction and in which order is ActivityDB.   *)
(*                                                                         *)
(* SQLite itself (foreign keys ON, as the bundled build compiles it,       *)
(* CHECKs, triggers, ON DELETE CASCADE) is modelled from the schema text.  *)
(***************************************************************************)
EXTENDS Naturals

CONSTANTS
    Ids,         \* activity ids, the empty string among them or not
    EmptyId,     \* the empty string
    Tags,        \* tags
    Payloads,    \* the `Activity` values callers pass
    Content,     \* the other columns of a detail row (tx_id, invoice, ...)
    Clock,       \* readings of strftime('%s', 'now')
    MaxInteger,  \* i64::MAX: a larger u64 cannot be bound to a statement
    NoRow,       \* no row under this primary key
    NoTime       \* SQL NULL in confirm_timestamp

ActivityType == {"onchain", "lightning"}
PaymentType  == {"sent", "received"}

\* What a caller hands over: the fields of OnchainActivity / LightningActivity
\* without the id (update takes the id from its own argument).  `sound` says
\* that the remaining columns fit in an INTEGER and pass the table's CHECKs.
PayloadType ==
    [activity_type: ActivityType, tx_type: PaymentType, timestamp: Nat,
     confirm_timestamp: Nat \cup {NoTime}, sound: BOOLEAN, content: Content]

\* A row of `activities`.
ActivityRow ==
    [activity_type: ActivityType, tx_type: PaymentType, timestamp: Nat,
     created_at: Clock, updated_at: Clock]

\* A row of `onchain_activity` or of `lightning_activity`.
DetailRow == [confirm_timestamp: Nat \cup {NoTime}, content: Content]

\* A value of the database file: the four tables.
Database ==
    [activities: [Ids -> ActivityRow \cup {NoRow}],
     detail:     [ActivityType -> [Ids -> DetailRow \cup {NoRow}]],
     tags:       SUBSET (Ids \X Tags)]

ASSUME PayloadsAssumption ==
    /\ Payloads \subseteq PayloadType
    /\ \A p \in Payloads : p.activity_type = "lightning" => p.confirm_timestamp = NoTime
ASSUME NoRowAssumption == NoRow \notin ActivityRow /\ NoRow \notin DetailRow
                          /\ NoRow \notin Payloads
ASSUME NoTimeAssumption == NoTime \notin Nat
ASSUME MaxIntegerAssumption == MaxInteger \in Nat

-----------------------------------------------------------------------------
\* The file right after ActivityDB::initialize created the tables.
EmptyDatabase ==
    [activities |-> [i \in Ids |-> NoRow],
     detail     |-> [t \in ActivityType |-> [i \in Ids |-> NoRow]],
     tags       |-> {}]

Exists(d, id) == d.activities[id] # NoRow

\* The row has this type: what `WHERE id = ? AND activity_type = ?` selects.
HasType(d, id, t) == Exists(d, id) /\ d.activities[id].activity_type = t

\* A u64 that can be bound as an INTEGER.
Bindable(n) == n <= MaxInteger

\* CHECK (timestamp > 0).
TimestampOK(p) == p.timestamp > 0

\* Slip: the column created_at lacks its DEFAULT.
InsertActivityRowUndated(d, id, p, now) ==
    [d EXCEPT !.activities[id] =
        [activity_type |-> p.activity_type, tx_type |-> p.tx_type,
         timestamp |-> p.timestamp, created_at |-> NoTime, updated_at |-> now]]

\* INSERT INTO activities: created_at and updated_at take their DEFAULT.
InsertActivityOK(d, id, p) == Bindable(p.timestamp) /\ TimestampOK(p) /\ ~Exists(d, id)
InsertActivityRow(d, id, p, now) ==
    [d EXCEPT !.activities[id] =
        [activity_type |-> p.activity_type, tx_type |-> p.tx_type,
         timestamp |-> p.timestamp, created_at |-> now, updated_at |-> now]]

\* Slip: the row is replaced instead of updated.
UpdateActivityRowReplaces(d, id, p, now) ==
    [d EXCEPT !.activities[id] =
        [activity_type |-> p.activity_type, tx_type |-> p.tx_type,
         timestamp |-> p.timestamp, created_at |-> now, updated_at |-> now]]

\* UPDATE activities SET tx_type, timestamp: the AFTER UPDATE trigger then
\* stamps updated_at; created_at and activity_type are not in the SET list.
UpdateActivityRow(d, id, p, now) ==
    [d EXCEPT !.activities[id] =
        [activity_type |-> d.activities[id].activity_type, tx_type |-> p.tx_type,
         timestamp |-> p.timestamp,
         created_at |-> d.activities[id].created_at, updated_at |-> now]]

\* Slip: the triggers are not created.
NoConfirmTrigger(d, id, p) == TRUE

\* The two confirm_timestamp triggers: the AFTER INSERT and the AFTER UPDATE
\* one abort the statement when NEW.confirm_timestamp lies before the
\* timestamp that `activities` holds at that moment.
ConfirmTrigger(d, id, p) ==
    p.confirm_timestamp # NoTime => p.confirm_timestamp >= d.activities[id].timestamp

\* A detail row can be written: columns bind, CHECKs and the trigger pass.
DetailOK(d, id, p) ==
    /\ p.sound
    /\ p.confirm_timestamp # NoTime => Bindable(p.confirm_timestamp)
    /\ ConfirmTrigger(d, id, p)

\* INSERT INTO / UPDATE the detail table of the payload's type.
WriteDetailRow(d, id, p) ==
    [d EXCEPT !.detail[p.activity_type][id] =
        [confirm_timestamp |-> p.confirm_timestamp, content |-> p.content]]

\* The UPDATE matches the row that exists, and no row otherwise.
UpdateDetailRow(d, id, p) ==
    IF d.detail[p.activity_type][id] = NoRow THEN d ELSE WriteDetailRow(d, id, p)

\* Slip: foreign keys are off, nothing cascades.
DeleteActivityRowOnly(d, id) == [d EXCEPT !.activities[id] = NoRow]

\* DELETE FROM activities WHERE id = ?: the three foreign keys cascade.
DeleteActivityRow(d, id) ==
    [activities |-> [d.activities EXCEPT ![id] = NoRow],
     detail     |-> [t \in ActivityType |-> [d.detail[t] EXCEPT ![id] = NoRow]],
     tags       |-> {x \in d.tags : x[1] # id}]

\* Slip: foreign keys are off, any tag goes in.
InsertTagUnchecked(d, id) == TRUE

\* INSERT OR IGNORE INTO activity_tags: IGNORE covers the primary key, not the
\* foreign key, whose violation fails the statement.
InsertTagOK(d, id) == Exists(d, id)
InsertTag(d, id, t) == [d EXCEPT !.tags = @ \cup {<<id, t>>}]

\* DELETE FROM activity_tags WHERE activity_id = ? AND tag = ?.
DeleteTag(d, id, t) == [d EXCEPT !.tags = @ \ {<<id, t>>}]

-----------------------------------------------------------------------------
(* What every value of the file that a reader can see must satisfy.        *)

\* An activity owns the detail row of its type and only that one, and a detail
\* row belongs to an activity of its type.
DetailMatchesTypeAt(d, id) ==
    \A t \in ActivityType : (d.detail[t][id] # NoRow) <=> HasType(d, id, t)

\* A confirmation is never dated before the transaction it confirms.
ConfirmedLaterAt(d, id) ==
    (d.detail["onchain"][id] # NoRow /\ d.detail["onchain"][id].confirm_timestamp # NoTime)
    => d.detail["onchain"][id].confirm_timestamp >= d.activities[id].timestamp

\* Every tag belongs to an activity that exists.
TagsOwned(d) == \A x \in d.tags : Exists(d, x[1])
=============================================================================
