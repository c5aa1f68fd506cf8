--------------------------- MODULE ActivityStore ---------------------------
(***************************************************************************)
(* What the activity history promises its callers: a map from ids to       *)
(* activities and a set of tags, on which every call takes effect at one   *)
(* instant and in full, or is refused and leaves everything as it was.     *)
(* There are no statements, tables, transactions or locks here.            *)
(***************************************************************************)
EXTENDS Naturals

CONSTANTS Conns, Ids, Tags, Clock, MaxInteger, NoTime,
          Payloads,  \* the activities callers pass
          Absent     \* no activity under this id, no request from this caller

VARIABLES
    store,  \* the activity under each id
    tags,   \* the pairs <<id, tag>>
    call,   \* the request each caller waits for
    ret     \* how each caller's last request ended

storeVars == <<store, tags, call, ret>>

\* An activity in the store: what the caller wrote, and since when it exists.
Entry(p, since) ==
    [activity_type |-> p.activity_type, tx_type |-> p.tx_type, timestamp |-> p.timestamp,
     confirm_timestamp |-> p.confirm_timestamp, content |-> p.content, created_at |-> since]

\* Only activities that are dated, representable and confirmed no earlier than
\* they happened get into the store.
Acceptable(p) ==
    /\ p.sound
    /\ p.timestamp \in 1..MaxInteger
    /\ p.confirm_timestamp # NoTime => p.confirm_timestamp \in p.timestamp..MaxInteger

Init ==
    /\ store = [i \in Ids |-> Absent]
    /\ tags = {}
    /\ call = [c \in Conns |-> Absent]
    /\ ret = [c \in Conns |-> "none"]

Request ==
    [name: {"insert", "update", "upsert"}, id: Ids, payload: Payloads, tags: {{}}]
    \cup [name: {"delete", "get_by_id", "get_tags"}, id: Ids, payload: {Absent}, tags: {{}}]
    \cup [name: {"add_tags", "remove_tags"}, id: Ids, payload: {Absent}, tags: SUBSET Tags]

Submit(c) ==
    /\ call[c] = Absent
    /\ \E r \in Request : call' = [call EXCEPT ![c] = r]
    /\ ret' = [ret EXCEPT ![c] = "none"]
    /\ UNCHANGED <<store, tags>>

Answer(c, outcome) ==
    /\ call[c] # Absent
    /\ call' = [call EXCEPT ![c] = Absent]
    /\ ret' = [ret EXCEPT ![c] = outcome]

\* The id is free: the activity is new.
Create(c) == \E now \in Clock :
    /\ call[c] # Absent
    /\ call[c].name \in {"insert", "upsert"}
    /\ store[call[c].id] = Absent
    /\ Acceptable(call[c].payload)
    /\ store' = [store EXCEPT ![call[c].id] = Entry(call[c].payload, now)]
    /\ UNCHANGED tags
    /\ Answer(c, "ok")

\* The id holds an activity of that type: all of it is replaced, its creation
\* time and its tags stay.
Replace(c) ==
    /\ call[c] # Absent
    /\ call[c].name \in {"update", "upsert"}
    /\ store[call[c].id] # Absent
    /\ store[call[c].id].activity_type = call[c].payload.activity_type
    /\ Acceptable(call[c].payload)
    /\ store' = [store EXCEPT ![call[c].id] =
                    Entry(call[c].payload, store[call[c].id].created_at)]
    /\ UNCHANGED tags
    /\ Answer(c, "ok")

\* The activity goes, and its tags with it; the answer says if there was one.
Delete(c) ==
    /\ call[c] # Absent
    /\ call[c].name = "delete"
    /\ store' = [store EXCEPT ![call[c].id] = Absent]
    /\ tags' = {x \in tags : x[1] # call[c].id}
    /\ Answer(c, IF store[call[c].id] = Absent THEN "false" ELSE "true")

\* All the tags or none, and only on an activity there is.
Tag(c) ==
    /\ call[c] # Absent
    /\ call[c].name = "add_tags"
    /\ call[c].tags # {} => store[call[c].id] # Absent
    /\ tags' = tags \cup ({call[c].id} \X call[c].tags)
    /\ UNCHANGED store
    /\ Answer(c, "ok")

Untag(c) ==
    /\ call[c] # Absent
    /\ call[c].name = "remove_tags"
    /\ tags' = tags \ ({call[c].id} \X call[c].tags)
    /\ UNCHANGED store
    /\ Answer(c, "ok")

\* Reads change nothing.
Read(c) ==
    /\ call[c] # Absent
    /\ call[c].name \in {"get_by_id", "get_tags"}
    /\ Answer(c, "ok")
    /\ UNCHANGED <<store, tags>>

ReadAll(c) ==
    /\ call[c] = Absent
    /\ ret' = [ret EXCEPT ![c] = "ok"]
    /\ UNCHANGED <<store, tags, call>>

\* Any request may be refused, and a caller may die: nothing has happened.
Refuse(c) ==
    /\ \E outcome \in {"refused", "none"} : Answer(c, outcome)
    /\ UNCHANGED <<store, tags>>

Next == \E c \in Conns :
    \/ Submit(c) \/ Create(c) \/ Replace(c) \/ Delete(c) \/ Tag(c) \/ Untag(c)
    \/ Read(c) \/ ReadAll(c) \/ Refuse(c)

Spec == Init /\ [][Next]_storeVars
=============================================================================
