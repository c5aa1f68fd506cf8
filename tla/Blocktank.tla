----------------------------- MODULE Blocktank -----------------------------
(***************************************************************************)
(* The Blocktank module: a local SQLite copy of the orders, CJIT entries   *)
(* and service information that live at a Lightning service provider.      *)
(*                                                                         *)
(* Every exported function is a task on the tokio runtime that takes the   *)
(* mutex ASYNC_DB and keeps it until it returns, across its HTTP requests  *)
(* and its SQL statements.  Between any two of those steps the provider    *)
(* moves on, an answer is lost, a statement fails or the process dies.     *)
(* The provider is external: it is modelled by what api.rs asks of it.     *)
(***************************************************************************)
EXTENDS Naturals

CONSTANTS
    Tasks,       \* calls in progress at the same time
    NoTask,      \* the mutex is free
    Orders,      \* ids of orders
    Entries,     \* ids of CJIT entries
    NoItem,      \* no such order or entry
    Urls,        \* providers
    DefaultUrl,  \* DEFAULT_BLOCKTANK_URL
    MaxInfo      \* bound: versions of the service information

Items == Orders \cup Entries

ASSUME NoTaskAssumption == NoTask \notin Tasks
ASSUME ItemsAssumption == Orders \cap Entries = {}
ASSUME UrlAssumption == DefaultUrl \in Urls
ASSUME MaxInfoAssumption == MaxInfo \in Nat \ {0}

\* BtOrderState2 and CJitStateEnum.
BtOrderState2 == {"Created", "Expired", "Executed", "Paid"}
CJitStateEnum == {"Created", "Completed", "Expired", "Failed"}
State == BtOrderState2 \cup CJitStateEnum

ASSUME NoItemAssumption == NoItem \notin State

\* Slip: a paid order is not active any more.
OnlyCreated == {"Created"}

\* The states that refresh_active_orders and refresh_active_cjit_entries select.
ActiveOrder == {"Created", "Paid"}
ActiveEntry == {"Created", "Failed"}

\* How far an order or an entry has come: nothing leads back.
Progress(s) == CASE s = "Created" -> 0
                 [] s \in {"Paid", "Failed"} -> 1
                 [] OTHER -> 2
Later(a, b) == a = b \/ Progress(a) < Progress(b)

VARIABLES
    lsp,       \* the state of each item at the provider
    home,      \* the provider that issued it
    lspInfo,   \* the version of the service information at the provider
    local,     \* tables orders and cjit_entries
    info,      \* table info: absent, kept or current, by version
    url,       \* the provider the client talks to
    open,      \* blocktank_db is Some
    lock,      \* the task holding ASYNC_DB
    pc,        \* where each task is
    req,       \* what it was called with
    left,      \* ids it has not asked for yet (CJIT loops)
    resp,      \* answers received and not stored yet
    got,       \* service information received
    out,       \* the items in the value it will return
    ret        \* how its last call ended

provider == <<lsp, home, lspInfo>>
file     == <<local, info>>
process  == <<url, open, lock>>
task     == <<pc, req, left, resp, got, out, ret>>
vars     == <<lsp, home, lspInfo, local, info, url, open, lock,
              pc, req, left, resp, got, out, ret>>

Op == {"create_order", "create_cjit_entry", "open_channel",
       "refresh_orders", "refresh_active_orders",
       "refresh_cjit_entries", "refresh_active_cjit_entries",
       "get_info", "proxy", "read"}

NothingReceived == [i \in Items |-> NoItem]

TypeOK ==
    /\ lsp \in [Items -> State \cup {NoItem}]
    /\ home \in [Items -> Urls]
    /\ lspInfo \in [Urls -> 1..MaxInfo]
    /\ local \in [Items -> State \cup {NoItem}]
    /\ info \in [1..MaxInfo -> {"absent", "kept", "current"}]
    /\ url \in Urls
    /\ open \in BOOLEAN
    /\ lock \in Tasks \cup {NoTask}
    /\ pc \in [Tasks -> {"idle", "wait", "http", "store", "clear_info", "insert_info"}]
    /\ req \in [Tasks -> [op: Op, ids: SUBSET Items]]
    /\ left \in [Tasks -> SUBSET Items]
    /\ resp \in [Tasks -> [Items -> State \cup {NoItem}]]
    /\ got \in [Tasks -> 1..MaxInfo]
    /\ out \in [Tasks -> SUBSET Items]
    /\ ret \in [Tasks -> {"none", "Ok", "Err"}]

NoRequest == [op |-> "proxy", ids |-> {}]

Init ==
    /\ lsp = [i \in Items |-> NoItem]
    /\ home = [i \in Items |-> DefaultUrl]
    /\ lspInfo = [u \in Urls |-> 1]
    /\ local = [i \in Items |-> NoItem]
    /\ info = [v \in 1..MaxInfo |-> "absent"]
    /\ url = DefaultUrl
    /\ open = FALSE
    /\ lock = NoTask
    /\ pc = [t \in Tasks |-> "idle"]
    /\ req = [t \in Tasks |-> NoRequest]
    /\ left = [t \in Tasks |-> {}]
    /\ resp = [t \in Tasks |-> NothingReceived]
    /\ got = [t \in Tasks |-> 1]
    /\ out = [t \in Tasks |-> {}]
    /\ ret = [t \in Tasks |-> "none"]

-----------------------------------------------------------------------------
(* The provider (external)                                                 *)

\* Orders are paid, executed or expire; CJIT entries complete, fail or expire.
LspMoves(i) ==
    /\ lsp[i] # NoItem
    /\ \E s \in IF i \in Orders THEN BtOrderState2 ELSE CJitStateEnum :
          /\ Progress(lsp[i]) < Progress(s)
          /\ lsp' = [lsp EXCEPT ![i] = s]
    /\ UNCHANGED <<home, lspInfo, file, process, task>>

LspPublishesInfo(u) ==
    /\ lspInfo[u] < MaxInfo
    /\ lspInfo' = [lspInfo EXCEPT ![u] = @ + 1]
    /\ UNCHANGED <<lsp, home, file, process, task>>

\* What the provider that the client talks to knows.
Known(i) == lsp[i] # NoItem /\ home[i] = url

-----------------------------------------------------------------------------
(* Tasks: call, mutex, return                                              *)

\* rt.spawn: the task runs to its end even if its caller goes away.
Call(t, op, ids) ==
    /\ pc[t] = "idle"
    /\ pc' = [pc EXCEPT ![t] = "wait"]
    /\ req' = [req EXCEPT ![t] = [op |-> op, ids |-> ids]]
    /\ ret' = [ret EXCEPT ![t] = "none"]
    /\ UNCHANGED <<provider, file, process, left, resp, got, out>>

create_order(t)          == Call(t, "create_order", {})
create_cjit_entry(t)     == Call(t, "create_cjit_entry", {})
open_channel(t)          == \E i \in Orders : Call(t, "open_channel", {i})
\* get_orders / get_cjit_entries with refresh and a list of ids.
refresh_orders(t)        == \E ids \in SUBSET Orders : Call(t, "refresh_orders", ids)
refresh_cjit_entries(t)  == \E ids \in SUBSET Entries : Call(t, "refresh_cjit_entries", ids)
refresh_active_orders(t) == Call(t, "refresh_active_orders", {})
refresh_active_cjit_entries(t) == Call(t, "refresh_active_cjit_entries", {})
\* get_info with refresh.
get_info(t)              == Call(t, "get_info", {})
\* Estimates, zero-conf fee, device registration, test notification, regtest:
\* they hold the mutex across their HTTP request and store nothing.
proxy(t)                 == Call(t, "proxy", {})
\* get_orders and get_cjit_entries without ids or without refresh, get_info
\* without refresh: the file as it is.
read(t)                  == Call(t, "read", {})

\* The guard is dropped with the task.
Return(t, outcome) ==
    /\ lock' = NoTask
    /\ pc' = [pc EXCEPT ![t] = "idle"]
    /\ req' = [req EXCEPT ![t] = NoRequest]
    /\ left' = [left EXCEPT ![t] = {}]
    /\ resp' = [resp EXCEPT ![t] = NothingReceived]
    /\ got' = [got EXCEPT ![t] = 1]
    /\ out' = [out EXCEPT ![t] = {}]
    /\ ret' = [ret EXCEPT ![t] = outcome]

get_active_orders == {i \in Orders : local[i] \in ActiveOrder}
get_active_cjit_entries == {i \in Entries : local[i] \in ActiveEntry}

Asked(t) ==
    CASE req[t].op = "refresh_active_orders"       -> get_active_orders
      [] req[t].op = "refresh_active_cjit_entries" -> get_active_cjit_entries
      [] OTHER                                     -> req[t].ids

\* Slip: open_channel stores the outcome it expects before it asks.
AcquireOptimistic(t) ==
    /\ pc[t] = "wait"
    /\ lock = NoTask
    /\ open
    /\ req[t].op # "read"
    /\ lock' = t
    /\ pc' = [pc EXCEPT ![t] = "http"]
    /\ left' = [left EXCEPT ![t] = Asked(t)]
    /\ local' = [i \in Items |-> IF req[t].op = "open_channel" /\ i \in req[t].ids
                                 THEN "Executed" ELSE local[i]]
    /\ UNCHANGED <<provider, info, url, open, req, resp, got, out, ret>>

\* cell.lock().await returns and there is something to ask for.
Acquire(t) ==
    /\ pc[t] = "wait"
    /\ lock = NoTask
    /\ open
    /\ req[t].op # "read"
    /\ req[t].op \in {"refresh_active_orders", "refresh_active_cjit_entries"} => Asked(t) # {}
    /\ lock' = t
    /\ pc' = [pc EXCEPT ![t] = "http"]
    /\ left' = [left EXCEPT ![t] = Asked(t)]
    /\ UNCHANGED <<provider, file, url, open, req, resp, got, out, ret>>

\* blocktank_db is None; or the call only reads the file, finds nothing active
\* in it to refresh, or cannot read it.
AcquireAndReturn(t) ==
    /\ pc[t] = "wait"
    /\ lock = NoTask
    /\ \/ ~open /\ Return(t, "Err")
       \/ /\ open
          /\ req[t].op \in {"refresh_active_orders", "refresh_active_cjit_entries"}
          /\ (Asked(t) = {} /\ Return(t, "Ok")) \/ Return(t, "Err")
       \/ /\ open
          /\ req[t].op = "read"
          /\ Return(t, "Ok") \/ Return(t, "Err")
    /\ UNCHANGED <<provider, file, url, open>>

\* Slip: the new URL is not checked.
update_blocktank_url_unchecked ==
    /\ lock = NoTask
    /\ open
    /\ url' \in Urls \cup {""}
    /\ UNCHANGED <<provider, file, open, lock, task>>

\* update_blocktank_url: client and URL change together, in memory only.  An
\* empty URL or one the client refuses changes nothing.
update_blocktank_url ==
    /\ lock = NoTask
    /\ open
    /\ url' \in Urls
    /\ UNCHANGED <<provider, file, open, lock, task>>

\* init_db publishes a BlocktankDB that it opened with the default URL.
init_db ==
    /\ lock = NoTask
    /\ open' = TRUE
    /\ url' = DefaultUrl
    /\ UNCHANGED <<provider, file, lock, task>>

-----------------------------------------------------------------------------
(* HTTP requests                                                           *)

InEntryLoop(t) == req[t].op \in {"refresh_cjit_entries", "refresh_active_cjit_entries"}

\* An answer with these items arrives; the task goes on to store them, and will
\* return them.  A CJIT loop returns only those that it has stored.
Receive(t, ids) ==
    /\ resp' = [resp EXCEPT ![t] = [i \in Items |-> IF i \in ids THEN lsp'[i] ELSE NoItem]]
    /\ pc' = [pc EXCEPT ![t] = "store"]
    /\ out' = [out EXCEPT ![t] = IF InEntryLoop(t) THEN @ ELSE ids]

Create(t, i) ==
    /\ pc[t] = "http"
    /\ \/ req[t].op = "create_order" /\ i \in Orders
       \/ req[t].op = "create_cjit_entry" /\ i \in Entries
    /\ lsp[i] = NoItem
    /\ lsp' = [lsp EXCEPT ![i] = "Created"]
    /\ home' = [home EXCEPT ![i] = url]
    /\ UNCHANGED lspInfo

Open(t, i) ==
    /\ pc[t] = "http"
    /\ req[t].op = "open_channel"
    /\ i \in req[t].ids
    /\ Known(i)
    /\ lsp[i] = "Paid"
    /\ lsp' = [lsp EXCEPT ![i] = "Executed"]
    /\ UNCHANGED <<home, lspInfo>>

\* client.create_order, client.create_cjit_entry, client.open_channel.
RequestChange(t) == \E i \in Items :
    /\ Create(t, i) \/ Open(t, i)
    /\ Receive(t, {i})
    /\ UNCHANGED <<file, process, req, left, got, ret>>

\* The provider acts and its answer is lost.
AnswerLost(t) == \E i \in Items :
    /\ Create(t, i) \/ Open(t, i)
    /\ Return(t, "Err")
    /\ UNCHANGED <<file, url, open>>

\* Slip: the mutex is released while the orders are fetched.
FetchOrdersUnlocked(t) ==
    /\ pc[t] = "http"
    /\ req[t].op \in {"refresh_orders", "refresh_active_orders"}
    /\ UNCHANGED provider
    /\ Receive(t, {i \in left[t] : Known(i)})
    /\ left' = [left EXCEPT ![t] = {}]
    /\ lock' = NoTask
    /\ UNCHANGED <<file, url, open, req, got, ret>>

\* client.get_orders(ids): one request for all of them.
FetchOrders(t) ==
    /\ pc[t] = "http"
    /\ req[t].op \in {"refresh_orders", "refresh_active_orders"}
    /\ UNCHANGED provider
    /\ Receive(t, {i \in left[t] : Known(i)})
    /\ left' = [left EXCEPT ![t] = {}]
    /\ UNCHANGED <<file, process, req, got, ret>>

\* Slip: the mutex is released while the entry is fetched.
FetchEntryUnlocked(t) ==
    /\ pc[t] = "http"
    /\ InEntryLoop(t)
    /\ \E i \in left[t] :
          /\ Known(i)
          /\ UNCHANGED provider
          /\ Receive(t, {i})
          /\ left' = [left EXCEPT ![t] = @ \ {i}]
    /\ lock' = NoTask
    /\ UNCHANGED <<file, url, open, req, got, ret>>

\* client.get_cjit_entry(id): one request per entry.
FetchEntry(t) ==
    /\ pc[t] = "http"
    /\ InEntryLoop(t)
    /\ \E i \in left[t] :
          /\ Known(i)
          /\ UNCHANGED provider
          /\ Receive(t, {i})
          /\ left' = [left EXCEPT ![t] = @ \ {i}]
    /\ UNCHANGED <<file, process, req, got, ret>>

EntriesDone(t) ==
    /\ pc[t] = "http"
    /\ InEntryLoop(t)
    /\ left[t] = {}
    /\ Return(t, "Ok")
    /\ UNCHANGED <<provider, file, url, open>>

\* Slip: the mutex is released while the information is fetched.
FetchInfoUnlocked(t) ==
    /\ pc[t] = "http"
    /\ req[t].op = "get_info"
    /\ got' = [got EXCEPT ![t] = lspInfo[url]]
    /\ pc' = [pc EXCEPT ![t] = "clear_info"]
    /\ lock' = NoTask
    /\ UNCHANGED <<provider, file, url, open, req, left, resp, out, ret>>

FetchInfo(t) ==
    /\ pc[t] = "http"
    /\ req[t].op = "get_info"
    /\ got' = [got EXCEPT ![t] = lspInfo[url]]
    /\ pc' = [pc EXCEPT ![t] = "clear_info"]
    /\ UNCHANGED <<provider, file, process, req, left, resp, out, ret>>

ProxyDone(t) ==
    /\ pc[t] = "http"
    /\ req[t].op = "proxy"
    /\ Return(t, "Ok")
    /\ UNCHANGED <<provider, file, url, open>>

\* Slip: a request that failed is made again, with the mutex held.
HttpFailsRetries(t) ==
    /\ pc[t] = "http"
    /\ InEntryLoop(t) => left[t] # {}
    /\ UNCHANGED vars

\* The request fails: no connection, an error status, an unknown id.  A CJIT
\* loop goes on to the next entry, every other call returns the error.
HttpFails(t) ==
    /\ pc[t] = "http"
    /\ \/ /\ InEntryLoop(t)
          /\ \E i \in left[t] : left' = [left EXCEPT ![t] = @ \ {i}]
          /\ UNCHANGED <<lock, pc, req, resp, got, out, ret>>
       \/ ~InEntryLoop(t) /\ Return(t, "Err")
    /\ UNCHANGED <<provider, file, url, open>>

-----------------------------------------------------------------------------
(* SQL statements                                                          *)

Received(t) == {i \in Items : resp[t][i] # NoItem}

\* upsert_order, upsert_cjit_entry: INSERT OR REPLACE, whatever was stored.
StoreItem(t) ==
    /\ pc[t] = "store"
    /\ \E i \in Received(t) :
          /\ local' = [local EXCEPT ![i] = resp[t][i]]
          /\ resp' = [resp EXCEPT ![t][i] = NoItem]
          /\ out' = [out EXCEPT ![t] = IF InEntryLoop(t) THEN @ \cup {i} ELSE @]
    /\ UNCHANGED <<provider, info, process, pc, req, left, got, ret>>

StoreDone(t) ==
    /\ pc[t] = "store"
    /\ Received(t) = {}
    /\ \/ /\ InEntryLoop(t)
          /\ pc' = [pc EXCEPT ![t] = "http"]
          /\ UNCHANGED <<lock, req, left, resp, got, out, ret>>
       \/ ~InEntryLoop(t) /\ Return(t, "Ok")
    /\ UNCHANGED <<provider, file, url, open>>

\* Slip: the error of an upsert is dropped.
StoreFailsSilently(t) ==
    /\ pc[t] = "store"
    /\ Received(t) # {}
    /\ \/ /\ InEntryLoop(t)
          /\ pc' = [pc EXCEPT ![t] = "http"]
          /\ resp' = [resp EXCEPT ![t] = NothingReceived]
          /\ UNCHANGED <<lock, req, left, got, out, ret>>
       \/ ~InEntryLoop(t) /\ Return(t, "Ok")
    /\ UNCHANGED <<provider, file, url, open>>

\* A CHECK, a foreign key or SQLite itself refuses the row: a CJIT loop skips
\* the entry, every other call gives up with what it stored so far.
StoreFails(t) ==
    /\ pc[t] = "store"
    /\ Received(t) # {}
    /\ \/ /\ InEntryLoop(t)
          /\ pc' = [pc EXCEPT ![t] = "http"]
          /\ resp' = [resp EXCEPT ![t] = NothingReceived]
          /\ UNCHANGED <<lock, req, left, got, out, ret>>
       \/ ~InEntryLoop(t) /\ Return(t, "Err")
    /\ UNCHANGED <<provider, file, url, open>>

NoneCurrent(rows) == [v \in DOMAIN rows |-> IF rows[v] = "current" THEN "kept" ELSE rows[v]]

\* upsert_info, first statement: UPDATE info SET is_current = 0.
ClearCurrentInfo(t) ==
    /\ pc[t] = "clear_info"
    /\ info' = NoneCurrent(info)
    /\ pc' = [pc EXCEPT ![t] = "insert_info"]
    /\ UNCHANGED <<provider, local, process, req, left, resp, got, out, ret>>

\* Second statement: INSERT OR REPLACE with is_current = 1; the BEFORE INSERT
\* trigger clears the others once more.  There is no transaction around both.
InsertInfo(t) ==
    /\ pc[t] = "insert_info"
    /\ info' = [NoneCurrent(info) EXCEPT ![got[t]] = "current"]
    /\ Return(t, "Ok")
    /\ UNCHANGED <<provider, local, url, open>>

InfoFails(t) ==
    /\ pc[t] \in {"clear_info", "insert_info"}
    /\ Return(t, "Err")
    /\ UNCHANGED <<provider, file, url, open>>

\* The process dies: the file stays, the URL, the mutex and all tasks go.
Crash ==
    /\ open
    /\ open' = FALSE
    /\ url' = DefaultUrl
    /\ lock' = NoTask
    /\ pc' = [t \in Tasks |-> "idle"]
    /\ req' = [t \in Tasks |-> NoRequest]
    /\ left' = [t \in Tasks |-> {}]
    /\ resp' = [t \in Tasks |-> NothingReceived]
    /\ got' = [t \in Tasks |-> 1]
    /\ out' = [t \in Tasks |-> {}]
    /\ ret' = [t \in Tasks |-> "none"]
    /\ UNCHANGED <<provider, file>>

-----------------------------------------------------------------------------
StartCall(t) ==
    \/ create_order(t) \/ create_cjit_entry(t) \/ open_channel(t)
    \/ refresh_orders(t) \/ refresh_active_orders(t)
    \/ refresh_cjit_entries(t) \/ refresh_active_cjit_entries(t)
    \/ get_info(t) \/ proxy(t) \/ read(t)

\* Steps of a task that has the mutex.
Run(t) ==
    \/ RequestChange(t) \/ AnswerLost(t) \/ FetchOrders(t) \/ FetchEntry(t)
    \/ EntriesDone(t) \/ FetchInfo(t) \/ ProxyDone(t) \/ HttpFails(t)
    \/ StoreItem(t) \/ StoreDone(t) \/ StoreFails(t)
    \/ ClearCurrentInfo(t) \/ InsertInfo(t) \/ InfoFails(t)

Take(t) == Acquire(t) \/ AcquireAndReturn(t)

Environment ==
    \/ \E i \in Items : LspMoves(i)
    \/ \E u \in Urls : LspPublishesInfo(u)
    \/ update_blocktank_url \/ init_db \/ Crash

Next ==
    \/ \E t \in Tasks : StartCall(t) \/ Take(t) \/ Run(t)
    \/ Environment

Spec == Init /\ [][Next]_vars

\* A task that runs goes on (its HTTP requests end, in an answer or an error),
\* and tokio's mutex is handed on in the order of arrival, so a waiting task
\* gets it if it is released again and again.
FairSpec ==
    /\ Spec
    /\ \A t \in Tasks : WF_vars(Run(t)) /\ SF_vars(Take(t))

-----------------------------------------------------------------------------
(* Properties                                                              *)

\* The file never holds a state that the provider has not reached, for an item
\* that exists there: answers are stored while the provider moves on.
NeverAhead ==
    \A i \in Items : local[i] # NoItem => lsp[i] # NoItem /\ Later(local[i], lsp[i])

\* A task is past the mutex only while it holds it.
LockDiscipline ==
    \A t \in Tasks : pc[t] \in {"http", "store", "clear_info", "insert_info"} => lock = t

\* What makes NeverAhead and NeverBack inductive: an answer not stored yet lies
\* between the file and the provider, and comes from the current provider.
AnswersInOrder ==
    \A t \in Tasks, i \in Items : resp[t][i] # NoItem =>
        /\ pc[t] = "store"
        /\ home[i] = url
        /\ lsp[i] # NoItem /\ Later(resp[t][i], lsp[i])
        /\ local[i] # NoItem => Later(local[i], resp[t][i])

\* No refresh, however its answer is delayed or interleaved with other calls,
\* takes a stored order or entry back to an earlier state or makes it vanish:
\* the mutex is kept from the request to the last upsert (lib.rs, refresh_orders,
\* refresh_cjit_entry, open_channel).
NeverBack ==
    [][\A i \in Items : local[i] # NoItem =>
         local'[i] # NoItem /\ Later(local[i], local'[i])]_vars

\* What is stored comes from the provider that the client talks to at that
\* moment: no answer outlives a change of the URL (update_blocktank_url).
StoredFromCurrentUrl ==
    [][\A i \in Items : local'[i] # local[i] => home[i] = url]_vars

\* At most one version of the service information is current, and none newer
\* than it is in the file, although get_info calls overlap (upsert_info; one
\* provider).
CurrentInfoIsNewest ==
    \A v \in 1..MaxInfo : info[v] = "current" =>
        \A w \in 1..MaxInfo : w # v => info[w] # "current" /\ (w > v => info[w] = "absent")

\* Every order and entry that a call returns is in the file when it returns: a
\* created order is never reported and then unknown to the refreshes of active
\* items, a CJIT loop never returns an entry that it skipped
\* (create_and_store_order, refresh_orders, refresh_active_cjit_entries).
ReturnedIsStored ==
    [][\A t \in Tasks : (pc[t] # "idle" /\ ret'[t] = "Ok") =>
         \A i \in out[t] : local[i] # NoItem]_vars

\* If refresh_active_orders succeeds again and again, an order that has ended at
\* the provider is ended in the file too: none is dropped from the active set
\* while it can still change (get_active_orders; one provider).
RefreshConverges ==
    []<><<\E t \in Tasks : /\ pc[t] # "idle" /\ ret'[t] = "Ok"
                           /\ req[t].op = "refresh_active_orders">>_vars
    => \A o \in Orders :
         (local[o] # NoItem /\ Progress(lsp[o]) = 2) ~> (local[o] = lsp[o])

\* Once a version of the service information has been stored, one is current
\* whenever nobody is storing another ("Ensure single current version").
InfoStaysAvailable ==
    (lock = NoTask /\ \E v \in 1..MaxInfo : info[v] # "absent") =>
        \E v \in 1..MaxInfo : info[v] = "current"

\* Every call returns, although each holds the mutex across the network.
CallsReturn == \A t \in Tasks : pc[t] # "idle" ~> pc[t] = "idle"
=============================================================================
