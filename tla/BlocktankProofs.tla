-------------------------- MODULE BlocktankProofs --------------------------
(***************************************************************************)
(* The local copy of orders and CJIT entries never runs ahead of the       *)
(* provider and never goes back, and what the calls over it return is      *)
(* stored, for every number of concurrent calls, items and providers.      *)
(***************************************************************************)
EXTENDS Blocktank, TLAPS

-----------------------------------------------------------------------------
(* How far an item has come                                                *)

LEMMA ProgressNat == \A s : Progress(s) \in 0..2
BY DEF Progress

LEMMA LaterTransitive ==
    \A a, b, c : Later(a, b) /\ Later(b, c) => Later(a, c)
BY ProgressNat DEF Later

LEMMA LaterReflexive == \A a : Later(a, a)
BY DEF Later

-----------------------------------------------------------------------------
(* The inductive invariant                                                 *)

IInv == TypeOK /\ LockDiscipline /\ NeverAhead /\ AnswersInOrder

LEMMA InitInOrder == Init => IInv
<1> SUFFICES ASSUME Init PROVE IInv
  OBVIOUS
<1>0. /\ 1 \in 1..MaxInfo
      /\ NoRequest \in [op: Op, ids: SUBSET Items]
      /\ NothingReceived \in [Items -> State \cup {NoItem}]
  BY MaxInfoAssumption DEF NothingReceived, NoRequest, Op
<1>1. TypeOK
  BY <1>0, UrlAssumption DEF Init, TypeOK
<1>2. LockDiscipline /\ NeverAhead /\ AnswersInOrder
  BY DEF Init, LockDiscipline, NeverAhead, AnswersInOrder, NothingReceived
<1> QED BY <1>1, <1>2 DEF IInv

\* Nobody has an answer to store unless it holds the mutex.
LEMMA OnlyHolderReceived ==
    ASSUME IInv, NEW t \in Tasks, NEW i \in Items, lock # t
    PROVE  resp[t][i] = NoItem
BY DEF IInv, LockDiscipline, AnswersInOrder

\* A call that returns drops what it has not stored, and changes nothing else.
LEMMA ReturnKeeps ==
    ASSUME IInv, NEW t \in Tasks, NEW o \in {"none", "Ok", "Err"}, Return(t, o),
           lock \in {NoTask, t}, UNCHANGED <<local, url, open, lspInfo>>,
           info' \in [1..MaxInfo -> {"absent", "kept", "current"}],
           lsp' \in [Items -> State \cup {NoItem}], home' \in [Items -> Urls],
           \A i \in Items : lsp[i] # NoItem => lsp'[i] # NoItem /\ Later(lsp[i], lsp'[i])
    PROVE  IInv'
<1> USE DEF IInv
<1>1. TypeOK'
  BY MaxInfoAssumption DEF Return, TypeOK, NothingReceived, NoRequest, Op
<1>2. LockDiscipline'
  BY NoTaskAssumption DEF Return, TypeOK, LockDiscipline
<1>3. NeverAhead'
  BY LaterTransitive DEF NeverAhead
<1>4. AnswersInOrder'
  <2> SUFFICES ASSUME NEW u \in Tasks, NEW i \in Items PROVE resp'[u][i] = NoItem
    BY DEF AnswersInOrder
  <2>1. CASE u = t
    BY <2>1 DEF Return, TypeOK, NothingReceived
  <2>2. CASE u # t
    BY <2>2, NoTaskAssumption, OnlyHolderReceived DEF Return, TypeOK
  <2> QED BY <2>1, <2>2
<1> QED BY <1>1, <1>2, <1>3, <1>4

\* The provider's own steps.
LEMMA ProviderKeeps ==
    ASSUME IInv, \/ \E i \in Items : LspMoves(i)
                 \/ \E u \in Urls : LspPublishesInfo(u)
    PROVE  IInv'
<1> USE DEF IInv
<1>1. ASSUME NEW i \in Items, LspMoves(i) PROVE IInv'
  <2>1. PICK s \in State : Progress(lsp[i]) < Progress(s) /\ lsp' = [lsp EXCEPT ![i] = s]
    BY <1>1 DEF LspMoves, State
  <2>2. \A j \in Items : lsp[j] # NoItem => lsp'[j] # NoItem /\ Later(lsp[j], lsp'[j])
    BY <2>1, NoItemAssumption DEF TypeOK, Later
  <2>3. TypeOK'
    BY <1>1, <2>1 DEF LspMoves, TypeOK, file, process, task
  <2>4. LockDiscipline'
    BY <1>1 DEF LspMoves, LockDiscipline, process, task
  <2>5. NeverAhead'
    BY <1>1, <2>2, LaterTransitive DEF LspMoves, NeverAhead, file
  <2>6. AnswersInOrder'
    <3> SUFFICES ASSUME NEW t \in Tasks, NEW j \in Items, resp[t][j] # NoItem
                 PROVE  /\ pc[t] = "store" /\ home[j] = url
                        /\ lsp'[j] # NoItem /\ Later(resp[t][j], lsp'[j])
                        /\ local[j] # NoItem => Later(local[j], resp[t][j])
      BY <1>1 DEF LspMoves, AnswersInOrder, file, process, task
    <3> QED BY <2>2, LaterTransitive DEF AnswersInOrder
  <2> QED BY <2>3, <2>4, <2>5, <2>6
<1>2. ASSUME NEW u \in Urls, LspPublishesInfo(u) PROVE IInv'
  <2>1. TypeOK'
    BY <1>2, MaxInfoAssumption DEF LspPublishesInfo, TypeOK, file, process, task
  <2>2. LockDiscipline' /\ NeverAhead' /\ AnswersInOrder'
    BY <1>2 DEF LspPublishesInfo, LockDiscipline, NeverAhead, AnswersInOrder,
                file, process, task
  <2> QED BY <2>1, <2>2
<1> QED BY <1>1, <1>2

\* The exported functions start.
LEMMA StartCallKeeps ==
    ASSUME IInv, NEW t \in Tasks, StartCall(t)
    PROVE  IInv'
<1> USE DEF IInv
<1>1. PICK op \in Op, ids \in SUBSET Items : Call(t, op, ids)
  BY DEF StartCall, create_order, create_cjit_entry, open_channel, refresh_orders,
         refresh_active_orders, refresh_cjit_entries, refresh_active_cjit_entries,
         get_info, proxy, read, Op, Items
<1>2. TypeOK'
  BY <1>1 DEF Call, TypeOK, provider, file, process
<1>3. LockDiscipline' /\ NeverAhead'
  BY <1>1 DEF Call, TypeOK, LockDiscipline, NeverAhead, provider, file, process
<1>4. AnswersInOrder'
  BY <1>1 DEF Call, TypeOK, AnswersInOrder, provider, file, process
<1> QED BY <1>2, <1>3, <1>4

\* The mutex is taken.
LEMMA TakeKeeps ==
    ASSUME IInv, NEW t \in Tasks, Take(t)
    PROVE  IInv'
<1> USE DEF IInv
<1>1. CASE Acquire(t)
  <2>0. Asked(t) \in SUBSET Items
    BY DEF Asked, get_active_orders, get_active_cjit_entries, TypeOK, Items
  <2>1. TypeOK'
    BY <1>1, <2>0 DEF Acquire, TypeOK, provider, file
  <2>2. LockDiscipline'
    BY <1>1, NoTaskAssumption DEF Acquire, TypeOK, LockDiscipline
  <2>3. NeverAhead' /\ AnswersInOrder'
    BY <1>1 DEF Acquire, TypeOK, NeverAhead, AnswersInOrder, provider, file
  <2> QED BY <2>1, <2>2, <2>3
<1>2. CASE AcquireAndReturn(t)
  <2>1. \E o \in {"none", "Ok", "Err"} : Return(t, o)
    BY <1>2 DEF AcquireAndReturn
  <2>2. lock = NoTask /\ UNCHANGED <<provider, file, url, open>>
    BY <1>2 DEF AcquireAndReturn
  <2> QED BY <2>1, <2>2, ReturnKeeps, LaterReflexive DEF TypeOK, provider, file
<1> QED BY <1>1, <1>2 DEF Take

\* Returns that change neither the provider nor the items in the file.
LEMMA ReturnStepKeeps ==
    ASSUME IInv, NEW t \in Tasks, NEW o \in {"none", "Ok", "Err"}, Return(t, o),
           pc[t] \in {"http", "store", "clear_info", "insert_info"},
           UNCHANGED <<provider, local, url, open>>,
           info' \in [1..MaxInfo -> {"absent", "kept", "current"}]
    PROVE  IInv'
<1>1. lock = t
  BY DEF IInv, LockDiscipline
<1> QED BY <1>1, ReturnKeeps, LaterReflexive DEF IInv, TypeOK, provider

\* A step of the holder of the mutex that leaves the items, the answers and the
\* provider alone.
LEMMA QuietKeeps ==
    ASSUME IInv, NEW t \in Tasks, NEW step \in {"http", "store", "clear_info", "insert_info"},
           pc[t] \in {"http", "store", "clear_info", "insert_info"},
           pc' = [pc EXCEPT ![t] = step],
           \A i \in Items : resp'[t][i] # NoItem => resp' = resp /\ step = "store",
           resp' \in [Tasks -> [Items -> State \cup {NoItem}]],
           \A u \in Tasks \ {t} : resp'[u] = resp[u],
           info' \in [1..MaxInfo -> {"absent", "kept", "current"}],
           left' \in [Tasks -> SUBSET Items], got' \in [Tasks -> 1..MaxInfo],
           UNCHANGED <<provider, local, process, req, out, ret>>
    PROVE  IInv'
<1> USE DEF IInv
<1>1. TypeOK'
  BY DEF TypeOK, provider, process
<1>2. LockDiscipline'
  BY DEF TypeOK, LockDiscipline, process
<1>3. NeverAhead'
  BY DEF NeverAhead, provider
<1>4. AnswersInOrder'
  <2> SUFFICES ASSUME NEW u \in Tasks, NEW i \in Items, resp'[u][i] # NoItem
               PROVE  /\ pc'[u] = "store" /\ home[i] = url
                      /\ lsp[i] # NoItem /\ Later(resp'[u][i], lsp[i])
                      /\ local[i] # NoItem => Later(local[i], resp'[u][i])
    BY DEF AnswersInOrder, provider, process
  <2>1. CASE u = t
    <3>1. resp' = resp /\ pc'[u] = "store"
      BY <2>1 DEF TypeOK
    <3> QED BY <3>1 DEF AnswersInOrder
  <2>2. CASE u # t
    <3>1. resp'[u] = resp[u] /\ pc'[u] = pc[u]
      BY <2>2 DEF TypeOK
    <3> QED BY <3>1 DEF AnswersInOrder
  <2> QED BY <2>1, <2>2
<1> QED BY <1>1, <1>2, <1>3, <1>4

\* An answer arrives: it is what the provider holds at that moment, and nobody
\* can have stored anything later.
LEMMA ReceiveKeeps ==
    ASSUME IInv, NEW t \in Tasks, NEW ids \in SUBSET Items, Receive(t, ids), pc[t] = "http",
           lsp' \in [Items -> State \cup {NoItem}], home' \in [Items -> Urls],
           \A i \in Items : lsp[i] # NoItem =>
               lsp'[i] # NoItem /\ Later(lsp[i], lsp'[i]),
           \A i \in ids : lsp'[i] # NoItem /\ home'[i] = url,
           left' \in [Tasks -> SUBSET Items],
           UNCHANGED <<lspInfo, file, process, req, got, ret>>
    PROVE  IInv'
<1> USE DEF IInv
<1>0. lock = t
  BY DEF LockDiscipline
<1>1. TypeOK'
  <2>1. resp' \in [Tasks -> [Items -> State \cup {NoItem}]]
    BY DEF Receive, TypeOK
  <2>2. out' \in [Tasks -> SUBSET Items]
    BY DEF Receive, TypeOK
  <2>3. pc' \in [Tasks -> {"idle", "wait", "http", "store", "clear_info", "insert_info"}]
    BY DEF Receive, TypeOK
  <2> QED BY <2>1, <2>2, <2>3 DEF TypeOK, file, process
<1>2. LockDiscipline'
  BY <1>0 DEF Receive, TypeOK, LockDiscipline, process
<1>3. NeverAhead'
  BY LaterTransitive DEF NeverAhead, file
<1>4. AnswersInOrder'
  <2> SUFFICES ASSUME NEW u \in Tasks, NEW i \in Items, resp'[u][i] # NoItem
               PROVE  /\ pc'[u] = "store" /\ home'[i] = url
                      /\ lsp'[i] # NoItem /\ Later(resp'[u][i], lsp'[i])
                      /\ local[i] # NoItem => Later(local[i], resp'[u][i])
    BY DEF AnswersInOrder, file, process
  <2>1. u = t
    BY <1>0, OnlyHolderReceived DEF Receive, TypeOK
  <2>2. i \in ids /\ resp'[u][i] = lsp'[i] /\ pc'[u] = "store"
    BY <2>1 DEF Receive, TypeOK
  <2>3. local[i] # NoItem => Later(local[i], lsp'[i])
    BY LaterTransitive DEF NeverAhead
  <2> QED BY <2>2, <2>3, LaterReflexive
<1> QED BY <1>1, <1>2, <1>3, <1>4

\* What a create or open request does at the provider.
LEMMA ChangeMovesOn ==
    ASSUME IInv, NEW t \in Tasks, NEW i \in Items, Create(t, i) \/ Open(t, i)
    PROVE  /\ lsp' \in [Items -> State \cup {NoItem}] /\ home' \in [Items -> Urls]
           /\ \A j \in Items : lsp[j] # NoItem => lsp'[j] # NoItem /\ Later(lsp[j], lsp'[j])
           /\ lsp'[i] # NoItem /\ home'[i] = url
           /\ lspInfo' = lspInfo /\ pc[t] = "http"
<1>0. {"Created", "Paid", "Executed"} \subseteq State
  BY DEF State, BtOrderState2
<1>1. CASE Create(t, i)
  BY <1>0, <1>1, NoItemAssumption, LaterReflexive DEF Create, IInv, TypeOK
<1>2. CASE Open(t, i)
  <2>1. Later("Paid", "Executed")
    BY DEF Later, Progress
  <2> QED BY <1>0, <1>2, <2>1, NoItemAssumption, LaterReflexive DEF Open, Known, IInv, TypeOK
<1> QED BY <1>1, <1>2

\* The HTTP requests.
LEMMA HttpKeeps ==
    ASSUME IInv, NEW t \in Tasks,
           \/ RequestChange(t) \/ AnswerLost(t) \/ FetchOrders(t) \/ FetchEntry(t)
           \/ EntriesDone(t) \/ FetchInfo(t) \/ ProxyDone(t) \/ HttpFails(t)
    PROVE  IInv'
<1>1. CASE RequestChange(t)
  <2>1. PICK i \in Items : /\ Create(t, i) \/ Open(t, i)
                           /\ Receive(t, {i})
                           /\ UNCHANGED <<file, process, req, left, got, ret>>
    BY <1>1 DEF RequestChange
  <2>2. left' \in [Tasks -> SUBSET Items]
    BY <2>1 DEF IInv, TypeOK
  <2> QED BY <2>1, <2>2, ChangeMovesOn, ReceiveKeeps
<1>2. CASE AnswerLost(t)
  <2>1. PICK i \in Items : /\ Create(t, i) \/ Open(t, i)
                           /\ Return(t, "Err")
                           /\ UNCHANGED <<file, url, open>>
    BY <1>2 DEF AnswerLost
  <2>2. lock = t
    BY <2>1, ChangeMovesOn DEF IInv, LockDiscipline
  <2>3. info' \in [1..MaxInfo -> {"absent", "kept", "current"}] /\ local' = local
    BY <2>1 DEF file, IInv, TypeOK
  <2> QED BY <2>1, <2>2, <2>3, ChangeMovesOn, ReturnKeeps
<1>3. CASE FetchOrders(t)
  <2> DEFINE ids == {i \in left[t] : Known(i)}
  <2>1. left[t] \subseteq Items /\ left' \in [Tasks -> SUBSET Items]
    BY <1>3 DEF FetchOrders, IInv, TypeOK
  <2>2. ids \in SUBSET Items /\ \A i \in ids : lsp[i] # NoItem /\ home[i] = url
    BY <2>1 DEF Known
  <2> HIDE DEF ids
  <2>3. Receive(t, ids) /\ pc[t] = "http" /\ UNCHANGED <<lsp, home, lspInfo>>
    BY <1>3 DEF FetchOrders, ids, provider
  <2> QED BY <1>3, <2>1, <2>2, <2>3, ReceiveKeeps, LaterReflexive DEF FetchOrders, IInv, TypeOK
<1>4. CASE FetchEntry(t)
  <2>1. PICK i \in left[t] : /\ Known(i) /\ UNCHANGED provider
                             /\ Receive(t, {i})
                             /\ left' = [left EXCEPT ![t] = @ \ {i}]
    BY <1>4 DEF FetchEntry
  <2> DEFINE ids == {i}
  <2>2. left[t] \subseteq Items /\ left' \in [Tasks -> SUBSET Items]
    BY <2>1 DEF IInv, TypeOK
  <2>3. ids \in SUBSET Items /\ \A j \in ids : lsp[j] # NoItem /\ home[j] = url
    BY <2>1, <2>2 DEF Known
  <2>4. Receive(t, ids)
    BY <2>1
  <2> HIDE DEF ids
  <2>5. /\ pc[t] = "http" /\ UNCHANGED <<lsp, home, lspInfo>>
        /\ UNCHANGED <<file, process, req, got, ret>>
    BY <1>4, <2>1 DEF FetchEntry, provider
  <2>6. \A j \in Items : lsp[j] # NoItem => lsp'[j] # NoItem /\ Later(lsp[j], lsp'[j])
    BY <2>5, LaterReflexive
  <2>7. /\ lsp' \in [Items -> State \cup {NoItem}] /\ home' \in [Items -> Urls]
        /\ \A j \in ids : lsp'[j] # NoItem /\ home'[j] = url
    BY <2>3, <2>5 DEF IInv, TypeOK
  <2> QED BY <2>2, <2>3, <2>4, <2>5, <2>6, <2>7, ReceiveKeeps
<1>5. CASE EntriesDone(t) \/ ProxyDone(t)
  <2>1. /\ Return(t, "Ok") /\ pc[t] = "http" /\ UNCHANGED <<provider, local, url, open>>
        /\ info' \in [1..MaxInfo -> {"absent", "kept", "current"}]
    BY <1>5 DEF EntriesDone, ProxyDone, file, IInv, TypeOK
  <2> QED BY <2>1, ReturnStepKeeps
<1>6. CASE FetchInfo(t)
  <2>1. /\ pc[t] = "http" /\ pc' = [pc EXCEPT ![t] = "clear_info"]
        /\ UNCHANGED <<provider, local, process, req, out, ret>>
        /\ info' \in [1..MaxInfo -> {"absent", "kept", "current"}]
        /\ left' \in [Tasks -> SUBSET Items] /\ got' \in [Tasks -> 1..MaxInfo]
        /\ resp' = resp /\ resp \in [Tasks -> [Items -> State \cup {NoItem}]]
    BY <1>6 DEF FetchInfo, file, IInv, TypeOK
  <2>2. \A i \in Items : resp[t][i] = NoItem
    BY <2>1 DEF IInv, AnswersInOrder
  <2> QED BY <2>1, <2>2, QuietKeeps
<1>7. CASE HttpFails(t)
  <2>1. CASE Return(t, "Err")
    <3>1. /\ pc[t] = "http" /\ UNCHANGED <<provider, local, url, open>>
          /\ info' \in [1..MaxInfo -> {"absent", "kept", "current"}]
      BY <1>7 DEF HttpFails, file, IInv, TypeOK
    <3> QED BY <2>1, <3>1, ReturnStepKeeps
  <2>2. CASE /\ \E i \in left[t] : left' = [left EXCEPT ![t] = @ \ {i}]
             /\ UNCHANGED <<lock, pc, req, resp, got, out, ret>>
    <3>1. /\ pc[t] = "http" /\ pc' = [pc EXCEPT ![t] = "http"]
          /\ UNCHANGED <<provider, local, process, req, out, ret>>
          /\ info' \in [1..MaxInfo -> {"absent", "kept", "current"}]
          /\ left' \in [Tasks -> SUBSET Items] /\ got' \in [Tasks -> 1..MaxInfo]
          /\ resp' = resp /\ resp \in [Tasks -> [Items -> State \cup {NoItem}]]
      BY <1>7, <2>2 DEF HttpFails, file, process, IInv, TypeOK
    <3>2. \A i \in Items : resp[t][i] = NoItem
      BY <3>1 DEF IInv, AnswersInOrder
    <3> QED BY <3>1, <3>2, QuietKeeps
  <2> QED BY <1>7, <2>1, <2>2 DEF HttpFails
<1> QED BY <1>1, <1>2, <1>3, <1>4, <1>5, <1>6, <1>7

\* One upsert: the row is the answer, which no other task can have overtaken.
LEMMA StoreItemKeeps ==
    ASSUME IInv, NEW t \in Tasks, StoreItem(t)
    PROVE  IInv'
<1> USE DEF IInv
<1>1. PICK i \in Received(t) :
          /\ local' = [local EXCEPT ![i] = resp[t][i]]
          /\ resp' = [resp EXCEPT ![t][i] = NoItem]
          /\ out' = [out EXCEPT ![t] = IF InEntryLoop(t) THEN @ \cup {i} ELSE @]
  BY DEF StoreItem
<1>2. i \in Items /\ resp[t][i] # NoItem
  BY <1>1 DEF Received
<1>3. pc[t] = "store" /\ lock = t
  BY DEF StoreItem, LockDiscipline
<1>4. UNCHANGED <<provider, info, process, pc, req, left, got, ret>>
  BY DEF StoreItem
<1>5. TypeOK'
  <2>1. local' \in [Items -> State \cup {NoItem}] /\ out' \in [Tasks -> SUBSET Items]
    BY <1>1, <1>2 DEF TypeOK
  <2>2. resp' \in [Tasks -> [Items -> State \cup {NoItem}]]
    BY <1>1, <1>2 DEF TypeOK
  <2> QED BY <1>4, <2>1, <2>2 DEF TypeOK, provider, process
<1>6. LockDiscipline'
  BY <1>4 DEF LockDiscipline, process
<1>7. NeverAhead'
  BY <1>1, <1>2, <1>4 DEF TypeOK, NeverAhead, AnswersInOrder, provider
<1>8. AnswersInOrder'
  <2> SUFFICES ASSUME NEW u \in Tasks, NEW j \in Items, resp'[u][j] # NoItem
               PROVE  /\ pc[u] = "store" /\ home[j] = url
                      /\ lsp[j] # NoItem /\ Later(resp'[u][j], lsp[j])
                      /\ local'[j] # NoItem => Later(local'[j], resp'[u][j])
    BY <1>4 DEF AnswersInOrder, provider, process
  <2>1. u = t
    BY <1>1, <1>3, OnlyHolderReceived DEF TypeOK
  <2>2. j # i /\ resp'[u][j] = resp[u][j]
    BY <1>1, <1>2, <2>1 DEF TypeOK
  <2>3. local'[j] = local[j]
    BY <1>1, <2>2 DEF TypeOK
  <2> QED BY <2>2, <2>3 DEF AnswersInOrder
<1> QED BY <1>5, <1>6, <1>7, <1>8

\* The other SQL steps.
LEMMA SqlKeeps ==
    ASSUME IInv, NEW t \in Tasks,
           \/ StoreDone(t) \/ StoreFails(t)
           \/ ClearCurrentInfo(t) \/ InsertInfo(t) \/ InfoFails(t)
    PROVE  IInv'
<1> DEFINE Rows == [1..MaxInfo -> {"absent", "kept", "current"}]
<1>0. info \in Rows /\ NoneCurrent(info) \in Rows
  BY DEF NoneCurrent, IInv, TypeOK
<1>1. CASE StoreDone(t)
  <2>1. CASE Return(t, "Ok")
    <3>1. pc[t] = "store" /\ UNCHANGED <<provider, local, url, open>> /\ info' \in Rows
      BY <1>0, <1>1 DEF StoreDone, file
    <3> QED BY <2>1, <3>1, ReturnStepKeeps
  <2>2. CASE /\ pc' = [pc EXCEPT ![t] = "http"]
             /\ UNCHANGED <<lock, req, left, resp, got, out, ret>>
    <3>1. /\ pc[t] = "store" /\ UNCHANGED <<provider, local, process, req, out, ret>>
          /\ info' \in Rows /\ left' \in [Tasks -> SUBSET Items]
          /\ got' \in [Tasks -> 1..MaxInfo]
          /\ resp' = resp /\ resp \in [Tasks -> [Items -> State \cup {NoItem}]]
      BY <1>0, <1>1, <2>2 DEF StoreDone, file, process, IInv, TypeOK
    <3>2. \A i \in Items : resp[t][i] = NoItem
      BY <1>1 DEF StoreDone, Received
    <3> QED BY <2>2, <3>1, <3>2, QuietKeeps
  <2> QED BY <1>1, <2>1, <2>2 DEF StoreDone
<1>2. CASE StoreFails(t)
  <2>1. CASE Return(t, "Err")
    <3>1. pc[t] = "store" /\ UNCHANGED <<provider, local, url, open>> /\ info' \in Rows
      BY <1>0, <1>2 DEF StoreFails, file
    <3> QED BY <2>1, <3>1, ReturnStepKeeps
  <2>2. CASE /\ pc' = [pc EXCEPT ![t] = "http"]
             /\ resp' = [resp EXCEPT ![t] = NothingReceived]
             /\ UNCHANGED <<lock, req, left, got, out, ret>>
    <3>1. /\ pc[t] = "store" /\ UNCHANGED <<provider, local, process, req, out, ret>>
          /\ info' \in Rows /\ left' \in [Tasks -> SUBSET Items]
          /\ got' \in [Tasks -> 1..MaxInfo]
      BY <1>0, <1>2, <2>2 DEF StoreFails, file, process, IInv, TypeOK
    <3>2. /\ resp' \in [Tasks -> [Items -> State \cup {NoItem}]]
          /\ \A i \in Items : resp'[t][i] = NoItem
          /\ \A u \in Tasks \ {t} : resp'[u] = resp[u]
      BY <2>2 DEF NothingReceived, IInv, TypeOK
    <3> QED BY <2>2, <3>1, <3>2, QuietKeeps
  <2> QED BY <1>2, <2>1, <2>2 DEF StoreFails
<1>3. CASE ClearCurrentInfo(t)
  <2>1. /\ pc[t] = "clear_info" /\ pc' = [pc EXCEPT ![t] = "insert_info"]
        /\ UNCHANGED <<provider, local, process, req, out, ret>>
        /\ info' \in Rows /\ left' \in [Tasks -> SUBSET Items]
        /\ got' \in [Tasks -> 1..MaxInfo]
        /\ resp' = resp /\ resp \in [Tasks -> [Items -> State \cup {NoItem}]]
    BY <1>0, <1>3 DEF ClearCurrentInfo, IInv, TypeOK
  <2>2. \A i \in Items : resp[t][i] = NoItem
    BY <2>1 DEF IInv, AnswersInOrder
  <2> QED BY <2>1, <2>2, QuietKeeps
<1>4. CASE InsertInfo(t)
  <2>1. info' \in Rows
    BY <1>0, <1>4 DEF InsertInfo, IInv, TypeOK
  <2>2. pc[t] = "insert_info" /\ Return(t, "Ok") /\ UNCHANGED <<provider, local, url, open>>
    BY <1>4 DEF InsertInfo
  <2> QED BY <2>1, <2>2, ReturnStepKeeps
<1>5. CASE InfoFails(t)
  <2>1. /\ pc[t] \in {"clear_info", "insert_info"} /\ Return(t, "Err")
        /\ UNCHANGED <<provider, local, url, open>> /\ info' \in Rows
    BY <1>0, <1>5 DEF InfoFails, file
  <2> QED BY <2>1, ReturnStepKeeps
<1> QED BY <1>1, <1>2, <1>3, <1>4, <1>5

\* The steps that change the URL wait for the mutex, or kill every task.
LEMMA ProcessKeeps ==
    ASSUME IInv, update_blocktank_url \/ init_db \/ Crash
    PROVE  IInv'
<1> USE DEF IInv
<1>1. CASE update_blocktank_url \/ init_db
  <2>1. /\ lock = NoTask /\ url' \in Urls /\ open' \in BOOLEAN
        /\ UNCHANGED <<provider, file, lock, task>>
    BY <1>1, UrlAssumption DEF update_blocktank_url, init_db, TypeOK
  <2>2. TypeOK'
    BY <2>1 DEF TypeOK, provider, file, task
  <2>3. LockDiscipline' /\ NeverAhead'
    BY <2>1 DEF LockDiscipline, NeverAhead, provider, file, task
  <2>4. \A t \in Tasks, i \in Items : resp'[t][i] = NoItem
    BY <2>1, NoTaskAssumption, OnlyHolderReceived DEF task
  <2> QED BY <2>2, <2>3, <2>4 DEF AnswersInOrder
<1>2. CASE Crash
  <2>0. /\ 1 \in 1..MaxInfo
        /\ NoRequest \in [op: Op, ids: SUBSET Items]
        /\ NothingReceived \in [Items -> State \cup {NoItem}]
    BY MaxInfoAssumption DEF NothingReceived, NoRequest, Op
  <2>1. TypeOK'
    BY <1>2, <2>0, UrlAssumption DEF Crash, TypeOK, provider, file
  <2>2. LockDiscipline' /\ NeverAhead'
    BY <1>2 DEF Crash, LockDiscipline, NeverAhead, provider, file
  <2>3. AnswersInOrder'
    BY <1>2 DEF Crash, AnswersInOrder, NothingReceived
  <2> QED BY <2>1, <2>2, <2>3
<1> QED BY <1>1, <1>2

LEMMA NextKeeps == IInv /\ [Next]_vars => IInv'
<1> SUFFICES ASSUME IInv, [Next]_vars PROVE IInv'
  OBVIOUS
<1>1. CASE \E t \in Tasks : StartCall(t) \/ Take(t)
  BY <1>1, StartCallKeeps, TakeKeeps
<1>2. CASE \E t \in Tasks : Run(t)
  BY <1>2, HttpKeeps, StoreItemKeeps, SqlKeeps DEF Run
<1>3. CASE Environment
  BY <1>3, ProviderKeeps, ProcessKeeps DEF Environment
<1>4. CASE UNCHANGED vars
  BY <1>4 DEF IInv, TypeOK, LockDiscipline, NeverAhead, AnswersInOrder, vars
<1> QED BY <1>1, <1>2, <1>3, <1>4 DEF Next

LEMMA AlwaysInOrder == Spec => []IInv
BY InitInOrder, NextKeeps, PTL DEF Spec

-----------------------------------------------------------------------------
(* The theorems                                                            *)

\* Every state the Blocktank calls reach is well typed.
THEOREM TypeCorrect == Spec => []TypeOK
<1>1. IInv => TypeOK
  BY DEF IInv
<1> QED BY <1>1, AlwaysInOrder, PTL

\* No stored order or CJIT entry is ahead of the provider (upsert_order and
\* upsert_cjit_entry store only answers).
THEOREM NeverAheadHolds == Spec => []NeverAhead
<1>1. IInv => NeverAhead
  BY DEF IInv
<1> QED BY <1>1, AlwaysInOrder, PTL

\* StoreItem is the only step that changes the rows, and it stores an answer
\* that AnswersInOrder places after the row and at the current URL.
LEMMA RowStep ==
    ASSUME IInv, [Next]_vars
    PROVE  \A i \in Items :
              /\ local[i] # NoItem => local'[i] # NoItem /\ Later(local[i], local'[i])
              /\ local'[i] # local[i] => home[i] = url
<1>1. CASE local' = local
  BY <1>1, LaterReflexive
<1>2. CASE \E t \in Tasks : StoreItem(t)
  <2>0. PICK t \in Tasks : StoreItem(t)
    BY <1>2
  <2>1. PICK i \in Received(t) : local' = [local EXCEPT ![i] = resp[t][i]]
    BY <2>0 DEF StoreItem
  <2>2. i \in Items /\ resp[t][i] # NoItem
    BY <2>1 DEF Received
  <2>3. home[i] = url /\ (local[i] # NoItem => Later(local[i], resp[t][i]))
    BY <2>2 DEF IInv, AnswersInOrder
  <2> QED BY <2>1, <2>2, <2>3, LaterReflexive DEF IInv, TypeOK
<1>3. CASE \E t \in Tasks : StartCall(t) \/ Take(t)
  BY <1>3, <1>1 DEF StartCall, create_order, create_cjit_entry, open_channel, refresh_orders,
         refresh_active_orders, refresh_cjit_entries, refresh_active_cjit_entries,
         get_info, proxy, read, Call, Take, Acquire, AcquireAndReturn, file
<1>4. CASE \E t \in Tasks : Run(t)
  BY <1>1, <1>2, <1>4 DEF Run, RequestChange, AnswerLost, FetchOrders, FetchEntry, EntriesDone,
         FetchInfo, ProxyDone, HttpFails, StoreDone, StoreFails, ClearCurrentInfo,
         InsertInfo, InfoFails, file
<1>5. CASE Environment \/ UNCHANGED vars
  BY <1>1, <1>5 DEF Environment, LspMoves, LspPublishesInfo, update_blocktank_url, init_db,
         Crash, file, vars
<1> QED BY <1>3, <1>4, <1>5 DEF Next

\* No refresh takes a stored item back to an earlier state or removes it,
\* however many calls overlap: the mutex is held from the request to the upsert.
THEOREM NeverBackHolds == Spec => NeverBack
<1>1. IInv /\ [Next]_vars => [\A i \in Items : local[i] # NoItem =>
                                local'[i] # NoItem /\ Later(local[i], local'[i])]_vars
  BY RowStep
<1> QED BY <1>1, AlwaysInOrder, PTL DEF Spec, NeverBack

\* No answer of one provider is stored after update_blocktank_url or init_db has
\* switched the client to another.
THEOREM StoredFromCurrentUrlHolds == Spec => StoredFromCurrentUrl
<1>1. IInv /\ [Next]_vars => [\A i \in Items : local'[i] # local[i] => home[i] = url]_vars
  BY RowStep
<1> QED BY <1>1, AlwaysInOrder, PTL DEF Spec, StoredFromCurrentUrl

-----------------------------------------------------------------------------
(* What a call is about to return                                          *)

\* Every item of the value that a task will return is in the file already, or
\* is an answer that the task has yet to store before it returns.
OutInOrder(t) ==
    /\ pc[t] # "idle" => ret[t] = "none"
    /\ pc[t] \in {"idle", "wait", "clear_info", "insert_info"} => out[t] = {}
    /\ (pc[t] = "http" /\ ~InEntryLoop(t)) => out[t] = {}
    /\ \A i \in out[t] :
          local[i] # NoItem \/ (pc[t] = "store" /\ ~InEntryLoop(t) /\ resp[t][i] # NoItem)

OutsInOrder == \A t \in Tasks : OutInOrder(t)

\* Task u does not notice: its call stands where it stood.
SameTask(u) ==
    /\ pc'[u] = pc[u] /\ req'[u] = req[u] /\ resp'[u] = resp[u]
    /\ out'[u] = out[u] /\ ret'[u] = ret[u] /\ got'[u] = got[u]

\* No row goes away.
RowsStay == \A i \in Items : local[i] # NoItem => local'[i] # NoItem

LEMMA SameTaskKeeps ==
    ASSUME IInv, NEW u \in Tasks, OutInOrder(u), SameTask(u), RowsStay
    PROVE  OutInOrder(u)'
<1>1. out[u] \subseteq Items
  BY DEF IInv, TypeOK
<1> QED BY <1>1 DEF OutInOrder, SameTask, RowsStay, InEntryLoop

\* The steps of one task leave the others alone.
LEMMA OthersSame ==
    ASSUME IInv, NEW t \in Tasks, StartCall(t) \/ Take(t) \/ Run(t), NEW u \in Tasks \ {t}
    PROVE  SameTask(u)
<1> USE DEF IInv, TypeOK, SameTask
<1>1. CASE \E o : Return(t, o)
  BY <1>1 DEF Return
<1>2. CASE StartCall(t)
  <2>1. \E op, ids : Call(t, op, ids)
    BY <1>2 DEF StartCall, create_order, create_cjit_entry, open_channel, refresh_orders,
         refresh_active_orders, refresh_cjit_entries, refresh_active_cjit_entries,
         get_info, proxy, read
  <2> QED BY <2>1 DEF Call
<1>3. CASE Take(t)
  BY <1>1, <1>3 DEF Take, Acquire, AcquireAndReturn
<1>4. CASE RequestChange(t) \/ FetchOrders(t) \/ FetchEntry(t)
  <2>1. /\ \E ids : Receive(t, ids)
        /\ UNCHANGED <<req, got, ret>>
    BY <1>4 DEF RequestChange, FetchOrders, FetchEntry
  <2> QED BY <2>1 DEF Receive
<1>5. CASE FetchInfo(t) \/ ClearCurrentInfo(t)
  BY <1>5 DEF FetchInfo, ClearCurrentInfo
<1>6. CASE HttpFails(t) \/ StoreDone(t) \/ StoreFails(t)
  BY <1>1, <1>6 DEF HttpFails, StoreDone, StoreFails
<1>7. CASE StoreItem(t)
  BY <1>7 DEF StoreItem
<1>8. ASSUME AnswerLost(t) \/ EntriesDone(t) \/ ProxyDone(t) \/ InsertInfo(t) \/ InfoFails(t)
      PROVE  \E o : Return(t, o)
  BY <1>8 DEF AnswerLost, EntriesDone, ProxyDone, InsertInfo, InfoFails
<1> QED BY <1>1, <1>2, <1>3, <1>4, <1>5, <1>6, <1>7, <1>8 DEF Run

\* A task that has returned, for whatever reason, returns nothing any more.
LEMMA ReturnOut ==
    ASSUME IInv, NEW t \in Tasks, NEW o, Return(t, o)
    PROVE  OutInOrder(t)'
BY DEF Return, IInv, TypeOK, OutInOrder

\* An answer arrives.
LEMMA ReceiveOut ==
    ASSUME IInv, NEW t \in Tasks, OutInOrder(t), NEW ids \in SUBSET Items, Receive(t, ids),
           pc[t] = "http", UNCHANGED <<req, ret, local>>, \A i \in ids : lsp'[i] # NoItem
    PROVE  OutInOrder(t)'
<1>1. /\ pc'[t] = "store" /\ req'[t] = req[t] /\ ret'[t] = ret[t]
      /\ out'[t] = IF InEntryLoop(t) THEN out[t] ELSE ids
      /\ \A i \in ids : resp'[t][i] # NoItem
  BY DEF Receive, IInv, TypeOK
<1>2. InEntryLoop(t)' = InEntryLoop(t)
  BY <1>1 DEF InEntryLoop
<1>3. CASE InEntryLoop(t)
  BY <1>1, <1>2, <1>3 DEF OutInOrder
<1>4. CASE ~InEntryLoop(t)
  BY <1>1, <1>2, <1>4 DEF OutInOrder
<1> QED BY <1>3, <1>4

LEMMA TaskOut ==
    ASSUME IInv, NEW t \in Tasks, OutInOrder(t), StartCall(t) \/ Take(t) \/ Run(t)
    PROVE  OutInOrder(t)'
<1>1. CASE \E o : Return(t, o)
  BY <1>1, ReturnOut
<1>2. CASE StartCall(t)
  <2>1. \E op, ids : Call(t, op, ids)
    BY <1>2 DEF StartCall, create_order, create_cjit_entry, open_channel, refresh_orders,
         refresh_active_orders, refresh_cjit_entries, refresh_active_cjit_entries,
         get_info, proxy, read
  <2> QED BY <2>1 DEF Call, IInv, TypeOK, OutInOrder
<1>3. CASE Take(t)
  <2>1. CASE Acquire(t)
    BY <2>1 DEF Acquire, IInv, TypeOK, OutInOrder, InEntryLoop
  <2>2. CASE AcquireAndReturn(t)
    BY <1>1, <2>2 DEF AcquireAndReturn
  <2> QED BY <1>3, <2>1, <2>2 DEF Take
<1>4. CASE RequestChange(t)
  <2>1. PICK i \in Items : /\ Create(t, i) \/ Open(t, i)
                           /\ Receive(t, {i})
                           /\ UNCHANGED <<file, process, req, left, got, ret>>
    BY <1>4 DEF RequestChange
  <2>2. pc[t] = "http" /\ lsp'[i] # NoItem /\ local' = local
    BY <2>1, ChangeMovesOn DEF file
  <2> QED BY <2>1, <2>2, ReceiveOut
<1>5. CASE FetchOrders(t)
  <2> DEFINE ids == {i \in left[t] : Known(i)}
  <2>1. ids \in SUBSET Items /\ \A i \in ids : lsp'[i] # NoItem
    BY <1>5 DEF FetchOrders, Known, IInv, TypeOK, provider
  <2> HIDE DEF ids
  <2>2. Receive(t, ids) /\ pc[t] = "http" /\ UNCHANGED <<req, ret, local>>
    BY <1>5 DEF FetchOrders, file, ids
  <2> QED BY <2>1, <2>2, ReceiveOut
<1>6. CASE FetchEntry(t)
  <2>1. PICK i \in left[t] : Known(i) /\ UNCHANGED provider /\ Receive(t, {i})
    BY <1>6 DEF FetchEntry
  <2>2. i \in Items /\ lsp'[i] # NoItem
    BY <2>1 DEF Known, IInv, TypeOK, provider
  <2>3. pc[t] = "http" /\ UNCHANGED <<req, ret, local>>
    BY <1>6 DEF FetchEntry, file
  <2> QED BY <2>1, <2>2, <2>3, ReceiveOut
<1>7. CASE FetchInfo(t) \/ ClearCurrentInfo(t)
  <2>1. FetchInfo(t) => ~InEntryLoop(t)
    BY DEF FetchInfo, InEntryLoop
  <2>2. out[t] = {} /\ ret[t] = "none"
    BY <1>7, <2>1 DEF FetchInfo, ClearCurrentInfo, OutInOrder
  <2>3. out'[t] = {} /\ ret'[t] = "none" /\ pc'[t] \in {"clear_info", "insert_info"}
    BY <1>7, <2>2 DEF FetchInfo, ClearCurrentInfo, IInv, TypeOK
  <2> QED BY <2>3 DEF OutInOrder
<1>8. CASE HttpFails(t) /\ ~\E o : Return(t, o)
  BY <1>8 DEF HttpFails, OutInOrder, InEntryLoop, file
<1>9. CASE StoreItem(t)
  <2>1. PICK i \in Received(t) :
          /\ local' = [local EXCEPT ![i] = resp[t][i]]
          /\ resp' = [resp EXCEPT ![t][i] = NoItem]
          /\ out' = [out EXCEPT ![t] = IF InEntryLoop(t) THEN @ \cup {i} ELSE @]
    BY <1>9 DEF StoreItem
  <2>2. i \in Items /\ resp[t][i] # NoItem /\ pc[t] = "store" /\ UNCHANGED <<pc, req, ret>>
    BY <1>9, <2>1 DEF StoreItem, Received
  <2>3. /\ local'[i] # NoItem /\ \A j \in Items \ {i} : local'[j] = local[j]
        /\ \A j \in Items \ {i} : resp'[t][j] = resp[t][j]
        /\ out[t] \subseteq Items
    BY <2>1, <2>2 DEF IInv, TypeOK
  <2>4. out'[t] = IF InEntryLoop(t) THEN out[t] \cup {i} ELSE out[t]
    BY <2>1 DEF IInv, TypeOK
  <2>5. InEntryLoop(t)' = InEntryLoop(t) /\ ret'[t] = "none"
    BY <2>2 DEF InEntryLoop, OutInOrder
  <2>6. ASSUME NEW j \in out'[t]
        PROVE  local'[j] # NoItem \/ (~InEntryLoop(t) /\ resp'[t][j] # NoItem)
    <3>1. CASE j = i
      BY <2>3, <3>1
    <3>2. CASE j # i
      <4>1. j \in out[t] /\ j \in Items \ {i}
        BY <2>3, <2>4, <2>6, <3>2
      <4>2. local'[j] = local[j] /\ resp'[t][j] = resp[t][j]
        BY <2>3, <4>1
      <4> QED BY <4>1, <4>2 DEF OutInOrder
    <3> QED BY <3>1, <3>2
  <2> QED BY <2>2, <2>5, <2>6 DEF OutInOrder
<1>10. CASE (StoreDone(t) \/ StoreFails(t)) /\ ~\E o : Return(t, o)
  <2>1. /\ InEntryLoop(t) /\ pc[t] = "store" /\ pc' = [pc EXCEPT ![t] = "http"]
        /\ UNCHANGED <<req, out, ret, local>>
    BY <1>10 DEF StoreDone, StoreFails, file
  <2>2. InEntryLoop(t)' /\ pc'[t] = "http"
    BY <2>1 DEF InEntryLoop, IInv, TypeOK
  <2> QED BY <2>1, <2>2 DEF OutInOrder
<1>11. ASSUME AnswerLost(t) \/ EntriesDone(t) \/ ProxyDone(t) \/ InsertInfo(t) \/ InfoFails(t)
       PROVE  \E o : Return(t, o)
  BY <1>11 DEF AnswerLost, EntriesDone, ProxyDone, InsertInfo, InfoFails
<1> QED BY <1>1, <1>2, <1>3, <1>4, <1>5, <1>6, <1>7, <1>8, <1>9, <1>10, <1>11 DEF Run

LEMMA OutsNext == IInv /\ OutsInOrder /\ [Next]_vars => OutsInOrder'
<1> SUFFICES ASSUME IInv, OutsInOrder, [Next]_vars PROVE OutsInOrder'
  OBVIOUS
<1>1. RowsStay
  BY RowStep DEF RowsStay
<1>2. ASSUME NEW t \in Tasks, StartCall(t) \/ Take(t) \/ Run(t) PROVE OutsInOrder'
  <2>1. OutInOrder(t)'
    BY <1>2, TaskOut DEF OutsInOrder
  <2>2. ASSUME NEW u \in Tasks \ {t} PROVE OutInOrder(u)'
    BY <1>1, <1>2, OthersSame, SameTaskKeeps DEF OutsInOrder
  <2> QED BY <2>1, <2>2 DEF OutsInOrder
<1>3. CASE Crash
  BY <1>3 DEF Crash, OutsInOrder, OutInOrder
<1>4. CASE (Environment /\ ~Crash) \/ UNCHANGED vars
  <2>1. \A u \in Tasks : SameTask(u)
    BY <1>4 DEF Environment, LspMoves, LspPublishesInfo, update_blocktank_url, init_db, task,
       vars, SameTask
  <2> QED BY <1>1, <2>1, SameTaskKeeps DEF OutsInOrder
<1> QED BY <1>2, <1>3, <1>4 DEF Next

LEMMA OutsAlwaysInOrder == Spec => []OutsInOrder
<1>1. Init => OutsInOrder
  BY DEF Init, OutsInOrder, OutInOrder
<1> QED BY <1>1, OutsNext, AlwaysInOrder, PTL DEF Spec

\* A call in progress ends with Ok only by its own return, and only when nothing
\* is left to store.
LEMMA OkMeansStored ==
    ASSUME IInv, OutsInOrder, [Next]_vars, NEW t \in Tasks, pc[t] # "idle", ret'[t] = "Ok"
    PROVE  \A i \in out[t] : local[i] # NoItem
<1>1. OutInOrder(t) /\ ret[t] = "none" /\ out[t] \subseteq Items
  BY DEF OutsInOrder, OutInOrder, IInv, TypeOK
<1>2. StartCall(t) \/ Take(t) \/ Run(t)
  <2>1. ~\E u \in Tasks \ {t} : StartCall(u) \/ Take(u) \/ Run(u)
    BY <1>1, OthersSame DEF SameTask
  <2>2. ~Environment /\ ~UNCHANGED vars
    BY <1>1 DEF Environment, LspMoves, LspPublishesInfo, update_blocktank_url, init_db, Crash,
       task, vars
  <2> QED BY <2>1, <2>2 DEF Next
<1>3. ~StartCall(t)
  BY DEF StartCall, create_order, create_cjit_entry, open_channel, refresh_orders,
         refresh_active_orders, refresh_cjit_entries, refresh_active_cjit_entries,
         get_info, proxy, read, Call
<1>4. \A o : Return(t, o) => o = "Ok"
  BY DEF Return, IInv, TypeOK
<1>5. CASE Take(t)
  BY <1>1, <1>5 DEF Take, Acquire, AcquireAndReturn, OutInOrder
<1>6. CASE Run(t)
  <2>1. EntriesDone(t) \/ ProxyDone(t) \/ InsertInfo(t) \/ (StoreDone(t) /\ ~InEntryLoop(t))
    BY <1>1, <1>4, <1>6 DEF Run, RequestChange, AnswerLost, FetchOrders, FetchEntry, FetchInfo,
       HttpFails, StoreItem, StoreDone, StoreFails, ClearCurrentInfo, InfoFails
  <2>2. CASE EntriesDone(t) \/ ProxyDone(t) \/ InsertInfo(t)
    BY <1>1, <2>2 DEF EntriesDone, ProxyDone, InsertInfo, OutInOrder
  <2>3. CASE StoreDone(t) /\ ~InEntryLoop(t)
    <3>1. \A i \in Items : resp[t][i] = NoItem
      BY <2>3 DEF StoreDone, Received
    <3> QED BY <1>1, <3>1 DEF OutInOrder
  <2> QED BY <2>1, <2>2, <2>3
<1> QED BY <1>2, <1>3, <1>5, <1>6

\* Whatever a call returns as Ok is in the file at that moment, for any number
\* of concurrent calls: created orders, refreshed orders, the entries of a loop.
THEOREM ReturnedIsStoredHolds == Spec => ReturnedIsStored
<1>1. IInv /\ OutsInOrder /\ [Next]_vars =>
        [\A t \in Tasks : (pc[t] # "idle" /\ ret'[t] = "Ok") =>
            \A i \in out[t] : local[i] # NoItem]_vars
  BY OkMeansStored
<1> QED BY <1>1, AlwaysInOrder, OutsAlwaysInOrder, PTL DEF Spec, ReturnedIsStored

-----------------------------------------------------------------------------
(* The service information of one provider                                 *)

\* No stored version is newer than the provider's, nor than the one a task has
\* received and has yet to store.
InfoInOrder ==
    /\ \A w \in 1..MaxInfo : info[w] # "absent" => w <= lspInfo[url]
    /\ \A t \in Tasks : pc[t] \in {"clear_info", "insert_info"} =>
          /\ got[t] <= lspInfo[url]
          /\ \A w \in 1..MaxInfo : info[w] # "absent" => w <= got[t]
    /\ CurrentInfoIsNewest

\* Nothing but the provider's own publication changes what is published, and
\* nobody starts to store a version except by receiving it.
InfoQuiet ==
    /\ info' = info /\ url' = url
    /\ lspInfo'[url] >= lspInfo[url]
    /\ \A t \in Tasks : pc'[t] \in {"clear_info", "insert_info"} =>
          pc[t] \in {"clear_info", "insert_info"} /\ got'[t] = got[t]

LEMMA InfoQuietKeeps ==
    ASSUME IInv, InfoInOrder, InfoQuiet, lspInfo' \in [Urls -> 1..MaxInfo]
    PROVE  InfoInOrder'
<1>1. url \in Urls /\ lspInfo[url] \in 1..MaxInfo /\ lspInfo'[url] \in 1..MaxInfo
  BY DEF IInv, TypeOK
<1>2. \A t \in Tasks : got[t] \in 1..MaxInfo
  BY DEF IInv, TypeOK
<1>3. CurrentInfoIsNewest'
  BY DEF InfoInOrder, InfoQuiet, CurrentInfoIsNewest
<1>4. \A w \in 1..MaxInfo : info'[w] # "absent" => w <= lspInfo'[url']
  BY <1>1, MaxInfoAssumption DEF InfoInOrder, InfoQuiet
<1>5. ASSUME NEW t \in Tasks, pc'[t] \in {"clear_info", "insert_info"}
      PROVE  /\ got'[t] <= lspInfo'[url']
             /\ \A w \in 1..MaxInfo : info'[w] # "absent" => w <= got'[t]
  <2>1. pc[t] \in {"clear_info", "insert_info"} /\ got'[t] = got[t]
    BY <1>5 DEF InfoQuiet
  <2> QED BY <1>1, <1>2, <2>1, MaxInfoAssumption DEF InfoInOrder, InfoQuiet
<1> QED BY <1>3, <1>4, <1>5 DEF InfoInOrder

\* The holder of the mutex is the only task that stores a version.
LEMMA OnlyHolderStoresInfo ==
    ASSUME IInv, NEW t \in Tasks, pc[t] \in {"http", "clear_info", "insert_info"},
           NEW u \in Tasks \ {t}
    PROVE  pc[u] \notin {"clear_info", "insert_info"}
BY DEF IInv, LockDiscipline

\* A version arrives: it is the provider's current one.
LEMMA FetchInfoKeeps ==
    ASSUME IInv, InfoInOrder, NEW t \in Tasks, FetchInfo(t)
    PROVE  InfoInOrder'
<1>1. /\ pc[t] = "http" /\ info' = info /\ url' = url /\ lspInfo' = lspInfo
      /\ pc'[t] = "clear_info" /\ got'[t] = lspInfo[url]
  BY DEF FetchInfo, provider, file, process, IInv, TypeOK
<1>2. lspInfo[url] \in 1..MaxInfo
  BY DEF IInv, TypeOK
<1>3. ASSUME NEW u \in Tasks \ {t} PROVE pc'[u] \notin {"clear_info", "insert_info"}
  <2>1. pc'[u] = pc[u]
    BY DEF FetchInfo, IInv, TypeOK
  <2> QED BY <1>1, <2>1, OnlyHolderStoresInfo
<1>4. CurrentInfoIsNewest'
  BY <1>1 DEF InfoInOrder, CurrentInfoIsNewest
<1>5. ASSUME NEW u \in Tasks, pc'[u] \in {"clear_info", "insert_info"}
      PROVE  /\ got'[u] <= lspInfo'[url']
             /\ \A w \in 1..MaxInfo : info'[w] # "absent" => w <= got'[u]
  <2>1. u = t
    BY <1>3, <1>5
  <2> QED BY <1>1, <1>2, <2>1, MaxInfoAssumption DEF InfoInOrder
<1> QED BY <1>1, <1>4, <1>5 DEF InfoInOrder

LEMMA ClearCurrentInfoKeeps ==
    ASSUME IInv, InfoInOrder, NEW t \in Tasks, ClearCurrentInfo(t)
    PROVE  InfoInOrder'
<1>1. /\ pc[t] = "clear_info" /\ UNCHANGED <<url, lspInfo, got>>
      /\ pc' = [pc EXCEPT ![t] = "insert_info"]
  BY DEF ClearCurrentInfo, provider, process
<1>2. /\ \A w \in 1..MaxInfo : info'[w] # "current"
      /\ \A w \in 1..MaxInfo : info'[w] # "absent" => info[w] # "absent"
  BY DEF ClearCurrentInfo, NoneCurrent, IInv, TypeOK
<1>3. ASSUME NEW u \in Tasks, pc'[u] \in {"clear_info", "insert_info"}
      PROVE  pc[u] \in {"clear_info", "insert_info"}
  BY <1>1, <1>3 DEF IInv, TypeOK
<1> QED BY <1>1, <1>2, <1>3 DEF InfoInOrder, CurrentInfoIsNewest

LEMMA InsertInfoKeeps ==
    ASSUME IInv, InfoInOrder, NEW t \in Tasks, InsertInfo(t)
    PROVE  InfoInOrder'
<1>1. pc[t] = "insert_info" /\ UNCHANGED <<url, lspInfo>> /\ pc' = [pc EXCEPT ![t] = "idle"]
  BY DEF InsertInfo, Return, provider
<1>2. got[t] \in 1..MaxInfo /\ lspInfo[url] \in 1..MaxInfo
  BY DEF IInv, TypeOK
<1>3. /\ info'[got[t]] = "current"
      /\ \A w \in 1..MaxInfo : w # got[t] => info'[w] # "current"
      /\ \A w \in 1..MaxInfo : w # got[t] /\ info'[w] # "absent" => info[w] # "absent"
      /\ \A w \in 1..MaxInfo : info'[w] \in {"absent", "kept", "current"}
  <2>1. NoneCurrent(info) \in [1..MaxInfo -> {"absent", "kept", "current"}]
    BY DEF NoneCurrent, IInv, TypeOK
  <2>2. \A w \in 1..MaxInfo : /\ NoneCurrent(info)[w] # "current"
                              /\ NoneCurrent(info)[w] # "absent" => info[w] # "absent"
    BY DEF NoneCurrent, IInv, TypeOK
  <2> QED BY <1>2, <2>1, <2>2 DEF InsertInfo
<1>4. /\ got[t] <= lspInfo[url]
      /\ \A w \in 1..MaxInfo : info[w] # "absent" => w <= got[t] /\ w <= lspInfo[url]
  BY <1>1 DEF InfoInOrder
<1>5. ASSUME NEW u \in Tasks PROVE pc'[u] \notin {"clear_info", "insert_info"}
  <2>1. CASE u = t
    BY <1>1, <2>1 DEF IInv, TypeOK
  <2>2. CASE u # t
    BY <1>1, <2>2, OnlyHolderStoresInfo DEF IInv, TypeOK
  <2> QED BY <2>1, <2>2
<1>6. \A w \in 1..MaxInfo : info'[w] # "absent" => w <= lspInfo'[url']
  BY <1>1, <1>3, <1>4
<1>7. CurrentInfoIsNewest'
  <2> SUFFICES ASSUME NEW v \in 1..MaxInfo, info'[v] = "current", NEW w \in 1..MaxInfo, w # v
               PROVE  info'[w] # "current" /\ (w > v => info'[w] = "absent")
    BY DEF CurrentInfoIsNewest
  <2>1. v = got[t]
    BY <1>3
  <2>2. info'[w] # "absent" => w <= v
    BY <1>3, <1>4, <2>1
  <2> QED BY <1>2, <1>3, <2>1, <2>2, MaxInfoAssumption
<1> QED BY <1>5, <1>6, <1>7 DEF InfoInOrder

\* Only one provider is known: nobody has called update_blocktank_url with
\* another URL.
SoleProvider == Urls = {DefaultUrl}

LEMMA InfoNext ==
    ASSUME SoleProvider, IInv, InfoInOrder, [Next]_vars
    PROVE  InfoInOrder'
<1>1. IInv' /\ url' = url /\ url \in Urls
  BY NextKeeps DEF SoleProvider, IInv, TypeOK
<1>2. lspInfo' \in [Urls -> 1..MaxInfo] /\ lspInfo \in [Urls -> 1..MaxInfo]
  BY <1>1 DEF IInv, TypeOK
<1>3. CASE \E t \in Tasks : FetchInfo(t) \/ ClearCurrentInfo(t) \/ InsertInfo(t)
  BY <1>3, FetchInfoKeeps, ClearCurrentInfoKeeps, InsertInfoKeeps
<1>4. ASSUME NEW t \in Tasks, StartCall(t) \/ Take(t) \/ Run(t),
             ~(FetchInfo(t) \/ ClearCurrentInfo(t) \/ InsertInfo(t))
      PROVE  InfoInOrder'
  <2>1. info' = info /\ lspInfo' = lspInfo
    BY <1>4 DEF StartCall, create_order, create_cjit_entry, open_channel, refresh_orders,
       refresh_active_orders, refresh_cjit_entries, refresh_active_cjit_entries, get_info,
       proxy, read, Call, Take, Acquire, AcquireAndReturn, Run, RequestChange, Create, Open,
       AnswerLost, FetchOrders, FetchEntry, EntriesDone, ProxyDone, HttpFails, StoreItem,
       StoreDone, StoreFails, InfoFails, provider, file
  <2>2. pc'[t] \notin {"clear_info", "insert_info"}
    <3>1. CASE \E o : Return(t, o)
      BY <3>1 DEF Return, IInv, TypeOK
    <3>2. CASE StartCall(t)
      BY <3>2 DEF StartCall, create_order, create_cjit_entry, open_channel, refresh_orders,
         refresh_active_orders, refresh_cjit_entries, refresh_active_cjit_entries, get_info,
         proxy, read, Call, IInv, TypeOK
    <3>3. CASE Take(t)
      BY <3>1, <3>3 DEF Take, Acquire, AcquireAndReturn, IInv, TypeOK
    <3>4. CASE RequestChange(t) \/ FetchOrders(t) \/ FetchEntry(t)
      BY <3>4 DEF RequestChange, FetchOrders, FetchEntry, Receive, IInv, TypeOK
    <3>5. CASE StoreItem(t) \/ StoreDone(t) \/ StoreFails(t) \/ HttpFails(t)
      BY <3>1, <3>5 DEF StoreItem, StoreDone, StoreFails, HttpFails, IInv, TypeOK
    <3>6. ASSUME AnswerLost(t) \/ EntriesDone(t) \/ ProxyDone(t) \/ InfoFails(t)
          PROVE  \E o : Return(t, o)
      BY <3>6 DEF AnswerLost, EntriesDone, ProxyDone, InfoFails
    <3> QED BY <1>4, <3>1, <3>2, <3>3, <3>4, <3>5, <3>6 DEF Run
  <2>3. \A u \in Tasks \ {t} : SameTask(u)
    BY <1>4, OthersSame
  <2>4. InfoQuiet
    BY <1>1, <1>2, <2>1, <2>2, <2>3, MaxInfoAssumption DEF InfoQuiet, SameTask
  <2> QED BY <1>2, <2>4, InfoQuietKeeps
<1>5. CASE Environment \/ UNCHANGED vars
  <2>1. info' = info /\ \A t \in Tasks : pc'[t] = "idle" \/ (pc'[t] = pc[t] /\ got'[t] = got[t])
    <3>1. CASE Crash
      <4>1. \A t \in Tasks : pc'[t] = "idle"
        BY <3>1 DEF Crash
      <4>2. info' = info
        BY <3>1 DEF Crash, file
      <4> QED BY <4>1, <4>2
    <3>2. CASE ~Crash
      BY <1>5, <3>2 DEF Environment, LspMoves, LspPublishesInfo, update_blocktank_url, init_db,
         task, file, vars
    <3> QED BY <3>1, <3>2
  <2>2. lspInfo'[url] >= lspInfo[url]
    <3>1. CASE \E u \in Urls : LspPublishesInfo(u)
      BY <1>1, <1>2, <3>1, MaxInfoAssumption DEF LspPublishesInfo
    <3>2. CASE lspInfo' = lspInfo
      BY <1>1, <1>2, <3>2, MaxInfoAssumption
    <3> QED BY <1>5, <3>1, <3>2 DEF Environment, LspMoves, update_blocktank_url, init_db, Crash,
         provider, vars
  <2>3. InfoQuiet
    BY <1>1, <2>1, <2>2 DEF InfoQuiet
  <2> QED BY <1>2, <2>3, InfoQuietKeeps
<1> QED BY <1>3, <1>4, <1>5 DEF Next

\* With one provider at most one version of its information is current, and no
\* newer one is in the file, however many get_info calls overlap.
THEOREM CurrentInfoIsNewestHolds ==
    ASSUME SoleProvider
    PROVE  Spec => []CurrentInfoIsNewest
<1>1. Init => InfoInOrder
  BY DEF Init, InfoInOrder, CurrentInfoIsNewest
<1>2. IInv /\ InfoInOrder /\ [Next]_vars => InfoInOrder'
  BY InfoNext
<1>3. InfoInOrder => CurrentInfoIsNewest
  BY DEF InfoInOrder
<1> QED BY <1>1, <1>2, <1>3, AlwaysInOrder, PTL DEF Spec
=============================================================================
