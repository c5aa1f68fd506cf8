# Verification of bitkit-core

TLA+ models of bitkit-core, the Rust library behind the Bitkit wallet, and of the
Python binding generated for it: the activity history (SQLite), the Blocktank
client (SQLite plus a Lightning service provider), their initialisation, the
converters, buffers and futures through which Python calls the core, and the
LNURL and Trezor protocols. TLC checks them on small instances; TLAPS proves the
main safety properties for every size.

## The system

The library exports functions through uniffi; `bitkitcore.py` is the binding
uniffi generates for Python, one file of converters and of functions. Process-wide state lives in three
cells of `src/src/lib.rs`: `DB` (a blocking mutex around the activity database),
`ASYNC_DB` (a tokio mutex around the Blocktank database and its HTTP client) and
`RUNTIME`.

| Component | State | Operations | What is hard | Correct when |
|---|---|---|---|---|
| activity | 4 SQLite tables, 3 triggers, cascading foreign keys | insert, update, upsert, delete, add/remove/get tags, get by id, queries | one activity is two rows; upsert is two transactions; add_tags checks before it begins; a second connection, failing statements, crashes | the file is consistent at every commit, calls are atomic, identity survives updates |
| blocktank | tables orders, cjit_entries, info; the URL; the provider's own state | create order / CJIT entry, open channel, refresh by id or all active, get info, change URL, reads, pass-through requests | answers outdated by the time they are stored, lost answers, loops that half succeed, a URL change, two statements without a transaction | the local copy never goes back, never runs ahead, never mixes providers, converges |
| initialisation | the two `Option`s behind the mutexes, the schemas in the files | init_db | two files, two publications, repeated and overlapping calls, crashes half way | a published database is complete, both come from one path, init_db returns |
| binding: converters and calls | the buffers of a call | import checks, check_lower, lower, call, status, lift of 46 functions | two independent descriptions of every layout; buffers that change owners; arguments that raise half way | what is passed arrives, what is answered returns, no buffer is overrun, leaked or freed twice |
| binding: asynchronous calls | the handle map, asyncio futures, the scheduler of a Rust future | poll, continuation callback, await, cancel, complete, free | wakes from other threads, cancellation, a global event loop | no continuation is lost or called twice, every call ends |
| lnurl | none | get_lnurl_invoice | two units, u64 arithmetic before the range check | an amount is refused only if it is out of range |
| trezor | none | build deep links, parse callbacks | matching a callback to its request | a callback is parsed as what was asked |
| scanner | none | decode | the order of the tests on the input | every input goes to the decoder meant for it |
| onchain | none | validate address, derive keys | prefixes and lengths | network and type agree with the address |
| type conversions, packaging | none | – | – | – |

Interactions: the exported activity functions hold `DB` for a whole call, so one
process has one call in progress on its connection; other connections to the
same file (an app extension, a second `ActivityDB`, as in the tests) compete
through SQLite's write lock. Exported Blocktank functions are spawned as tasks
that hold `ASYNC_DB` from the lock to the return, across HTTP and SQL, and run
on when their caller goes away. The two databases share nothing but `init_db`.
Python calls reach both through the binding: a blocking function runs on the
caller's thread, an asynchronous one is a Rust future that a coroutine polls and
that threads of the Tokio runtime wake.

## Modules

| Module | Models | Lines of the code |
|---|---|---|
| `ActivityTables` | a value of the activity database and the effect of every SQL statement on it: CHECKs, triggers, cascades | `activity/implementation.rs`, statements and schema |
| `ActivityDB` | calls on connections, statement by statement: transactions, the write lock, early returns, failures, crashes | `activity/implementation.rs`, `lib.rs` 158–302 |
| `ActivityStore` | the promise: a map of activities and a set of tags, each call atomic or refused | abstract |
| `ActivityRefinement` | the mapping from `ActivityDB` to `ActivityStore` | – |
| `MCActivityDB` | payloads for TLC | – |
| `ActivityDBProofs` | theorems about the file (types, integrity, identity) and about the calls: what each has written, what each may answer | – |
| `ActivityRefinementProofs` | `ActivityDB` implements `ActivityStore`, step by step | – |
| `Blocktank` | tasks, `ASYNC_DB`, HTTP requests, upserts, the provider, restart | `blocktank/{db,api,models}.rs`, `lib.rs` 116–155, 305–768 |
| `MCBlocktank` | symmetry for TLC | – |
| `BlocktankProofs` | theorems about the file (types, order of states, providers), about what calls return and about the service information | – |
| `InitDb` | init_db by several threads, the two mutexes, the calls that meet them | `lib.rs` 116–155, `initialize` of both databases |
| `InitDbProofs` | theorems about `InitDb` | – |
| `UniffiTypes` | type descriptors, values, the cells of a buffer, what crosses without one | `bitkitcore.py` 206–246, 371–390, 1417–1596, 10212–12108 |
| `UniffiConverter` | the converter of every kind of type (check_lower, write, read), given the converters of its parts; lower and lift; when two layouts agree | `bitkitcore.py` 117–177, 371–414, 1465–1596, 6441–6473, 10212–12108 |
| `BindingTypes` | the layout of every record, enumeration and error, the signature of every function, as the binding has them | `bitkitcore.py` 662–1000, 1539–10206, 12174–13263 |
| `CoreTypes` | the same as the Rust core declares them | `types.rs`, `errors.rs` and `models.rs` of the modules, `lib.rs` |
| `BindingCalls` | one call: import checks, arguments, buffers, status, result; the tables of the two sides agree | `bitkitcore.py` 48–93, 179–318, 455–555, 12174–12181 |
| `MCBindingCalls` | all functions and variants, the converters of parts, for TLC | – |
| `UniffiConverterProofs` | what one side writes the other side reads, from the parts to the whole and so for every depth | – |
| `BindingCallsProofs` | theorems about the buffers, the arguments and the answers of a call, for any converters | – |
| `BindingAgreementProofs` | the two together: arguments and answers arrive if the tables agree | – |
| `BindingAsync` | coroutines, event loops, handles, the Rust future | `bitkitcore.py` 342–366, 12111–12172 |
| `BindingAsyncProofs` | theorems about `BindingAsync` | – |
| `Lnurl` | get_lnurl_invoice | `lnurl/implementation.rs` |
| `Trezor`, `MCTrezor` | links, callbacks and their parsing | `trezor/implementation.rs`, `lib.rs` |

### Activity

`db` is the committed file, `work` the content as the writer's open transaction
sees it, `writer` the connection with SQLite's RESERVED lock. `pc[c]` names the
statement connection `c` issues next and `op[c]` the call with its arguments and
locals. Each statement is one action, with its failing counterpart
(`InsertDetail` / `InsertDetailFails`); an early return drops the transaction
(`Return`, `Rollback`). `upsert_activity` is the update, and on "No activity
found with given ID" the insert in a transaction of its own (`UpdateMisses`).
`BusyTimeout`, `StatementFails` and `Crash` may end a call anywhere.

Data is reduced to what the properties tell apart. A payload has its type, its
two times, a flag `sound` (the other columns bind and pass their CHECKs) and
one opaque `content`. Times above `MaxInteger` stand for u64 values that rusqlite
cannot bind. `updated_at` is kept because the trigger writes it; no property is
about it. "RowError" is the DataError "Failed to process row" of a query,
"NotFound" the DataError that upsert recognises; the code compares the text.

Taken from outside the repository: the bundled SQLite is built with foreign keys
on; `INSERT OR IGNORE` does not ignore a foreign key violation; a dropped rusqlite
transaction rolls back; rusqlite's busy handler gives up after 5 s by default.

### Blocktank

`lsp`, `home` and `lspInfo` are the provider: the state of each order and CJIT
entry, who issued it, the version of the service information. `local` and `info`
are the file. A task waits, takes the mutex (`Acquire`), does its requests
(`RequestChange`, `FetchOrders`, `FetchEntry`, `FetchInfo`), stores the answers
one upsert at a time (`StoreItem`) and returns. The provider moves between any
two steps. A request may be carried out and its answer lost (`AnswerLost`), fail
(`HttpFails`), an upsert may fail (`StoreFails`): a CJIT loop then goes on, every
other call returns the error. `upsert_info` is two actions because it is two
autocommitted statements. `Crash` keeps the file and drops the rest; `init_db`
publishes a client with the default URL.

The provider is external. Assumed of it: states advance Created, then Paid (or
Failed, for an entry), then a final state, and versions of the service
information grow. Estimates, fees, device registration, notifications and the
regtest calls are one operation, `proxy`: they hold the mutex for a request and
store nothing. Operators named as a slip (`FetchOrdersUnlocked`,
`DeleteActivityRowOnly`, ...) are wrong variants of the definition that follows
them; each one breaks a property, which shows that the property depends on it.

### Initialisation

`activitySchema[p]` and `blocktankSchema[p]` are the statements already committed
in the two files under base path `p`; `activity_db` and `blocktank_db` what the
two cells hold. A run of `init_db` executes one statement per step (`IF NOT
EXISTS`, so a second run goes through all of them again), may fail at each, and
publishes in two steps: the first under a mutex nobody keeps, the second after
waiting for the Blocktank call that holds `ASYNC_DB`. `alone` and `lastAlone` are
history: whether a run overlapped another. Calls ask for one of the databases and
answer ConnectionError if the cell is empty. `Crash` leaves the files.

### The Python binding

The binding and the scaffolding of the core describe each type independently; a
call works only if both descriptions agree. `BindingTypes` is read off the
binding's converters and ctypes declarations, `CoreTypes` off the Rust
declarations, and the same operators write by one and read by the other.
`UniffiConverter` defines the converter of a type by those of its parts, as each
converter class calls those of its fields: `Write` uses the parameter `write`,
`CheckLower` the parameter `check_lower`. The converters of the binding are those
where the two are the same. `MCBindingCalls` makes them so: the configuration gives
`write` the value `Writes`, which is `Write`, and so on; that is the recursion of the
code, and TLC runs the converters as they call each other. For the proofs the same is the hypothesis
`Recursive`. `Deepest` is how deep the types of the tables are nested, 11 with the
scalar at the bottom (`HdNodePathType` in the arguments of
trezor_sign_transaction); a deeper type would fail `TablesAgree`.

A value is its kind, its origin (the path of names to it) and its size
(the bit length of an integer, the bytes of a text), so a field that is read in
another's place, or of another width, is seen. `BindingCalls` follows one call:
the import refuses a library of another contract version or with another
checksum (`Import`), all arguments are checked before any is lowered
(`CheckArguments`), each is lowered by itself, into a buffer of its own if it is
no number (`LowerArgument`), the core takes the buffers and answers, fails or
panics (`RustCall`), and the status is looked at and the result read
(`CheckCallStatus`). A buffer has its capacity, length, cells, owner and the
times it was freed. Odd arguments replace each argument in turn: integers too big
or negative, a lone surrogate, 2 for a Boolean, a value of another type.

`BindingAsync` has one step per point where a thread can lose control: an event
loop runs one coroutine step or one scheduled callback at a time (`Idle`), the
runtime's threads run at any moment (`JobEnds`, `Wake`). `Poll` makes an asyncio
future and its handle; the Rust future answers READY at once or keeps the handle
(`Store`), unless a wake came first. `Wake`, or `ffi_free` (`Free`), gives the
handle to the continuation callback, which takes it out of the map and schedules
`_uniffi_set_future_result` on the future's loop. `Cancel` is `task.cancel()`,
allowed while the task is suspended. `Inline` are decode and get_lnurl_invoice,
which run in the poll on Python's thread; the others are spawned.

External: uniffi's scaffolding (RustBuffer growth, the scheduler states, what
complete and free do), asyncio's futures, Tokio's jobs. They are modelled from
how the binding uses them.

### Lnurl and Trezor

`Lnurl` is `get_lnurl_invoice` with its five error paths; a service gives any
pair of limits. The product of the amount and 1000 is taken modulo `Word`.
`Trezor` has URLs as sequences of query pairs: the functions hand out links,
Trezor Suite (external) opens the callback of one with a response, any number of
times and in any order, and `handle_deep_link` looks for id, response and method.

## Runs

| Run | Instance | Shows |
|---|---|---|
| `ActivityOne` | 1 connection, ids {empty, a}, 2 tags, 10 payloads, 2 clock readings | `TypeOK`, `DetailMatchesType`, `ConfirmedLater`, `NoOrphanTags`, `GetByIdNeverFails`, `UpsertSettles`, `IdentityStable` |
| `ActivityTwo` | 2 connections, 1 id, 2 tags, 3 payloads, 2 clock readings, fairness | `Integrity`, `QueriesNeverFail`, `CallsReturn`, `ImplementsStore` |
| `BlocktankOrders` | 2 tasks, 2 orders, 2 providers | `TypeOK`, `NeverAhead`, `NeverBack`, `StoredFromCurrentUrl` |
| `BlocktankInfo` | 2 tasks, 1 order, 1 entry, 2 versions, 1 provider | `CurrentInfoIsNewest`, `NeverBack` (for CJIT loops), `ReturnedIsStored` |
| `BlocktankLive` | 2 tasks, 1 order, fairness | `RefreshConverges` |
| `BlocktankReturn` | 2 tasks, 1 entry, 2 versions, fairness | `CallsReturn` |
| `BlocktankInfoLost` | as `BlocktankInfo` | `InfoStaysAvailable` is violated: see Findings |
| `InitDb` | 2 threads, 2 base paths, 3 statements per schema, 1 caller, fairness | `TypeOK`, `PublishedIsComplete`, `BothOrNeither`, `OnePathUnlessOverlap`, `ErrorOnlyBeforeInit`, `InitReturns` |
| `BindingCalls` | every function, every variant, full and empty values, 5 kinds of odd ones | `TypeOK`, `ArgumentsArrive`, `AnswersArrive`, `NoOverrun`, `BuffersSettled`, `TablesAgree` |
| `BindingAsync` | 2 calls, one of them inline, 2 event loops, fairness | `TypeOK`, `HandlesAreWaiting`, `NoCallbackRaises`, `CompleteHasResult`, `CallsEnd` |
| `Lnurl` | amounts 1–5, limits around whole satoshis | `RefusedIsOutside` is violated: see Findings |
| `Trezor` | 1 id, a callback with and without a query | `AnswersAreParsed` is violated: see Findings |

Why these bounds are enough for the cases meant: every activity operation
touches one id, so one id with two competing connections has every conflict on
it, and `OthersInOrder` (proved) covers the other ids; the payloads contain one
value per outcome of each check (accepted, refused by each CHECK, by the trigger,
by the binding), of both types, with times that make an update cross an older
confirmation. Two tags make a loop that can stop in the middle. Two tasks
suffice for one answer to overtake another, two orders for a refresh to fail
half way, two providers for an answer to outlive a URL change, two versions for
an old one to overwrite a new one. `GetByIdNeverFails` and `UpsertSettles` are
about the library's single connection: with a competing connection a row may
vanish between the two reads or between update and insert, and the code then
reports an error. `CurrentInfoIsNewest` and `RefreshConverges` are about one
provider: versions of two are not comparable, and an order is refreshed only
where it was made. Symmetry (tasks, orders) is used in the two safety runs only.

Two runs of `init_db` suffice to mix two base paths and to meet each other's
half-made schema; three statements have a first, a middle and a last; the one
caller calls again and again, and while it holds `ASYNC_DB` publication waits.
`BindingCalls` is exhaustive over functions: 13 variants are the largest
enumeration, and each call samples one variant of all its unions at once, which
shows every field of every variant because descriptors of different arguments do
not interact. Texts of 20 bytes cross the 16 bytes a builder starts with, lists
hold none or two items. Two calls and two loops suffice for a handle to be mixed
up, for a callback to run on a loop other than the coroutine's, and for a wake to
come before, between and after every step. The exceptions the properties of
`BindingCalls` name are what the code does: 2 for a nested Boolean passes
check_lower and is refused by the core, and the buffers of earlier arguments are
leaked when a later one raises in lower. `Word` = 4096 stands for 2^64, so that
5 satoshis wrap as a huge amount would.

Fairness. A call on a connection runs on its caller's thread and its wait for
the lock is bounded, so `Advance` is weakly fair; nobody has to call. A task
that holds `ASYNC_DB` goes on (`Run`, weakly fair): this assumes that HTTP
requests end, since the code sets no timeout of its own. tokio's mutex is fair,
so a waiting task gets it if it is released again and again (`Take`, strongly
fair). Nothing is assumed of the provider, the URL or crashes. `RefreshConverges`
has the success of refreshes as its premise. A thread in `init_db` goes on, and
gets `ASYNC_DB` if it is released again and again (strongly fair, as above). An
event loop runs the callbacks scheduled on it and the coroutines that can resume,
and the Tokio runtime ends its jobs and wakes who waits for them: these are
weakly fair per call and loop. Nobody has to call, to cancel or to set a loop.

## Proofs

`ActivityDBProofs` proves `Spec => []TypeOK`, `Spec => []Integrity` and
`Spec => IdentityStable` for all connections, ids, tags and payloads, from the
named assumptions on the constants. `Integrity` speaks of the committed file
only and is not inductive: a commit publishes `work`. The inductive invariant
`TransactionInOrder` says what the open transaction has done, by the statement
it issues next: after the first INSERT the row has no detail yet
(`HalfInserted`), after the first UPDATE its old confirmation may predate it
(`HalfUpdated`), at commit all is in order (`Consistent`). Lemmas about the
statements (`InsertActivityRowHalf`, `WriteDetailRowCompletes`,
`DeleteActivityRowConsistent`, ...) carry one to the next. `IdentityHolds` adds
`KeepsIdentity(db, work)`: no transaction deletes and inserts the same id.

`BlocktankProofs` proves `Spec => []TypeOK`, `Spec => []NeverAhead`,
`Spec => NeverBack` and `Spec => StoredFromCurrentUrl` for all tasks, items and
providers. The invariant adds `LockDiscipline` (a task past the mutex holds it)
and `AnswersInOrder` (an answer not stored yet lies between the file and the
provider, and comes from the current URL). Only `StoreItem` changes a row
(`RowStep`); it needs `AnswersInOrder`, which the steps of other tasks preserve
because without the mutex they have no answers (`OnlyHolderReceived`).

`DetailMatchesType`, `ConfirmedLater` and `NoOrphanTags`, the three parts of
`Integrity`, are theorems of their own.

The second half of `ActivityDBProofs` goes from the file to the calls. The invariant
`CallsInOrder` (a theorem itself) says of a call at each statement which function
it belongs to (`StepOfCall`), how far its loop over tags has come (`LoopOfCall`)
and that `work` is the committed file changed by what this call has done, and by
nothing else (`WorkOfCall`): `Created`, `Replaced`, `Tagged`, `Untagged`. It
holds for all connections because `db` changes only by a commit, and a commit
needs the lock that the open transaction holds. `QueriesNeverFail` follows for
all connections: a query reads `db`, which is `Consistent`, or its own finished
work. `GetByIdNeverFails` and `UpsertSettles` are false with competitors (see
Runs) and are proved under `SoleConnection`, any two connections are the same, as
in the library, where `DB` holds one. They need `SoleInOrder`: between the two
reads of get_activity_by_id, and between the update and the insert of an upsert,
the file is what the first statement saw.

`ActivityRefinementProofs` proves `Spec => ImplementsStore`. The mapping joins the
tables into a map of activities, and the requests of the calls in progress into
the abstract store's. A commit maps to the atomic step of its call
(`CommitRefines`), because `CallsInOrder` says what `work` is then and the
`Joined...` lemmas say what that means for the map; an answer or a failure maps
to an answer or a refusal, a call to a request, every other statement to a
stutter. `AbsentAssumption`, in `ActivityRefinement`, says that the value for "no
activity" is no activity; TLC evaluates it.

`BlocktankProofs` also proves `Spec => ReturnedIsStored` for all tasks, items and
providers, from `OutsInOrder`: each item of the value a task is going to return is
in the file, or is an answer the task still has to store before it returns. And it
proves `Spec => []CurrentInfoIsNewest` under `SoleProvider` (versions of two
providers are not comparable), from `InfoInOrder`: no stored version is newer
than the provider's, nor than one that a task has received and not stored. The
second part holds because the task has had `ASYNC_DB` since it received it.

`InitDbProofs` proves `TypeOK`, `PublishedIsComplete`, `BothOrNeither`,
`OnePathUnlessOverlap` and `ErrorOnlyBeforeInit` for all threads, paths and
numbers of statements. The invariant adds what a run has done up to its cursor
(`StatementsDone`: statements before it are in the file, both schemas are
complete at publication), that the activity database is always published first
(`PublishedInOrder`), and that a run that is alone still finds what it published
(`AloneIsAlone`).

`BindingAsyncProofs` proves `TypeOK`, `HandlesAreWaiting`, `NoCallbackRaises` and
`CompleteHasResult` for all calls and loops. Each of them needs the others, and
the invariant adds: a started call knows its loop (`LoopsKnown`), no two futures
share a handle (`HandlesDistinct`), a future the core still holds, or one with a
scheduled callback, is not resolved and only one of the two can be
(`WaitingUnresolved`, `QueuedUnresolved`), between polls the last future is
resolved (`CoroutineFutures`), and READY is only told of futures that ended or
are freed (`ReadyIsFinished`).

`BindingCallsProofs` proves `TypeOK`, `NoOverrun` and `BuffersSettled` of
`BindingCalls` for any set of functions, any shapes of values and any converters.
`LowerAssumption` is all that is asked of these: what is accepted and can be
written becomes cells a buffer can hold (a known format, a text of no negative
length). It is assumed of the functions in `Called` only, so TLC evaluates it for
the converters of the binding and all functions. `OwnersInOrder` says who owns
which buffer: Python all of them, each held for an argument, while arguments are
lowered; the core all but that of the answer afterwards. That a value of any
length fits is an induction over its cells (`FilledSound`). It rests on `UpTo`,
induction over 0 .. N for sets, which `LeastOf` derives from the library's
well-founded order of the natural numbers.

`ArgumentsArriveHolds` and `AnswersArriveHolds` say the same for what crosses: for
any functions, shapes and converters, if `Agreement` holds. `Agreement` is about
one value at a time (what one side writes for it the other side reads, and the
declared C types are the core's); the theorems are about the call: two passes over
the arguments, buffers that other arguments and the answer are appended to, an odd
argument at any place, the status. `ArrivalInv` adds to `IInv` that every argument
lowered so far is the value itself or a buffer that holds its cells and nothing
else (`LoweredInOrder`), and that the answer's buffer holds what the core wrote
(`AnswerInOrder`). `FilledContents` is the induction over cells that says a buffer
ends up with the cells put into it.

That the converters do agree is proved from the parts of a type to the type.
`RoundTripOfParts` takes any converters of the parts that read what they wrote,
whatever cells follow it, and shows it of a number, a text, an optional, a list, a
record and a union, whose two layouts agree (`Agree`: same names in the same order,
parts that agree, and a core that is strict about Booleans wherever the binding
lets a number through). Lists and records are inductions over their parts
(`WriteSteps` and `ReadSteps` unfold the recursive functions, `AllRead` joins
them). `SampledOfParts` shows that a value chosen for a call, accepted and not
refused by write, is one the round trip is about. `EveryDepth` is the induction:
under `Recursive` both hold of the types nested up to any depth. It takes the least
depth at which they fail (`LeastOf`); nothing agrees at depth 0, and at any other
depth the converters of the parts are those of the depth below. `Recursive` says
only that the parameters are what `UniffiConverter` defines by them, for types that
have a depth, which recursion over the depth satisfies. `ConvertersOfTables`
concludes `Agreement` from `LayoutsAgree`, and `ArgumentsArriveByTables` and
`AnswersArriveByTables` the two properties.

What is left to TLC there is `LayoutsAgree` itself: that the two tables of 46
functions and their types, which are data, agree. `TablesAgree` evaluates it where
a run starts. The checks complement each other: the run looks at sampled values of
all tables, the theorems cover all values the shapes of any `Picks` choose.

Only model-checked: the liveness properties (`CallsReturn`, `RefreshConverges`,
`CallsEnd`, `InitReturns`), which are out of the prover's reach, and
`TablesAgree`. What TLC finds violated (`InfoStaysAvailable`, `RefusedIsOutside`,
`AnswersAreParsed`) has nothing to prove.

## Findings

`upsert_info` (`blocktank/db.rs` 141–164) clears the current version and inserts
the new one as two autocommitted statements. If the second fails, or the process
dies in between, nothing is current and `get_info` without refresh returns
nothing although a version is stored, until a later refresh succeeds. The
trigger "Ensure single current version" (`blocktank/models.rs` 88) already clears
the others inside the INSERT, so the first statement is not needed.

`generate_deep_link` (`trezor/implementation.rs` 56) puts only the id into the
callback URL, and `handle_deep_link` parses a payload only if the callback has a
`method` parameter. The examples of the module's README hand it
`...?id=abc123&response={...}`: that is answered with "Unknown or unsupported
method: None". It goes well when the application registers a callback URL that
already has the method in it, as the tests do.

`get_lnurl_invoice` (`lnurl/implementation.rs` 56) compares millisatoshis and
reports the limits divided by 1000, rounded down. With a minimum of 1500
millisatoshis, 1 satoshi is refused as outside a range said to begin at 1.

## Not modelled

- Scanner: `decode` is a cascade of parsers of other crates over the text of its
  input; it has no state, and what could be wrong is in the strings. Its types
  and its signature are in `BindingTypes` and `CoreTypes`.
- Onchain: address classification compares prefixes and lengths of strings, key
  derivation wraps the bitcoin and bip39 crates.
- Type conversions: field by field, without decisions, and one side belongs to
  the client crate.
- Of the binding: `__str__` and `__eq__` of records, the loader's search for the
  library file, and the helpers for callback interfaces, which nothing uses.
- Packaging: `update_package.py` and `setup.py`.
- Which rows `get_activities`, `get_activities_by_tag`, `get_orders` and
  `get_cjit_entries` select: reads that change nothing.

## Plan

Done: the activity and Blocktank databases, `InitDb`, the binding, `Lnurl`,
`Trezor`; every safety property of the passing runs but `TablesAgree`, which
compares data, and the refinement of `ActivityStore`, are proved. What could
follow: `ActivityQuery` and `BlocktankQuery`, which rows the reads return, against
a reference definition.
