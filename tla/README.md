# A TLA+ model of py-auth

py-auth is a licensing server for desktop products. A product sends a
heartbeat with its `device_id`; the server registers the device, answers
`authorized` or not, and shows the devices in a web panel where an
administrator grants and revokes. SDKs in Python, Go and TypeScript send the
heartbeats and keep the last success in a file, so that a product can start
while the server cannot be reached.

This directory holds the TLA+ modules that model it, the configurations that
check them with TLC, and the proofs that TLAPS checks. `PROJECT.json` lists
the runs, the source lines behind every definition, a mutant of the code for
every property, the hazards and the findings.

## 1. Inventory

| Component | State | Operations | What is hard | What makes it correct |
|---|---|---|---|---|
| device registry: `app/routers/auth.py`, `ws.py`, `models.py`, `database.py` | `devices`, `config`, `operation_logs` | heartbeat, update_device, delete_device(s), change of `default_authorization` | statements of up to four worker processes interleave; objects read before an await are used after it; rows are written by an id read before | one row per device; requests touch only the devices they name; the log and the replies tell what happened; the verdict answered is one the device had |
| websocket hub: `app/ws_manager.py`, `/ws` in `ws.py` | one set of sockets per worker process | connect, disconnect, broadcast | the set changes while broadcast awaits a send in its loop; a socket dies at any time; one process does not see the pool of another | a live panel stays in the pool and is told of changes; a finished handler leaves nothing behind; a heartbeat is not held up for ever |
| SDKs in Python, Go and TypeScript: `auth_client.py`, `state_bundle.py`, `client/go`, `client/ts` | the state file, shared by all products of a machine; the snapshot a check took | check, progressive check, clear, construction | no lock on the file; truncate-then-write; retries; late answers; crashes; the three differ in all of these | offline authorization only within the validity of a real one; a denial stays; products do not disturb each other |
| device identity: `device_utils.py`, the same calls | the persisted id, `device_info_snapshot`, the deferred `device_info` of a client | build, load, persist; collect ahead, take, save | first starts that overlap; loss of the file; threads of a program that share a client; programs that end between the light and the full heartbeat | an id is stable; `device_info` gets collected; every call returns |
| user accounts and login: `app/auth.py`, `routers/admin.py`, `routers/user.py`, `deps.py` | `users`, tokens | login, create, update, delete a user, change of password | a token outlives what it was issued for; two administrators act on each other | there is an administrator; a deactivated user is out |
| startup: `main.py` | lock file, tables, the admin account | `init_database`, `init_admin_user` | four processes start at once; a process that does not get the lock goes on | initialised once, and before serving |
| web panel: `web/src/components/AdminPanel.vue` | socket, requests under way, list shown | connect, reconnect, get, update, delete | replies, pushes and reconnections in any order | the list shown is the table's when nothing is under way; a broken connection comes back; nothing waits for ever |
| middleware, schemas, tools, build files, tests | none, or none of interest | | | |

The components meet in four places. A heartbeat handler commits to the
registry and then, before it answers, awaits a broadcast of the hub. A `/ws`
handler commits, replies on its own socket and then awaits the same broadcast.
A panel that is told `devices_changed` asks for its list again. Every SDK of a
machine reads and rewrites the one state file of its server.

## 2. Modules

| Module | What it is |
|---|---|
| `LicenseRegistry` | the registry in the abstract: each request takes effect once, at one instant |
| `Registry` | the handlers, one database statement per step; refines `LicenseRegistry` |
| `RegistryProof` | theorems about `Registry` |
| `RegistryPromiseProof` | `Registry` implements `LicenseRegistry`, proved for one worker |
| `MCRegistry` | requests and symmetry for TLC |
| `WsHub` | pools, handlers and broadcasts |
| `WsHubProof` | theorems about `WsHub` |
| `MCWsHub` | symmetry for TLC |
| `AuthClient` | calls of the SDKs over the shared state file |
| `AuthClientProof` | theorems about `AuthClient` |
| `MCAuthClient` | symmetry for TLC |
| `DeviceIdentity` | the id and the `device_info` of one product, by its programs and their threads |
| `DeviceIdentityProof` | theorems about `DeviceIdentity` |
| `MCDeviceIdentity` | machines and programs for TLC |
| `UserAdmin` | accounts, login tokens and the handlers of user administration |
| `UserAdminProof` | theorems about `UserAdmin` |
| `MCUserAdmin` | accounts, requests and installations for TLC |
| `Startup` | the worker processes that initialise the database, fail and come back |
| `StartupProof` | theorems about `Startup` |
| `AdminPanel` | the device page of the panel, its connection and the handler at the other end |
| `AdminPanelProof` | theorems about `AdminPanel` |

### Registry

`rows` is the `devices` table (row id to row), `setting` the row of `config`,
`log` the operation log. `pc[r]` is where the handler of request `r` is,
`loaded[r]` the ORM object it holds. `running[w]` says whose code a worker
process runs: the handlers are coroutines with synchronous database calls, so
a handler gives its process up only at an await (`pc` = `await`, `notify`),
while the statements of two processes interleave freely. This one variable is
what separates a deployment with one worker from one with four.

- *Time stamps* are the request that took them, which makes "this row was
  stamped by a request about another device" a statement about the state.
- *Row ids* are the database's: `ReuseIds` is SQLite's `INTEGER PRIMARY KEY`
  (largest id + 1, so the id of a deleted newest row comes back), otherwise
  the counter of MySQL.
- *UPDATE by id*: the ORM writes only columns whose value differs from the
  one loaded (`Column`), to the row with the id loaded. A row that is gone
  makes it raise.
- Every commit may fail. What a schema rejects, or a heartbeat that cannot be
  decrypted, is `MalformedRequest`.
- *A change of `default_authorization`* reads the setting (`ConfigSelect`) and
  writes it with its entry of the log (`ConfigCommit`). An INSERT fails when
  another worker inserted the row meanwhile, an unchanged value is not written,
  and a request with other keys only (`value` = `None`) changes no setting, but
  is logged and answered like the others. `seen[r]` is the setting read, here
  and by a heartbeat that registers a device.

### WsHub

`pool[w]` is `_clients` of a process. A broadcast is the record `cast[t]`: the
size of the set when the iteration began, what the iterator returned, whether
the set changed since. CPython compares sizes at each step and raises
`RuntimeError` when they differ; when they agree although a client left and
another came, the table may have been rebuilt, and the iterator may skip or
end early. `phase[t]` is the await at which a handler is. A request over the
socket is a fetch (`ReceiveFetch`), a change that is committed and announced
(`ReceiveChange`), or one that is refused and answered with an error
(`RefuseChange`). An update whose row is gone when it is read back after the
commit ends like a refusal, and nothing is announced; what it did to the table
is in `Registry`. `behind` and
`excused` are history: which panel does not know of which change, and which of
these a broken broadcast is to blame for.

### AuthClient

`file` is what a reader finds: a missing, empty, torn or undecryptable file is
one without rows, and a read that fails for the moment finds as little
(`Readable`): a save then starts from no rows, a check has no snapshot to fall
back on, and `clear_cache` answers True and leaves the file as it is. A save is three steps (read all rows and replace one; open
and truncate; fill), each of which may fail or be the last of its program. Two
writers that both have the file open may leave a mixture (`mixed`). The
server's answers are arbitrary. An answer after the deadline is a failure: its
thread goes on, but nobody reads its result. `_snapshot_auth_row` discards a
success without a count; the type of `Row` says that there is none, which the
run checks and `ClientTypeCorrect` proves, and the branch is left out. So is
`AuthCache.update_last_check`, which has no caller.

Every call names the SDK it is made with (`job[t].sdk`), so the products of
the three share one file in every run. They differ in:

| | Python | Go | TypeScript |
|---|---|---|---|
| writes per save | 2 (1 in `persist_device_id`) | 1, 2 on Windows | 1, 2 on Windows |
| saves per answer (`Saves`) | 3 | 3 | 1 |
| before a second write on Windows | the file may be removed | the file may be removed | the file may be removed |
| full heartbeat fails after a light one (`Fallback`) | the file as it is | the file, then the snapshot | the file as it is |

### DeviceIdentity

The calls of `AuthClient`, seen from what they do to the id and to
`device_info`. `client[p]` is the `AuthClient` object of a program: its id,
whether its `device_info` is a stub (the versions) or full, whether the
collection of facts is put off (`_device_info_deferred`) and whether facts
fetched ahead can be had. The threads of a program share it, so `program` and
`sdk` choose for a whole behaviour whether the two threads are of one
program or of two, and which SDK it is.

- *Construction*: `LoadId` reads the file; without an id the facts of the
  machine are collected and hashed (`MakeId`), the id is saved, and
  `LoadSnapshot` looks for a `device_info` to start with. Go reads the file once
  more before it hashes (`FindId`). Only Python still
  defers when it made the id itself.
- *A heartbeat*: `EnsureDeviceInfo` takes, awaits or collects the facts,
  `Answered` saves the row with the `device_info` of that moment. In Go the
  facts come through a channel once; in Python a deadline leaves a thread
  behind that goes on collecting (`late`).
- *The interface that stands for a machine*: `Score`, `Candidates` and
  `PreferredMac` are the functions of `device_utils.py`; the id is a hash of
  the MAC and of facts that do not change, so `BuildId` is the MAC.
- *History*: `first` is the id of the first client until a start could not
  find it (`excused`); `interrupted` says that a completion was cut short;
  `clash` that two Go checks waited for the same facts.

### UserAdmin

`users` is the `users` table, `tokens` the names in tokens that did not
expire: a JWT carries nothing but the name (`app/auth.py` `verify_token`), so
a token outlives a deactivation, a demotion and even the account. `pc[r]` is
the next database statement of the handler of request `r`: the token check
(`get_current_user`, `require_admin` and what the handler compares before it
reads more), the read of the user the request is about (`select`), the
transaction (`commit`) and `db.refresh` (`refresh`). `me[r]` and `target[r]`
are the ORM objects `current_user` and `db_user`; a row that is in the session
already is not read again.

These handlers have no await before their reply, so one worker process runs
one at a time (`Idle`), and only the statements of different processes
interleave. `deployment`, chosen at the start and constant, says how many run
and whether the database is SQLite or MySQL, so that one run compares the two.
`done` is history: what really happened to which account, against which the
log and the replies are held. Any commit may fail; an UPDATE whose row is gone
raises, a DELETE whose row is gone does not.

### Startup

`state[w]` is the next step of a worker process in `lifespan`: take the file
lock without waiting, create the tables, look for the default administrator,
create it, release the lock, serve. `lock` belongs to an open file and ends
with its process. A failing step is logged and the start goes on. `admin` and
`others` say whether the default account and another administrator exist;
administrators change both while processes serve.

### AdminPanel

A step of the page is a task of the browser's event loop (a message, a close,
a timer, a click) with the continuations of the promises it settles, which run
before the next task. So a list that arrives is shown, its request is settled,
`loading` is reset and a reload that was put off is sent, all in `Receive`.
`socket` is `deviceSocket`, `waiting` is `pendingWsRequests`, `reload` is
`pendingDevicesReload`; `timer` says that `reconnectTimer` is pending and
`strays` counts pending timers of `onclose` that it does not hold any more. A
request remembers whether the row object that was clicked is still in the list
(`live`), for an answer is written to that object, and whether a deletion of
several waits for this list (`ends_bulk`).

The connection is two queues, `inbox` and `outbox`, that deliver in order and
are lost together when it breaks; `Vanish` is a server that is gone before the
page notices. The handler's part is `FirstList`, `Answer` and the broadcast
(`Announces`), which may fail to reach the page as `WsHub` shows (`missed`).
Request ids are used again once nothing carries them any more.

## 3. Runs

| Run | Instance | Checks |
|---|---|---|
| `registry_one_worker` | 1 worker, SQLite, 2 devices, 3 requests of every kind | `TypeOK`, `LogExact`, `RepliesTellEffect`, refinement `ImplementsPromise` |
| `registry_mysql_workers` | 2 workers, MySQL, 4 conflicting requests | `DecisionsHold`, `StampsOwn`, `AnswerOwn`, `RemovalsLogged` |
| `registry_sqlite_workers` | 2 workers, SQLite | `StampsOwn` is violated |
| `hub_changes` | 1 process, 2 panels with a change each, 1 heartbeat, fairness | `TypeOK`, `LivePanelsListen`, `OnlySetupLeaks`, `ToldUnlessBroken`, `AnnouncementsEnd` |
| `hub_last_check` | 1 process, 2 heartbeats | `LastCheckMeansSuccess` is violated |
| `client_one_program` | 2 products, any SDK, one call at a time | `TypeOK`, `OfflineWithinValidity`, `DenialSticks`, `RowsAreOwn`, `LightAnswerCounts` |
| `client_shared_file` | 2 products, 2 calls at a time | `RowsAreOwn` is violated |
| `device_programs` | 2 threads of one program or of two, any SDK, 4 networks, fairness | `TypeOK`, `IdentitySurvives`, `PhysicalFirst`, `StubMadeUp`, `CallsReturn` |
| `device_snapshot` | the same | `CollectedWhenOmitted` is violated |
| `users_workers` | SQLite with 1 worker, and MySQL with 2; 2 accounts, 3 requests of every kind | `TypeOK`, `AccountsKept`, `LogTellsTargets`, `LogAndRepliesTrue`, `ActorsInForce`, `DeletionLeavesAdmin`, `PasswordHandedOver` |
| `startup_crashes` | 3 processes, 2 starts each, fairness | `TypeOK`, `OneInitialiser`, `ReadyWhenAllServe`, `EveryoneServes` |
| `panel_page` | 1 device, 2 pages, 2 changes, 2 broken connections, 1 act of the administrator, fairness | `TypeOK`, `QuietIsFresh`, `LoadingHasRequest`, `ReconnectArmed`, `LeavingIsFinal`, `BulkEnds` |

**Bounds.** Two devices and four requests are the smallest instance in which a
row is read, deleted, its id given away and written again. Two panels that
connect and leave once each, change the pool under a broadcast in every way
its iterator distinguishes: smaller, larger, or of the same size with another
member. Three requests about two accounts are one that reads, one that changes
what was read and one that meets the result. Two starts of three processes let
one hold the lock, one skip and one die and come back.
The page needs two pages (the first list is always of page 1) and two broken
connections (two reconnections pending at once); four requests are a list for
the page, one that was put off, what the administrator asks, and the list
after that: a fifth id adds no state to the run.
Two threads, in one program or in two, are a first start that meets another,
a heartbeat that meets a start, and two checks of one client. The four networks
put a virtual card beside a real one with every kind of address; that a card
with an address is never passed over for one without is an assumption of
`MCDeviceIdentity`, evaluated for all machines of up to two interfaces.
`MaxTime` = `Validity` + 1 lets an authorization be given, age and expire;
`MaxBeats` allows a progressive check after an earlier one. Requests and
sockets are used once and calls are bounded, so the registry and the hub come
to rest: their runs do not check for deadlock; those of the SDKs do.

**Symmetry** is used where devices, requests, workers, sockets, products or
tasks are interchangeable, and never in the run that checks liveness.

**Fairness** (`WsHub!FairSpec`): each handler that waits for a send goes on
some day. asyncio runs every ready task, and uvicorn closes a connection
whose peer answers no ping, which ends a send that nobody takes. Nothing is
assumed of browsers, of administrators, or that another heartbeat comes.
`Startup!Fairness`: a process that is down and may be started is started (the
supervisor of uvicorn, the restart policy of the container), and one that runs
goes on. Crashes are bounded by `MaxStarts`, for a process that dies for ever
never serves. `AdminPanel!Fairness`: the browser fires a pending timer, so a
request times out some day; that the server answers is not assumed.
`DeviceIdentity!FairSpec`: a thread in a call goes on, because every heartbeat
has a timeout and collecting facts ends. Nothing is assumed of the caller, or
that a program goes on living.

## 4. What the runs show

*The registry with one worker is atomic.* Every behaviour of the handlers is
one of `LicenseRegistry`, including an answer that is built after the
broadcast from the object read before it.

*With several workers on MySQL* the unique index and the ids that never come
back keep requests apart, and an UPDATE that has only the columns a request
changes keeps a heartbeat from writing an old verdict back (`DecisionsHold`). What is lost is the exactness of the log: a device
that two administrators delete at once is logged twice, so only
`RemovalsLogged` is claimed there.

*With several workers on SQLite* it does not hold: a heartbeat reads row 1,
the row is deleted, another device registers and gets id 1, and the heartbeat
stamps that row and answers with its verdict. The image starts four workers
(`Dockerfile:28`) and SQLite is the default.

*The hub* never drops a live panel that is in its loop, and a handler that
reached its loop takes its socket along whichever way it ends. But a broadcast
that meets a changing set fails the heartbeat that made it after `last_check`
was stored, and the panels of other processes are not told: every process has
a pool of its own, and `Dockerfile:28` starts four.

*The SDKs* never answer offline beyond the validity of an authorization the
server gave, even with torn files and lost updates (`OfflineIsBacked`, for any
number of calls at a time). Used one call at a time a saved denial stays, each
product keeps its row, and a light answer counts. Products that save at the
same time undo each other. `DenialSticks` and `LightAnswerCounts` fail as well
as soon as two calls overlap; the repository says nothing of overlapping checks
of one product, so they are claimed for one call at a time only.

*The id* of a product survives everything but the loss of the file and first
starts that overlap: `persist_device_id` does not look whether an id was
persisted since, so two programs started together on a changing network may
register as two devices. A virtual card stands for the machine only when no
real one has an address, Hyper-V's NAT included.

*The snapshot* of `device_info` does not do what it is for. What a light
heartbeat saves before the facts are collected is a stub, and a program that
starts on it takes it for collected: if the first program ended, or its full
heartbeat failed, the server never gets the device information that the
documents promise to collect (`device_snapshot`). `StubMadeUp` says that these
are the only ways to keep a stub. Two overlapping checks of one Go client may
both wait for the facts, which come once; `CallsReturn` shows that this is the
only way for a call not to return.

*Hazards that remain.* Several hazards of `PROJECT.json` bite only where a
property stops, and their notes say so: with several workers an acknowledged
update that asks for what it read may be lost to another one, `delete_devices` may log what another worker
deleted, two administrators may delete each other, a reset password may be
overwritten by a change verified against the old one, and a change of a user who
was deleted meanwhile is answered with an error. A panel of another process is
not told until it asks. A denial of which no write succeeds is forgotten, and a check may
answer from the snapshot of a row that another call revoked, within the
validity. Two overlapping Go checks may lock each other out, and a page with
two reconnections pending may come back after it was left.

*User administration* with one worker process does what its checks intend:
whoever changes something has the right at that moment, deletions leave an
administrator, the log and the replies are exact. With several processes the
check and the change are separate statements, and none of this is claimed:
two administrators can delete each other. What remains is in the run for
MySQL: the unique index, columns that only change as asked (`AccountsKept`),
the entry of every change, and the account it names.

*Startup* initialises under the lock and never deadlocks on it; when every
process serves and no step failed the database is ready, although whoever
found the lock taken went on. The comment that it happens only once
(`main.py:29`) holds of processes that start together; one that starts after
the lock is free initialises again. That changes nothing except for a default
administrator who was deleted: `FindAdmin` and `CreateAdmin` bring the account
back, with the password of the environment, at the next start of any worker.

*The panel* shows what the table holds as soon as nothing is under way, if the
announcements reached it: announcements that meet a list under way, lists that
time out and are answered later, rows changed in place and new connections
lose nothing. It rests on the order of the messages and on showing a list that
comes too late; `pendingDevicesReload` adds nothing to it, for a list that
comes after an announcement was read after the change. A page without a
connection has a reconnection pending, whatever failed, and the deletion of
several devices ends. `LeavingIsFinal` needs its premise. A reload put off until the connection broke connects at once, while
the timer of `onclose` is pending; when that connection breaks as well within
3 seconds, `reconnectTimer` holds the second timer only, and the first one
reconnects even after the page was left. Two things the model does not
decide: whether a close with 4401 before `accept` reaches the browser as 4401
(servers answer with HTTP 403, which is an ordinary close to `onclose`), so it
allows both; and the remark field, whose text is replaced by each new list.

## 5. Theorems

Every invariant and every action property of the passing runs is a theorem:
the runs show it on a small instance, the proofs for every value of the
constants. Where a run checks a property for one worker or one call at a time
only, the theorem assumes the same, as a hypothesis that it states.

`RegistryProof` proves, for any number of devices, requests and workers:

- `TypeCorrect`: `Spec => []TypeOK`.
- `OnlyOwnRequestsStamp` and `AnswersAreOwn`: `StampsOwn` and `AnswerOwn`, if
  ids are not reused or there is one worker. `StampsOwn` is not inductive by
  itself: an UPDATE goes to the id that a handler loaded, so the invariant
  (`OwnInv`) adds that an object held by a running handler still has its id in
  use by the same device or not at all. With ids that are not reused this
  follows from every id in use and every id loaded being below `nextId`; with
  one worker from no other handler running between the read and the write.
- `NoSilentRemoval`: `RemovalsLogged`, on both databases and with any number of
  workers. A step changes the store by an INSERT, an UPDATE or a DELETE, or not
  at all (`StoreStep`), and each of the three has a lemma that says what it
  does to the rows, the log and the ids (`InsertEffect`, `WriteEffect`,
  `DeleteEffect`); this proof and the next three go by them.
- `OnlyUpdatesDecide`: `DecisionsHold`, under the condition of
  `OnlyOwnRequestsStamp`. It needs that a device has at most one row
  (`UniqueRows`, the unique index).
- `LogIsExact` and `RepliesAreTrue`: `LogExact` and `RepliesTellEffect`, with
  one worker. A deletion of several devices logs those it found before; that
  nobody ran between this read and the DELETE makes the two agree
  (`StillThere`). `TraceInv` follows a request from before its effect, when the
  log has nothing of it, to its reply.

`RegistryPromiseProof` proves `PromiseKept`: with one worker `Registry`
implements `LicenseRegistry`, on both databases. Under the refinement mapping an
INSERT is the abstract registration, the read after the write of a heartbeat
is the instant at which it is judged, an UPDATE of an administrator sets the
verdict, a DELETE removes devices and every other statement is a stutter. What
makes the statements of a handler one operation is `FreshReads`: at a write,
what the handler read is what the store holds.

`WsHubProof` proves, for any number of processes, panels and heartbeats:

- `HubTypeCorrect`: `Spec => []TypeOK`.
- `PanelsListen` and `LeaksAreSetups`: `LivePanelsListen` and
  `OnlySetupLeaks`. Broadcasts take sockets out of the pool, so the invariant
  (`PoolInv`) has to say that what a broadcast found dead, and still has to
  take out, is a socket without a browser.
- `PanelsAreTold`: `ToldUnlessBroken`. `ToldInv` says of every panel that does
  not know of a change who still owes it the news: the handler before its
  broadcast, or the broadcast, which has the panel among those its iterator
  has not returned or as its current target, or is about to raise because the
  pool changed; or else the panel is excused.

`AuthClientProof` proves, for any number of products and of calls at the same
time:

- `ClientTypeCorrect`: `Spec => []TypeOK`.
- `OfflineIsBacked`: `OfflineWithinValidity`. The strengthening (`LeaseInv`)
  says that no `last_success_at`, in the file or in the rows a call is about
  to write, is later than the last authorization of that product, and that a
  call about to save an authorization received it in the current tick.

and, for any number of products and one call at a time (`Tasks = {t}`):

- `RowsKeptApart`, `LightAnswersCount` and `DenialsStick`: `RowsAreOwn`,
  `LightAnswerCounts` and `DenialSticks`. They share `SoleInv`: the rows a call
  holds while it writes are those of the last calls of the other products, the
  rows of denied products are never in force, in the file or in a call, and
  what a light heartbeat stored stays in the file until the call ends.
  `LightAnswersCount` assumes that the validity (7 days by default) is longer
  than the one tick of the clock that may pass while a call is made.

`DeviceIdentityProof` proves, for any number of programs and threads, and for
machines with any number of interfaces:

- `IdentityTypeCorrect`: `Spec => []TypeOK`. `TypeInv` adds which call is at
  which step and that a start is the only call of its program.
- `FirstIdKept`: `IdentitySurvives`. The strengthening (`IdInv`) says what the
  property leaves open: while a first id is known no start is making one, and
  the file is empty only while a thread fills it, so that a start which finds
  it empty is excused; and before there is a first id there is nothing but one
  start that makes it.
- `RealCardsPreferred`: `PhysicalFirst`. With an address a real card scores at
  least 100 and a virtual one at most 50, and the sort keeps the better in
  front; `FirstExists` shows that there is always one in front.
- `StubIsMadeUp`: `StubMadeUp`. `StubInv` says that, as long as nothing was
  interrupted, a stub in the file has a call that is completing it, a client
  whose collection is not put off has its facts, and only a light heartbeat
  saves without them.

`UserAdminProof` proves, for any number of accounts, requests and processes, and
for both databases:

- `UsersTypeCorrect`: `Spec => []TypeOK`, together with `RowsInv` (names are
  unique, ids in use are below the counter), which it needs.
- `AccountsAreKept`: `AccountsKept`, whatever overlaps.
- `ActorsAreInForce`, `DeletionsLeaveAdmin` and `PasswordsHandedOver`: the
  three properties speak of one process. By `HeldInv` what a handler holds of
  the actor and of the target is then what the table holds, because no other
  handler runs between the read and the commit.
- `LogTells` and `LogAndRepliesAreTrue`: `LogTellsTargets` and
  `LogAndRepliesTrue`. `LogInv` has what every change left in the log, with or
  without a clean-up. That the entry names the account changed needs one
  process, or ids that do not come back: by `HeldInv` an id that is held then
  still belongs to the same name.

`StartupProof` proves, for any number of processes and starts:

- `StartupTypeCorrect`: `Spec => []TypeOK`, so there is no account before there
  are tables.
- `OneInitialises`: `OneInitialiser`. The lock is held by exactly the process
  that initialises (`LockInv`).
- `ReadyOnceAllServe`: `ReadyWhenAllServe`. A process that skips the
  initialisation leaves behind the one that holds the lock and does not serve
  yet, and nobody reaches the unlock, without a failed step, before the
  database is ready (`ReadyInv`).

`AdminPanelProof` proves, for any number of devices, pages, requests under way,
messages, changes by others and broken connections:

- `PanelTypeCorrect`: `Spec => []TypeOK`. Whether a row that an answer names is
  one of the list depends on what the answer is to, so `WireInv` says that the
  requests on their way are those that wait under their ids, and that what was
  done never answers the request for a list.
- `ReconnectionPending` and `LeftForGood`: `ReconnectArmed` and
  `LeavingIsFinal`. `TimerInv` adds that a timer which `reconnectTimer` does not
  hold was pending besides another.
- `LoadingAsksForList`: `LoadingHasRequest`, which is inductive given the types.
- `NothingIsForgotten`: `QuietIsFresh`. As long as the handler runs, `FreshInv`
  names what brings the page up to date: a list of the selected page that is
  asked for, on its way with nothing but refusals behind it, or shown; an
  announcement on its way; or a reload that was put off, which has a list under
  way by `LoadingHasRequest`. The last list asked for is always of the selected
  page, and the first list of a connection, which is of page 1, never stands
  alone.

Assumptions are those the modules name: the requests are well formed, `None`
is none of the values, the validity and the number of starts are positive.
Only model-checked are the liveness properties `AnnouncementsEnd`,
`CallsReturn`, `EveryoneServes` and `BulkEnds`, for they rest on fairness, which
is out of the prover's reach, and the four runs that show a violation.

## 6. Plan

1. `AdminPanel` composed with `WsHub` (told, asks again, shows). `AdminPanel`
   has the broadcast as one step that may miss the page, which is what `WsHub`
   shows of it.

## 7. Not modelled

Routing: `main.py:131-134` includes routers that carry their prefix already
(`app/routers/auth.py:16`, `admin.py:23`, `user.py:24`; `/ws` in `ws.py:15`), so
the routes come out as `/api/auth/api/auth/heartbeat` and the like, while the
SDKs and the panel send to `/api/auth/heartbeat`. The models start where a
request has reached its handler, and comments name the paths that the SDKs, the
panel and the documents use.

Encryption, hashing and token signing are primitives: a message is readable or
not. The reading of single facts about a machine is I/O and their layout in
`device_info` is data; the public address, which a heartbeat adds, as well. A
caller that gives its own `device_id` or `device_info` needs nothing of
`DeviceIdentity`. `tools/decrypt_state_bundle.py` reads the state file for a
developer; the middleware writes a log line. `_mac_from_uuid_node` shifts by 0,
2, ..., 10 bits where octets need 0, 8, ..., 40, so only 18 bits of the node get
into the MAC of a machine without a usable interface; the model has it as one
value (`NodeMac`). The clock of the client
only advances: set back, it makes an old authorization young, against which
the code has no defence. MySQL's own lock waits and deadlocks appear as a
commit that fails. Isolation is per statement (SQLite in its default
transaction mode); a MySQL transaction's snapshot would show a handler an
older row in its refresh, never one of another device.
