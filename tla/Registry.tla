------------------------------- MODULE Registry -------------------------------
(***************************************************************************)
(* The device registry of the server: the devices table, the               *)
(* default_authorization setting and the operation log, and the handlers   *)
(* that read and write them                                                *)
(*   POST /api/auth/heartbeat             app/routers/auth.py              *)
(*   update_device, delete_device and                                      *)
(*   delete_devices over /ws              app/routers/ws.py                *)
(*   PUT /api/admin/config                app/routers/admin.py             *)
(* one database statement per step.  The handlers are coroutines with      *)
(* synchronous database calls: inside one worker process the code between  *)
(* two awaits runs without interruption, while the statements of different *)
(* worker processes interleave freely.                                     *)
(*                                                                         *)
(* A timestamp is represented by the request that took it.  A transaction  *)
(* that reads nothing between its first write and its commit is one step.  *)
(* Any commit may fail (a locked or lost database), and then writes        *)
(* nothing; reads do not fail.                                             *)
(***************************************************************************)
EXTENDS Naturals

CONSTANTS
    Devices,    \* device_id values
    Infos,      \* software_name/device_info a heartbeat may carry
    Remarks,    \* remarks an administrator may write
    Reqs,       \* request instances; each is sent once
    Workers,    \* worker processes
    Requests,   \* the requests that may be sent
    ReuseIds,   \* TRUE: an INTEGER PRIMARY KEY of SQLite (the largest id in
                \* the table + 1); FALSE: AUTO_INCREMENT of MySQL
    None        \* no value

Verdict == {"authorized", "denied"}
Setting == {"unset", "on", "off"}

HeartbeatRequest ==
    [kind : {"heartbeat"}, device : Devices, info : Infos \cup {None}]
UpdateRequest ==
    {u \in [kind : {"update"}, device : Devices,
            auth : Verdict \cup {None}, remark : Remarks \cup {None}] :
        u.auth # None \/ u.remark # None}
DeleteRequest == [kind : {"delete"}, device : Devices]
DeleteManyRequest == [kind : {"delete_many"}, devices : SUBSET Devices]
\* The value for default_authorization, if the request has that key; other
\* keys are skipped.
ConfigRequest == [kind : {"config"}, value : {"on", "off"} \cup {None}]
\* A request that fails decryption or validation, an update of nothing.
MalformedRequest == [kind : {"malformed"}]

AnyRequest ==
    HeartbeatRequest \cup UpdateRequest \cup DeleteRequest
    \cup DeleteManyRequest \cup ConfigRequest \cup MalformedRequest

\* A row of the devices table without its id.
Row == [device : Devices, auth : Verdict, info : Infos \cup {None},
        remark : Remarks \cup {None},
        created_at : Reqs, updated_at : Reqs, last_check : Reqs]

\* An ORM object: the id of its row and the column values it holds.
Loaded == [id : Nat, row : Row]

ASSUME RequestsAssumption == Requests \subseteq AnyRequest
ASSUME ReuseIdsAssumption == ReuseIds \in BOOLEAN
ASSUME NoneAssumption ==
    /\ None \notin Reqs \cup Verdict \cup Infos \cup Remarks \cup {"done", "error"}
    /\ None \notin AnyRequest \cup Loaded

VARIABLES
    rows,       \* the devices table: id -> row
    nextId,     \* the AUTO_INCREMENT counter
    setting,    \* the row of config for default_authorization
    log,        \* operation_logs: records [req, action, device]
    req,        \* req[r]: the request r carries, None before it is sent
    worker,     \* worker[r]: the process that handles r
    pc,         \* pc[r]: where the handler of r is
    running,    \* running[w]: the request whose code w runs, None at an await
    loaded,     \* loaded[r]: the ORM object of r: id and column values read
    seen,       \* seen[r]: the setting that r read
    found,      \* found[r]: the ids delete_devices selected
    replies,    \* replies[r]: the replies r sent
    removed     \* history: the pairs <<r, d>> such that r deleted a row of d

vars == <<rows, nextId, setting, log, req, worker, pc, running, loaded,
          seen, found, replies, removed>>

store == <<rows, nextId, setting, log, removed>>
call == <<req, worker>>

PC == {"unsent", "queued", "config", "write", "refresh",
       "await", "notify", "done", "failed"}

LogEntry ==
    [req : Reqs, action : {"update_device", "delete_device"}, device : Devices]
    \cup [req : Reqs, action : {"update_config"}, device : {None}]

TypeOK ==
    /\ DOMAIN rows \subseteq Nat
    /\ rows \in [DOMAIN rows -> Row]
    /\ nextId \in Nat
    /\ setting \in Setting
    /\ log \subseteq LogEntry
    /\ req \in [Reqs -> Requests \cup {None}]
    /\ worker \in [Reqs -> Workers \cup {None}]
    /\ pc \in [Reqs -> PC]
    /\ running \in [Workers -> Reqs \cup {None}]
    /\ loaded \in [Reqs -> Loaded \cup {None}]
    /\ seen \in [Reqs -> Setting]
    /\ found \in [Reqs -> SUBSET Devices]
    /\ replies \in [Reqs -> SUBSET (Verdict \cup {"done", "error"})]
    /\ removed \subseteq Reqs \X Devices

Init ==
    /\ rows = [i \in {} |-> None]
    /\ nextId = 1
    /\ setting = "unset"
    /\ log = {}
    /\ req = [r \in Reqs |-> None]
    /\ worker = [r \in Reqs |-> None]
    /\ pc = [r \in Reqs |-> "unsent"]
    /\ running = [w \in Workers |-> None]
    /\ loaded = [r \in Reqs |-> None]
    /\ seen = [r \in Reqs |-> "unset"]
    /\ found = [r \in Reqs |-> {}]
    /\ replies = [r \in Reqs |-> {}]
    /\ removed = {}

-----------------------------------------------------------------------------
(* Helpers *)

\* The ids of the rows of d: what "WHERE device_id = d" selects.
IdsOf_Mutant(d) == DOMAIN rows
IdsOf(d) == {i \in DOMAIN rows : rows[i].device = d}

\* The id the database gives to a new row.
MaxIdPlusOne ==
    {n \in {1} \cup {i + 1 : i \in DOMAIN rows} : \A i \in DOMAIN rows : i < n}
NewIds == IF ReuseIds THEN MaxIdPlusOne ELSE {nextId}

\* device_id is UNIQUE: the INSERT fails when another request was faster.
MayInsert(d) == IdsOf(d) = {}

\* Worker scheduling: a handler starts, or resumes after an await, only while
\* its worker runs no other code.
Idle(r) == running[worker[r]] = None
Hold_Mutant(r) == UNCHANGED running
Hold(r) == running' = [running EXCEPT ![worker[r]] = r]
Release(r) == running' = [running EXCEPT ![worker[r]] = None]

Goto(r, l) == pc' = [pc EXCEPT ![r] = l]
Send(r, a) == replies' = [replies EXCEPT ![r] = @ \cup {a}]

\* An exception before the handler has anything to report: an error reply.
Fail(r) ==
    /\ Send(r, "error")
    /\ Goto(r, "failed")
    /\ Release(r)
    /\ UNCHANGED <<store, call, loaded, seen, found>>

\* The handler of r is about to run its first statement.
Starts(r, k) == pc[r] = "queued" /\ req[r].kind = k /\ Idle(r)

\* The handler of r runs on after statement l.
At(r, k, l) == pc[r] = l /\ req[r].kind = k

\* Value written to a column: only an attribute set to something else than
\* the value loaded is part of the UPDATE.
Column(new, old, current) == IF new # None /\ new # old THEN new ELSE current

-----------------------------------------------------------------------------
(* Arrival *)

Arrive(r) ==
    /\ pc[r] = "unsent"
    /\ \E q \in Requests, w \in Workers :
          /\ req' = [req EXCEPT ![r] = q]
          /\ worker' = [worker EXCEPT ![r] = w]
    /\ Goto(r, "queued")
    /\ UNCHANGED <<store, running, loaded, seen, found, replies>>

RejectMalformed(r) ==
    /\ Starts(r, "malformed")
    /\ Fail(r)

-----------------------------------------------------------------------------
(* POST /api/auth/heartbeat *)

HeartbeatSelect(r) ==
    /\ Starts(r, "heartbeat")
    /\ IF IdsOf(req[r].device) = {}
       THEN /\ Goto(r, "config")
            /\ UNCHANGED loaded
       ELSE /\ \E i \in IdsOf(req[r].device) :
                  loaded' = [loaded EXCEPT ![r] = [id |-> i, row |-> rows[i]]]
            /\ Goto(r, "write")
    /\ Hold(r)
    /\ UNCHANGED <<store, call, seen, found, replies>>

\* coerce_boolish(config.value, if_none=True); no setting means TRUE.
DefaultVerdict_Mutant(s) == IF s = "on" THEN "authorized" ELSE "denied"
DefaultVerdict(s) == IF s = "off" THEN "denied" ELSE "authorized"

HeartbeatReadDefault(r) ==
    /\ At(r, "heartbeat", "config")
    /\ seen' = [seen EXCEPT ![r] = setting]
    /\ Goto(r, "write")
    /\ UNCHANGED <<store, call, running, loaded, found, replies>>

NewRow_Mutant(r) ==
    [device |-> req[r].device, auth |-> None, info |-> req[r].info,
     remark |-> None, created_at |-> r, updated_at |-> r, last_check |-> r]
NewRow(r) ==
    [device |-> req[r].device, auth |-> DefaultVerdict(seen[r]),
     info |-> req[r].info, remark |-> None, created_at |-> r,
     updated_at |-> r, last_check |-> r]

HeartbeatInsert(r) ==
    /\ At(r, "heartbeat", "write")
    /\ loaded[r] = None
    /\ \/ /\ MayInsert(req[r].device)
          /\ \E i \in NewIds :
                /\ rows' = [j \in DOMAIN rows \cup {i} |->
                              IF j = i THEN NewRow(r) ELSE rows[j]]
                /\ nextId' = IF ReuseIds THEN nextId ELSE i + 1
                /\ loaded' = [loaded EXCEPT ![r] =
                                [id |-> i, row |-> NewRow(r)]]
          /\ Goto(r, "refresh")
          /\ UNCHANGED <<setting, log, removed, call, running, seen, found,
                         replies>>
       \/ Fail(r)

\* The row after the UPDATE of heartbeat r, which read row old.
Touched_Mutant(r, old, row) ==
    [old EXCEPT !.info = Column(req[r].info, old.info, @), !.last_check = r]
Touched(r, old, row) ==
    LET info == Column(req[r].info, old.info, row.info)
        changed == req[r].info # None /\ req[r].info # old.info
    IN  [row EXCEPT !.info = info,
                    !.updated_at = IF changed THEN r ELSE @,
                    !.last_check = r]

\* An UPDATE whose row is gone matches nothing and raises StaleDataError.
HeartbeatUpdate(r) ==
    /\ At(r, "heartbeat", "write")
    /\ loaded[r] # None
    /\ \/ /\ loaded[r].id \in DOMAIN rows
          /\ rows' = [rows EXCEPT ![loaded[r].id] =
                        Touched(r, loaded[r].row, @)]
          /\ Goto(r, "refresh")
          /\ UNCHANGED <<nextId, setting, log, removed, call, running, loaded,
                         seen, found, replies>>
       \/ Fail(r)

\* db.refresh: the row is read again by its id.
Refresh(r) ==
    /\ pc[r] = "refresh"
    /\ IF loaded[r].id \in DOMAIN rows
       THEN /\ loaded' = [loaded EXCEPT ![r].row = rows[loaded[r].id]]
            /\ Goto(r, "await")
            /\ Release(r)
            /\ UNCHANGED <<store, call, seen, found, replies>>
       ELSE Fail(r)

\* After the broadcast the answer is built from the object refreshed before
\* it; a broadcast that raises and an answer that cannot be encrypted are
\* errors.
HeartbeatAnswer(r) ==
    /\ At(r, "heartbeat", "await")
    /\ Idle(r)
    /\ Send(r, loaded[r].row.auth) \/ Send(r, "error")
    /\ Goto(r, "done")
    /\ UNCHANGED <<store, call, running, loaded, seen, found>>

-----------------------------------------------------------------------------
(* update_device *)

UpdateSelect(r) ==
    /\ Starts(r, "update")
    /\ IF IdsOf(req[r].device) = {}
       THEN Fail(r)
       ELSE /\ \E i \in IdsOf(req[r].device) :
                  loaded' = [loaded EXCEPT ![r] = [id |-> i, row |-> rows[i]]]
            /\ Goto(r, "write")
            /\ Hold(r)
            /\ UNCHANGED <<store, call, seen, found, replies>>

\* The row after the UPDATE of r; created_at is assigned the value loaded,
\* which leaves the column out of the UPDATE.
Edited(r, old, row) ==
    [row EXCEPT !.auth = Column(req[r].auth, old.auth, @),
                !.remark = Column(req[r].remark, old.remark, @),
                !.updated_at = r]

UpdateCommit_Mutant(r) ==
    /\ At(r, "update", "write")
    /\ log' = log \cup {[req |-> r, action |-> "update_device",
                         device |-> loaded[r].row.device]}
    /\ \/ /\ loaded[r].id \in DOMAIN rows
          /\ rows' = [rows EXCEPT ![loaded[r].id] = Edited(r, loaded[r].row, @)]
          /\ Goto(r, "refresh")
          /\ UNCHANGED <<nextId, setting, removed, call, running, loaded,
                         seen, found, replies>>
       \/ /\ Send(r, "error")
          /\ Goto(r, "failed")
          /\ Release(r)
          /\ UNCHANGED <<rows, nextId, setting, removed, call, loaded, seen,
                         found>>
UpdateCommit(r) ==
    /\ At(r, "update", "write")
    /\ \/ /\ loaded[r].id \in DOMAIN rows
          /\ rows' = [rows EXCEPT ![loaded[r].id] =
                        Edited(r, loaded[r].row, @)]
          /\ log' = log \cup {[req |-> r, action |-> "update_device",
                               device |-> loaded[r].row.device]}
          /\ Goto(r, "refresh")
          /\ UNCHANGED <<nextId, setting, removed, call, running, loaded,
                         seen, found, replies>>
       \/ Fail(r)

-----------------------------------------------------------------------------
(* delete_device and delete_devices *)

\* Rows without those of ds, the log with one entry for each of ds.
Delete_Mutant(r, ds) ==
    LET gone == UNION {IdsOf(d) : d \in ds}
    IN  /\ rows' = [i \in DOMAIN rows \ gone |-> rows[i]]
        /\ removed' = removed \cup {<<r, rows[i].device>> : i \in gone}
        /\ \E d \in ds : log' = log \cup {[req |-> r, device |-> d,
                                           action |-> "delete_device"]}
Delete(r, ds) ==
    LET gone == UNION {IdsOf(d) : d \in ds}
    IN  /\ rows' = [i \in DOMAIN rows \ gone |-> rows[i]]
        /\ removed' = removed \cup {<<r, rows[i].device>> : i \in gone}
        /\ log' = log \cup {[req |-> r, action |-> "delete_device",
                             device |-> d] : d \in ds}

DeleteDevice(r) ==
    /\ Starts(r, "delete")
    /\ \/ /\ IdsOf(req[r].device) # {}
          /\ Delete(r, {req[r].device})
          /\ Goto(r, "await")
          /\ UNCHANGED <<nextId, setting, call, running, loaded, seen,
                         found, replies>>
       \/ Fail(r)

Existing_Mutant(ds) == ds
Existing(ds) == {d \in ds : IdsOf(d) # {}}

DeleteDevicesSelect(r) ==
    LET ds == Existing(req[r].devices)
    IN  /\ Starts(r, "delete_many")
        /\ IF ds = {}
           THEN Fail(r)
           ELSE /\ found' = [found EXCEPT ![r] = ds]
                /\ Goto(r, "write")
                /\ Hold(r)
                /\ UNCHANGED <<store, call, loaded, seen, replies>>

DeleteDevicesCommit(r) ==
    /\ At(r, "delete_many", "write")
    /\ \/ /\ Delete(r, found[r])
          /\ Goto(r, "await")
          /\ Release(r)
          /\ UNCHANGED <<nextId, setting, call, loaded, seen, found,
                         replies>>
       \/ Fail(r)

\* The three /ws operations send their reply, then broadcast the change; an
\* exception of the broadcast sends an error after the reply.
WsReply(r) ==
    /\ pc[r] = "await"
    /\ req[r].kind \in {"update", "delete", "delete_many"}
    /\ Idle(r)
    /\ Send(r, "done")
    /\ Goto(r, "notify")
    /\ UNCHANGED <<store, call, running, loaded, seen, found>>

WsNotify(r) ==
    /\ pc[r] = "notify"
    /\ Idle(r)
    /\ UNCHANGED replies \/ Send(r, "error")
    /\ Goto(r, "done")
    /\ UNCHANGED <<store, call, running, loaded, seen, found>>

-----------------------------------------------------------------------------
(* PUT /api/admin/config *)

\* Without the key there is no row to look for.
ConfigSelect(r) ==
    /\ Starts(r, "config")
    /\ seen' = IF req[r].value = None THEN seen ELSE [seen EXCEPT ![r] = setting]
    /\ Goto(r, "write")
    /\ Hold(r)
    /\ UNCHANGED <<store, call, loaded, found, replies>>

\* A row that was missing is inserted, which fails when another request was
\* faster (key is the primary key); one that has the value is not written.
\* The request is logged and answered in any case.
ConfigCommit(r) ==
    /\ At(r, "config", "write")
    /\ \/ /\ req[r].value # None /\ seen[r] = "unset" => setting = "unset"
          /\ setting' = Column(req[r].value, seen[r], setting)
          /\ log' = log \cup {[req |-> r, action |-> "update_config",
                               device |-> None]}
          /\ Send(r, "done")
          /\ Goto(r, "done")
          /\ Release(r)
          /\ UNCHANGED <<rows, nextId, removed, call, loaded, seen, found>>
       \/ Fail(r)

-----------------------------------------------------------------------------

Next == \E r \in Reqs :
    \/ Arrive(r) \/ RejectMalformed(r)
    \/ HeartbeatSelect(r) \/ HeartbeatReadDefault(r) \/ HeartbeatInsert(r)
    \/ HeartbeatUpdate(r) \/ Refresh(r) \/ HeartbeatAnswer(r)
    \/ UpdateSelect(r) \/ UpdateCommit(r)
    \/ DeleteDevice(r) \/ DeleteDevicesSelect(r) \/ DeleteDevicesCommit(r)
    \/ WsReply(r) \/ WsNotify(r)
    \/ ConfigSelect(r) \/ ConfigCommit(r)

Spec == Init /\ [][Next]_vars

-----------------------------------------------------------------------------
(* Properties *)

\* The row of a device, with its verdict.
DecisionOf(d) == {<<i, rows[i].auth>> : i \in IdsOf(d)}

\* A device that is registered keeps its one row and its verdict until it is
\* removed or an update about it sets the verdict it asks for.  Nothing else
\* decides, whatever races: no second registration, and no heartbeat or change
\* of the remark that read the row before the decision and writes it after.
DecisionsHold ==
    [][\A d \in Devices :
          DecisionOf(d)' # DecisionOf(d) =>
              \/ DecisionOf(d) = {} \/ DecisionOf(d)' = {}
              \/ \E r \in Reqs :
                    /\ pc[r] = "write" /\ pc'[r] = "refresh"
                    /\ req[r].kind = "update" /\ req[r].device = d
                    /\ \A e \in DecisionOf(d)' : e[2] = req[r].auth]_vars

\* Only requests about a device write to its row: the heartbeat that created
\* it, the last one checked against it and the last request that changed it
\* all named the device of the row.  The handlers write by the row id they
\* read one statement earlier.
StampsOwn ==
    \A i \in DOMAIN rows :
        /\ req[rows[i].created_at].kind = "heartbeat"
        /\ req[rows[i].last_check].kind = "heartbeat"
        /\ req[rows[i].updated_at].kind \in {"heartbeat", "update"}
        /\ \A r \in {rows[i].created_at, rows[i].last_check,
                     rows[i].updated_at} : req[r].device = rows[i].device

\* The verdict or the row that is sent back to a request is the one of the
\* device the request named, although it is read back by id.
AnswerOwn ==
    \A r \in Reqs :
        (pc[r] \in {"await", "notify"} /\ req[r].kind \in {"heartbeat", "update"})
            => loaded[r].row.device = req[r].device

DeletionLog == {<<e.req, e.device>> : e \in {f \in log : f.action = "delete_device"}}

\* No device disappears from the table without an entry of the operation log
\* that names it and the request that deleted it.
RemovalsLogged == removed \subseteq DeletionLog

\* The operation log tells of a deletion exactly when that request deleted
\* that device: with two administrators deleting the same device, one of them
\* is logged.
LogExact == DeletionLog = removed

\* An administrator who was told that an operation failed, and nothing else,
\* changed nothing and is not in the log; one who was told that it was done
\* is in the log with every device it changed, or with the change of the
\* setting.
RepliesTellEffect ==
    \A r \in Reqs :
        LET logged == {e.device : e \in {f \in log : f.req = r}} IN
        /\ (pc[r] = "failed" /\ req[r].kind # "heartbeat") =>
              /\ logged = {}
              /\ \A i \in DOMAIN rows : rows[i].updated_at # r
        /\ ("done" \in replies[r] /\ req[r].kind \in {"update", "delete"}) =>
              logged = {req[r].device}
        /\ ("done" \in replies[r] /\ req[r].kind = "delete_many") =>
              logged = found[r]
        /\ ("done" \in replies[r] /\ req[r].kind = "config") =>
              logged = {None}

\* The abstract registry: the verdict of a device, and what each request has
\* come to.
AuthOf == [d \in Devices |->
             IF IdsOf(d) = {} THEN None
             ELSE rows[CHOOSE i \in IdsOf(d) : TRUE].auth]

TookEffect(r) ==
    \/ pc[r] \in {"await", "notify", "done"}
    \/ pc[r] = "refresh" /\ req[r].kind # "heartbeat"

OutcomeOf == [r \in Reqs |->
                IF ~TookEffect(r) THEN None
                ELSE IF req[r].kind = "heartbeat" THEN loaded[r].row.auth
                ELSE "done"]

Promise == INSTANCE LicenseRegistry WITH auth <- AuthOf, outcome <- OutcomeOf

\* With one worker process the statements of the handlers add up to the
\* atomic operations of LicenseRegistry: a heartbeat is judged by the verdict
\* its device has at one instant, an update that was acknowledged has set the
\* verdict it asked for, and every effect is on the devices named.
ImplementsPromise == Promise!Spec
==============================================================================
