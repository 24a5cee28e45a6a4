---------------------------- MODULE RegistryProof ----------------------------
(***************************************************************************)
(* Theorems about Registry, for any number of devices, requests and        *)
(* workers: types, whose request a row and an answer belong to, the        *)
(* operation log, the decisions on devices and what the replies tell.      *)
(***************************************************************************)
EXTENDS Registry, TLAPS

(***************************************************************************)
(* The shape of a request follows from its kind.                           *)
(***************************************************************************)
LEMMA RequestShape ==
    ASSUME NEW q \in Requests
    PROVE  /\ q # None
           /\ q.kind = "heartbeat" => q \in HeartbeatRequest
           /\ q.kind = "update" => q \in UpdateRequest
           /\ q.kind = "delete" => q \in DeleteRequest
           /\ q.kind = "delete_many" => q \in DeleteManyRequest
           /\ q.kind = "config" => q \in ConfigRequest
  BY RequestsAssumption, NoneAssumption
     DEF AnyRequest, HeartbeatRequest, UpdateRequest, DeleteRequest,
         DeleteManyRequest, ConfigRequest, MalformedRequest

(***************************************************************************)
(* Request r was sent: it carries a request and has a worker.              *)
(***************************************************************************)
Sent(r) == pc[r] # "unsent" => req[r] \in Requests /\ worker[r] \in Workers

\* An ORM object exists where the handler uses one.
HasObject(r) ==
    /\ loaded[r] # None => pc[r] \notin {"unsent", "queued", "config"}
    /\ pc[r] = "refresh" => loaded[r] # None
    /\ (pc[r] = "write" /\ req[r].kind = "update") => loaded[r] # None
    /\ (pc[r] = "await" /\ req[r].kind = "heartbeat") => loaded[r] # None

Shape == \A r \in Reqs : Sent(r) /\ HasObject(r)

TypeInv == TypeOK /\ Shape

LEMMA InitTypeInv == Init => TypeInv
  BY DEF Init, TypeInv, TypeOK, Shape, Sent, HasObject, PC, Setting, Verdict

LEMMA NewIdsTyped ==
    ASSUME TypeOK
    PROVE  NewIds \subseteq Nat
  BY DEF TypeOK, NewIds, MaxIdPlusOne

LEMMA FailKeepsType ==
    ASSUME NEW r \in Reqs, TypeInv, Fail(r), pc[r] # "unsent"
    PROVE  TypeInv'
  BY DEF TypeInv, TypeOK, Shape, Sent, HasObject, Fail, Send, Goto, Release,
         store, call, PC

LEMMA NextTypeInv == TypeInv /\ [Next]_vars => TypeInv'
  <1> SUFFICES ASSUME TypeInv, [Next]_vars
               PROVE  TypeInv'
    OBVIOUS
  <1> USE DEF TypeInv, Shape, Sent, HasObject, store, call
  <1>1. ASSUME NEW r \in Reqs, Arrive(r)
        PROVE  TypeInv'
    BY <1>1, RequestShape DEF Arrive, Goto, TypeOK, PC
  <1>2. ASSUME NEW r \in Reqs, RejectMalformed(r)
        PROVE  TypeInv'
    BY <1>2, FailKeepsType DEF RejectMalformed, Starts
  <1>3. ASSUME NEW r \in Reqs, HeartbeatSelect(r)
        PROVE  TypeInv'
    BY <1>3 DEF HeartbeatSelect, Starts, Goto, Hold, TypeOK, PC, Loaded, IdsOf
  <1>4. ASSUME NEW r \in Reqs, HeartbeatReadDefault(r)
        PROVE  TypeInv'
    BY <1>4 DEF HeartbeatReadDefault, At, Goto, TypeOK, PC
  <1>5. ASSUME NEW r \in Reqs, HeartbeatInsert(r)
        PROVE  TypeInv'
    <2>1. CASE Fail(r)
      BY <1>5, <2>1, FailKeepsType DEF HeartbeatInsert, At
    <2>2. CASE ~Fail(r)
      <3>1. req[r] \in HeartbeatRequest
        BY <1>5, RequestShape DEF HeartbeatInsert, At
      <3>2. NewRow(r) \in Row
        BY <3>1 DEF NewRow, DefaultVerdict, Verdict, Row, HeartbeatRequest
      <3>3. PICK i \in NewIds :
              /\ rows' = [j \in DOMAIN rows \cup {i} |->
                            IF j = i THEN NewRow(r) ELSE rows[j]]
              /\ nextId' = IF ReuseIds THEN nextId ELSE i + 1
              /\ loaded' = [loaded EXCEPT ![r] = [id |-> i, row |-> NewRow(r)]]
        BY <1>5, <2>2 DEF HeartbeatInsert
      <3>4. i \in Nat
        BY NewIdsTyped
      <3>5. DOMAIN rows' \subseteq Nat /\ rows' \in [DOMAIN rows' -> Row]
        BY <3>2, <3>3, <3>4 DEF TypeOK
      <3>6. [id |-> i, row |-> NewRow(r)] \in Loaded
        BY <3>2, <3>4 DEF Loaded
      <3>7. /\ loaded' \in [Reqs -> Loaded \cup {None}]
            /\ loaded'[r] # None
            /\ \A s \in Reqs \ {r} : loaded'[s] = loaded[s]
        BY <3>3, <3>6, NoneAssumption DEF TypeOK
      <3>8. nextId' \in Nat
        BY <3>3, <3>4 DEF TypeOK
      <3>9. /\ pc' = [pc EXCEPT ![r] = "refresh"] /\ pc[r] = "write"
            /\ UNCHANGED <<setting, log, removed, req, worker, running, seen,
                           found, replies>>
        BY <1>5, <2>2 DEF HeartbeatInsert, At, Goto
      <3>10. TypeOK'
        BY <3>5, <3>7, <3>8, <3>9 DEF TypeOK, PC
      <3>11. Shape'
        BY <3>7, <3>9 DEF TypeOK
      <3>12. QED
        BY <3>10, <3>11
    <2>3. QED
      BY <2>1, <2>2
  <1>6. ASSUME NEW r \in Reqs, HeartbeatUpdate(r)
        PROVE  TypeInv'
    <2>1. CASE Fail(r)
      BY <1>6, <2>1, FailKeepsType DEF HeartbeatUpdate, At
    <2>2. CASE ~Fail(r)
      <3>1. req[r] \in HeartbeatRequest /\ loaded[r] \in Loaded
        BY <1>6, RequestShape DEF HeartbeatUpdate, At, TypeOK
      <3>2. ASSUME NEW row \in Row
            PROVE  Touched(r, loaded[r].row, row) \in Row
        BY <3>1, <3>2 DEF Touched, Column, Row, HeartbeatRequest
      <3>3. QED
        BY <1>6, <2>2, <3>2 DEF HeartbeatUpdate, At, Goto, TypeOK, PC
    <2>3. QED
      BY <2>1, <2>2
  <1>7. ASSUME NEW r \in Reqs, Refresh(r)
        PROVE  TypeInv'
    <2>1. CASE loaded[r].id \in DOMAIN rows
      <3>1. loaded[r] \in Loaded /\ rows[loaded[r].id] \in Row
        BY <1>7, <2>1 DEF Refresh, TypeOK
      <3>2. [loaded[r] EXCEPT !.row = rows[loaded[r].id]] \in Loaded
        BY <3>1 DEF Loaded
      <3>3. loaded' \in [Reqs -> Loaded \cup {None}]
        BY <1>7, <2>1, <3>1, <3>2 DEF Refresh, TypeOK
      <3>4. loaded'[r] # None
        BY <1>7, <2>1, <3>1, <3>2, NoneAssumption DEF Refresh, TypeOK
      <3>5. \A s \in Reqs \ {r} : loaded'[s] = loaded[s]
        BY <1>7, <2>1 DEF Refresh, TypeOK
      <3>6. QED
        BY <1>7, <2>1, <3>3, <3>4, <3>5 DEF Refresh, Goto, Release, TypeOK, PC
    <2>2. CASE ~(loaded[r].id \in DOMAIN rows)
      BY <1>7, <2>2, FailKeepsType DEF Refresh
    <2>3. QED
      BY <2>1, <2>2
  <1>8. ASSUME NEW r \in Reqs, HeartbeatAnswer(r)
        PROVE  TypeInv'
    <2>1. loaded[r].row.auth \in Verdict
      BY <1>8 DEF HeartbeatAnswer, At, TypeOK, Loaded, Row
    <2>2. QED
      BY <1>8, <2>1 DEF HeartbeatAnswer, At, Send, Goto, TypeOK, PC
  <1>9. ASSUME NEW r \in Reqs, UpdateSelect(r)
        PROVE  TypeInv'
    <2>1. CASE IdsOf(req[r].device) = {}
      BY <1>9, <2>1, FailKeepsType DEF UpdateSelect, Starts
    <2>2. CASE IdsOf(req[r].device) # {}
      <3>1. PICK i \in IdsOf(req[r].device) :
              loaded' = [loaded EXCEPT ![r] = [id |-> i, row |-> rows[i]]]
        BY <1>9, <2>2 DEF UpdateSelect
      <3>2. [id |-> i, row |-> rows[i]] \in Loaded
        BY <3>1 DEF IdsOf, TypeOK, Loaded
      <3>3. /\ loaded' \in [Reqs -> Loaded \cup {None}]
            /\ loaded'[r] # None
            /\ \A s \in Reqs \ {r} : loaded'[s] = loaded[s]
        BY <3>1, <3>2, NoneAssumption DEF TypeOK
      <3>4. QED
        BY <1>9, <2>2, <3>3 DEF UpdateSelect, Starts, Goto, Hold, TypeOK, PC
    <2>3. QED
      BY <2>1, <2>2
  <1>10. ASSUME NEW r \in Reqs, UpdateCommit(r)
         PROVE  TypeInv'
    <2>1. CASE Fail(r)
      BY <1>10, <2>1, FailKeepsType DEF UpdateCommit, At
    <2>2. CASE ~Fail(r)
      <3>1. req[r] \in UpdateRequest /\ loaded[r] \in Loaded
        BY <1>10, RequestShape DEF UpdateCommit, At, TypeOK
      <3>2. ASSUME NEW row \in Row
            PROVE  Edited(r, loaded[r].row, row) \in Row
        BY <3>1, <3>2 DEF Edited, Column, Row, UpdateRequest
      <3>3. loaded[r].row.device \in Devices
        BY <3>1 DEF Loaded, Row
      <3>4. QED
        BY <1>10, <2>2, <3>2, <3>3
           DEF UpdateCommit, At, Goto, TypeOK, PC, LogEntry
    <2>3. QED
      BY <2>1, <2>2
  <1>11. ASSUME NEW r \in Reqs, NEW ds \in SUBSET Devices, Delete(r, ds)
         PROVE  /\ DOMAIN rows' \subseteq Nat
                /\ rows' \in [DOMAIN rows' -> Row]
                /\ log' \subseteq LogEntry
                /\ removed' \subseteq Reqs \X Devices
    <2>1. \A i \in DOMAIN rows : rows[i].device \in Devices
      BY DEF TypeOK, Row
    <2>2. \A d \in ds : IdsOf(d) \subseteq DOMAIN rows
      BY DEF IdsOf
    <2>3. removed' \subseteq Reqs \X Devices
      BY <1>11, <2>1, <2>2 DEF Delete, TypeOK
    <2>4. log' \subseteq LogEntry
      BY <1>11 DEF Delete, TypeOK, LogEntry
    <2>5. QED
      BY <1>11, <2>3, <2>4 DEF Delete, TypeOK
  <1>12. ASSUME NEW r \in Reqs, DeleteDevice(r)
         PROVE  TypeInv'
    <2>1. CASE Fail(r)
      BY <1>12, <2>1, FailKeepsType DEF DeleteDevice, Starts
    <2>2. CASE ~Fail(r)
      <3>1. {req[r].device} \in SUBSET Devices
        BY <1>12, RequestShape DEF DeleteDevice, Starts, DeleteRequest
      <3>2. Delete(r, {req[r].device})
        BY <1>12, <2>2 DEF DeleteDevice
      <3>3. QED
        BY <1>11, <1>12, <2>2, <3>1, <3>2
           DEF DeleteDevice, Starts, Goto, TypeOK, PC
    <2>3. QED
      BY <2>1, <2>2
  <1>13. ASSUME NEW r \in Reqs, DeleteDevicesSelect(r)
         PROVE  TypeInv'
    <2>1. CASE Existing(req[r].devices) = {}
      BY <1>13, <2>1, FailKeepsType DEF DeleteDevicesSelect, Starts
    <2>2. CASE Existing(req[r].devices) # {}
      <3>1. Existing(req[r].devices) \in SUBSET Devices
        BY <1>13, RequestShape
           DEF DeleteDevicesSelect, Starts, DeleteManyRequest, Existing
      <3>2. QED
        BY <1>13, <2>2, <3>1 DEF DeleteDevicesSelect, Starts, Goto, Hold,
                                 TypeOK, PC
    <2>3. QED
      BY <2>1, <2>2
  <1>14. ASSUME NEW r \in Reqs, DeleteDevicesCommit(r)
         PROVE  TypeInv'
    <2>1. CASE Fail(r)
      BY <1>14, <2>1, FailKeepsType DEF DeleteDevicesCommit, At
    <2>2. CASE ~Fail(r)
      <3>1. Delete(r, found[r]) /\ found[r] \in SUBSET Devices
        BY <1>14, <2>2 DEF DeleteDevicesCommit, TypeOK
      <3>2. QED
        BY <1>11, <1>14, <2>2, <3>1
           DEF DeleteDevicesCommit, At, Goto, Release, TypeOK, PC
    <2>3. QED
      BY <2>1, <2>2
  <1>15. ASSUME NEW r \in Reqs, WsReply(r)
         PROVE  TypeInv'
    BY <1>15 DEF WsReply, Send, Goto, TypeOK, PC
  <1>16. ASSUME NEW r \in Reqs, WsNotify(r)
         PROVE  TypeInv'
    BY <1>16 DEF WsNotify, Send, Goto, TypeOK, PC
  <1>17. ASSUME NEW r \in Reqs, ConfigSelect(r)
         PROVE  TypeInv'
    <2>1. seen' \in [Reqs -> Setting]
      BY <1>17 DEF ConfigSelect, TypeOK
    <2>2. QED
      BY <1>17, <2>1 DEF ConfigSelect, Starts, Goto, Hold, TypeOK, PC
  <1>18. ASSUME NEW r \in Reqs, ConfigCommit(r)
         PROVE  TypeInv'
    <2>1. CASE Fail(r)
      BY <1>18, <2>1, FailKeepsType DEF ConfigCommit, At
    <2>2. CASE ~Fail(r)
      <3>1. req[r] \in ConfigRequest
        BY <1>18, RequestShape DEF ConfigCommit, At
      <3>2. setting' \in Setting
        BY <1>18, <2>2, <3>1
           DEF ConfigCommit, Column, ConfigRequest, Setting, TypeOK
      <3>3. log' \subseteq LogEntry
        BY <1>18, <2>2 DEF ConfigCommit, LogEntry, TypeOK
      <3>4. QED
        BY <1>18, <2>2, <3>2, <3>3
           DEF ConfigCommit, At, Send, Goto, Release, TypeOK, PC
    <2>3. QED
      BY <2>1, <2>2
  <1>19. CASE UNCHANGED vars
    BY <1>19 DEF vars, TypeOK
  <1>20. QED
    BY <1>1, <1>2, <1>3, <1>4, <1>5, <1>6, <1>7, <1>8, <1>9, <1>10, <1>12,
       <1>13, <1>14, <1>15, <1>16, <1>17, <1>18, <1>19 DEF Next

(***************************************************************************)
(* Type correctness of the registry.                                       *)
(***************************************************************************)
THEOREM TypeCorrect == Spec => []TypeOK
  <1>1. TypeInv => TypeOK
    BY DEF TypeInv
  <1>2. QED
    BY InitTypeInv, NextTypeInv, <1>1, PTL DEF Spec

-----------------------------------------------------------------------------
(***************************************************************************)
(* The handlers write by the id they read.  That is safe when an id never  *)
(* names another row (MySQL), and when nothing runs between the read and   *)
(* the write (one worker process).  OwnInv is the inductive invariant that *)
(* covers both cases.                                                      *)
(***************************************************************************)

\* Between its first statement and its next await a handler holds its worker.
Scheduled ==
    \A r \in Reqs :
        pc[r] \in {"config", "write", "refresh"} => running[worker[r]] = r

\* AUTO_INCREMENT never returns to an id that is, or was, in use.
FreshIds ==
    ~ReuseIds => /\ \A i \in DOMAIN rows : i < nextId
                 /\ \A r \in Reqs : loaded[r] # None => loaded[r].id < nextId

\* The object of r is one of the device of r, and while r may still write,
\* so is the row under its id.
ObjectOwn ==
    \A r \in Reqs : loaded[r] # None =>
        /\ req[r].kind \in {"heartbeat", "update"}
        /\ loaded[r].row.device = req[r].device
        /\ (pc[r] \in {"write", "refresh"} /\ loaded[r].id \in DOMAIN rows)
              => rows[loaded[r].id].device = req[r].device

\* A handler of a heartbeat or an update that awaits has an object.
AwaitsWithObject ==
    \A r \in Reqs :
        (pc[r] \in {"await", "notify"} /\ req[r].kind \in {"heartbeat", "update"})
            => loaded[r] # None

\* The requests a row refers to were sent.
StampsSent ==
    \A i \in DOMAIN rows :
        /\ pc[rows[i].created_at] # "unsent"
        /\ pc[rows[i].updated_at] # "unsent"
        /\ pc[rows[i].last_check] # "unsent"

OwnInv ==
    Scheduled /\ FreshIds /\ ObjectOwn /\ AwaitsWithObject /\ StampsSent
    /\ StampsOwn

LEMMA InitOwnInv == Init => OwnInv
  BY DEF Init, OwnInv, Scheduled, FreshIds, ObjectOwn, AwaitsWithObject,
         StampsSent, StampsOwn

LEMMA FailKeepsOwn ==
    ASSUME NEW r \in Reqs, TypeInv, OwnInv, Fail(r), pc[r] # "unsent",
           Idle(r) \/ running[worker[r]] = r
    PROVE  OwnInv'
  <1> USE DEF Fail, Send, Goto, Release, store, call
  <1>1. Scheduled'
    BY DEF OwnInv, Scheduled, TypeInv, TypeOK, Shape, Sent, Idle
  <1>2. FreshIds' /\ ObjectOwn' /\ AwaitsWithObject' /\ StampsOwn'
    BY DEF OwnInv, FreshIds, ObjectOwn, AwaitsWithObject, StampsOwn, TypeInv,
           TypeOK
  <1>3. StampsSent'
    BY DEF OwnInv, StampsSent, TypeInv, TypeOK, Row
  <1>4. QED
    BY <1>1, <1>2, <1>3 DEF OwnInv

\* A handler that holds its worker is the only one between two awaits, when
\* there is one worker.
LEMMA Alone ==
    ASSUME TypeInv, Scheduled, \E w : Workers = {w},
           NEW r \in Reqs, NEW s \in Reqs,
           pc[r] \in {"config", "write", "refresh"},
           pc[s] \in {"config", "write", "refresh"}
    PROVE  r = s
  <1>1. worker[r] \in Workers /\ worker[s] \in Workers
    BY DEF TypeInv, Shape, Sent
  <1>2. QED
    BY <1>1 DEF Scheduled

LEMMA InsertKeepsOwn ==
    ASSUME ReuseIds => \E w : Workers = {w},
           TypeInv, OwnInv, NEW r \in Reqs, HeartbeatInsert(r)
    PROVE  OwnInv'
  <1> USE DEF At
  <1>1. running[worker[r]] = r
    BY DEF HeartbeatInsert, OwnInv, Scheduled
  <1>2. CASE Fail(r)
    BY <1>1, <1>2, FailKeepsOwn DEF HeartbeatInsert
  <1>3. CASE ~Fail(r)
    <2>1. PICK i \in NewIds :
            /\ rows' = [j \in DOMAIN rows \cup {i} |->
                          IF j = i THEN NewRow(r) ELSE rows[j]]
            /\ nextId' = IF ReuseIds THEN nextId ELSE i + 1
            /\ loaded' = [loaded EXCEPT ![r] = [id |-> i, row |-> NewRow(r)]]
      BY <1>3 DEF HeartbeatInsert
    <2>2. /\ pc' = [pc EXCEPT ![r] = "refresh"]
          /\ UNCHANGED <<req, worker, running>>
          /\ pc[r] = "write" /\ req[r].kind = "heartbeat"
      BY <1>3 DEF HeartbeatInsert, Goto, call
    <2>3. i \in Nat /\ i \notin DOMAIN rows
      BY NewIdsTyped DEF NewIds, MaxIdPlusOne, TypeInv, TypeOK, OwnInv, FreshIds
    <2>4. ~ReuseIds => i = nextId
      BY DEF NewIds
    <2>5. Scheduled'
      BY <2>2 DEF OwnInv, Scheduled, TypeInv, TypeOK
    <2>6. FreshIds'
      BY <2>1, <2>3, <2>4 DEF OwnInv, FreshIds, TypeInv, TypeOK, Loaded
    <2>7. ObjectOwn'
      <3> SUFFICES ASSUME NEW s \in Reqs, loaded'[s] # None
                   PROVE  /\ req[s].kind \in {"heartbeat", "update"}
                          /\ loaded'[s].row.device = req[s].device
                          /\ (/\ pc'[s] \in {"write", "refresh"}
                              /\ loaded'[s].id \in DOMAIN rows')
                               => rows'[loaded'[s].id].device = req[s].device
        BY <2>2 DEF ObjectOwn
      <3>1. CASE s = r
        BY <2>1, <2>2, <3>1 DEF NewRow, TypeInv, TypeOK
      <3>2. CASE s # r
        <4>1. loaded'[s] = loaded[s] /\ pc'[s] = pc[s]
          BY <2>1, <2>2, <3>2 DEF TypeInv, TypeOK
        <4>2. pc[s] \in {"write", "refresh"} => loaded[s].id # i
          <5>1. CASE ReuseIds
            BY <2>2, <3>2, <5>1, Alone DEF OwnInv
          <5>2. CASE ~ReuseIds
            BY <2>4, <4>1, <5>2 DEF OwnInv, FreshIds, TypeInv, TypeOK, Loaded
          <5>3. QED
            BY <5>1, <5>2, ReuseIdsAssumption
        <4>3. QED
          BY <2>1, <4>1, <4>2 DEF OwnInv, ObjectOwn
      <3>3. QED
        BY <3>1, <3>2
    <2>8. AwaitsWithObject'
      BY <2>1, <2>2 DEF OwnInv, AwaitsWithObject, TypeInv, TypeOK
    <2>9. StampsSent'
      <3>1. /\ \A s \in Reqs : pc[s] # "unsent" => pc'[s] # "unsent"
            /\ pc'[r] # "unsent"
        BY <2>2 DEF TypeInv, TypeOK
      <3>2. rows \in [DOMAIN rows -> Row]
        BY DEF TypeInv, TypeOK
      <3>3. ASSUME NEW j \in DOMAIN rows', j # i
            PROVE  /\ rows'[j] = rows[j] /\ j \in DOMAIN rows
                   /\ {rows[j].created_at, rows[j].updated_at,
                       rows[j].last_check} \subseteq Reqs
        BY <2>1, <3>2, <3>3 DEF Row
      <3>4. rows'[i] = NewRow(r)
        BY <2>1, Zenon
      <3>5. QED
        BY <3>1, <3>3, <3>4 DEF OwnInv, StampsSent, NewRow
    <2>10. StampsOwn'
      BY <2>1, <2>2 DEF OwnInv, StampsOwn, NewRow
    <2>11. QED
      BY <2>5, <2>6, <2>7, <2>8, <2>9, <2>10 DEF OwnInv
  <1>4. QED
    BY <1>2, <1>3

\* A write to an existing row keeps its device and stamps it with r only
\* when the row is of the device of r.
LEMMA WriteKeepsOwn ==
    ASSUME TypeInv, OwnInv, NEW r \in Reqs, NEW new \in Row,
           pc[r] = "write", req[r].kind \in {"heartbeat", "update"},
           loaded[r] # None, loaded[r].id \in DOMAIN rows,
           new.device = rows[loaded[r].id].device,
           new.created_at = rows[loaded[r].id].created_at,
           new.updated_at \in {r, rows[loaded[r].id].updated_at},
           \/ new.last_check = rows[loaded[r].id].last_check
           \/ new.last_check = r /\ req[r].kind = "heartbeat",
           rows' = [rows EXCEPT ![loaded[r].id] = new],
           Goto(r, "refresh"),
           UNCHANGED <<nextId, req, worker, running, loaded>>
    PROVE  OwnInv'
  <1>1. rows[loaded[r].id].device = req[r].device
    BY DEF OwnInv, ObjectOwn
  <1>2. Scheduled' /\ AwaitsWithObject'
    BY DEF OwnInv, Scheduled, AwaitsWithObject, Goto, TypeInv, TypeOK
  <1>3. FreshIds'
    BY DEF OwnInv, FreshIds, TypeInv, TypeOK
  <1>4. ObjectOwn'
    BY DEF OwnInv, ObjectOwn, Goto, TypeInv, TypeOK
  <1>5. StampsSent'
    BY DEF OwnInv, StampsSent, Goto, TypeInv, TypeOK, Row
  <1>6. StampsOwn'
    BY <1>1 DEF OwnInv, StampsOwn, TypeInv, TypeOK
  <1>7. QED
    BY <1>2, <1>3, <1>4, <1>5, <1>6 DEF OwnInv

LEMMA DeleteKeepsOwn ==
    ASSUME TypeInv, OwnInv, NEW r \in Reqs, NEW ds, Delete(r, ds),
           req[r].kind \notin {"heartbeat", "update"}, pc[r] # "unsent",
           Goto(r, "await"),
           UNCHANGED running \/ (running[worker[r]] = r /\ Release(r)),
           UNCHANGED <<nextId, req, worker, loaded>>
    PROVE  OwnInv'
  <1>1. /\ DOMAIN rows' \subseteq DOMAIN rows
        /\ \A i \in DOMAIN rows' : rows'[i] = rows[i]
    BY DEF Delete
  <1>2. Scheduled'
    BY DEF OwnInv, Scheduled, Goto, Release, TypeInv, TypeOK, Shape, Sent
  <1>3. FreshIds' /\ StampsOwn'
    BY <1>1 DEF OwnInv, FreshIds, StampsOwn
  <1>4. ObjectOwn' /\ AwaitsWithObject'
    BY <1>1 DEF OwnInv, ObjectOwn, AwaitsWithObject, Goto, TypeInv, TypeOK
  <1>5. StampsSent'
    BY <1>1 DEF OwnInv, StampsSent, Goto, TypeInv, TypeOK, Row
  <1>6. QED
    BY <1>2, <1>3, <1>4, <1>5 DEF OwnInv

LEMMA NextOwnInv ==
    ASSUME ReuseIds => \E w : Workers = {w}
    PROVE  TypeInv /\ OwnInv /\ [Next]_vars => OwnInv'
  <1> SUFFICES ASSUME TypeInv, OwnInv, [Next]_vars
               PROVE  OwnInv'
    OBVIOUS
  <1> USE DEF store, call
  <1>1. ASSUME NEW r \in Reqs, Arrive(r)
        PROVE  OwnInv'
    <2>1. /\ pc[r] = "unsent" /\ loaded[r] = None
          /\ pc' = [pc EXCEPT ![r] = "queued"]
          /\ \A s \in Reqs \ {r} : req'[s] = req[s] /\ worker'[s] = worker[s]
          /\ UNCHANGED <<rows, nextId, running, loaded>>
      BY <1>1 DEF Arrive, Goto, TypeInv, TypeOK, Shape, HasObject
    <2>2. Scheduled' /\ AwaitsWithObject'
      BY <2>1 DEF OwnInv, Scheduled, AwaitsWithObject, TypeInv, TypeOK
    <2>3. FreshIds'
      BY <2>1 DEF OwnInv, FreshIds
    <2>4. ObjectOwn'
      BY <2>1 DEF OwnInv, ObjectOwn, TypeInv, TypeOK
    <2>5. StampsSent'
      BY <2>1 DEF OwnInv, StampsSent, TypeInv, TypeOK, Row
    <2>6. StampsOwn'
      BY <2>1 DEF OwnInv, StampsSent, StampsOwn, TypeInv, TypeOK, Row
    <2>7. QED
      BY <2>2, <2>3, <2>4, <2>5, <2>6 DEF OwnInv
  <1>2. ASSUME NEW r \in Reqs, RejectMalformed(r)
        PROVE  OwnInv'
    BY <1>2, FailKeepsOwn DEF RejectMalformed, Starts
  <1>3. ASSUME NEW r \in Reqs, NEW i \in IdsOf(req[r].device),
               pc[r] = "queued", Idle(r), Hold(r), Goto(r, "write"),
               req[r].kind \in {"heartbeat", "update"},
               loaded' = [loaded EXCEPT ![r] = [id |-> i, row |-> rows[i]]],
               UNCHANGED <<rows, nextId, req, worker>>
        PROVE  OwnInv'
    <2>1. i \in DOMAIN rows /\ rows[i].device = req[r].device
      BY <1>3 DEF IdsOf
    <2>2. Scheduled'
      BY <1>3, NoneAssumption DEF OwnInv, Scheduled, Idle, Hold, Goto, TypeInv, TypeOK, Shape,
                  Sent
    <2>3. FreshIds'
      BY <1>3, <2>1 DEF OwnInv, FreshIds, TypeInv, TypeOK
    <2>4. ObjectOwn' /\ AwaitsWithObject'
      BY <1>3, <2>1 DEF OwnInv, ObjectOwn, AwaitsWithObject, Goto, TypeInv,
                        TypeOK
    <2>5. StampsSent' /\ StampsOwn'
      BY <1>3 DEF OwnInv, StampsSent, StampsOwn, Goto, TypeInv, TypeOK, Row
    <2>6. QED
      BY <2>2, <2>3, <2>4, <2>5 DEF OwnInv
  <1>4. ASSUME NEW r \in Reqs, HeartbeatSelect(r)
        PROVE  OwnInv'
    <2>1. CASE IdsOf(req[r].device) # {}
      BY <1>3, <1>4, <2>1 DEF HeartbeatSelect, Starts
    <2>2. CASE IdsOf(req[r].device) = {}
      <3>1. Scheduled'
        BY <1>4, <2>2, NoneAssumption
           DEF HeartbeatSelect, Starts, Goto, Hold, Idle, OwnInv,
                          Scheduled, TypeInv, TypeOK, Shape, Sent
      <3>2. FreshIds' /\ ObjectOwn' /\ AwaitsWithObject' /\ StampsOwn'
        BY <1>4, <2>2 DEF HeartbeatSelect, Starts, Goto, OwnInv, FreshIds,
                          ObjectOwn, AwaitsWithObject, StampsOwn, TypeInv, TypeOK
      <3>3. StampsSent'
        BY <1>4, <2>2 DEF HeartbeatSelect, Starts, Goto, OwnInv, StampsSent,
                          TypeInv, TypeOK, Row
      <3>4. QED
        BY <3>1, <3>2, <3>3 DEF OwnInv
    <2>3. QED
      BY <2>1, <2>2
  <1>5. ASSUME NEW r \in Reqs, HeartbeatReadDefault(r)
        PROVE  OwnInv'
    <2> USE <1>5 DEF HeartbeatReadDefault, At, Goto
    <2>1. Scheduled' /\ FreshIds' /\ AwaitsWithObject' /\ StampsOwn'
      BY DEF OwnInv, Scheduled, FreshIds, AwaitsWithObject, StampsOwn, TypeInv,
             TypeOK
    <2>2. ObjectOwn'
      BY DEF OwnInv, ObjectOwn, TypeInv, TypeOK, Shape, HasObject
    <2>3. StampsSent'
      BY DEF OwnInv, StampsSent, TypeInv, TypeOK, Row
    <2>4. QED
      BY <2>1, <2>2, <2>3 DEF OwnInv
  <1>6. ASSUME NEW r \in Reqs, HeartbeatInsert(r)
        PROVE  OwnInv'
    BY <1>6, InsertKeepsOwn
  <1>7. ASSUME NEW r \in Reqs, HeartbeatUpdate(r)
        PROVE  OwnInv'
    <2>1. running[worker[r]] = r /\ pc[r] = "write"
      BY <1>7 DEF HeartbeatUpdate, At, OwnInv, Scheduled
    <2>2. CASE Fail(r)
      BY <2>1, <2>2, FailKeepsOwn
    <2>3. CASE ~Fail(r)
      <3> DEFINE row == rows[loaded[r].id]
                 new == Touched(r, loaded[r].row, row)
      <3>1. req[r] \in HeartbeatRequest /\ loaded[r] \in Loaded
        BY <1>7, RequestShape DEF HeartbeatUpdate, At, TypeInv, TypeOK, Shape,
                                  Sent
      <3>2. row \in Row
        BY <1>7, <2>3 DEF HeartbeatUpdate, TypeInv, TypeOK
      <3>3. /\ new \in Row /\ new.device = row.device
            /\ new.created_at = row.created_at
            /\ new.updated_at \in {r, row.updated_at}
            /\ new.last_check = r
        BY <3>1, <3>2 DEF Touched, Column, Row, HeartbeatRequest
      <3>4. QED
        BY <1>7, <2>1, <2>3, <3>3, WriteKeepsOwn DEF HeartbeatUpdate, At
    <2>4. QED
      BY <2>2, <2>3
  <1>8. ASSUME NEW r \in Reqs, UpdateCommit(r)
        PROVE  OwnInv'
    <2>1. running[worker[r]] = r /\ pc[r] = "write"
      BY <1>8 DEF UpdateCommit, At, OwnInv, Scheduled
    <2>2. CASE Fail(r)
      BY <2>1, <2>2, FailKeepsOwn
    <2>3. CASE ~Fail(r)
      <3> DEFINE row == rows[loaded[r].id]
                 new == Edited(r, loaded[r].row, row)
      <3>1. req[r] \in UpdateRequest /\ loaded[r] \in Loaded /\ loaded[r] # None
        BY <1>8, RequestShape, NoneAssumption
           DEF UpdateCommit, At, TypeInv, TypeOK, Shape, Sent, HasObject
      <3>2. row \in Row
        BY <1>8, <2>3 DEF UpdateCommit, TypeInv, TypeOK
      <3>3. /\ new \in Row /\ new.device = row.device
            /\ new.created_at = row.created_at
            /\ new.updated_at = r
            /\ new.last_check = row.last_check
        BY <3>1, <3>2 DEF Edited, Column, Row, UpdateRequest
      <3>4. QED
        BY <1>8, <2>1, <2>3, <3>1, <3>3, WriteKeepsOwn DEF UpdateCommit, At
    <2>4. QED
      BY <2>2, <2>3
  <1>9. ASSUME NEW r \in Reqs, Refresh(r)
        PROVE  OwnInv'
    <2>1. running[worker[r]] = r /\ loaded[r] # None /\ loaded[r] \in Loaded
      BY <1>9 DEF Refresh, OwnInv, Scheduled, TypeInv, TypeOK, Shape, HasObject
    <2>2. CASE ~(loaded[r].id \in DOMAIN rows)
      BY <1>9, <2>1, <2>2, FailKeepsOwn DEF Refresh
    <2>3. CASE loaded[r].id \in DOMAIN rows
      <3>1. /\ pc[r] = "refresh" /\ Goto(r, "await") /\ Release(r)
            /\ loaded' = [loaded EXCEPT ![r].row = rows[loaded[r].id]]
            /\ UNCHANGED <<rows, nextId, req, worker>>
        BY <1>9, <2>3 DEF Refresh
      <3>2. /\ loaded'[r].id = loaded[r].id
            /\ loaded'[r].row = rows[loaded[r].id]
            /\ loaded'[r] # None
            /\ \A s \in Reqs \ {r} : loaded'[s] = loaded[s]
        BY <2>1, <2>3, <3>1, NoneAssumption DEF TypeInv, TypeOK, Loaded
      <3>3. rows[loaded[r].id].device = req[r].device
        BY <2>1, <2>3, <3>1 DEF OwnInv, ObjectOwn
      <3>4. Scheduled'
        BY <2>1, <3>1 DEF OwnInv, Scheduled, Goto, Release, TypeInv, TypeOK,
                          Shape, Sent
      <3>5. FreshIds' /\ StampsOwn'
        BY <2>1, <3>1, <3>2 DEF OwnInv, FreshIds, StampsOwn
      <3>6. ObjectOwn' /\ AwaitsWithObject'
        BY <2>1, <3>1, <3>2, <3>3 DEF OwnInv, ObjectOwn, AwaitsWithObject, Goto,
                                      TypeInv, TypeOK
      <3>7. StampsSent'
        BY <3>1 DEF OwnInv, StampsSent, Goto, TypeInv, TypeOK, Row
      <3>8. QED
        BY <3>4, <3>5, <3>6, <3>7 DEF OwnInv
    <2>4. QED
      BY <2>2, <2>3
  <1>10. ASSUME NEW r \in Reqs, UpdateSelect(r)
         PROVE  OwnInv'
    <2>1. CASE IdsOf(req[r].device) = {}
      BY <1>10, <2>1, FailKeepsOwn DEF UpdateSelect, Starts
    <2>2. CASE IdsOf(req[r].device) # {}
      BY <1>3, <1>10, <2>2 DEF UpdateSelect, Starts
    <2>3. QED
      BY <2>1, <2>2
  <1>11. ASSUME NEW r \in Reqs, DeleteDevice(r)
         PROVE  OwnInv'
    <2>1. CASE Fail(r)
      BY <1>11, <2>1, FailKeepsOwn DEF DeleteDevice, Starts
    <2>2. CASE ~Fail(r)
      BY <1>11, <2>2, DeleteKeepsOwn DEF DeleteDevice, Starts
    <2>3. QED
      BY <2>1, <2>2
  <1>19. ASSUME NEW r \in Reqs, pc[r] = "queued",
                req[r].kind \in {"delete_many", "config"}, Idle(r), Hold(r),
                Goto(r, "write"),
                UNCHANGED <<rows, nextId, req, worker, loaded>>
         PROVE  OwnInv'
    <2>1. Scheduled'
      BY <1>19, NoneAssumption DEF OwnInv, Scheduled, Idle, Hold, Goto,
                                   TypeInv, TypeOK, Shape, Sent
    <2>2. FreshIds' /\ ObjectOwn' /\ AwaitsWithObject' /\ StampsOwn'
      BY <1>19 DEF OwnInv, FreshIds, ObjectOwn, AwaitsWithObject, StampsOwn,
                   Goto, TypeInv, TypeOK
    <2>3. StampsSent'
      BY <1>19 DEF OwnInv, StampsSent, Goto, TypeInv, TypeOK, Row
    <2>4. QED
      BY <2>1, <2>2, <2>3 DEF OwnInv
  <1>12. ASSUME NEW r \in Reqs, DeleteDevicesSelect(r)
         PROVE  OwnInv'
    <2>1. CASE Existing(req[r].devices) = {}
      BY <1>12, <2>1, FailKeepsOwn DEF DeleteDevicesSelect, Starts
    <2>2. CASE Existing(req[r].devices) # {}
      BY <1>12, <1>19, <2>2 DEF DeleteDevicesSelect, Starts
    <2>3. QED
      BY <2>1, <2>2
  <1>13. ASSUME NEW r \in Reqs, DeleteDevicesCommit(r)
         PROVE  OwnInv'
    <2>1. running[worker[r]] = r /\ pc[r] = "write"
      BY <1>13 DEF DeleteDevicesCommit, At, OwnInv, Scheduled
    <2>2. CASE Fail(r)
      BY <2>1, <2>2, FailKeepsOwn
    <2>3. CASE ~Fail(r)
      BY <1>13, <2>1, <2>3, DeleteKeepsOwn DEF DeleteDevicesCommit, At
    <2>4. QED
      BY <2>2, <2>3
  <1>14. ASSUME NEW r \in Reqs,
                pc[r] \in {"queued", "await", "notify"},
                \E l \in {"notify", "done"} : Goto(r, l),
                pc[r] = "await" \/ Goto(r, "done"),
                UNCHANGED <<rows, nextId, req, worker, running, loaded>>
         PROVE  OwnInv'
    <2>1. Scheduled' /\ FreshIds' /\ ObjectOwn' /\ AwaitsWithObject'
          /\ StampsOwn'
      BY <1>14 DEF OwnInv, Scheduled, FreshIds, ObjectOwn, AwaitsWithObject,
                   StampsOwn, Goto, TypeInv, TypeOK
    <2>2. StampsSent'
      BY <1>14 DEF OwnInv, StampsSent, Goto, TypeInv, TypeOK, Row
    <2>3. QED
      BY <2>1, <2>2 DEF OwnInv
  <1>15. ASSUME NEW r \in Reqs, HeartbeatAnswer(r) \/ WsReply(r) \/ WsNotify(r)
         PROVE  OwnInv'
    BY <1>14, <1>15 DEF HeartbeatAnswer, At, WsReply, WsNotify
  <1>16. ASSUME NEW r \in Reqs, ConfigSelect(r)
         PROVE  OwnInv'
    BY <1>16, <1>19 DEF ConfigSelect, Starts
  <1>20. ASSUME NEW r \in Reqs, ConfigCommit(r)
         PROVE  OwnInv'
    <2>1. running[worker[r]] = r /\ pc[r] = "write"
      BY <1>20 DEF ConfigCommit, At, OwnInv, Scheduled
    <2>2. CASE Fail(r)
      BY <2>1, <2>2, FailKeepsOwn
    <2>3. CASE ~Fail(r)
      <3>1. /\ req[r].kind = "config" /\ Goto(r, "done") /\ Release(r)
            /\ UNCHANGED <<rows, nextId, req, worker, loaded>>
        BY <1>20, <2>3 DEF ConfigCommit, At
      <3>2. Scheduled'
        BY <2>1, <3>1 DEF OwnInv, Scheduled, Goto, Release, TypeInv, TypeOK,
                          Shape, Sent
      <3>3. FreshIds' /\ ObjectOwn' /\ AwaitsWithObject' /\ StampsOwn'
        BY <2>1, <3>1 DEF OwnInv, FreshIds, ObjectOwn, AwaitsWithObject,
                          StampsOwn, Goto, TypeInv, TypeOK
      <3>4. StampsSent'
        BY <3>1 DEF OwnInv, StampsSent, Goto, TypeInv, TypeOK, Row
      <3>5. QED
        BY <3>2, <3>3, <3>4 DEF OwnInv
    <2>4. QED
      BY <2>2, <2>3
  <1>17. CASE UNCHANGED vars
    BY <1>17 DEF vars, OwnInv, Scheduled, FreshIds, ObjectOwn, AwaitsWithObject,
                 StampsSent, StampsOwn
  <1>18. QED
    BY <1>1, <1>2, <1>4, <1>5, <1>6, <1>7, <1>8, <1>9, <1>10, <1>11, <1>12,
       <1>13, <1>15, <1>16, <1>17, <1>20 DEF Next

(***************************************************************************)
(* With one worker process, or with ids that are never reused, every row   *)
(* is written only by requests that name its device.                       *)
(***************************************************************************)
THEOREM OnlyOwnRequestsStamp ==
    ASSUME ReuseIds => \E w : Workers = {w}
    PROVE  Spec => []StampsOwn
  <1>1. OwnInv => StampsOwn
    BY DEF OwnInv
  <1>2. QED
    BY InitTypeInv, NextTypeInv, InitOwnInv, NextOwnInv, <1>1, PTL DEF Spec

(***************************************************************************)
(* Under the same condition every request is answered with the row of the  *)
(* device it named.                                                        *)
(***************************************************************************)
THEOREM AnswersAreOwn ==
    ASSUME ReuseIds => \E w : Workers = {w}
    PROVE  Spec => []AnswerOwn
  <1>1. OwnInv => AnswerOwn
    BY DEF OwnInv, ObjectOwn, AwaitsWithObject, AnswerOwn
  <1>2. QED
    BY InitTypeInv, NextTypeInv, InitOwnInv, NextOwnInv, <1>1, PTL DEF Spec

-----------------------------------------------------------------------------
(***************************************************************************)
(* The operation log, the decisions on devices and what the replies tell.  *)
(* A step of a handler changes the store by an INSERT, by an UPDATE, by a  *)
(* DELETE or by a change of the setting, or not at all (StoreStep); each   *)
(* has a lemma that says what it does, and the proofs go by it.            *)
(***************************************************************************)
Inserts(r) == HeartbeatInsert(r) /\ ~Fail(r)
Touches(r) == HeartbeatUpdate(r) /\ ~Fail(r)
Edits(r) == UpdateCommit(r) /\ ~Fail(r)
Deletes(r) == (DeleteDevice(r) \/ DeleteDevicesCommit(r)) /\ ~Fail(r)
Configures(r) == ConfigCommit(r) /\ ~Fail(r)

\* The steps of the handler of r.
StepOf(r) ==
    \/ Arrive(r) \/ RejectMalformed(r)
    \/ HeartbeatSelect(r) \/ HeartbeatReadDefault(r) \/ HeartbeatInsert(r)
    \/ HeartbeatUpdate(r) \/ Refresh(r) \/ HeartbeatAnswer(r)
    \/ UpdateSelect(r) \/ UpdateCommit(r)
    \/ DeleteDevice(r) \/ DeleteDevicesSelect(r) \/ DeleteDevicesCommit(r)
    \/ WsReply(r) \/ WsNotify(r)
    \/ ConfigSelect(r) \/ ConfigCommit(r)

LEMMA NextStep ==
    ASSUME [Next]_vars
    PROVE  UNCHANGED vars \/ \E r \in Reqs : StepOf(r)
  BY DEF Next, StepOf

LEMMA StoreStepOf ==
    ASSUME NEW r, StepOf(r)
    PROVE  \/ UNCHANGED <<rows, nextId, log, removed>>
           \/ Inserts(r) \/ Touches(r) \/ Edits(r) \/ Deletes(r)
           \/ Configures(r)
  <1> USE DEF store
  <1>1. CASE Fail(r)
    BY <1>1 DEF Fail
  <1>2. CASE \/ Arrive(r) \/ RejectMalformed(r) \/ HeartbeatSelect(r)
             \/ HeartbeatReadDefault(r) \/ Refresh(r) \/ HeartbeatAnswer(r)
             \/ UpdateSelect(r) \/ DeleteDevicesSelect(r)
             \/ WsReply(r) \/ WsNotify(r) \/ ConfigSelect(r)
    BY <1>1, <1>2 DEF Arrive, RejectMalformed, HeartbeatSelect,
       HeartbeatReadDefault, Refresh, HeartbeatAnswer, UpdateSelect,
       DeleteDevicesSelect, WsReply, WsNotify, ConfigSelect
  <1> QED
    BY <1>1, <1>2 DEF StepOf, Inserts, Touches, Edits, Deletes, Configures

LEMMA StoreStep ==
    ASSUME [Next]_vars
    PROVE  \/ UNCHANGED <<rows, nextId, log, removed>>
           \/ \E r \in Reqs : \/ Inserts(r) \/ Touches(r) \/ Edits(r)
                              \/ Deletes(r) \/ Configures(r)
  BY NextStep, StoreStepOf DEF vars

\* What an INSERT does.
LEMMA InsertEffect ==
    ASSUME NEW r \in Reqs, Inserts(r)
    PROVE  /\ pc[r] = "write" /\ req[r].kind = "heartbeat" /\ loaded[r] = None
           /\ IdsOf(req[r].device) = {}
           /\ pc' = [pc EXCEPT ![r] = "refresh"]
           /\ \E i \in NewIds :
                 /\ DOMAIN rows' = DOMAIN rows \cup {i}
                 /\ rows'[i] = NewRow(r)
                 /\ \A j \in DOMAIN rows : j # i => rows'[j] = rows[j]
                 /\ loaded' = [loaded EXCEPT ![r] = [id |-> i, row |-> NewRow(r)]]
                 /\ nextId' = IF ReuseIds THEN nextId ELSE i + 1
           /\ UNCHANGED <<setting, log, removed, req, worker, running, seen,
                          found, replies>>
  BY DEF Inserts, HeartbeatInsert, At, MayInsert, Goto, call

\* What an UPDATE does; r is about a heartbeat or an update.
LEMMA WriteEffect ==
    ASSUME TypeInv, NEW r \in Reqs, Touches(r) \/ Edits(r)
    PROVE  /\ pc[r] = "write" /\ pc' = [pc EXCEPT ![r] = "refresh"]
           /\ loaded[r] # None /\ loaded[r] \in Loaded
           /\ loaded[r].id \in DOMAIN rows /\ DOMAIN rows' = DOMAIN rows
           /\ \A j \in DOMAIN rows : j # loaded[r].id => rows'[j] = rows[j]
           /\ rows'[loaded[r].id].device = rows[loaded[r].id].device
           /\ rows'[loaded[r].id].created_at = rows[loaded[r].id].created_at
           /\ Touches(r) => req[r].kind = "heartbeat" /\ log' = log
                            /\ rows'[loaded[r].id].auth = rows[loaded[r].id].auth
           /\ Edits(r) =>
                 /\ req[r].kind = "update"
                 /\ log' = log \cup {[req |-> r, action |-> "update_device",
                                      device |-> loaded[r].row.device]}
                 /\ rows'[loaded[r].id].auth
                      = Column(req[r].auth, loaded[r].row.auth,
                               rows[loaded[r].id].auth)
           /\ rows'[loaded[r].id].updated_at \in {r, rows[loaded[r].id].updated_at}
           /\ UNCHANGED <<nextId, setting, removed, req, worker, running, loaded,
                          seen, found, replies>>
  <1>1. loaded[r] # None /\ loaded[r] \in Loaded
    BY DEF Touches, Edits, HeartbeatUpdate, UpdateCommit, At, TypeInv, TypeOK,
           Shape, HasObject
  <1>2. CASE Touches(r)
    <2> DEFINE row == rows[loaded[r].id]
               new == Touched(r, loaded[r].row, row)
    <2>1. /\ pc[r] = "write" /\ req[r].kind = "heartbeat"
          /\ loaded[r].id \in DOMAIN rows
          /\ rows' = [rows EXCEPT ![loaded[r].id] = new]
          /\ pc' = [pc EXCEPT ![r] = "refresh"]
          /\ UNCHANGED <<nextId, setting, log, removed, req, worker, running,
                         loaded, seen, found, replies>>
      BY <1>2 DEF Touches, HeartbeatUpdate, At, Goto, call
    <2>2. row \in Row
      BY <2>1 DEF TypeInv, TypeOK
    <2>3. /\ new.device = row.device /\ new.auth = row.auth
          /\ new.created_at = row.created_at
          /\ new.updated_at \in {r, row.updated_at}
      BY <2>2 DEF Touched, Row
    <2>4. rows'[loaded[r].id] = new
      BY <2>1
    <2>5. ~Edits(r)
      BY <2>1 DEF Edits, UpdateCommit, At
    <2> HIDE DEF new
    <2> QED
      BY <1>1, <1>2, <2>1, <2>3, <2>4, <2>5
  <1>3. CASE Edits(r)
    <2> DEFINE row == rows[loaded[r].id]
               new == Edited(r, loaded[r].row, row)
    <2>1. /\ pc[r] = "write" /\ req[r].kind = "update"
          /\ loaded[r].id \in DOMAIN rows
          /\ rows' = [rows EXCEPT ![loaded[r].id] = new]
          /\ log' = log \cup {[req |-> r, action |-> "update_device",
                               device |-> loaded[r].row.device]}
          /\ pc' = [pc EXCEPT ![r] = "refresh"]
          /\ UNCHANGED <<nextId, setting, removed, req, worker, running,
                         loaded, seen, found, replies>>
      BY <1>3 DEF Edits, UpdateCommit, At, Goto, call
    <2>2. row \in Row
      BY <2>1 DEF TypeInv, TypeOK
    <2>3. /\ new.device = row.device
          /\ new.auth = Column(req[r].auth, loaded[r].row.auth, row.auth)
          /\ new.created_at = row.created_at
          /\ new.updated_at \in {r, row.updated_at}
      BY <2>2 DEF Edited, Row
    <2>4. rows'[loaded[r].id] = new
      BY <2>1
    <2>5. ~Touches(r)
      BY <2>1 DEF Touches, HeartbeatUpdate, At
    <2> HIDE DEF new
    <2> QED
      BY <1>1, <1>3, <2>1, <2>3, <2>4, <2>5
  <1> QED
    BY <1>2, <1>3

\* What a DELETE does to the devices that r named or selected.
Condemned(r) == IF req[r].kind = "delete" THEN {req[r].device} ELSE found[r]

LEMMA DeleteEffect ==
    ASSUME NEW r \in Reqs, Deletes(r)
    PROVE  /\ \/ pc[r] = "queued" /\ req[r].kind = "delete" /\ Idle(r)
                 /\ IdsOf(req[r].device) # {} /\ UNCHANGED running
              \/ pc[r] = "write" /\ req[r].kind = "delete_many" /\ Release(r)
           /\ pc' = [pc EXCEPT ![r] = "await"]
           /\ Delete(r, Condemned(r))
           /\ UNCHANGED <<nextId, setting, req, worker, loaded, seen, found,
                          replies>>
  <1>1. CASE DeleteDevice(r)
    BY <1>1 DEF Deletes, DeleteDevice, Starts, Goto, call, Condemned
  <1>2. CASE DeleteDevicesCommit(r)
    BY <1>2 DEF Deletes, DeleteDevicesCommit, At, Goto, call, Condemned
  <1> QED
    BY <1>1, <1>2 DEF Deletes

\* What a change of the setting does.
ConfigEntry(r) == [req |-> r, action |-> "update_config", device |-> None]

LEMMA ConfigureEffect ==
    ASSUME NEW r \in Reqs, Configures(r)
    PROVE  /\ pc[r] = "write" /\ req[r].kind = "config"
           /\ pc' = [pc EXCEPT ![r] = "done"]
           /\ setting' = Column(req[r].value, seen[r], setting)
           /\ log' = log \cup {ConfigEntry(r)}
           /\ replies' = [replies EXCEPT ![r] = @ \cup {"done"}]
           /\ UNCHANGED <<rows, nextId, removed, req, worker, loaded, seen,
                          found>>
  BY DEF Configures, ConfigCommit, ConfigEntry, At, Goto, Send, call

Removals(r, ds) == {<<r, d>> : d \in {e \in ds : IdsOf(e) # {}}}
DeleteEntries(r, ds) ==
    {[req |-> r, action |-> "delete_device", device |-> d] : d \in ds}

LEMMA DeletedRows ==
    ASSUME NEW r, NEW ds, Delete(r, ds)
    PROVE  /\ DOMAIN rows' = {i \in DOMAIN rows : rows[i].device \notin ds}
           /\ \A i \in DOMAIN rows' : rows'[i] = rows[i]
           /\ removed' = removed \cup Removals(r, ds)
           /\ log' = log \cup DeleteEntries(r, ds)
  <1> DEFINE gone == UNION {IdsOf(d) : d \in ds}
  <1>1. \A i : i \in gone <=> i \in DOMAIN rows /\ rows[i].device \in ds
    BY DEF IdsOf
  <1>2. /\ rows' = [i \in DOMAIN rows \ gone |-> rows[i]]
        /\ removed' = removed \cup {<<r, rows[i].device>> : i \in gone}
        /\ log' = log \cup DeleteEntries(r, ds)
    BY DEF Delete, DeleteEntries
  <1>3. {<<r, rows[i].device>> : i \in gone} = Removals(r, ds)
    <2>1. ASSUME NEW i \in gone
          PROVE  rows[i].device \in {e \in ds : IdsOf(e) # {}}
      BY <1>1, <2>1 DEF IdsOf
    <2>2. ASSUME NEW d \in ds, IdsOf(d) # {}
          PROVE  \E i \in gone : rows[i].device = d
      BY <2>2 DEF IdsOf
    <2> HIDE DEF gone
    <2> QED
      BY <2>1, <2>2 DEF Removals
  <1> HIDE DEF gone
  <1> QED
    BY <1>1, <1>2, <1>3

(***************************************************************************)
(* No removal without its entry in the operation log, for any number of    *)
(* workers: the DELETE and the entries are one transaction, and the log    *)
(* only grows.                                                             *)
(***************************************************************************)
LEMMA RemovalsStep ==
    ASSUME TypeInv, RemovalsLogged, [Next]_vars
    PROVE  RemovalsLogged'
  <1>1. CASE UNCHANGED <<rows, nextId, log, removed>>
    BY <1>1 DEF RemovalsLogged, DeletionLog
  <1>2. ASSUME NEW r \in Reqs, Inserts(r) PROVE RemovalsLogged'
    BY <1>2, InsertEffect DEF RemovalsLogged, DeletionLog
  <1>3. ASSUME NEW r \in Reqs, Touches(r) \/ Edits(r) PROVE RemovalsLogged'
    <2>1. log \subseteq log' /\ removed' = removed
      BY <1>3, WriteEffect
    <2> QED
      BY <2>1 DEF RemovalsLogged, DeletionLog
  <1>4. ASSUME NEW r \in Reqs, Deletes(r) PROVE RemovalsLogged'
    <2>1. PICK ds : Delete(r, ds)
      BY <1>4, DeleteEffect
    <2>2. removed' = removed \cup Removals(r, ds) /\ log' = log \cup DeleteEntries(r, ds)
      BY <2>1, DeletedRows
    <2>3. ASSUME NEW d \in ds PROVE <<r, d>> \in DeletionLog'
      <3> DEFINE e == [req |-> r, action |-> "delete_device", device |-> d]
      <3>1. e \in log' /\ e.action = "delete_device" /\ <<e.req, e.device>> = <<r, d>>
        BY <2>2 DEF DeleteEntries
      <3> QED
        BY <3>1, Zenon DEF DeletionLog
    <2>4. DeletionLog \subseteq DeletionLog'
      <3>1. log \subseteq log'
        BY <2>2, Zenon
      <3> QED
        BY <3>1, Zenon DEF DeletionLog
    <2> QED
      BY <2>2, <2>3, <2>4 DEF RemovalsLogged, Removals
  <1>5. ASSUME NEW r \in Reqs, Configures(r) PROVE RemovalsLogged'
    <2>1. log \subseteq log' /\ removed' = removed
      BY <1>5, ConfigureEffect
    <2> QED
      BY <2>1 DEF RemovalsLogged, DeletionLog
  <1> QED
    BY <1>1, <1>2, <1>3, <1>4, <1>5, StoreStep

\* A device leaves the table only with an entry of the log that names it and
\* the request, whatever the databases and the workers: DELETE and entry are
\* one transaction.
THEOREM NoSilentRemoval == Spec => []RemovalsLogged
  <1>1. Init => RemovalsLogged
    BY DEF Init, RemovalsLogged
  <1> QED
    BY <1>1, InitTypeInv, NextTypeInv, RemovalsStep, PTL DEF Spec

-----------------------------------------------------------------------------
(***************************************************************************)
(* Decisions.  A device has one row; only an INSERT gives a device a       *)
(* verdict, only a DELETE takes it, and only an update that names the      *)
(* device changes it.                                                      *)
(***************************************************************************)
UniqueRows ==
    \A i, j \in DOMAIN rows : rows[i].device = rows[j].device => i = j

LEMMA NewIdsFresh ==
    ASSUME TypeInv, FreshIds, NEW i \in NewIds
    PROVE  i \in Nat /\ i \notin DOMAIN rows
  BY NewIdsTyped DEF NewIds, MaxIdPlusOne, TypeInv, TypeOK, FreshIds

LEMMA UniqueStep ==
    ASSUME TypeInv, UniqueRows, [Next]_vars
    PROVE  UniqueRows'
  <1>1. CASE UNCHANGED <<rows, nextId, log, removed>>
    BY <1>1 DEF UniqueRows
  <1>2. ASSUME NEW r \in Reqs, Inserts(r) PROVE UniqueRows'
    <2>1. PICK i \in NewIds :
             /\ DOMAIN rows' = DOMAIN rows \cup {i}
             /\ rows'[i] = NewRow(r)
             /\ \A j \in DOMAIN rows : j # i => rows'[j] = rows[j]
      BY <1>2, InsertEffect
    <2>2. \A j \in DOMAIN rows : rows[j].device # req[r].device
      BY <1>2, InsertEffect DEF IdsOf
    <2>3. rows'[i].device = req[r].device
      BY <2>1 DEF NewRow
    <2> QED
      BY <2>1, <2>2, <2>3 DEF UniqueRows
  <1>3. ASSUME NEW r \in Reqs, Touches(r) \/ Edits(r) PROVE UniqueRows'
    BY <1>3, WriteEffect DEF UniqueRows
  <1>4. ASSUME NEW r \in Reqs, Deletes(r) PROVE UniqueRows'
    <2>1. Delete(r, Condemned(r))
      BY <1>4, DeleteEffect
    <2>2. /\ DOMAIN rows' \subseteq DOMAIN rows
          /\ \A i \in DOMAIN rows' : rows'[i] = rows[i]
      BY <2>1, DeletedRows, Zenon
    <2> QED
      BY <2>2 DEF UniqueRows
  <1>5. ASSUME NEW r \in Reqs, Configures(r) PROVE UniqueRows'
    BY <1>5, ConfigureEffect DEF UniqueRows
  <1> QED
    BY <1>1, <1>2, <1>3, <1>4, <1>5, StoreStep

LEMMA UniqueInit ==
    ASSUME Init
    PROVE  UniqueRows
  BY DEF Init, UniqueRows

\* The decision about one device, in terms of its rows.
LEMMA SameRowsSameDecision ==
    ASSUME NEW d,
           IdsOf(d)' = IdsOf(d),
           \A i \in IdsOf(d) : rows'[i].auth = rows[i].auth
    PROVE  DecisionOf(d)' = DecisionOf(d)
  BY DEF DecisionOf

\* What a step may do to the decision about d.
Decided(d) ==
    \/ DecisionOf(d) = {} \/ DecisionOf(d)' = {}
    \/ \E r \in Reqs :
          /\ pc[r] = "write" /\ pc'[r] = "refresh"
          /\ req[r].kind = "update" /\ req[r].device = d
          /\ \A e \in DecisionOf(d)' : e[2] = req[r].auth

LEMMA DecisionsStep ==
    ASSUME TypeInv, OwnInv, UniqueRows, [Next]_vars,
           NEW d \in Devices, DecisionOf(d)' # DecisionOf(d)
    PROVE  Decided(d)
  <1>1. CASE UNCHANGED <<rows, nextId, log, removed>>
    BY <1>1 DEF DecisionOf, IdsOf
  <1>2. ASSUME NEW r \in Reqs, Inserts(r) PROVE Decided(d)
    <2>1. PICK i \in NewIds :
             /\ DOMAIN rows' = DOMAIN rows \cup {i}
             /\ rows'[i] = NewRow(r)
             /\ \A j \in DOMAIN rows : j # i => rows'[j] = rows[j]
      BY <1>2, InsertEffect
    <2>2. i \notin DOMAIN rows /\ rows'[i].device = req[r].device
      BY <2>1, NewIdsFresh DEF OwnInv, NewRow
    <2>3. CASE d = req[r].device
      <3>1. IdsOf(d) = {}
        BY <1>2, <2>3, InsertEffect
      <3> QED
        BY <3>1 DEF Decided, DecisionOf
    <2>4. CASE d # req[r].device
      <3>1. IdsOf(d)' = IdsOf(d)
        BY <2>1, <2>2, <2>4 DEF IdsOf
      <3>2. \A j \in IdsOf(d) : rows'[j].auth = rows[j].auth
        BY <2>1, <2>2 DEF IdsOf
      <3> QED
        BY <3>1, <3>2, SameRowsSameDecision
    <2> QED
      BY <2>3, <2>4
  <1>3. ASSUME NEW r \in Reqs, Touches(r) \/ Edits(r) PROVE Decided(d)
    <2> DEFINE i == loaded[r].id
    <2>1. /\ i \in DOMAIN rows /\ DOMAIN rows' = DOMAIN rows
          /\ \A j \in DOMAIN rows : j # i => rows'[j] = rows[j]
          /\ rows'[i].device = rows[i].device
          /\ pc[r] = "write" /\ pc' = [pc EXCEPT ![r] = "refresh"]
          /\ loaded[r] # None
      BY <1>3, WriteEffect
    <2>2. IdsOf(d)' = IdsOf(d)
      BY <2>1 DEF IdsOf
    <2>3. i \in IdsOf(d) /\ rows'[i].auth # rows[i].auth
      <3>1. SUFFICES ASSUME ~(i \in IdsOf(d) /\ rows'[i].auth # rows[i].auth)
                     PROVE  \A j \in IdsOf(d) : rows'[j].auth = rows[j].auth
        BY <2>2, SameRowsSameDecision
      <3> QED
        BY <2>1, <3>1 DEF IdsOf
    <2>4. /\ req[r].kind = "update"
          /\ rows'[i].auth = Column(req[r].auth, loaded[r].row.auth, rows[i].auth)
      BY <1>3, <2>3, WriteEffect
    <2>5. rows'[i].auth = req[r].auth
      BY <2>3, <2>4 DEF Column
    <2>6. req[r].device = d
      BY <2>1, <2>3 DEF OwnInv, ObjectOwn, IdsOf
    <2>7. \A j \in IdsOf(d)' : j = i
      BY <2>2, <2>3 DEF UniqueRows, IdsOf
    <2>8. \A e \in DecisionOf(d)' : e[2] = req[r].auth
      <3> HIDE DEF i
      <3> QED
        BY <2>5, <2>7 DEF DecisionOf
    <2>9. pc'[r] = "refresh"
      BY <2>1 DEF TypeInv, TypeOK
    <2> QED
      BY <2>1, <2>4, <2>6, <2>8, <2>9 DEF Decided
  <1>4. ASSUME NEW r \in Reqs, Deletes(r) PROVE Decided(d)
    <2>1. PICK ds : Delete(r, ds)
      BY <1>4, DeleteEffect
    <2>2. /\ DOMAIN rows' = {i \in DOMAIN rows : rows[i].device \notin ds}
          /\ \A i \in DOMAIN rows' : rows'[i] = rows[i]
      BY <2>1, DeletedRows
    <2>3. CASE d \in ds
      <3>1. IdsOf(d)' = {}
        BY <2>2, <2>3 DEF IdsOf
      <3> QED
        BY <3>1 DEF Decided, DecisionOf
    <2>4. CASE d \notin ds
      <3>1. IdsOf(d)' = IdsOf(d) /\ \A i \in IdsOf(d) : rows'[i].auth = rows[i].auth
        BY <2>2, <2>4 DEF IdsOf
      <3> QED
        BY <3>1, SameRowsSameDecision
    <2> QED
      BY <2>3, <2>4
  <1>5. ASSUME NEW r \in Reqs, Configures(r) PROVE Decided(d)
    <2>1. rows' = rows
      BY <1>5, ConfigureEffect
    <2> QED
      BY <2>1 DEF DecisionOf, IdsOf
  <1> QED
    BY <1>1, <1>2, <1>3, <1>4, <1>5, StoreStep

\* With ids that are not reused, or with one worker, the verdict on a device
\* that is registered changes only by an update that names the device and sets
\* the verdict it asks for; a heartbeat or a change of the remark that read
\* the row before such an update never takes it back.
THEOREM OnlyUpdatesDecide ==
    ASSUME ReuseIds => \E w : Workers = {w}
    PROVE  Spec => DecisionsHold
  <1> DEFINE I == TypeInv /\ OwnInv /\ UniqueRows
             A == \A d \in Devices : DecisionOf(d)' # DecisionOf(d) => Decided(d)
  <1>1. Init => I
    BY InitTypeInv, InitOwnInv, UniqueInit
  <1>2. I /\ [Next]_vars => I'
    BY NextTypeInv, NextOwnInv, UniqueStep
  <1>3. I /\ [Next]_vars => [A]_vars
    BY DecisionsStep
  <1>4. Spec => [][A]_vars
    BY <1>1, <1>2, <1>3, PTL DEF Spec
  <1> QED
    BY <1>4 DEF DecisionsHold, Decided

-----------------------------------------------------------------------------
(***************************************************************************)
(* The operation log with one worker process.  What a handler read is      *)
(* still there when it writes, because nothing runs in between: the        *)
(* devices delete_devices selected, the row that is read back.             *)
(***************************************************************************)
StillThere ==
    \A r \in Reqs :
        /\ (pc[r] = "write" /\ req[r].kind = "delete_many")
              => \A d \in found[r] : IdsOf(d) # {}
        /\ pc[r] = "refresh" => loaded[r].id \in DOMAIN rows

\* r left no trace in the store.
NoTrace(r) ==
    /\ \A f \in log : f.req # r
    /\ \A i \in DOMAIN rows : rows[i].updated_at # r

\* The log has entries of r on the devices ds, on all of them and on no other.
LoggedOn(r, ds) ==
    /\ \A f \in log : f.req = r => f.device \in ds
    /\ \A d \in ds : \E f \in log : f.req = r /\ f.device = d

\* A handler leaves no trace before it commits, and then its whole trace; it
\* says "done" only after that.
TraceOf(r) ==
    /\ pc[r] \in {"unsent", "queued", "config", "write"} => NoTrace(r)
    /\ (pc[r] = "failed" /\ req[r].kind # "heartbeat") => NoTrace(r)
    /\ pc[r] \in {"refresh", "await", "notify", "done"} =>
          /\ req[r].kind \in {"update", "delete"} => LoggedOn(r, {req[r].device})
          /\ req[r].kind = "delete_many" => LoggedOn(r, found[r])
          /\ req[r].kind = "config" => LoggedOn(r, {None})
    /\ "done" \in replies[r] => pc[r] \in {"notify", "done"}

TraceInv == \A r \in Reqs : TraceOf(r)

LEMMA LogInit ==
    ASSUME Init
    PROVE  StillThere /\ TraceInv /\ LogExact
  BY DEF Init, StillThere, TraceInv, TraceOf, NoTrace, LogExact, DeletionLog

\* A step that is none of the handler of s, and what it leaves alone.
Untouched(s) ==
    /\ pc'[s] = pc[s] /\ req'[s] = req[s] /\ found'[s] = found[s]
    /\ replies'[s] = replies[s] /\ loaded'[s] = loaded[s]
    /\ worker'[s] = worker[s] /\ seen'[s] = seen[s]

LEMMA OneHandler ==
    ASSUME TypeInv, [Next]_vars
    PROVE  \/ UNCHANGED vars
           \/ \E r \in Reqs : StepOf(r) /\ \A s \in Reqs \ {r} : Untouched(s)
  <1> USE DEF TypeInv, TypeOK, store, call, Goto, Send, Untouched
  <1> SUFFICES ASSUME NEW r \in Reqs, StepOf(r), NEW s \in Reqs \ {r}
               PROVE  Untouched(s)
    BY NextStep
  <1>1. CASE Fail(r)
    BY <1>1 DEF Fail
  <1>2. CASE Arrive(r)
    <2>1. PICK q \in Requests, w \in Workers :
             req' = [req EXCEPT ![r] = q] /\ worker' = [worker EXCEPT ![r] = w]
      BY <1>2, Zenon DEF Arrive
    <2>2. pc' = [pc EXCEPT ![r] = "queued"]
          /\ UNCHANGED <<running, loaded, seen, found, replies>>
      BY <1>2, Zenon DEF Arrive
    <2> QED
      BY <2>1, <2>2
  <1>3. CASE RejectMalformed(r)
    BY <1>1, <1>3 DEF RejectMalformed
  <1>12. CASE HeartbeatSelect(r) \/ HeartbeatReadDefault(r)
    BY <1>12 DEF HeartbeatSelect, HeartbeatReadDefault
  <1>4. CASE HeartbeatInsert(r)
    <2>1. CASE Inserts(r)
      <3>1. PICK i : loaded' = [loaded EXCEPT ![r] = [id |-> i, row |-> NewRow(r)]]
        BY <2>1, InsertEffect
      <3>2. pc' = [pc EXCEPT ![r] = "refresh"]
            /\ UNCHANGED <<req, worker, running, seen, found, replies>>
        BY <2>1, InsertEffect
      <3> QED
        BY <3>1, <3>2
    <2> QED
      BY <1>1, <1>4, <2>1 DEF Inserts
  <1>5. CASE HeartbeatUpdate(r) \/ UpdateCommit(r)
    <2>1. CASE Touches(r) \/ Edits(r)
      BY <2>1, WriteEffect
    <2> QED
      BY <1>1, <1>5, <2>1 DEF Touches, Edits
  <1>6. CASE Refresh(r)
    BY <1>1, <1>6 DEF Refresh
  <1>7. CASE HeartbeatAnswer(r) \/ WsReply(r) \/ WsNotify(r)
    BY <1>7 DEF HeartbeatAnswer, WsReply, WsNotify
  <1>8. CASE UpdateSelect(r)
    BY <1>1, <1>8 DEF UpdateSelect
  <1>9. CASE DeleteDevice(r) \/ DeleteDevicesCommit(r)
    <2>1. CASE Deletes(r)
      BY <2>1, DeleteEffect
    <2> QED
      BY <1>1, <1>9, <2>1 DEF Deletes
  <1>10. CASE DeleteDevicesSelect(r)
    BY <1>1, <1>10 DEF DeleteDevicesSelect
  <1>11. CASE ConfigSelect(r)
    BY <1>11 DEF ConfigSelect
  <1>13. CASE ConfigCommit(r)
    <2>1. CASE Configures(r)
      BY <2>1, ConfigureEffect
    <2> QED
      BY <1>1, <1>13, <2>1 DEF Configures
  <1> QED
    BY <1>2, <1>3, <1>4, <1>5, <1>6, <1>7, <1>8, <1>9, <1>10, <1>11, <1>12,
       <1>13 DEF StepOf

\* What a step of r may write: entries and time stamps of its own.
LEMMA OwnTraces ==
    ASSUME TypeInv, FreshIds, NEW r \in Reqs, StepOf(r)
    PROVE  /\ log \subseteq log' /\ \A f \in log' \ log : f.req = r
           /\ \A i \in DOMAIN rows' :
                 \/ rows'[i].updated_at = r
                 \/ i \in DOMAIN rows /\ rows'[i].updated_at = rows[i].updated_at
  <1>1. CASE UNCHANGED <<rows, nextId, log, removed>>
    BY <1>1
  <1>2. CASE Inserts(r)
    <2>1. PICK i \in NewIds :
             /\ DOMAIN rows' = DOMAIN rows \cup {i}
             /\ rows'[i] = NewRow(r)
             /\ \A j \in DOMAIN rows : j # i => rows'[j] = rows[j]
      BY <1>2, InsertEffect
    <2>2. log' = log
      BY <1>2, InsertEffect
    <2>3. rows'[i].updated_at = r
      BY <2>1 DEF NewRow
    <2> QED
      BY <2>1, <2>2, <2>3
  <1>3. CASE Touches(r) \/ Edits(r)
    <2>1. /\ DOMAIN rows' = DOMAIN rows
          /\ \A j \in DOMAIN rows : j # loaded[r].id => rows'[j] = rows[j]
          /\ rows'[loaded[r].id].updated_at \in {r, rows[loaded[r].id].updated_at}
      BY <1>3, WriteEffect
    <2>2. \/ log' = log
          \/ log' = log \cup {[req |-> r, action |-> "update_device",
                               device |-> loaded[r].row.device]}
      BY <1>3, WriteEffect
    <2> QED
      BY <2>1, <2>2
  <1>4. CASE Deletes(r)
    <2>1. Delete(r, Condemned(r))
      BY <1>4, DeleteEffect
    <2>2. /\ DOMAIN rows' \subseteq DOMAIN rows
          /\ \A i \in DOMAIN rows' : rows'[i] = rows[i]
          /\ log' = log \cup DeleteEntries(r, Condemned(r))
      BY <2>1, DeletedRows, Zenon
    <2> QED
      BY <2>2 DEF DeleteEntries
  <1>5. CASE Configures(r)
    <2>1. log' = log \cup {ConfigEntry(r)} /\ rows' = rows
      BY <1>5, ConfigureEffect
    <2> QED
      BY <2>1 DEF ConfigEntry
  <1> QED
    BY <1>1, <1>2, <1>3, <1>4, <1>5, StoreStepOf

LEMMA OthersKeepTrace ==
    ASSUME TypeInv, TraceInv, NEW r \in Reqs, NEW s \in Reqs \ {r},
           Untouched(s),
           log \subseteq log', \A f \in log' \ log : f.req = r,
           \A i \in DOMAIN rows' :
              \/ rows'[i].updated_at = r
              \/ i \in DOMAIN rows /\ rows'[i].updated_at = rows[i].updated_at
    PROVE  TraceOf(s)'
  <1>1. TraceOf(s)
    BY DEF TraceInv
  <1>2. NoTrace(s) => NoTrace(s)'
    BY DEF NoTrace
  <1>3. ASSUME NEW ds, LoggedOn(s, ds) PROVE LoggedOn(s, ds)'
    BY <1>3 DEF LoggedOn
  <1> QED
    BY <1>1, <1>2, <1>3 DEF TraceOf, Untouched

\* With one worker no other handler is between two awaits while r is, or
\* starts.
LEMMA NobodyElse ==
    ASSUME \E w : Workers = {w}, TypeInv, Scheduled,
           NEW r \in Reqs, NEW s \in Reqs \ {r},
           pc[s] \in {"config", "write", "refresh"}
    PROVE  /\ pc[r] \notin {"config", "write", "refresh"}
           /\ pc[r] # "unsent" => ~Idle(r)
  <1>1. pc[r] \notin {"config", "write", "refresh"}
    BY Alone
  <1>2. ASSUME pc[r] # "unsent" PROVE worker[r] = worker[s] /\ running[worker[s]] = s
    BY <1>2 DEF TypeInv, Shape, Sent, Scheduled
  <1>3. pc[r] # "unsent" => ~Idle(r)
    BY <1>2, NoneAssumption DEF Idle
  <1> QED
    BY <1>1, <1>3

LEMMA OthersKeepThere ==
    ASSUME \E w : Workers = {w}, TypeInv, OwnInv, StillThere,
           NEW r \in Reqs, StepOf(r), NEW s \in Reqs \ {r}, Untouched(s),
           pc[s] \in {"write", "refresh"}
    PROVE  UNCHANGED <<rows, log>>
  <1>1. /\ pc[r] \notin {"config", "write", "refresh"}
        /\ pc[r] # "unsent" => ~Idle(r)
    BY NobodyElse DEF OwnInv
  <1>2. ~Inserts(r) /\ ~Touches(r) /\ ~Edits(r)
    BY <1>1, InsertEffect, WriteEffect
  <1>3. ~Deletes(r) /\ ~Configures(r)
    BY <1>1, DeleteEffect, ConfigureEffect
  <1> QED
    BY <1>2, <1>3, StoreStepOf

LEMMA StillThereStep ==
    ASSUME \E w : Workers = {w}, TypeInv, OwnInv, StillThere, [Next]_vars
    PROVE  StillThere'
  <1> USE DEF store, call, Goto
  <1>1. CASE UNCHANGED vars
    BY <1>1 DEF vars, StillThere, IdsOf
  <1>2. ASSUME NEW r \in Reqs, StepOf(r),
               \A s \in Reqs \ {r} : Untouched(s)
        PROVE  StillThere'
    <2> DEFINE There(s) ==
                 /\ (pc[s] = "write" /\ req[s].kind = "delete_many")
                       => \A d \in found[s] : IdsOf(d) # {}
                 /\ pc[s] = "refresh" => loaded[s].id \in DOMAIN rows
    <2>1. ASSUME NEW s \in Reqs \ {r} PROVE There(s)'
      <3>1. pc[s] \in {"write", "refresh"} => UNCHANGED <<rows, log>>
        BY <1>2, OthersKeepThere
      <3> QED
        BY <1>2, <3>1 DEF StillThere, Untouched, IdsOf
    <2>2. There(r)'
      <3> USE DEF TypeInv, TypeOK
      <3>1. CASE Fail(r) \/ Arrive(r) \/ RejectMalformed(r)
        BY <3>1 DEF Fail, Arrive, RejectMalformed
      <3>2. CASE HeartbeatSelect(r)
        BY <3>2 DEF HeartbeatSelect, Starts
      <3>3. CASE HeartbeatReadDefault(r)
        BY <3>3 DEF HeartbeatReadDefault, At
      <3>4. CASE Inserts(r)
        <4> HIDE DEF TypeInv, TypeOK
        <4>1. PICK i : /\ loaded' = [loaded EXCEPT ![r] = [id |-> i, row |-> NewRow(r)]]
                       /\ i \in DOMAIN rows'
          BY <3>4, InsertEffect
        <4>2. pc'[r] = "refresh" /\ loaded'[r].id = i
          BY <3>4, <4>1, InsertEffect DEF TypeInv, TypeOK
        <4> QED
          BY <4>1, <4>2
      <3>5. CASE Touches(r) \/ Edits(r)
        <4>1. pc'[r] = "refresh" /\ loaded' = loaded /\ loaded[r].id \in DOMAIN rows'
          BY <3>5, WriteEffect
        <4> QED
          BY <4>1
      <3>6. CASE Refresh(r)
        BY <3>1, <3>6 DEF Refresh
      <3>7. CASE HeartbeatAnswer(r) \/ WsReply(r) \/ WsNotify(r)
        BY <3>7 DEF HeartbeatAnswer, WsReply, WsNotify
      <3>8. CASE UpdateSelect(r)
        BY <3>1, <3>8 DEF UpdateSelect, Starts
      <3>9. CASE Deletes(r)
        <4>1. pc'[r] = "await"
          BY <3>9, DeleteEffect
        <4> QED
          BY <4>1
      <3>10. CASE DeleteDevicesSelect(r)
        <4>1. CASE Existing(req[r].devices) # {}
          <5>1. /\ found'[r] = Existing(req[r].devices) /\ pc'[r] = "write"
                /\ rows' = rows
            BY <3>10, <4>1 DEF DeleteDevicesSelect
          <5> QED
            BY <5>1 DEF Existing, IdsOf
        <4> QED
          BY <3>1, <3>10, <4>1 DEF DeleteDevicesSelect
      <3>11. CASE ConfigSelect(r)
        BY <3>11 DEF ConfigSelect, Starts
      <3>12. CASE Configures(r)
        <4>1. pc'[r] = "done"
          BY <3>12, ConfigureEffect
        <4> QED
          BY <4>1
      <3> QED
        BY <1>2, <3>1, <3>2, <3>3, <3>4, <3>5, <3>6, <3>7, <3>8, <3>9, <3>10,
           <3>11, <3>12 DEF StepOf, Inserts, Touches, Edits, Deletes, Configures
    <2>3. \A s \in Reqs : There(s)'
      BY <2>1, <2>2
    <2> QED
      BY <2>3 DEF StillThere
  <1> QED
    BY <1>1, <1>2, OneHandler

LEMMA LogExactStep ==
    ASSUME \E w : Workers = {w}, TypeInv, StillThere, LogExact, [Next]_vars
    PROVE  LogExact'
  <1>1. CASE UNCHANGED <<rows, nextId, log, removed>>
    BY <1>1 DEF LogExact, DeletionLog
  <1>2. ASSUME NEW r \in Reqs, Inserts(r) PROVE LogExact'
    <2>1. log' = log /\ removed' = removed
      BY <1>2, InsertEffect
    <2> QED
      BY <2>1 DEF LogExact, DeletionLog
  <1>3. ASSUME NEW r \in Reqs, Touches(r) \/ Edits(r) PROVE LogExact'
    <2>1. removed' = removed /\ log \subseteq log'
          /\ \A f \in log' \ log : f.action = "update_device"
      BY <1>3, WriteEffect
    <2>2. {f \in log' : f.action = "delete_device"} = {f \in log : f.action = "delete_device"}
      BY <2>1
    <2> QED
      BY <2>1, <2>2 DEF LogExact, DeletionLog
  <1>4. ASSUME NEW r \in Reqs, Deletes(r) PROVE LogExact'
    <2> DEFINE ds == Condemned(r)
    <2>1. Delete(r, ds)
      BY <1>4, DeleteEffect
    <2>2. \A d \in ds : IdsOf(d) # {}
      BY <1>4, DeleteEffect DEF Condemned, StillThere
    <2> HIDE DEF ds
    <2>3. removed' = removed \cup Removals(r, ds) /\ log' = log \cup DeleteEntries(r, ds)
      BY <2>1, DeletedRows
    <2>4. ASSUME NEW f \in log', f.action = "delete_device"
          PROVE  <<f.req, f.device>> \in removed'
      <3>1. CASE f \in log
        <4>1. <<f.req, f.device>> \in DeletionLog
          BY <2>4, <3>1, Zenon DEF DeletionLog
        <4> QED
          BY <2>3, <4>1 DEF LogExact
      <3>2. CASE f \in DeleteEntries(r, ds)
        <4>1. f.req = r /\ f.device \in ds
          BY <3>2 DEF DeleteEntries
        <4> QED
          BY <2>2, <2>3, <4>1 DEF Removals
      <3> QED
        BY <2>3, <3>1, <3>2
    <2>5. DeletionLog' \subseteq removed'
      BY <2>4, Zenon DEF DeletionLog
    <2>6. removed' \subseteq DeletionLog'
      BY RemovalsStep DEF LogExact, RemovalsLogged
    <2> QED
      BY <2>5, <2>6 DEF LogExact
  <1>5. ASSUME NEW r \in Reqs, Configures(r) PROVE LogExact'
    <2>1. removed' = removed /\ log' = log \cup {ConfigEntry(r)}
      BY <1>5, ConfigureEffect
    <2>2. {f \in log' : f.action = "delete_device"} = {f \in log : f.action = "delete_device"}
      BY <2>1 DEF ConfigEntry
    <2> QED
      BY <2>1, <2>2 DEF LogExact, DeletionLog
  <1> QED
    BY <1>1, <1>2, <1>3, <1>4, <1>5, StoreStep

\* With one worker the log tells of exactly the deletions that happened.
THEOREM LogIsExact ==
    ASSUME \E w : Workers = {w}
    PROVE  Spec => []LogExact
  <1> DEFINE I == TypeInv /\ OwnInv /\ StillThere /\ LogExact
  <1>1. Init => I
    BY InitTypeInv, InitOwnInv, LogInit
  <1>2. I /\ [Next]_vars => I'
    BY NextTypeInv, NextOwnInv, StillThereStep, LogExactStep
  <1> QED
    BY <1>1, <1>2, PTL DEF Spec

\* The trace of the handler that makes the step.
LEMMA OwnTraceStep ==
    ASSUME \E w : Workers = {w}, TypeInv, OwnInv, StillThere,
           NEW r \in Reqs, StepOf(r), TraceOf(r)
    PROVE  TraceOf(r)'
  <1> USE DEF store, call, Goto, Send
  <1>1. pc \in [Reqs -> PC] /\ DOMAIN replies = Reqs /\ DOMAIN req = Reqs
        /\ DOMAIN found = Reqs /\ (pc[r] = "refresh" => loaded[r].id \in DOMAIN rows)
    BY DEF TypeInv, TypeOK, StillThere
  <1>2. CASE Fail(r) /\ pc[r] \in {"queued", "config", "write"}
    BY <1>1, <1>2 DEF Fail, TraceOf, NoTrace
  <1>3. CASE Arrive(r)
    <2>1. /\ pc[r] = "unsent" /\ pc'[r] = "queued"
          /\ UNCHANGED <<rows, log, replies>>
      BY <1>1, <1>3 DEF Arrive
    <2> QED
      BY <2>1 DEF TraceOf, NoTrace
  <1>4. CASE RejectMalformed(r)
    BY <1>2, <1>4 DEF RejectMalformed, Starts
  <1>5. CASE \/ HeartbeatSelect(r) \/ HeartbeatReadDefault(r)
             \/ (UpdateSelect(r) \/ DeleteDevicesSelect(r)) /\ ~Fail(r)
             \/ ConfigSelect(r)
    <2>1. /\ pc[r] \in {"queued", "config"} /\ pc'[r] \in {"config", "write"}
          /\ UNCHANGED <<rows, log, replies>>
      BY <1>1, <1>5 DEF HeartbeatSelect, HeartbeatReadDefault, UpdateSelect,
         DeleteDevicesSelect, ConfigSelect, Starts, At
    <2> QED
      BY <2>1 DEF TraceOf, NoTrace
  <1>6. CASE Inserts(r) \/ Touches(r)
    <2>1. /\ pc[r] = "write" /\ pc'[r] = "refresh" /\ req'[r].kind = "heartbeat"
          /\ replies' = replies
      BY <1>1, <1>6, InsertEffect, WriteEffect
    <2> QED
      BY <2>1 DEF TraceOf
  <1>7. CASE Edits(r)
    <2>1. /\ pc[r] = "write" /\ pc'[r] = "refresh" /\ req[r].kind = "update"
          /\ log' = log \cup {[req |-> r, action |-> "update_device",
                               device |-> loaded[r].row.device]}
          /\ loaded[r] # None /\ UNCHANGED <<req, replies>>
      BY <1>1, <1>7, WriteEffect
    <2>2. loaded[r].row.device = req[r].device
      BY <2>1 DEF OwnInv, ObjectOwn
    <2>3. /\ \A f \in log : f.req # r
          /\ [req |-> r, action |-> "update_device", device |-> req[r].device] \in log'
          /\ \A f \in log' : f.req = r => f.device = req[r].device
      BY <2>1, <2>2 DEF TraceOf, NoTrace
    <2>4. LoggedOn(r, {req[r].device})'
      <3> DEFINE f == [req |-> r, action |-> "update_device", device |-> req[r].device]
      <3>1. f \in log' /\ f.req = r /\ f.device = req[r].device
        BY <2>3
      <3> HIDE DEF f
      <3> QED
        BY <2>1, <2>3, <3>1 DEF LoggedOn
    <2> QED
      BY <2>1, <2>4 DEF TraceOf
  <1>8. CASE Deletes(r)
    <2>1. /\ pc[r] \in {"queued", "write"} /\ pc'[r] = "await"
          /\ req[r].kind \in {"delete", "delete_many"}
          /\ Delete(r, Condemned(r)) /\ UNCHANGED <<req, found, replies>>
      BY <1>1, <1>8, DeleteEffect
    <2>2. log' = log \cup DeleteEntries(r, Condemned(r))
      BY <2>1, DeletedRows
    <2>3. LoggedOn(r, Condemned(r))'
      <3> DEFINE ds == Condemned(r)
      <3>1. ds' = ds
        BY <2>1 DEF Condemned
      <3>2. \A f \in log : f.req # r
        BY <2>1 DEF TraceOf, NoTrace
      <3> HIDE DEF ds
      <3>3. ASSUME NEW f \in log', f.req = r PROVE f.device \in ds
        BY <2>2, <3>2, <3>3 DEF DeleteEntries, ds
      <3>4. ASSUME NEW d \in ds PROVE \E f \in log' : f.req = r /\ f.device = d
        <4> DEFINE f == [req |-> r, action |-> "delete_device", device |-> d]
        <4>1. f \in log'
          BY <2>2, Zenon DEF DeleteEntries, ds
        <4>2. f.req = r /\ f.device = d
          OBVIOUS
        <4> HIDE DEF f
        <4> QED
          BY <4>1, <4>2
      <3> QED
        BY <3>1, <3>3, <3>4 DEF LoggedOn, ds
    <2> QED
      BY <2>1, <2>3 DEF TraceOf, Condemned
  <1>9. CASE Refresh(r)
    <2>1. /\ pc[r] = "refresh" /\ pc'[r] = "await"
          /\ UNCHANGED <<rows, log, req, found, replies>>
      BY <1>1, <1>9 DEF Refresh
    <2> QED
      BY <2>1 DEF TraceOf, LoggedOn
  <1>10. CASE HeartbeatAnswer(r)
    BY <1>1, <1>10 DEF HeartbeatAnswer, At, TraceOf
  <1>11. CASE WsReply(r) \/ WsNotify(r)
    <2>1. /\ pc[r] \in {"await", "notify"} /\ pc'[r] \in {"notify", "done"}
          /\ UNCHANGED <<rows, log, req, found>>
      BY <1>1, <1>11 DEF WsReply, WsNotify
    <2> QED
      BY <2>1 DEF TraceOf, LoggedOn
  <1>12. CASE Configures(r)
    <2>1. /\ pc[r] = "write" /\ pc'[r] = "done" /\ req'[r].kind = "config"
          /\ log' = log \cup {ConfigEntry(r)}
      BY <1>1, <1>12, ConfigureEffect
    <2>2. LoggedOn(r, {None})'
      <3>1. \A f \in log : f.req # r
        BY <2>1 DEF TraceOf, NoTrace
      <3>2. PICK f : f = ConfigEntry(r)
        OBVIOUS
      <3>3. f.req = r /\ f.device = None
        BY <3>2 DEF ConfigEntry
      <3> QED
        BY <2>1, <3>1, <3>2, <3>3 DEF LoggedOn
    <2> QED
      BY <2>1, <2>2 DEF TraceOf
  <1>13. ASSUME Fail(r), ~Refresh(r)
         PROVE  pc[r] \in {"queued", "config", "write"}
    <2>1. pc'[r] = "failed"
      BY <1>1, <1>13 DEF Fail
    <2>2. ~Arrive(r) /\ ~HeartbeatAnswer(r) /\ ~WsReply(r) /\ ~WsNotify(r)
      BY <1>1, <2>1 DEF Arrive, HeartbeatAnswer, WsReply, WsNotify
    <2> QED
      BY <1>13, <2>2 DEF StepOf, RejectMalformed, HeartbeatSelect,
         HeartbeatReadDefault, HeartbeatInsert, HeartbeatUpdate, UpdateSelect,
         UpdateCommit, DeleteDevice, DeleteDevicesSelect, DeleteDevicesCommit,
         ConfigSelect, ConfigCommit, Starts, At
  <1> QED
    BY <1>2, <1>3, <1>4, <1>5, <1>6, <1>7, <1>8, <1>9, <1>10, <1>11, <1>12, <1>13
       DEF StepOf, Inserts, Touches, Edits, Deletes, Configures

LEMMA TraceStep ==
    ASSUME \E w : Workers = {w}, TypeInv, OwnInv, StillThere, TraceInv, [Next]_vars
    PROVE  TraceInv'
  <1>1. CASE UNCHANGED vars
    BY <1>1 DEF vars, TraceInv, TraceOf, NoTrace, LoggedOn
  <1>2. ASSUME NEW r \in Reqs, StepOf(r),
               \A s \in Reqs \ {r} : Untouched(s)
        PROVE  TraceInv'
    <2>1. TraceOf(r)'
      BY <1>2, OwnTraceStep DEF TraceInv
    <2>2. ASSUME NEW s \in Reqs \ {r} PROVE TraceOf(s)'
      <3>1. /\ log \subseteq log' /\ \A f \in log' \ log : f.req = r
            /\ \A i \in DOMAIN rows' :
                  \/ rows'[i].updated_at = r
                  \/ i \in DOMAIN rows /\ rows'[i].updated_at = rows[i].updated_at
        BY <1>2, OwnTraces DEF OwnInv
      <3> QED
        BY <1>2, <3>1, OthersKeepTrace
    <2> QED
      BY <2>1, <2>2 DEF TraceInv
  <1> QED
    BY <1>1, <1>2, OneHandler

\* With one worker a reply tells what the request did to the store and to the
\* log.
THEOREM RepliesAreTrue ==
    ASSUME \E w : Workers = {w}
    PROVE  Spec => []RepliesTellEffect
  <1> DEFINE I == TypeInv /\ OwnInv /\ StillThere /\ TraceInv
  <1>1. Init => I
    BY InitTypeInv, InitOwnInv, LogInit
  <1>2. I /\ [Next]_vars => I'
    BY NextTypeInv, NextOwnInv, StillThereStep, TraceStep
  <1>3. TraceInv => RepliesTellEffect
    <2> SUFFICES ASSUME TraceInv, NEW r \in Reqs
                 PROVE  LET logged == {e.device : e \in {f \in log : f.req = r}} IN
                        /\ (pc[r] = "failed" /\ req[r].kind # "heartbeat") =>
                              /\ logged = {}
                              /\ \A i \in DOMAIN rows : rows[i].updated_at # r
                        /\ ("done" \in replies[r] /\ req[r].kind \in {"update", "delete"})
                              => logged = {req[r].device}
                        /\ ("done" \in replies[r] /\ req[r].kind = "delete_many")
                              => logged = found[r]
                        /\ ("done" \in replies[r] /\ req[r].kind = "config")
                              => logged = {None}
      BY DEF RepliesTellEffect
    <2> DEFINE logged == {e.device : e \in {f \in log : f.req = r}}
    <2>1. TraceOf(r)
      BY DEF TraceInv
    <2>2. NoTrace(r) => logged = {}
      BY DEF NoTrace
    <2>3. ASSUME NEW ds, LoggedOn(r, ds) PROVE logged = ds
      BY <2>3 DEF LoggedOn
    <2> HIDE DEF logged
    <2>4. /\ (pc[r] = "failed" /\ req[r].kind # "heartbeat") =>
                /\ logged = {}
                /\ \A i \in DOMAIN rows : rows[i].updated_at # r
          /\ ("done" \in replies[r] /\ req[r].kind \in {"update", "delete"})
                => logged = {req[r].device}
          /\ ("done" \in replies[r] /\ req[r].kind = "delete_many")
                => logged = found[r]
          /\ ("done" \in replies[r] /\ req[r].kind = "config")
                => logged = {None}
      BY <2>1, <2>2, <2>3 DEF TraceOf, NoTrace
    <2> QED
      BY <2>4 DEF logged
  <1> QED
    BY <1>1, <1>2, <1>3, PTL DEF Spec
=============================================================================
