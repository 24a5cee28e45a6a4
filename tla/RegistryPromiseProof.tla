------------------------ MODULE RegistryPromiseProof ------------------------
(***************************************************************************)
(* With one worker process Registry implements LicenseRegistry: every step *)
(* of a handler is one of its atomic operations, or changes nothing that   *)
(* it speaks of.  An INSERT registers the device, the read after the write *)
(* judges a heartbeat by its verdict, an UPDATE sets the verdict, a DELETE *)
(* removes devices.  What makes them atomic is that a handler decides by   *)
(* what is still in the store when it writes (FreshReads).                 *)
(***************************************************************************)
EXTENDS RegistryProof

\* What a handler that is about to write has read is what the store holds.
Fresh(r) ==
    /\ loaded[r] # None => /\ loaded[r].id \in DOMAIN rows
                           /\ loaded[r].row = rows[loaded[r].id]
    /\ (req[r].kind = "heartbeat" /\ loaded[r] = None)
          => seen[r] = setting
    /\ (req[r].kind = "config" /\ req[r].value # None) => seen[r] = setting
    /\ req[r].kind = "delete_many"
          => found[r] = Existing(req[r].devices) /\ found[r] # {}

FreshReads == \A r \in Reqs : pc[r] = "write" => Fresh(r)

\* A request is unknown before it arrives.
Unsent == \A r \in Reqs : pc[r] = "unsent" => req[r] = None

LEMMA FreshInit ==
    ASSUME Init
    PROVE  FreshReads /\ Unsent
  BY DEF Init, FreshReads, Unsent

LEMMA UnsentStep ==
    ASSUME TypeInv, Unsent, [Next]_vars
    PROVE  Unsent'
  <1>1. CASE UNCHANGED vars
    BY <1>1 DEF vars, Unsent
  <1>2. ASSUME NEW r \in Reqs, StepOf(r), \A s \in Reqs \ {r} : Untouched(s)
        PROVE  Unsent'
    <2>1. pc'[r] # "unsent"
      <3> USE DEF TypeInv, TypeOK, Goto
      <3>1. CASE Fail(r)
        BY <3>1 DEF Fail
      <3>2. CASE Inserts(r) \/ Touches(r) \/ Edits(r) \/ Deletes(r) \/ Configures(r)
        <4>1. \/ pc' = [pc EXCEPT ![r] = "refresh"]
              \/ pc' = [pc EXCEPT ![r] = "await"]
              \/ pc' = [pc EXCEPT ![r] = "done"]
          BY <3>2, InsertEffect, WriteEffect, DeleteEffect, ConfigureEffect
        <4> QED
          BY <4>1
      <3>3. CASE Arrive(r) \/ RejectMalformed(r) \/ HeartbeatSelect(r)
                 \/ HeartbeatReadDefault(r) \/ Refresh(r) \/ HeartbeatAnswer(r)
        BY <3>1, <3>3 DEF Arrive, RejectMalformed, HeartbeatSelect,
           HeartbeatReadDefault, Refresh, HeartbeatAnswer
      <3>4. CASE UpdateSelect(r) \/ DeleteDevicesSelect(r) \/ WsReply(r)
                 \/ WsNotify(r) \/ ConfigSelect(r)
        BY <3>1, <3>4 DEF UpdateSelect, DeleteDevicesSelect, WsReply, WsNotify,
           ConfigSelect
      <3> QED
        BY <1>2, <3>1, <3>2, <3>3, <3>4
           DEF StepOf, Inserts, Touches, Edits, Deletes, Configures
    <2> QED
      BY <1>2, <2>1 DEF Unsent, Untouched
  <1> QED
    BY <1>1, <1>2, OneHandler

\* Nobody changes what a handler has read before it writes.
LEMMA OthersKeepFresh ==
    ASSUME \E w : Workers = {w}, TypeInv, OwnInv, StillThere, FreshReads,
           NEW r \in Reqs, StepOf(r), NEW s \in Reqs \ {r}, Untouched(s),
           pc'[s] = "write"
    PROVE  Fresh(s)'
  <1>1. pc[s] = "write" /\ Fresh(s)
    BY DEF Untouched, FreshReads
  <1>2. rows' = rows
    BY <1>1, OthersKeepThere
  <1>3. setting' = setting
    <2>1. pc[r] \notin {"config", "write", "refresh"}
          /\ (pc[r] # "unsent" => ~Idle(r))
      BY <1>1, NobodyElse DEF OwnInv
    <2>2. CASE Fail(r)
      BY <2>2 DEF Fail, store
    <2>3. CASE ~Fail(r)
      <3>1. ~Inserts(r) /\ ~Touches(r) /\ ~Edits(r) /\ ~Deletes(r)
            /\ ~Configures(r)
        BY <2>1, InsertEffect, WriteEffect, DeleteEffect, ConfigureEffect
      <3> QED
        BY <2>3, <3>1 DEF StepOf, Inserts, Touches, Edits, Deletes, Configures,
           store,
           Arrive, RejectMalformed, HeartbeatSelect, HeartbeatReadDefault,
           Refresh, HeartbeatAnswer, UpdateSelect, DeleteDevicesSelect,
           WsReply, WsNotify, ConfigSelect
    <2> QED
      BY <2>2, <2>3
  <1>4. \A d : IdsOf(d)' = IdsOf(d)
    BY <1>2 DEF IdsOf
  <1> QED
    BY <1>1, <1>2, <1>3, <1>4 DEF Fresh, Untouched, Existing

\* A handler that reads and runs on has what it read.
LEMMA OwnStepFresh ==
    ASSUME TypeInv, NEW r \in Reqs, StepOf(r), pc'[r] = "write"
    PROVE  Fresh(r)'
  <1> USE DEF TypeInv, TypeOK, Goto, store, call
  <1>1. ~Fail(r)
    BY DEF Fail
  <1>2. ~Inserts(r) /\ ~Touches(r) /\ ~Edits(r) /\ ~Deletes(r) /\ ~Configures(r)
    <2>1. Inserts(r) \/ Touches(r) \/ Edits(r) \/ Deletes(r) \/ Configures(r)
            => \/ pc' = [pc EXCEPT ![r] = "refresh"]
               \/ pc' = [pc EXCEPT ![r] = "await"]
               \/ pc' = [pc EXCEPT ![r] = "done"]
      BY InsertEffect, WriteEffect, DeleteEffect, ConfigureEffect
    <2> QED
      BY <2>1
  <1>3. CASE HeartbeatSelect(r) \/ UpdateSelect(r)
    <2>1. PICK i \in IdsOf(req[r].device) :
             loaded' = [loaded EXCEPT ![r] = [id |-> i, row |-> rows[i]]]
      BY <1>1, <1>3 DEF HeartbeatSelect, UpdateSelect, Starts
    <2>2. req[r].kind \in {"heartbeat", "update"} /\ rows' = rows /\ req' = req
      BY <1>1, <1>3 DEF HeartbeatSelect, UpdateSelect, Starts
    <2>3. i \in DOMAIN rows /\ i \in Nat /\ rows[i] \in Row
      BY DEF IdsOf
    <2>4. loaded'[r] = [id |-> i, row |-> rows[i]] /\ loaded'[r] # None
      BY <2>1, <2>3, NoneAssumption DEF Loaded
    <2> QED
      BY <2>2, <2>3, <2>4 DEF Fresh
  <1>4. CASE HeartbeatReadDefault(r)
    <2>1. /\ req[r].kind = "heartbeat" /\ pc[r] = "config" /\ loaded[r] = None
          /\ seen'[r] = setting
          /\ UNCHANGED <<setting, req, loaded>>
      BY <1>4 DEF HeartbeatReadDefault, At, Shape, HasObject
    <2> QED
      BY <2>1 DEF Fresh
  <1>5. CASE DeleteDevicesSelect(r)
    <2>1. /\ req[r].kind = "delete_many" /\ pc[r] = "queued" /\ loaded[r] = None
          /\ found'[r] = Existing(req[r].devices) /\ found'[r] # {}
          /\ UNCHANGED <<rows, req, loaded>>
      BY <1>1, <1>5 DEF DeleteDevicesSelect, Starts, Shape, HasObject
    <2>2. \A d : IdsOf(d)' = IdsOf(d)
      BY <2>1 DEF IdsOf
    <2>3. Existing(req[r].devices)' = Existing(req[r].devices)
      BY <2>1, <2>2 DEF Existing
    <2> QED
      BY <2>1, <2>3 DEF Fresh
  <1>6. CASE ConfigSelect(r)
    <2>1. /\ req[r].kind = "config" /\ pc[r] = "queued" /\ loaded[r] = None
          /\ req[r].value # None => seen'[r] = setting
          /\ UNCHANGED <<setting, req, loaded>>
      BY <1>6 DEF ConfigSelect, Starts, Shape, HasObject
    <2> QED
      BY <2>1 DEF Fresh
  <1>7. ~(\/ Arrive(r) \/ RejectMalformed(r) \/ Refresh(r) \/ HeartbeatAnswer(r)
          \/ WsReply(r) \/ WsNotify(r))
    BY <1>1 DEF Arrive, RejectMalformed, Refresh, HeartbeatAnswer, WsReply,
       WsNotify
  <1> QED
    BY <1>1, <1>2, <1>3, <1>4, <1>5, <1>6, <1>7
       DEF StepOf, Inserts, Touches, Edits, Deletes, Configures

LEMMA FreshStep ==
    ASSUME \E w : Workers = {w}, TypeInv, OwnInv, StillThere, FreshReads,
           [Next]_vars
    PROVE  FreshReads'
  <1>1. CASE UNCHANGED vars
    BY <1>1 DEF vars, FreshReads, Fresh, Existing, IdsOf
  <1>2. ASSUME NEW r \in Reqs, StepOf(r), \A s \in Reqs \ {r} : Untouched(s)
        PROVE  FreshReads'
    BY <1>2, OthersKeepFresh, OwnStepFresh DEF FreshReads
  <1> QED
    BY <1>1, <1>2, OneHandler

-----------------------------------------------------------------------------
(***************************************************************************)
(* The abstract state.                                                     *)
(***************************************************************************)
LEMMA AuthNone ==
    ASSUME NEW d \in Devices
    PROVE  /\ IdsOf(d) = {} => AuthOf[d] = None
           /\ IdsOf(d)' = {} => AuthOf'[d] = None
  BY DEF AuthOf

LEMMA AuthAt ==
    ASSUME UniqueRows, NEW d \in Devices, NEW i \in IdsOf(d)
    PROVE  AuthOf[d] = rows[i].auth
  <1>1. \A j \in IdsOf(d) : j = i
    BY DEF IdsOf, UniqueRows
  <1>2. (CHOOSE j \in IdsOf(d) : TRUE) = i
    BY <1>1
  <1> QED
    BY <1>2 DEF AuthOf

LEMMA AuthAtNext ==
    ASSUME UniqueRows', NEW d \in Devices, NEW i \in IdsOf(d)'
    PROVE  AuthOf'[d] = rows'[i].auth
  <1>1. \A j \in IdsOf(d)' : j = i
    BY DEF IdsOf, UniqueRows
  <1>2. (CHOOSE j \in IdsOf(d)' : TRUE) = i
    BY <1>1
  <1> QED
    BY <1>2 DEF AuthOf

LEMMA AuthTyped ==
    ASSUME TypeInv, UniqueRows, NEW d \in Devices
    PROVE  /\ AuthOf[d] = None <=> IdsOf(d) = {}
           /\ AuthOf[d] # None => AuthOf[d] \in Verdict
  <1>1. ASSUME NEW i \in IdsOf(d)
        PROVE  AuthOf[d] \in Verdict
    <2>1. i \in DOMAIN rows /\ rows[i].device = d /\ rows[i].auth \in Verdict
      BY DEF IdsOf, TypeInv, TypeOK, Row
    <2> QED
      BY <2>1, AuthAt
  <1>2. None \notin Verdict
    BY NoneAssumption
  <1> QED
    BY <1>1, <1>2, AuthNone

LEMMA AuthSame ==
    ASSUME TypeInv, UniqueRows, UniqueRows', NEW d \in Devices,
           IdsOf(d)' = IdsOf(d),
           \A i \in IdsOf(d) : rows'[i].auth = rows[i].auth
    PROVE  AuthOf'[d] = AuthOf[d]
  <1>1. CASE IdsOf(d) = {}
    BY <1>1, AuthNone
  <1>2. ASSUME NEW i \in IdsOf(d)
        PROVE  AuthOf'[d] = AuthOf[d]
    <2>1. i \in IdsOf(d)'
      OBVIOUS
    <2> QED
      BY <2>1, AuthAt, AuthAtNext
  <1> QED
    BY <1>1, <1>2

LEMMA AuthElse ==
    ASSUME NEW d \in Devices, NEW v, AuthOf'[d] = v,
           \A e \in Devices \ {d} : AuthOf'[e] = AuthOf[e]
    PROVE  AuthOf' = [AuthOf EXCEPT ![d] = v]
  <1>1. DOMAIN AuthOf' = Devices /\ DOMAIN AuthOf = Devices
    BY DEF AuthOf
  <1>2. AuthOf' = [e \in Devices |-> AuthOf'[e]]
    BY DEF AuthOf
  <1> QED
    BY <1>1, <1>2

LEMMA AuthKept ==
    ASSUME rows' = rows
    PROVE  AuthOf' = AuthOf
  BY DEF AuthOf, IdsOf

\* What request r came to.
Came(r) ==
    IF ~TookEffect(r) THEN None
    ELSE IF req[r].kind = "heartbeat" THEN loaded[r].row.auth
    ELSE "done"

LEMMA OutcomeIs ==
    /\ OutcomeOf = [r \in Reqs |-> Came(r)]
    /\ OutcomeOf' = [r \in Reqs |-> Came(r)']
  BY DEF OutcomeOf, Came

LEMMA OutcomeStep ==
    ASSUME NEW r \in Reqs, \A s \in Reqs \ {r} : Untouched(s)
    PROVE  OutcomeOf' = [OutcomeOf EXCEPT ![r] = Came(r)']
  <1>1. \A s \in Reqs \ {r} : Came(s)' = Came(s)
    BY DEF Came, TookEffect, Untouched
  <1> QED
    BY <1>1, OutcomeIs

LEMMA OutcomeKept ==
    ASSUME NEW r \in Reqs, \A s \in Reqs \ {r} : Untouched(s),
           Came(r)' = Came(r)
    PROVE  OutcomeOf' = OutcomeOf
  <1>1. OutcomeOf' = [OutcomeOf EXCEPT ![r] = Came(r)]
    BY OutcomeStep
  <1> QED
    BY <1>1, OutcomeIs

-----------------------------------------------------------------------------
(***************************************************************************)
(* The steps.  In each lemma the other handlers do nothing (OneHandler).   *)
(***************************************************************************)
Kept == UNCHANGED <<req, AuthOf, setting, OutcomeOf, replies>>

\* Any reply but a wrong one.
LEMMA ReplyStep ==
    ASSUME NEW r \in Reqs, \A s \in Reqs \ {r} : Untouched(s),
           req[r] # None, Came(r)' = Came(r),
           NEW a \in {Came(r), "error"}, a # None,
           replies' = [replies EXCEPT ![r] = @ \cup {a}],
           rows' = rows, req' = req, setting' = setting
    PROVE  Promise!Reply(r)
  <1>1. OutcomeOf' = OutcomeOf /\ AuthOf' = AuthOf
    BY OutcomeKept, AuthKept
  <1>2. OutcomeOf[r] = Came(r)
    BY OutcomeIs
  <1>3. a \in {OutcomeOf[r], "error"} \ {None}
    BY <1>2
  <1> QED
    BY <1>1, <1>3 DEF Promise!Reply

LEMMA FailStep ==
    ASSUME TypeInv, NEW r \in Reqs, \A s \in Reqs \ {r} : Untouched(s),
           Fail(r), pc[r] \in {"queued", "config", "write"}
    PROVE  Promise!Reply(r)
  <1>1. /\ replies' = [replies EXCEPT ![r] = @ \cup {"error"}]
        /\ pc'[r] = "failed"
        /\ rows' = rows /\ req' = req /\ setting' = setting
    BY DEF Fail, Send, Goto, store, call, TypeInv, TypeOK
  <1>2. Came(r) = None /\ Came(r)' = None
    BY <1>1 DEF Came, TookEffect
  <1>3. req[r] # None /\ "error" # None
    BY RequestShape, NoneAssumption DEF TypeInv, Shape, Sent
  <1> QED
    BY <1>1, <1>2, <1>3, ReplyStep

\* The steps that only read, and the UPDATE of a heartbeat.
LEMMA SilentStep ==
    ASSUME NEW r \in Reqs, \A s \in Reqs \ {r} : Untouched(s),
           Came(r)' = Came(r), rows' = rows,
           UNCHANGED <<req, setting, replies>>
    PROVE  Kept
  BY OutcomeKept, AuthKept DEF Kept

LEMMA ArriveStep ==
    ASSUME TypeInv, Unsent, NEW r \in Reqs,
           \A s \in Reqs \ {r} : Untouched(s), Arrive(r)
    PROVE  Promise!Ask(r)
  <1>1. /\ pc[r] = "unsent" /\ pc'[r] = "queued"
        /\ UNCHANGED <<rows, setting, replies>>
    BY DEF Arrive, Goto, store, TypeInv, TypeOK
  <1>2. \E q \in Requests : req' = [req EXCEPT ![r] = q]
    BY Zenon DEF Arrive
  <1>3. Came(r) = None /\ Came(r)' = None
    BY <1>1 DEF Came, TookEffect
  <1>4. OutcomeOf' = OutcomeOf /\ AuthOf' = AuthOf
    BY <1>1, <1>3, OutcomeKept, AuthKept
  <1>5. req[r] = None
    BY <1>1 DEF Unsent
  <1> QED
    BY <1>1, <1>2, <1>4, <1>5 DEF Promise!Ask

\* What is open in the abstract registry.
LEMMA OpenBefore ==
    ASSUME TypeInv, NEW r \in Reqs, ~TookEffect(r), pc[r] # "unsent"
    PROVE  Promise!Open(r, req[r].kind)
  <1>1. OutcomeOf[r] = None
    BY OutcomeIs DEF Came
  <1>2. req[r] # None
    BY RequestShape DEF TypeInv, Shape, Sent
  <1> QED
    BY <1>1, <1>2 DEF Promise!Open

LEMMA InsertRegisters ==
    ASSUME TypeInv, OwnInv, UniqueRows, UniqueRows', FreshReads,
           NEW r \in Reqs, \A s \in Reqs \ {r} : Untouched(s), Inserts(r)
    PROVE  Promise!Register(r)
  <1> DEFINE v == IF setting = "off" THEN "denied" ELSE "authorized"
  <1>1. /\ pc[r] = "write" /\ req[r].kind = "heartbeat" /\ loaded[r] = None
        /\ IdsOf(req[r].device) = {} /\ pc' = [pc EXCEPT ![r] = "refresh"]
        /\ UNCHANGED <<setting, req, replies>>
    BY InsertEffect
  <1>2. req[r] \in HeartbeatRequest
    BY <1>1, RequestShape DEF TypeInv, Shape, Sent
  <1>3. PICK d \in Devices : d = req[r].device
    BY <1>2 DEF HeartbeatRequest
  <1>4. /\ pc[r] = "write" /\ req[r].kind = "heartbeat" /\ loaded[r] = None
        /\ IdsOf(d) = {} /\ pc'[r] = "refresh"
        /\ UNCHANGED <<setting, req, replies>>
    BY <1>1, <1>3 DEF TypeInv, TypeOK
  <1>5. PICK i \in NewIds :
           /\ DOMAIN rows' = DOMAIN rows \cup {i}
           /\ rows'[i] = NewRow(r)
           /\ \A j \in DOMAIN rows : j # i => rows'[j] = rows[j]
    BY InsertEffect
  <1>6. DefaultVerdict(seen[r]) = v
    BY <1>4 DEF FreshReads, Fresh, DefaultVerdict
  <1>7. i \notin DOMAIN rows
    BY NewIdsFresh DEF OwnInv
  <1>8. rows'[i].device = d /\ rows'[i].auth = v
    BY <1>3, <1>5, <1>6 DEF NewRow
  <1>9. AuthOf[d] = None
    BY <1>4, AuthNone
  <1>10. AuthOf'[d] = v
    <2>1. i \in IdsOf(d)'
      BY <1>4, <1>5, <1>8 DEF IdsOf
    <2> QED
      BY <1>8, <2>1, AuthAtNext
  <1>11. ASSUME NEW e \in Devices \ {d} PROVE AuthOf'[e] = AuthOf[e]
    <2>1. IdsOf(e)' = IdsOf(e)
      BY <1>5, <1>7, <1>8 DEF IdsOf
    <2>2. \A j \in IdsOf(e) : rows'[j].auth = rows[j].auth
      BY <1>5, <1>7 DEF IdsOf
    <2> QED
      BY <2>1, <2>2, AuthSame
  <1>12. AuthOf' = [AuthOf EXCEPT ![d] = v]
    BY <1>10, <1>11, AuthElse
  <1>13. OutcomeOf' = OutcomeOf
    <2>1. Came(r) = None /\ Came(r)' = None
      BY <1>4 DEF Came, TookEffect
    <2> QED
      BY <2>1, OutcomeKept
  <1>14. Promise!Open(r, "heartbeat")
    BY <1>4, OpenBefore DEF TookEffect
  <1> QED
    BY <1>3, <1>4, <1>9, <1>12, <1>13, <1>14 DEF Promise!Register

\* The heartbeat is judged when its row is read back.
LEMMA TouchIsSilent ==
    ASSUME TypeInv, UniqueRows, UniqueRows',
           NEW r \in Reqs, \A s \in Reqs \ {r} : Untouched(s), Touches(r)
    PROVE  Kept
  <1>1. /\ pc[r] = "write" /\ req[r].kind = "heartbeat"
        /\ pc' = [pc EXCEPT ![r] = "refresh"]
        /\ UNCHANGED <<setting, req, replies>>
    BY WriteEffect
  <1>2. /\ DOMAIN rows' = DOMAIN rows
        /\ \A j \in DOMAIN rows : /\ rows'[j].device = rows[j].device
                                  /\ rows'[j].auth = rows[j].auth
    <2>1. /\ DOMAIN rows' = DOMAIN rows
          /\ \A j \in DOMAIN rows : j # loaded[r].id => rows'[j] = rows[j]
          /\ rows'[loaded[r].id].device = rows[loaded[r].id].device
          /\ rows'[loaded[r].id].auth = rows[loaded[r].id].auth
      BY WriteEffect
    <2> QED
      BY <2>1
  <1>3. ASSUME NEW d \in Devices PROVE AuthOf'[d] = AuthOf[d]
    <2>1. IdsOf(d)' = IdsOf(d)
      BY <1>2 DEF IdsOf
    <2>2. \A i \in IdsOf(d) : rows'[i].auth = rows[i].auth
      BY <1>2 DEF IdsOf
    <2> QED
      BY <2>1, <2>2, AuthSame
  <1>4. AuthOf' = AuthOf
    <2>1. AuthOf' = [d \in Devices |-> AuthOf'[d]]
          /\ AuthOf = [d \in Devices |-> AuthOf[d]]
      BY DEF AuthOf
    <2> QED
      BY <1>3, <2>1
  <1>5. pc'[r] = "refresh"
    BY <1>1 DEF TypeInv, TypeOK
  <1>6. Came(r) = None /\ Came(r)' = None
    BY <1>1, <1>5 DEF Came, TookEffect
  <1> QED
    BY <1>1, <1>4, <1>6, OutcomeKept DEF Kept

LEMMA RefreshStep ==
    ASSUME TypeInv, OwnInv, UniqueRows, StillThere,
           NEW r \in Reqs, \A s \in Reqs \ {r} : Untouched(s), Refresh(r)
    PROVE  Promise!Judge(r) \/ Kept
  <1>1. /\ pc[r] = "refresh" /\ loaded[r] # None
        /\ loaded[r].id \in DOMAIN rows
    BY DEF Refresh, StillThere, TypeInv, Shape, HasObject
  <1>2. /\ loaded' = [loaded EXCEPT ![r].row = rows[loaded[r].id]]
        /\ pc' = [pc EXCEPT ![r] = "await"]
        /\ UNCHANGED <<rows, setting, req, replies>>
    BY <1>1 DEF Refresh, Goto, store, call
  <1>3. pc'[r] = "await" /\ loaded'[r].row = rows[loaded[r].id]
    <2>1. loaded[r] \in Loaded
      BY <1>1 DEF TypeInv, TypeOK
    <2> QED
      BY <1>2, <2>1 DEF TypeInv, TypeOK, Loaded
  <1>4. /\ rows[loaded[r].id].device = req[r].device
        /\ req[r].kind \in {"heartbeat", "update"}
    BY <1>1 DEF OwnInv, ObjectOwn
  <1>5. CASE req[r].kind = "heartbeat"
    <2>1. req[r] \in HeartbeatRequest
      BY <1>1, <1>5, RequestShape DEF TypeInv, Shape, Sent
    <2>2. PICK d \in Devices : d = req[r].device
      BY <2>1 DEF HeartbeatRequest
    <2>3. loaded[r].id \in IdsOf(d)
      BY <1>1, <1>4, <2>2 DEF IdsOf
    <2>4. AuthOf[d] = rows[loaded[r].id].auth
      BY <2>3, AuthAt
    <2>5. AuthOf[d] # None
      BY <2>3, AuthTyped
    <2>6. Came(r)' = AuthOf[d]
      BY <1>2, <1>3, <1>5, <2>4 DEF Came, TookEffect
    <2>7. OutcomeOf' = [OutcomeOf EXCEPT ![r] = AuthOf[d]]
      BY <2>6, OutcomeStep
    <2>8. Promise!Open(r, "heartbeat")
      BY <1>1, <1>5, OpenBefore DEF TookEffect
    <2>9. AuthOf' = AuthOf
      BY <1>2, AuthKept
    <2> QED
      BY <1>2, <2>2, <2>5, <2>7, <2>8, <2>9
         DEF Promise!Judge, Promise!TakesEffect
  <1>6. CASE req[r].kind = "update"
    <2>1. Came(r) = "done" /\ Came(r)' = "done"
      BY <1>1, <1>2, <1>3, <1>6 DEF Came, TookEffect
    <2> QED
      BY <1>2, <2>1, SilentStep
  <1> QED
    BY <1>4, <1>5, <1>6

LEMMA EditSetsAuth ==
    ASSUME TypeInv, OwnInv, UniqueRows, UniqueRows', FreshReads,
           NEW r \in Reqs, \A s \in Reqs \ {r} : Untouched(s), Edits(r)
    PROVE  Promise!SetAuth(r)
  <1> DEFINE i == loaded[r].id
             a == req[r].auth
  <1>1. /\ pc[r] = "write" /\ req[r].kind = "update" /\ loaded[r] # None
        /\ i \in DOMAIN rows
        /\ pc' = [pc EXCEPT ![r] = "refresh"]
        /\ UNCHANGED <<setting, req, loaded, replies>>
    BY WriteEffect
  <1>2. /\ DOMAIN rows' = DOMAIN rows
        /\ \A j \in DOMAIN rows : j # i => rows'[j] = rows[j]
        /\ rows'[i].device = rows[i].device
        /\ rows'[i].auth = Column(a, loaded[r].row.auth, rows[i].auth)
    BY WriteEffect
  <1>3. PICK d \in Devices : d = req[r].device
    <2>1. req[r] \in UpdateRequest
      BY <1>1, RequestShape DEF TypeInv, Shape, Sent
    <2> QED
      BY <2>1 DEF UpdateRequest
  <1>4. rows[i].device = d
    BY <1>1, <1>3 DEF OwnInv, ObjectOwn
  <1>5. i \in IdsOf(d)
    BY <1>1, <1>4 DEF IdsOf
  <1>6. \A j \in DOMAIN rows : rows'[j].device = rows[j].device
    BY <1>2
  <1>7. rows'[i].auth = IF a = None THEN rows[i].auth ELSE a
    <2>1. loaded[r].row.auth = rows[i].auth
      BY <1>1 DEF FreshReads, Fresh
    <2> QED
      BY <1>2, <2>1 DEF Column
  <1>8. AuthOf[d] = rows[i].auth /\ AuthOf[d] # None
    BY <1>5, AuthAt, AuthTyped
  <1>9. AuthOf'[d] = IF a = None THEN AuthOf[d] ELSE a
    <2>1. PICK k : k = i
      OBVIOUS
    <2>2. k \in IdsOf(d)'
      BY <1>2, <1>5, <1>6, <2>1 DEF IdsOf
    <2>3. AuthOf'[d] = rows'[k].auth
      BY <2>2, AuthAtNext
    <2> QED
      BY <1>7, <1>8, <2>1, <2>3
  <1>10. ASSUME NEW e \in Devices \ {d} PROVE AuthOf'[e] = AuthOf[e]
    <2>1. IdsOf(e)' = IdsOf(e)
      BY <1>2, <1>6 DEF IdsOf
    <2>2. \A j \in IdsOf(e) : rows'[j].auth = rows[j].auth
      BY <1>2, <1>4 DEF IdsOf
    <2> QED
      BY <2>1, <2>2, AuthSame
  <1>11. AuthOf' = IF a = None THEN AuthOf ELSE [AuthOf EXCEPT ![d] = a]
    <2>1. CASE a = None
      <3>1. AuthOf' = [AuthOf EXCEPT ![d] = AuthOf[d]]
        BY <1>9, <1>10, <2>1, AuthElse
      <3> QED
        BY <2>1, <3>1 DEF AuthOf
    <2>2. CASE a # None
      BY <1>9, <1>10, <2>2, AuthElse
    <2> QED
      BY <2>1, <2>2
  <1>12. OutcomeOf' = [OutcomeOf EXCEPT ![r] = "done"]
    <2>1. pc'[r] = "refresh"
      BY <1>1 DEF TypeInv, TypeOK
    <2>2. Came(r)' = "done"
      BY <1>1, <2>1 DEF Came, TookEffect
    <2> QED
      BY <2>2, OutcomeStep
  <1>13. Promise!Open(r, "update")
    BY <1>1, OpenBefore DEF TookEffect
  <1> QED
    BY <1>1, <1>3, <1>8, <1>11, <1>12, <1>13
       DEF Promise!SetAuth, Promise!TakesEffect

\* The verdicts after a DELETE of the devices ds.
LEMMA AuthDeleted ==
    ASSUME TypeInv, UniqueRows, UniqueRows', NEW ds,
           DOMAIN rows' = {i \in DOMAIN rows : rows[i].device \notin ds},
           \A i \in DOMAIN rows' : rows'[i] = rows[i]
    PROVE  \A d \in Devices :
              AuthOf'[d] = IF d \in ds THEN None ELSE AuthOf[d]
  <1> SUFFICES ASSUME NEW d \in Devices
               PROVE  AuthOf'[d] = IF d \in ds THEN None ELSE AuthOf[d]
    OBVIOUS
  <1>1. CASE d \in ds
    <2>1. IdsOf(d)' = {}
      BY <1>1 DEF IdsOf
    <2> QED
      BY <1>1, <2>1, AuthNone
  <1>2. CASE d \notin ds
    <2>1. IdsOf(d)' = IdsOf(d)
      BY <1>2 DEF IdsOf
    <2>2. \A i \in IdsOf(d) : rows'[i].auth = rows[i].auth
      BY <1>2 DEF IdsOf
    <2> QED
      BY <1>2, <2>1, <2>2, AuthSame
  <1> QED
    BY <1>1, <1>2

LEMMA DeleteRemoves ==
    ASSUME TypeInv, UniqueRows, UniqueRows', FreshReads,
           NEW r \in Reqs, \A s \in Reqs \ {r} : Untouched(s), Deletes(r)
    PROVE  Promise!Remove(r)
  <1>1. /\ pc' = [pc EXCEPT ![r] = "await"]
        /\ Delete(r, Condemned(r))
        /\ UNCHANGED <<setting, req, replies>>
        /\ \/ pc[r] = "queued" /\ req[r].kind = "delete"
              /\ IdsOf(req[r].device) # {}
           \/ pc[r] = "write" /\ req[r].kind = "delete_many"
    BY DeleteEffect
  <1>2. \A d \in Devices :
           AuthOf'[d] = IF d \in Condemned(r) THEN None ELSE AuthOf[d]
    <2>1. PICK ds : ds = Condemned(r)
      OBVIOUS
    <2>2. /\ DOMAIN rows' = {i \in DOMAIN rows : rows[i].device \notin ds}
          /\ \A i \in DOMAIN rows' : rows'[i] = rows[i]
      BY <1>1, <2>1, DeletedRows
    <2> QED
      BY <2>1, <2>2, AuthDeleted
  <1>3. OutcomeOf' = [OutcomeOf EXCEPT ![r] = "done"]
    <2>1. pc'[r] = "await"
      BY <1>1 DEF TypeInv, TypeOK
    <2>2. Came(r)' = "done"
      BY <1>1, <2>1 DEF Came, TookEffect
    <2> QED
      BY <2>2, OutcomeStep
  <1>4. Promise!Open(r, req[r].kind)
    BY <1>1, OpenBefore DEF TookEffect
  <1>5. CASE req[r].kind = "delete"
    <2>1. req[r] \in DeleteRequest
      BY <1>1, <1>5, RequestShape DEF TypeInv, Shape, Sent
    <2>2. PICK d \in Devices : d = req[r].device
      BY <2>1 DEF DeleteRequest
    <2>3. Condemned(r) = {d}
      BY <1>5, <2>2 DEF Condemned
    <2>4. AuthOf' = [AuthOf EXCEPT ![d] = None]
      BY <1>2, <2>3, AuthElse
    <2>5. AuthOf[d] # None
      BY <1>1, <1>5, <2>2, AuthTyped
    <2> QED
      BY <1>1, <1>3, <1>4, <1>5, <2>2, <2>4, <2>5
         DEF Promise!Remove, Promise!TakesEffect
  <1>6. CASE req[r].kind = "delete_many"
    <2>1. req[r] \in DeleteManyRequest
      BY <1>1, <1>6, RequestShape DEF TypeInv, Shape, Sent
    <2>2. req[r].devices \subseteq Devices
      BY <2>1 DEF DeleteManyRequest
    <2>3. Condemned(r) = Existing(req[r].devices) /\ Condemned(r) # {}
      BY <1>1, <1>6 DEF FreshReads, Fresh, Condemned
    <2>4. \E d \in req[r].devices : AuthOf[d] # None
      BY <2>2, <2>3, AuthTyped DEF Existing
    <2>5. ASSUME NEW d \in Devices
          PROVE  AuthOf'[d] = IF d \in req[r].devices THEN None ELSE AuthOf[d]
      <3>1. CASE d \in Condemned(r)
        BY <1>2, <2>3, <3>1 DEF Existing
      <3>2. CASE d \notin Condemned(r)
        <4>1. AuthOf'[d] = AuthOf[d]
          BY <1>2, <3>2
        <4>2. d \in req[r].devices => AuthOf[d] = None
          BY <2>3, <3>2, AuthTyped DEF Existing
        <4> QED
          BY <4>1, <4>2
      <3> QED
        BY <3>1, <3>2
    <2>6. AuthOf' = [d \in Devices |->
                       IF d \in req[r].devices THEN None ELSE AuthOf[d]]
      <3>1. AuthOf' = [d \in Devices |-> AuthOf'[d]]
        BY DEF AuthOf
      <3> QED
        BY <2>5, <3>1
    <2> QED
      BY <1>1, <1>3, <1>4, <1>6, <2>4, <2>6
         DEF Promise!Remove, Promise!TakesEffect
  <1> QED
    BY <1>1, <1>5, <1>6

LEMMA ConfigSetsDefault ==
    ASSUME TypeInv, FreshReads, NEW r \in Reqs,
           \A s \in Reqs \ {r} : Untouched(s), Configures(r)
    PROVE  Promise!SetDefault(r)
  <1>1. /\ pc[r] = "write" /\ req[r].kind = "config" /\ pc'[r] = "done"
        /\ setting' = Column(req[r].value, seen[r], setting)
        /\ replies' = [replies EXCEPT ![r] = @ \cup {"done"}]
        /\ UNCHANGED <<rows, req>>
    BY ConfigureEffect DEF TypeInv, TypeOK
  <1>2. setting' = IF req[r].value = None THEN setting ELSE req[r].value
    BY <1>1 DEF FreshReads, Fresh, Column
  <1>3. Came(r)' = "done"
    BY <1>1 DEF Came, TookEffect
  <1>4. OutcomeOf' = [OutcomeOf EXCEPT ![r] = "done"] /\ AuthOf' = AuthOf
    BY <1>1, <1>3, OutcomeStep, AuthKept
  <1>5. Promise!Open(r, "config")
    BY <1>1, OpenBefore DEF TookEffect
  <1> QED
    BY <1>1, <1>2, <1>4, <1>5 DEF Promise!SetDefault, Promise!TakesEffect

LEMMA AnswerStep ==
    ASSUME TypeInv, OwnInv, NEW r \in Reqs,
           \A s \in Reqs \ {r} : Untouched(s), HeartbeatAnswer(r)
    PROVE  Promise!Reply(r)
  <1>1. /\ pc[r] = "await" /\ req[r].kind = "heartbeat" /\ pc'[r] = "done"
        /\ UNCHANGED <<rows, setting, req, loaded>>
    BY DEF HeartbeatAnswer, At, Goto, store, call, TypeInv, TypeOK
  <1>2. \E a \in {loaded[r].row.auth, "error"} :
           replies' = [replies EXCEPT ![r] = @ \cup {a}]
    BY DEF HeartbeatAnswer, Send
  <1>3. Came(r) = loaded[r].row.auth /\ Came(r)' = loaded[r].row.auth
    BY <1>1 DEF Came, TookEffect
  <1>4. loaded[r].row.auth # None /\ "error" # None /\ req[r] # None
    <2>1. loaded[r] \in Loaded
      BY <1>1 DEF OwnInv, AwaitsWithObject, TypeInv, TypeOK
    <2>2. loaded[r].row.auth \in Verdict
      BY <2>1 DEF Loaded, Row
    <2>3. req[r] # None
      BY <1>1, RequestShape DEF TypeInv, Shape, Sent
    <2> QED
      BY <2>2, <2>3, NoneAssumption
  <1> QED
    BY <1>1, <1>2, <1>3, <1>4, ReplyStep

\* The replies of the /ws operations.
LEMMA WsStep ==
    ASSUME TypeInv, OwnInv, NEW r \in Reqs,
           \A s \in Reqs \ {r} : Untouched(s), WsReply(r) \/ WsNotify(r)
    PROVE  Promise!Reply(r) \/ Kept
  <1>1. /\ pc[r] \in {"await", "notify"} /\ pc'[r] \in {"notify", "done"}
        /\ UNCHANGED <<rows, setting, req, loaded>>
        /\ pc[r] = "await" => req[r].kind # "heartbeat"
    BY DEF WsReply, WsNotify, Goto, store, call, TypeInv, TypeOK
  <1>2. Came(r)' = Came(r)
    BY <1>1 DEF Came, TookEffect
  <1>3. req[r] # None /\ "done" # None /\ "error" # None
    BY <1>1, RequestShape, NoneAssumption DEF TypeInv, Shape, Sent
  <1>4. CASE WsReply(r)
    <2>1. Came(r) = "done" /\ replies' = [replies EXCEPT ![r] = @ \cup {"done"}]
      BY <1>1, <1>4 DEF WsReply, Send, Came, TookEffect
    <2> QED
      BY <1>1, <1>2, <1>3, <2>1, ReplyStep
  <1>5. CASE WsNotify(r)
    <2>1. CASE replies' = replies
      BY <1>1, <1>2, <2>1, SilentStep
    <2>2. CASE replies' = [replies EXCEPT ![r] = @ \cup {"error"}]
      BY <1>1, <1>2, <1>3, <2>2, ReplyStep
    <2> QED
      BY <1>5, <2>1, <2>2 DEF WsNotify, Send
  <1> QED
    BY <1>4, <1>5

\* The statements that read.
LEMMA ReadStep ==
    ASSUME TypeInv, NEW r \in Reqs, \A s \in Reqs \ {r} : Untouched(s),
           ~Fail(r),
           \/ HeartbeatSelect(r) \/ HeartbeatReadDefault(r)
           \/ UpdateSelect(r) \/ DeleteDevicesSelect(r) \/ ConfigSelect(r)
    PROVE  Kept
  <1>1. /\ pc[r] \in {"queued", "config"} /\ pc'[r] \in {"config", "write"}
        /\ UNCHANGED <<rows, setting, req, replies>>
    <2> USE DEF store, call, Goto, Starts, At, TypeInv, TypeOK
    <2>1. CASE HeartbeatSelect(r) \/ HeartbeatReadDefault(r)
      BY <2>1 DEF HeartbeatSelect, HeartbeatReadDefault
    <2>2. CASE UpdateSelect(r)
      BY <2>2 DEF UpdateSelect
    <2>3. CASE DeleteDevicesSelect(r)
      BY <2>3 DEF DeleteDevicesSelect
    <2>4. CASE ConfigSelect(r)
      BY <2>4 DEF ConfigSelect
    <2> QED
      BY <2>1, <2>2, <2>3, <2>4
  <1>2. Came(r) = None /\ Came(r)' = None
    BY <1>1 DEF Came, TookEffect
  <1> QED
    BY <1>1, <1>2, SilentStep

LEMMA FailsFrom ==
    ASSUME TypeInv, StillThere, NEW r \in Reqs, StepOf(r), Fail(r)
    PROVE  pc[r] \in {"queued", "config", "write"}
  <1> USE DEF Goto, Starts, At, TypeInv, TypeOK
  <1>1. pc'[r] = "failed"
    BY DEF Fail
  <1>2. ~(Arrive(r) \/ HeartbeatAnswer(r) \/ WsReply(r) \/ WsNotify(r))
    BY <1>1 DEF Arrive, HeartbeatAnswer, WsReply, WsNotify
  <1>3. ~Refresh(r)
    BY <1>1 DEF Refresh, StillThere
  <1> QED
    BY <1>2, <1>3 DEF StepOf, RejectMalformed, HeartbeatSelect,
       HeartbeatReadDefault, HeartbeatInsert, HeartbeatUpdate, UpdateSelect,
       UpdateCommit, DeleteDevice, DeleteDevicesSelect, DeleteDevicesCommit,
       ConfigSelect, ConfigCommit

-----------------------------------------------------------------------------
PromiseInv ==
    TypeInv /\ OwnInv /\ UniqueRows /\ StillThere /\ FreshReads /\ Unsent

LEMMA PromiseInit == Init => Promise!Init
  <1> SUFFICES ASSUME Init PROVE Promise!Init
    OBVIOUS
  <1>1. AuthOf = [d \in Devices |-> None]
    BY DEF Init, AuthOf, IdsOf
  <1>2. OutcomeOf = [r \in Reqs |-> None]
    BY DEF Init, OutcomeOf, TookEffect
  <1> QED
    BY <1>1, <1>2 DEF Init, Promise!Init

LEMMA PromiseStep ==
    ASSUME \E w : Workers = {w}, PromiseInv, PromiseInv', [Next]_vars
    PROVE  [Promise!Next]_(Promise!vars)
  <1> USE DEF PromiseInv
  <1>1. CASE UNCHANGED vars
    BY <1>1 DEF vars, AuthOf, OutcomeOf, TookEffect, IdsOf, Promise!vars
  <1>2. ASSUME NEW r \in Reqs, StepOf(r), \A s \in Reqs \ {r} : Untouched(s)
        PROVE  Promise!Next \/ Kept
    <2>1. CASE Fail(r)
      BY <1>2, <2>1, FailsFrom, FailStep DEF Promise!Next
    <2>2. CASE ~Fail(r)
      <3>1. CASE Arrive(r)
        BY <1>2, <3>1, ArriveStep DEF Promise!Next
      <3>2. CASE Inserts(r)
        BY <1>2, <3>2, InsertRegisters DEF Promise!Next
      <3>3. CASE Touches(r)
        BY <1>2, <3>3, TouchIsSilent
      <3>4. CASE Edits(r)
        BY <1>2, <3>4, EditSetsAuth DEF Promise!Next
      <3>5. CASE Deletes(r)
        BY <1>2, <3>5, DeleteRemoves DEF Promise!Next
      <3>6. CASE Refresh(r)
        BY <1>2, <3>6, RefreshStep DEF Promise!Next
      <3>7. CASE HeartbeatAnswer(r)
        BY <1>2, <3>7, AnswerStep DEF Promise!Next
      <3>8. CASE WsReply(r) \/ WsNotify(r)
        BY <1>2, <3>8, WsStep DEF Promise!Next
      <3>9. CASE Configures(r)
        BY <1>2, <3>9, ConfigSetsDefault DEF Promise!Next
      <3>10. CASE HeartbeatSelect(r) \/ HeartbeatReadDefault(r)
                  \/ UpdateSelect(r) \/ DeleteDevicesSelect(r) \/ ConfigSelect(r)
        BY <1>2, <2>2, <3>10, ReadStep
      <3> QED
        BY <1>2, <2>2, <3>1, <3>2, <3>3, <3>4, <3>5, <3>6, <3>7, <3>8, <3>9,
           <3>10 DEF StepOf, Inserts, Touches, Edits, Deletes, Configures,
                     RejectMalformed
    <2> QED
      BY <2>1, <2>2
  <1> QED
    BY <1>1, <1>2, OneHandler DEF Kept, Promise!vars

\* With one worker the registry keeps its promise: a heartbeat is judged by
\* the verdict of its own device at one instant, and an update, a removal or a
\* change of the setting that was acknowledged took effect once, as a whole
\* and on the devices it names.
THEOREM PromiseKept ==
    ASSUME \E w : Workers = {w}
    PROVE  Spec => ImplementsPromise
  <1>1. Init => PromiseInv
    BY InitTypeInv, InitOwnInv, UniqueInit, LogInit, FreshInit DEF PromiseInv
  <1>2. PromiseInv /\ [Next]_vars => PromiseInv'
    BY NextTypeInv, NextOwnInv, UniqueStep, StillThereStep, FreshStep,
       UnsentStep DEF PromiseInv
  <1>3. PromiseInv /\ PromiseInv' /\ [Next]_vars => [Promise!Next]_(Promise!vars)
    BY PromiseStep
  <1> QED
    BY <1>1, <1>2, <1>3, PromiseInit, PTL DEF Spec, ImplementsPromise, Promise!Spec
=============================================================================
