--------------------------- MODULE LicenseRegistry ---------------------------
(***************************************************************************)
(* What the device registry promises, in abstract terms.                   *)
(*                                                                         *)
(* Every device is absent or carries one verdict.  A heartbeat registers   *)
(* an absent device with the verdict the default setting stands for, and   *)
(* is judged by the verdict its own device has at one instant of the       *)
(* request.  Administrators set verdicts, remove devices and change the    *)
(* setting; each request takes effect at most once, at one instant, on     *)
(* the devices it names and on no other, and is acknowledged only after    *)
(* that.  Any request may get an error instead.                            *)
(***************************************************************************)
CONSTANTS
    Devices,    \* device identifiers
    Reqs,       \* request instances
    Requests,   \* the requests that may be made (records, see Registry)
    None        \* no value

Verdict == {"authorized", "denied"}
Setting == {"unset", "on", "off"}
Outcome == Verdict \cup {"done"}

VARIABLES
    req,        \* req[r]: what r asks for, None before it is sent
    auth,       \* auth[d]: the verdict on d, None while d is not registered
    setting,    \* the default_authorization setting
    outcome,    \* outcome[r]: what r came to, None before it took effect
    replies     \* replies[r]: the set of replies r got

vars == <<req, auth, setting, outcome, replies>>

Init ==
    /\ req = [r \in Reqs |-> None]
    /\ auth = [d \in Devices |-> None]
    /\ setting = "unset"
    /\ outcome = [r \in Reqs |-> None]
    /\ replies = [r \in Reqs |-> {}]

\* r was sent, asks for k and has not taken effect.
Open(r, k) == req[r] # None /\ req[r].kind = k /\ outcome[r] = None

TakesEffect(r, o) == outcome' = [outcome EXCEPT ![r] = o]

Ask(r) ==
    /\ req[r] = None
    /\ \E q \in Requests : req' = [req EXCEPT ![r] = q]
    /\ UNCHANGED <<auth, setting, outcome, replies>>

Register(r) ==
    /\ Open(r, "heartbeat")
    /\ auth[req[r].device] = None
    /\ auth' = [auth EXCEPT ![req[r].device] =
                  IF setting = "off" THEN "denied" ELSE "authorized"]
    /\ UNCHANGED <<req, setting, outcome, replies>>

Judge(r) ==
    /\ Open(r, "heartbeat")
    /\ auth[req[r].device] # None
    /\ TakesEffect(r, auth[req[r].device])
    /\ UNCHANGED <<req, auth, setting, replies>>

SetAuth(r) ==
    /\ Open(r, "update")
    /\ auth[req[r].device] # None
    /\ auth' = IF req[r].auth = None THEN auth
               ELSE [auth EXCEPT ![req[r].device] = req[r].auth]
    /\ TakesEffect(r, "done")
    /\ UNCHANGED <<req, setting, replies>>

Remove(r) ==
    /\ \/ /\ Open(r, "delete")
          /\ auth[req[r].device] # None
          /\ auth' = [auth EXCEPT ![req[r].device] = None]
       \/ /\ Open(r, "delete_many")
          /\ \E d \in req[r].devices : auth[d] # None
          /\ auth' = [d \in Devices |->
                        IF d \in req[r].devices THEN None ELSE auth[d]]
    /\ TakesEffect(r, "done")
    /\ UNCHANGED <<req, setting, replies>>

\* A change of the setting is acknowledged in the step that makes it; one that
\* names no value is acknowledged and changes nothing.
SetDefault(r) ==
    /\ Open(r, "config")
    /\ setting' = IF req[r].value = None THEN setting ELSE req[r].value
    /\ TakesEffect(r, "done")
    /\ replies' = [replies EXCEPT ![r] = @ \cup {"done"}]
    /\ UNCHANGED <<req, auth>>

Reply(r) ==
    /\ req[r] # None
    /\ \E a \in {outcome[r], "error"} \ {None} :
          replies' = [replies EXCEPT ![r] = @ \cup {a}]
    /\ UNCHANGED <<req, auth, setting, outcome>>

Next == \E r \in Reqs :
    \/ Ask(r) \/ Register(r) \/ Judge(r) \/ SetAuth(r) \/ Remove(r)
    \/ SetDefault(r) \/ Reply(r)

Spec == Init /\ [][Next]_vars
==============================================================================
