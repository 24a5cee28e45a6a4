----------------------------- MODULE MCRegistry -----------------------------
(* Instances of Registry for TLC. *)
EXTENDS Registry, TLC

\* Everything the handlers distinguish about two devices: heartbeats with and
\* without new device data, updates of the verdict, of the remark, of both,
\* deletions of one and of several devices, changes of the setting.
AllRequests ==
    HeartbeatRequest
    \cup UpdateRequest
    \cup DeleteRequest
    \cup {m \in DeleteManyRequest : m.devices # {}}
    \cup ConfigRequest \cup MalformedRequest

\* The requests whose statements conflict on a row or on its id.
ConflictingRequests ==
    {h \in HeartbeatRequest : h.info = None}
    \cup {u \in UpdateRequest : u.auth = "denied" /\ u.remark = None}
    \cup DeleteRequest
    \cup {m \in DeleteManyRequest : m.devices = Devices}
    \cup {c \in ConfigRequest : c.value = "off"}

\* Requests are interchangeable, and so are devices and workers.
Symmetry ==
    Permutations(Reqs) \cup Permutations(Devices) \cup Permutations(Workers)
=============================================================================
