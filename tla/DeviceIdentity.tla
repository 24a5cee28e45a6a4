--------------------------- MODULE DeviceIdentity ---------------------------
(***************************************************************************)
(* Who a machine is to the server: the device_id a product makes once and  *)
(* keeps in the state file, and the device_info that its heartbeats carry  *)
(* (device_utils.py and the AuthClient of each SDK).                       *)
(*                                                                         *)
(* Programs of one product construct a client, call it from several        *)
(* threads, end at any step and are started again, while the network of    *)
(* the machine changes, writes fail and the state file gets lost.  The     *)
(* collection of facts is slow, so it is put off when the id is known: a   *)
(* light heartbeat goes out first, without it.                             *)
(*                                                                         *)
(* Only the row of the product is kept here, and of that the id and the    *)
(* snapshot of device_info; AuthClient has the rest, the other products    *)
(* and the retries.  A caller that gives its own device_id or device_info  *)
(* needs nothing of this and is left out.                                  *)
(***************************************************************************)
EXTENDS Integers, Sequences

CONSTANTS
    Programs,   \* programs of one product on one machine
    Threads,    \* their threads
    Layouts,    \* which program each thread may belong to
    Networks,   \* what the interfaces of the machine may be
    Sdks,       \* a subset of {"python", "go", "typescript"}
    None        \* no value

ASSUME IdentityAssumption ==
    /\ Layouts \subseteq [Threads -> Programs]
    /\ Sdks \subseteq {"python", "go", "typescript"}

-----------------------------------------------------------------------------
(* Which interface stands for the machine *)

\* An interface: up and no loopback device; its MAC, of a real or of a virtual
\* card; the kind of its IPv4 address.
Mac == [virtual : BOOLEAN, nr : Nat]
Ip == {"routable", "hyperv", "linklocal", "loopback"}
Interface == [up : BOOLEAN, mac : Mac \cup {None}, ip : Ip \cup {None}]

ASSUME NetworkAssumption == Networks \subseteq Seq(Interface)

\* _mac_from_uuid_node, for a machine whose interfaces show no MAC.
NodeMac == [virtual |-> FALSE, nr |-> 0]

\* Addresses that stand for no network are not seen.
Addressed(i) == i.ip \in {"routable", "hyperv"}

\* _network_endpoint_score
Score_Mutant(i) ==
    (IF ~Addressed(i) THEN 0 ELSE IF i.ip = "hyperv" THEN 40 - 50 ELSE 40)
    + (IF i.mac = None THEN 0 ELSE IF i.mac.virtual THEN 10 ELSE 10)
Score(i) ==
    (IF ~Addressed(i) THEN 0 ELSE IF i.ip = "hyperv" THEN 40 - 50 ELSE 40)
    + (IF i.mac = None THEN 0 ELSE IF i.mac.virtual THEN 10 ELSE 110)

\* _sorted_scored_iface_endpoints: the interfaces that are listed, and their
\* order, which is stable.
Candidates(n) == {k \in DOMAIN n : n[k].up /\ (n[k].mac # None \/ Addressed(n[k]))}
Before(n, k, l) ==
    Score(n[k]) > Score(n[l]) \/ (Score(n[k]) = Score(n[l]) /\ k <= l)
FirstOf(n, K) == CHOOSE k \in K : \A l \in K : Before(n, k, l)

\* _preferred_mac_and_ipv4, its MAC, and the fallback of get_mac_address.
PreferredMac(n) ==
    LET with_mac == {k \in Candidates(n) : n[k].mac # None}
        both == {k \in with_mac : Addressed(n[k])}
        real == {k \in with_mac : ~n[k].mac.virtual}
    IN  IF both # {} THEN n[FirstOf(n, both)].mac
        ELSE IF real # {} THEN n[FirstOf(n, real)].mac
        ELSE IF with_mac # {} THEN n[FirstOf(n, with_mac)].mac
        ELSE NodeMac

\* build_device_id hashes facts of the machine; the one that changes is kept.
BuildId(n) == PreferredMac(n)

-----------------------------------------------------------------------------

VARIABLES
    sdk,          \* the SDK of the product, constant
    program,      \* program[t]: the program of thread t, constant
    file,         \* the row of the product in the state file
    client,       \* client[p]: the AuthClient of program p
    pc,           \* pc[t]: the next step of the call of thread t
    job,          \* job[t]: the local variables of that call
    late,         \* programs with a heartbeat thread nobody waits for
    first,        \* history: the id of the first client
    excused,      \* history: a start could not find that id, so forget it
    interrupted,  \* history: a completion heartbeat was not to be
    clash         \* history: two Go checks waited for the same facts

vars == <<sdk, program, file, client, pc, job, late,
          first, excused, interrupted, clash>>
setting == <<sdk, program>>
history == <<first, excused, interrupted, clash>>

\* What is known of device_info: "stub" has nothing but the versions.
Row == [id : Mac, info : {None, "stub", "full"}]

\* deferred: _device_info_deferred; facts: the prefetched facts can be had.
Client == [id : Mac, info : {"stub", "full"}, deferred : BOOLEAN, facts : BOOLEAN]

\* network: what a start found of the interfaces; id, info: of the row to be
\* written, where a start keeps the info it finds; light: the light heartbeat
\* of the check was authorized.
Job == [op : {"start", "check", "progressive"}, id : Mac \cup {None},
        info : {None, "stub", "full"}, light : BOOLEAN,
        network : Networks \cup {None}]

ASSUME NoneAssumption == None \notin Mac \cup Row \cup Client \cup Job \cup {"stub", "full"}

Starting == {"make", "hash", "snapshot"}
Checking == {"light", "ensure", "receive", "collect", "full"}
Saving == {"open", "fill"}
PC == {"idle"} \cup Starting \cup Checking \cup Saving

TypeOK ==
    /\ sdk \in Sdks
    /\ program \in Layouts
    /\ file \in Row \cup {None}
    /\ client \in [Programs -> Client \cup {None}]
    /\ pc \in [Threads -> PC]
    /\ job \in [Threads -> Job \cup {None}]
    /\ \A t \in Threads : /\ (pc[t] = "idle") = (job[t] = None)
                          /\ pc[t] \in Checking => client[program[t]] # None
    \* the facts are fetched ahead only for a client that needs them
    /\ \A p \in Programs :
          (client[p] # None /\ client[p].facts) => client[p].deferred
    /\ late \subseteq Programs
    /\ first \in Mac \cup {None}
    /\ excused \in BOOLEAN /\ interrupted \in BOOLEAN /\ clash \in BOOLEAN

Init ==
    /\ sdk \in Sdks
    /\ program \in Layouts
    /\ file = None
    /\ client = [p \in Programs |-> None]
    /\ pc = [t \in Threads |-> "idle"]
    /\ job = [t \in Threads |-> None]
    /\ late = {}
    /\ first = None
    /\ excused = FALSE
    /\ interrupted = FALSE
    /\ clash = FALSE

-----------------------------------------------------------------------------
(* Helpers *)

Mine(t) == client[program[t]]
ThreadsOf(p) == {t \in Threads : program[t] = p}
Making == {"make", "hash"}
Busy(t, op) == pc[t] # "idle" /\ job[t].op = op

Goto(t, l) == pc' = [pc EXCEPT ![t] = l]
Finish(t) == Goto(t, "idle") /\ job' = [job EXCEPT ![t] = None]

\* The info of a client whose facts have been collected (build_device_info).
Completed(c) == [c EXCEPT !.info = "full", !.deferred = FALSE]

NewJob(o, id) ==
    [op |-> o, id |-> id, info |-> None, light |-> FALSE, network |-> None]

\* What the history says of a client with this id, and of a lost id.
Remember(id) ==
    /\ first' = IF excused \/ first # None THEN first ELSE id
    /\ UNCHANGED excused
ExcuseIf(c) ==
    /\ first' = IF c THEN None ELSE first
    /\ excused' = (excused \/ c)

-----------------------------------------------------------------------------
(* Construction of a client *)

\* A client whose id is known: its facts are to be collected later.
Deferred(id) == [id |-> id, info |-> "stub", deferred |-> TRUE, facts |-> FALSE]

\* The Python SDK puts the collection off even when it made the id itself.
Constructed(t, id, known) ==
    LET later == known \/ sdk = "python"
    IN  /\ client' = [client EXCEPT ![program[t]] =
                        IF later THEN Deferred(id) ELSE Completed(Deferred(id))]
        /\ IF later
           THEN Goto(t, "snapshot") /\ job' = [job EXCEPT ![t] = NewJob("start", id)]
           ELSE Finish(t)

\* load_persisted_device_id: a file that another program has just opened for
\* writing shows nothing.  Without an id the facts of the machine are collected,
\* whose network may be another at every start.
LoadId(t) ==
    LET p == program[t] IN
    /\ client[p] = None
    /\ \A u \in ThreadsOf(p) : pc[u] = "idle"
    /\ IF file # None
       THEN Constructed(t, file.id, TRUE) /\ Remember(file.id)
       ELSE /\ Goto(t, "make")
            /\ \E n \in Networks :
                  job' = [job EXCEPT ![t] = [NewJob("start", None) EXCEPT !.network = n]]
            /\ ExcuseIf(\E u \in Threads :
                  pc[u] = "fill" \/ (pc[u] \in Making \cup {"open"} /\ Busy(u, "start")))
            /\ UNCHANGED client
    /\ UNCHANGED <<setting, file, late, interrupted, clash>>

\* BuildDeviceID of Go, once the facts are there, reads the id again before it
\* makes one.  A client with an id found only now needs no more facts.
FindId(t) ==
    /\ sdk = "go"
    /\ pc[t] = "make"
    /\ \/ file # None /\ Constructed(t, file.id, FALSE) /\ Remember(file.id)
       \/ /\ file = None
          /\ Goto(t, "hash")
          /\ UNCHANGED <<client, job, first, excused>>
    /\ UNCHANGED <<setting, file, late, interrupted, clash>>

\* The facts are hashed; persist_device_id reads the file and will write the
\* row it finds, with this id.
MakeId(t) ==
    LET kept == IF file = None THEN None ELSE file.info IN
    /\ pc[t] = IF sdk = "go" THEN "hash" ELSE "make"
    /\ job' = [job EXCEPT ![t] =
                  [NewJob("start", BuildId(job[t].network)) EXCEPT !.info = kept]]
    /\ Goto(t, "open")
    /\ interrupted' = (interrupted \/ kept = "stub")
    /\ UNCHANGED <<setting, file, client, late, first, excused, clash>>

\* load_device_info_snapshot; without one the facts are fetched ahead, except
\* in TypeScript.
LoadSnapshot_Mutant(t) ==
    LET found == file # None /\ file.info # None
    IN  /\ pc[t] = "snapshot"
        /\ client' = [client EXCEPT ![program[t]] =
              IF found THEN [@ EXCEPT !.info = file.info, !.deferred = FALSE,
                                               !.facts = sdk # "typescript"]
              ELSE [@ EXCEPT !.facts = sdk # "typescript"]]
        /\ interrupted' = (interrupted \/ \E u \in Threads : Busy(u, "progressive"))
        /\ Finish(t)
        /\ UNCHANGED <<setting, file, late, first, excused, clash>>
LoadSnapshot(t) ==
    LET found == file # None /\ file.info # None
    IN  /\ pc[t] = "snapshot"
        /\ client' = [client EXCEPT ![program[t]] =
              IF found THEN [@ EXCEPT !.info = file.info, !.deferred = FALSE]
              ELSE [@ EXCEPT !.facts = sdk # "typescript"]]
        /\ interrupted' = (interrupted \/ \E u \in Threads : Busy(u, "progressive"))
        /\ Finish(t)
        /\ UNCHANGED <<setting, file, late, first, excused, clash>>

-----------------------------------------------------------------------------
(* Saving, and what follows *)

\* After the light heartbeat the full one.
GoesOn_WithoutFacts(t) ==
    Goto(t, "full") /\ job' = [job EXCEPT ![t] = [@ EXCEPT !.light = TRUE, !.info = None]]
GoesOn_Again(t) ==
    Goto(t, "ensure") /\ job' = [job EXCEPT ![t].info = None]
GoesOn(t) ==
    Goto(t, "ensure") /\ job' = [job EXCEPT ![t] = [@ EXCEPT !.light = TRUE, !.info = None]]

\* In Go there is no client when the id it made could not be persisted.
AfterSave(t, saved) ==
    LET j == job[t] IN
    IF j.op = "start"
    THEN /\ IF saved \/ sdk # "go"
            THEN Constructed(t, j.id, FALSE)
            ELSE Finish(t) /\ UNCHANGED client
         /\ UNCHANGED interrupted
    ELSE /\ IF j.op = "progressive" /\ ~j.light /\ j.info # None
            THEN GoesOn(t) ELSE Finish(t)
         /\ interrupted' = (interrupted \/ (j.light /\ ~saved))
         /\ UNCHANGED client

\* The file is opened, which empties it, or cannot be.
OpenFile(t) ==
    /\ pc[t] = "open"
    /\ \/ /\ file' = None
          /\ Goto(t, "fill")
          /\ UNCHANGED <<client, job, first, excused, interrupted>>
       \/ /\ AfterSave(t, FALSE)
          /\ ExcuseIf(job[t].op = "start")
          /\ UNCHANGED file
    /\ UNCHANGED <<setting, late, clash>>

\* The contents get into the file, or the file is left without.  A denial
\* takes the snapshot out of the row.
NewRow_DropsRow(t) ==
    IF job[t].op # "start" /\ job[t].info = None THEN None
    ELSE [id |-> job[t].id, info |-> job[t].info]
NewRow(t) == [id |-> job[t].id, info |-> job[t].info]

FillFile(t) ==
    /\ pc[t] = "fill"
    /\ \/ /\ file' = NewRow(t)
          /\ AfterSave(t, TRUE)
          /\ Remember(job[t].id)
       \/ /\ file' = None
          /\ AfterSave(t, FALSE)
          /\ ExcuseIf(TRUE)
    /\ UNCHANGED <<setting, late, clash>>

-----------------------------------------------------------------------------
(* Checks *)

\* check_authorization and check_authorization_progressive, also from
\* start_background_refresh.
StartCheck(t, o) ==
    LET p == program[t] IN
    /\ pc[t] = "idle"
    /\ client[p] # None
    /\ \A u \in ThreadsOf(p) : ~Busy(u, "start")
    /\ job' = [job EXCEPT ![t] = NewJob(o, client[p].id)]
    /\ Goto(t, IF o = "progressive" THEN "light" ELSE "ensure")
    /\ UNCHANGED <<setting, file, client, late, history>>

\* The server answered.  An authorization is saved with the info as it is now.
Answered(t) ==
    /\ \E authorized \in BOOLEAN :
          job' = [job EXCEPT ![t].info = IF authorized THEN Mine(t).info ELSE None]
    /\ Goto(t, "open")
    /\ UNCHANGED <<setting, file, client, late, history>>

LightHeartbeat(t) ==
    /\ pc[t] = "light"
    /\ \/ Answered(t)
       \/ /\ job' = [job EXCEPT ![t].op = "check"]
          /\ Goto(t, "ensure")
          /\ UNCHANGED <<setting, file, client, late, history>>

\* ensure_full_device_info: Python takes the prefetched facts and leaves none
\* for another thread, Go goes to wait for them, TypeScript collects at once.
EnsureDeviceInfo(t) ==
    LET p == program[t]
        c == client[p]
    IN  /\ pc[t] = "ensure"
        /\ \/ /\ ~c.deferred
              /\ Goto(t, "full")
              /\ UNCHANGED <<client, clash>>
           \/ /\ c.deferred /\ sdk = "typescript"
              /\ client' = [client EXCEPT ![p] = Completed(@)]
              /\ Goto(t, "full")
              /\ UNCHANGED clash
           \/ /\ c.deferred /\ (sdk = "python" \/ (sdk = "go" /\ ~c.facts))
              /\ client' = [client EXCEPT ![p].facts = FALSE]
              /\ Goto(t, "collect")
              /\ UNCHANGED clash
           \/ /\ c.deferred /\ sdk = "go" /\ c.facts
              /\ Goto(t, "receive")
              /\ clash' = (clash \/ \E u \in ThreadsOf(p) : pc[u] = "receive")
              /\ UNCHANGED client
        /\ UNCHANGED <<setting, file, job, late, first, excused, interrupted>>

\* The facts arrive in the channel once.
ReceiveFacts(t) ==
    /\ pc[t] = "receive"
    /\ Mine(t).facts
    /\ client' = [client EXCEPT ![program[t]] = Completed([@ EXCEPT !.facts = FALSE])]
    /\ Goto(t, "full")
    /\ UNCHANGED <<setting, file, job, late, history>>

\* The facts are collected, or those of the future of Python are ready.
CollectFacts(t) ==
    /\ pc[t] = "collect"
    /\ client' = [client EXCEPT ![program[t]] = Completed(@)]
    /\ Goto(t, "full")
    /\ UNCHANGED <<setting, file, job, late, history>>

FullFails(t) ==
    /\ Finish(t)
    /\ interrupted' = (interrupted \/ job[t].light)
    /\ UNCHANGED <<setting, file, client, first, excused, clash>>

FullHeartbeat(t) ==
    /\ pc[t] = "full"
    /\ Answered(t) \/ (FullFails(t) /\ UNCHANGED late)

\* _check_online of Python gives up at its deadline; the thread it waited for
\* goes on collecting.
Deadline(t) ==
    /\ sdk = "python"
    /\ pc[t] = "collect"
    /\ late' = late \cup {program[t]}
    /\ FullFails(t)

LateCollects(p) ==
    /\ p \in late
    /\ late' = late \ {p}
    /\ client' = [client EXCEPT ![p] = Completed(@)]
    /\ UNCHANGED <<setting, file, pc, job, history>>

-----------------------------------------------------------------------------
(* The environment *)

\* The program ends, by itself or in the middle of its calls.
Ends(p) ==
    /\ client[p] # None \/ \E t \in ThreadsOf(p) : pc[t] # "idle"
    /\ client' = [client EXCEPT ![p] = None]
    /\ pc' = [t \in Threads |-> IF program[t] = p THEN "idle" ELSE pc[t]]
    /\ job' = [t \in Threads |-> IF program[t] = p THEN None ELSE job[t]]
    /\ late' = late \ {p}
    /\ ExcuseIf(\E t \in ThreadsOf(p) : pc[t] = "fill")
    /\ interrupted' = (interrupted \/ \E t \in ThreadsOf(p) : Busy(t, "progressive"))
    /\ UNCHANGED <<setting, file, clash>>

FileLost ==
    /\ file # None
    /\ file' = None
    /\ ExcuseIf(TRUE)
    /\ UNCHANGED <<setting, client, pc, job, late, interrupted, clash>>

\* The steps of a call that its program takes by itself.
Step(t) ==
    \/ FindId(t) \/ MakeId(t) \/ LoadSnapshot(t) \/ OpenFile(t) \/ FillFile(t)
    \/ LightHeartbeat(t) \/ EnsureDeviceInfo(t) \/ ReceiveFacts(t)
    \/ CollectFacts(t) \/ FullHeartbeat(t) \/ Deadline(t)

Next ==
    \/ \E t \in Threads :
          \/ LoadId(t) \/ Step(t)
          \/ \E o \in {"check", "progressive"} : StartCheck(t, o)
    \/ \E p \in Programs : LateCollects(p) \/ Ends(p)
    \/ FileLost

Spec == Init /\ [][Next]_vars

\* Every thread that can go on does: heartbeats and the collection of facts
\* end.  Nothing is assumed of the caller or of the environment.
FairSpec == Spec /\ \A t \in Threads : WF_vars(Step(t))

-----------------------------------------------------------------------------
(* Properties *)

\* A product keeps its id through restarts, changes of the network, checks,
\* denials and failures: a second id is only made by a start that could not
\* find the first, because the file was lost, could not be written, or was
\* being written for the first time or anew.  Until then every client, the
\* row and what is written to it have the first.
IdentitySurvives ==
    first # None =>
        /\ file # None => file.id = first
        /\ \A p \in Programs : client[p] # None => client[p].id = first
        /\ \A t \in Threads : pc[t] \in Saving => job[t].id = first

\* A start makes its id from the MAC of a virtual card only if no real card that
\* is up has an IPv4 address.
PhysicalFirst ==
    \A t \in Threads :
        (pc[t] \in Making /\ BuildId(job[t].network).virtual) =>
            \A k \in DOMAIN job[t].network :
                LET i == job[t].network[k]
                IN  ~(i.up /\ i.mac # None /\ ~i.mac.virtual /\ Addressed(i))

\* The snapshot that a light heartbeat leaves without facts is replaced: when
\* no call is under way it is still there only if a completion heartbeat
\* failed, was not saved or was cut off, or a program started before it was
\* done.
StubMadeUp ==
    (file # None /\ file.info = "stub" /\ \A t \in Threads : pc[t] = "idle")
        => interrupted

\* Without device_info of the caller's it is collected (client/go/README.md:24,
\* client/python/README.md:24, client/ts/README.md:26): a full heartbeat has it.
CollectedWhenOmitted ==
    \A t \in Threads : pc[t] = "full" => Mine(t).info = "full"

\* Every call of the SDK returns, whatever overlaps; except that in Go two
\* checks of one client may wait for the facts that come once.
CallsReturn == \A t \in Threads : pc[t] # "idle" ~> (pc[t] = "idle" \/ clash)
=============================================================================
