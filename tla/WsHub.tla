-------------------------------- MODULE WsHub --------------------------------
(***************************************************************************)
(* The admin panels' WebSockets: DeviceWSManager (app/ws_manager.py), the  *)
(* life of a /ws handler (app/routers/ws.py) and the broadcast at the end  *)
(* of every change of a device (app/routers/auth.py, ws.py).               *)
(*                                                                         *)
(* Every worker process has a pool of its own.  Inside a process the code  *)
(* between two awaits is one step; every await here is a send or a         *)
(* receive on a socket, during which the other tasks of the process run,   *)
(* and change the pool that a broadcast is iterating over.                 *)
(*                                                                         *)
(* The iterator of a Python set compares, each time it is asked for the    *)
(* next element, the size of the set with its size at the start and raises *)
(* RuntimeError when they differ.  When they agree although the set was    *)
(* changed (one client left, another came), the table may have been        *)
(* rebuilt: the iterator may then skip elements, visit new ones or repeat  *)
(* some.  A repeated notification changes nothing and is left out.         *)
(*                                                                         *)
(* What a commit does is in Registry, and so is a refresh that finds the   *)
(* row gone after the commit (auth.py:60, ws.py:164): here the refresh     *)
(* succeeds.  After one that does not, nothing is announced.               *)
(***************************************************************************)
EXTENDS Naturals, FiniteSets

CONSTANTS
    Workers,    \* worker processes
    Sockets,    \* panel connections, each opened at most once
    Calls,      \* heartbeat requests that commit
    MaxChanges, \* bound: changes an administrator makes over one connection
    None        \* no value

Tasks == Sockets \cup Calls

\* A broadcast: the size of the set at its start, the clients its iterator
\* returned, whether the set changed since, the clients found dead, the one
\* a send is under way to and what that one will know when it succeeds.
Change == Tasks \X (0..MaxChanges)
Cast == [size : Nat, visited : SUBSET Sockets, changed : BOOLEAN,
         dead : SUBSET Sockets, target : Sockets \cup {None},
         tells : SUBSET (Sockets \X Change)]

ASSUME HubAssumption ==
    /\ MaxChanges \in Nat
    /\ Sockets \cap Calls = {}
    /\ None \notin Workers \cup Sockets \cup Calls \cup Cast

VARIABLES
    home,       \* home[t]: the process that runs task t
    peer,       \* peer[s]: "up" while the browser is there, then "gone"
    pool,       \* pool[w]: _clients of process w
    phase,      \* phase[t]: the await at which task t is
    cast,       \* cast[t]: the broadcast t is executing, None without one
    changes,    \* changes[s]: changes received over s (bounds the model)
    served,     \* history: the sockets whose handler reached its receive loop
    behind,     \* history: pairs <<s, n>>: panel s, which is open, does not
                \* know of change n
    excused     \* history: the pairs a broken broadcast is to blame for

vars == <<home, peer, pool, phase, cast, changes, served, behind, excused>>
conn == <<home, peer, changes, served>>

(* accept, greet, list: the awaits of the set-up; loop: receive_text;      *)
(* fetch: the list is being sent; reply: the reply to a change; cast: the  *)
(* broadcast; sorry: the error reply, to a change that was refused or      *)
(* after a broadcast that raised.                                          *)
SocketPhase == {"absent", "accept", "greet", "list", "loop", "fetch",
                "reply", "cast", "sorry", "closed"}
CallPhase == {"idle", "cast", "answered", "failed"}

Serving == {"loop", "fetch", "reply", "cast", "sorry"}

TypeOK ==
    /\ home \in [Tasks -> Workers \cup {None}]
    /\ peer \in [Sockets -> {"up", "gone"}]
    /\ pool \in [Workers -> SUBSET Sockets]
    /\ phase \in [Tasks -> SocketPhase \cup CallPhase]
    /\ \A s \in Sockets : phase[s] \in SocketPhase
    /\ \A c \in Calls : phase[c] \in CallPhase
    /\ cast \in [Tasks -> Cast \cup {None}]
    /\ changes \in [Sockets -> 0..MaxChanges]
    /\ served \subseteq Sockets
    /\ excused \subseteq behind /\ behind \subseteq Sockets \X Change

Init ==
    /\ home = [t \in Tasks |-> None]
    /\ peer = [s \in Sockets |-> "up"]
    /\ pool = [w \in Workers |-> {}]
    /\ phase = [t \in Tasks |-> IF t \in Sockets THEN "absent" ELSE "idle"]
    /\ cast = [t \in Tasks |-> None]
    /\ changes = [s \in Sockets |-> 0]
    /\ served = {}
    /\ behind = {}
    /\ excused = {}

-----------------------------------------------------------------------------
(* Helpers *)

Goto(t, p) == phase' = [phase EXCEPT ![t] = p]

\* What may come of a send to s: a browser that is there gets the message;
\* for one that is gone the send raises, or is buffered and lost.
CanReach(s) == TRUE
CanRaise(s) == peer[s] = "gone"

\* The broadcasts c after the pool of w changed.
Disturbed(w, c) ==
    [t \in Tasks |-> IF c[t] # None /\ home[t] = w
                     THEN [c[t] EXCEPT !.changed = TRUE] ELSE c[t]]

\* DeviceWSManager.connect after accept, and disconnect.
Add(s, w) ==
    /\ pool' = [pool EXCEPT ![w] = @ \cup {s}]
    /\ cast' = Disturbed(w, cast)
Discard(s) ==
    /\ pool' = [pool EXCEPT ![home[s]] = @ \ {s}]
    /\ cast' = IF s \in pool[home[s]] THEN Disturbed(home[s], cast) ELSE cast

\* The panels in the pairs know, or are gone.
Learn(pairs) == behind' = behind \ pairs /\ excused' = excused \ pairs
PairsOf(s) == {p \in behind : p[1] = s}

\* The handler of s ends, and the server closes the connection.
Ends(s) == Goto(s, "closed") /\ peer' = [peer EXCEPT ![s] = "gone"]
\* An exception of the set-up is outside of the try statement ...
EndSetup(s) == Ends(s) /\ UNCHANGED <<pool, cast>>
\* ... whose except clauses, around the receive loop, disconnect the socket.
EndServing(s) == Ends(s) /\ Discard(s)

\* The change of t, which is under way or was its last one.
ChangeOf(t) == <<t, IF t \in Sockets THEN changes[t] ELSE 0>>

\* Change n was committed: no panel that has its list knows of it.
Commits(n) ==
    /\ behind' = behind \cup
          {<<s, n>> : s \in {x \in Sockets : /\ peer[x] = "up"
                                           /\ phase[x] \in Serving \cup {"list"}}}
    /\ UNCHANGED excused

\* The panels in the pairs know; the broadcast of change n is broken.
LearnBroken(pairs, n) ==
    /\ behind' = behind \ pairs
    /\ excused' = (excused \cup {p \in behind : p[2] = n}) \ pairs

-----------------------------------------------------------------------------
(* The iteration of broadcast.  b is the broadcast of t with the result of *)
(* the send it was waiting for and w its process; each of the three goes   *)
(* to the next await, or to the end.                                       *)

\* The clients the iterator has not returned.
Rest_Mutant(w, b) == pool[w]
Rest(w, b) == pool[w] \ b.visited

\* The next client of the set: t waits for the send to it.  The panel asks
\* for its list again when it gets the message, and so learns of everything
\* committed by now.
Advance(t, w, b) ==
    /\ b.size = Cardinality(pool[w])
    /\ \E s \in Rest(w, b) :
          cast' = [cast EXCEPT ![t] =
                     [b EXCEPT !.target = s, !.visited = @ \cup {s},
                               !.tells = {p \in behind' : p[1] = s}]]
    /\ UNCHANGED pool

\* No next client: the clients found dead are removed, broadcast returns.
Exhausted_Mutant(w, b) == b.dead # {} \/ b.changed \/ Rest(w, b) = {}
Exhausted(w, b) == b.changed \/ Rest(w, b) = {}
Cleaned_Mutant(w, b) == pool[w] \ b.visited
Cleaned(w, b) == pool[w] \ b.dead
Return(t, w, b) ==
    /\ b.size = Cardinality(pool[w])
    /\ Exhausted(w, b)
    /\ pool' = [pool EXCEPT ![w] = Cleaned(w, b)]
    /\ LET rest == [cast EXCEPT ![t] = None]
       IN  cast' = IF pool' = pool THEN rest ELSE Disturbed(w, rest)

\* The set has another size: RuntimeError, and the dead stay in the pool.
Raise(t, w, b) ==
    /\ b.size # Cardinality(pool[w])
    /\ cast' = [cast EXCEPT ![t] = None]
    /\ UNCHANGED pool

NewCast(w) == [size |-> Cardinality(pool[w]), visited |-> {}, changed |-> FALSE,
               dead |-> {}, target |-> None, tells |-> {}]

\* What t does after broadcast returned, or raised.
AfterReturn(t) == IF t \in Calls THEN "answered" ELSE "loop"
AfterRaise_Mutant(t) == "sorry"
AfterRaise(t) == IF t \in Calls THEN "failed" ELSE "sorry"

\* The send to the target ends, and the iterator is asked for the next
\* client at once.
CastSent(t) ==
    /\ phase[t] = "cast"
    /\ \E ok \in BOOLEAN :
          LET s == cast[t].target
              b == IF ok THEN cast[t] ELSE [cast[t] EXCEPT !.dead = @ \cup {s}]
              told == IF ok /\ peer[s] = "up" THEN b.tells ELSE {}
          IN  /\ IF ok THEN CanReach(s) ELSE CanRaise(s)
              /\ \/ /\ Learn(told)
                    /\ Advance(t, home[t], b)
                    /\ UNCHANGED phase
                 \/ /\ IF b.changed THEN LearnBroken(told, ChangeOf(t))
                       ELSE Learn(told)
                    /\ Return(t, home[t], b)
                    /\ Goto(t, AfterReturn(t))
                 \/ /\ LearnBroken(told, ChangeOf(t))
                    /\ Raise(t, home[t], b)
                    /\ Goto(t, AfterRaise(t))
    /\ UNCHANGED conn

-----------------------------------------------------------------------------
(* A heartbeat: _process_device commits, then the broadcast starts; the    *)
(* answer is sent when it returns.                                         *)

HeartbeatCommit(c, w) ==
    /\ phase[c] = "idle"
    /\ home' = [home EXCEPT ![c] = w]
    /\ Commits(ChangeOf(c))
    /\ \/ Advance(c, w, NewCast(w)) /\ Goto(c, "cast")
       \/ Return(c, w, NewCast(w)) /\ Goto(c, AfterReturn(c))
    /\ UNCHANGED <<peer, changes, served>>

-----------------------------------------------------------------------------
(* The handler of /ws *)

Leave(s) ==
    /\ phase[s] # "absent"
    /\ peer[s] = "up"
    /\ peer' = [peer EXCEPT ![s] = "gone"]
    /\ Learn(PairsOf(s))
    /\ UNCHANGED <<home, pool, phase, cast, changes, served>>

\* The token is checked once, here; without an active user: close(4401).
Open(s, w) ==
    /\ phase[s] = "absent"
    /\ home' = [home EXCEPT ![s] = w]
    /\ \/ Goto(s, "accept") /\ UNCHANGED <<peer, pool, cast>>
       \/ EndSetup(s)
    /\ UNCHANGED <<changes, served, behind, excused>>

Accepted(s) ==
    /\ phase[s] = "accept"
    /\ \/ /\ CanReach(s)
          /\ Add(s, home[s])
          /\ Goto(s, "greet")
          /\ UNCHANGED peer
       \/ /\ CanRaise(s)
          /\ EndSetup(s)
    /\ UNCHANGED <<home, changes, served, behind, excused>>

\* After "connected" the first list is read from the database, which may
\* raise, and sent.
Greeted(s) ==
    /\ phase[s] = "greet"
    /\ \/ /\ CanReach(s)
          /\ Goto(s, "list")
          /\ UNCHANGED <<peer, pool, cast>>
       \/ EndSetup(s)
    /\ UNCHANGED <<home, changes, served, behind, excused>>

Listed(s) ==
    /\ phase[s] = "list"
    /\ \/ /\ CanReach(s)
          /\ Goto(s, "loop")
          /\ served' = served \cup {s}
          /\ UNCHANGED <<peer, pool, cast>>
       \/ /\ CanRaise(s)
          /\ EndSetup(s)
          /\ UNCHANGED served
    /\ UNCHANGED <<home, changes, behind, excused>>

\* receive_text: get_devices reads and sends the list.
ReceiveFetch(s) ==
    /\ phase[s] = "loop"
    /\ Goto(s, "fetch")
    /\ Learn(PairsOf(s))
    /\ UNCHANGED <<conn, pool, cast>>

Fetched(s) ==
    /\ phase[s] = "fetch"
    /\ \/ CanReach(s) /\ Goto(s, "loop") /\ UNCHANGED <<peer, pool, cast>>
       \/ CanRaise(s) /\ EndServing(s)
    /\ UNCHANGED <<home, changes, served, behind, excused>>

\* update_device, delete_device, delete_devices: commit, then the reply.
ReceiveChange(s) ==
    /\ phase[s] = "loop"
    /\ changes[s] < MaxChanges
    /\ changes' = [changes EXCEPT ![s] = @ + 1]
    /\ Commits(<<s, changes[s] + 1>>)
    /\ Goto(s, "reply")
    /\ UNCHANGED <<home, peer, pool, cast, served>>

\* The change is refused: no device_id, fields that are not allowed, no such
\* device, more than 200 of them, a commit that raises.  Nothing changed, and
\* the next await is the error reply.
RefuseChange(s) ==
    /\ phase[s] = "loop"
    /\ Goto(s, "sorry")
    /\ UNCHANGED <<conn, pool, cast, behind, excused>>

\* A reply that cannot be sent ends the handler, and nothing is broadcast.
Replied(s) ==
    /\ phase[s] = "reply"
    /\ \/ /\ CanReach(s)
          /\ Learn({})
          /\ \/ Advance(s, home[s], NewCast(home[s])) /\ Goto(s, "cast")
             \/ Return(s, home[s], NewCast(home[s])) /\ Goto(s, AfterReturn(s))
          /\ UNCHANGED peer
       \/ /\ CanRaise(s)
          /\ EndServing(s)
          /\ LearnBroken({}, ChangeOf(s))
    /\ UNCHANGED <<home, changes, served>>

Apologised(s) ==
    /\ phase[s] = "sorry"
    /\ \/ CanReach(s) /\ Goto(s, "loop") /\ UNCHANGED <<peer, pool, cast>>
       \/ CanRaise(s) /\ EndServing(s)
    /\ UNCHANGED <<home, changes, served, behind, excused>>

\* WebSocketDisconnect, and every other exception of the loop: a message that
\* is not an object, a page that is not a number.
Disconnect(s) ==
    /\ phase[s] = "loop"
    /\ EndServing(s)
    /\ Learn(PairsOf(s))
    /\ UNCHANGED <<home, changes, served>>

-----------------------------------------------------------------------------

SocketStep(s) ==
    \/ Accepted(s) \/ Greeted(s) \/ Listed(s) \/ Fetched(s)
    \/ Replied(s) \/ Apologised(s) \/ CastSent(s)

Next ==
    \/ \E s \in Sockets :
          \/ SocketStep(s) \/ Leave(s) \/ ReceiveFetch(s) \/ ReceiveChange(s)
          \/ RefuseChange(s) \/ Disconnect(s)
          \/ \E w \in Workers : Open(s, w)
    \/ \E c \in Calls : CastSent(c) \/ \E w \in Workers : HeartbeatCommit(c, w)

\* A send ends: the message is taken, or the server's ping timeout closes a
\* connection that takes nothing.
Fairness ==
    /\ \A s \in Sockets : WF_vars(SocketStep(s))
    /\ \A c \in Calls : WF_vars(CastSent(c))

Spec == Init /\ [][Next]_vars
FairSpec == Spec /\ Fairness

-----------------------------------------------------------------------------
(* Properties *)

\* A panel that is there and being served is in the pool of its process: no
\* broadcast and no other panel removes it.
LivePanelsListen ==
    \A s \in Sockets :
        (peer[s] = "up" /\ phase[s] \in Serving) => s \in pool[home[s]]

\* A socket whose handler has ended is in a pool only when the handler ended
\* during the set-up: whatever way a handler leaves the receive loop, also
\* from within a broadcast of its own, it takes its socket along.
OnlySetupLeaks ==
    \A s \in Sockets :
        (phase[s] = "closed" /\ \E w \in Workers : s \in pool[w])
            => s \notin served

\* The tasks whose change is being announced.
Announcing == {t \in Tasks : phase[t] \in {"reply", "cast"}}

\* s is open and has its list.
Watching(s) == peer[s] = "up" /\ phase[s] \in Serving

\* A panel in the process of a change knows of it as soon as the task that
\* made it goes on, unless that broadcast raised, met a pool that changed
\* under it, or was given up because the reply could not be sent.  (The panels
\* of other processes are never told: every process has a pool of its own.)
ToldUnlessBroken ==
    \A p \in behind :
        (Watching(p[1]) /\ p[2][1] \notin Announcing
           /\ home[p[1]] = home[p[2][1]])
            => p \in excused

\* last_check, written by every heartbeat that commits, is the time of the
\* last successful one (web/src/docs/usage.md:41): no heartbeat that
\* committed fails.
LastCheckMeansSuccess == \A c \in Calls : phase[c] # "failed"

\* Every announcement ends and its task goes on: the device gets its answer,
\* the administrator the reply, whatever the other panels do meanwhile.
AnnouncementsEnd ==
    \A t \in Tasks : phase[t] \in {"reply", "cast", "sorry"} ~>
        phase[t] \in {"answered", "failed", "loop", "closed"}
==============================================================================
