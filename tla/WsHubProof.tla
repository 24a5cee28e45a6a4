----------------------------- MODULE WsHubProof -----------------------------
(***************************************************************************)
(* Theorems about WsHub, for any number of processes, panels, heartbeats   *)
(* and changes.                                                            *)
(***************************************************************************)
EXTENDS WsHub, FiniteSetTheorems, TLAPS

\* A task that runs has a process, and it has a broadcast while it waits for
\* a send of it.
Housed(t) == phase[t] \notin {"absent", "idle"} => home[t] \in Workers
HasCast(t) ==
    /\ phase[t] = "cast" => cast[t] # None /\ cast[t].target \in Sockets
    /\ phase[t] # "cast" => cast[t] = None

\* The pools and the broadcasts.
PoolsOK ==
    /\ pool \in [Workers -> SUBSET Sockets]
    /\ \A w \in Workers : IsFiniteSet(pool[w])
    /\ cast \in [Tasks -> Cast \cup {None}]

Shape ==
    /\ PoolsOK
    /\ \A t \in Tasks : Housed(t) /\ HasCast(t)

TypeInv == TypeOK /\ Shape

LEMMA InitTypeInv == Init => TypeInv
  BY FS_EmptySet, HubAssumption
     DEF Init, TypeInv, TypeOK, Shape, PoolsOK, Housed, HasCast, Tasks,
         SocketPhase, CallPhase

-----------------------------------------------------------------------------
(***************************************************************************)
(* What a step of one task does to the broadcasts of the others: nothing,  *)
(* but that they learn when their pool changed.                            *)
(***************************************************************************)
Goes(u) ==
    /\ cast'[u] = None <=> cast[u] = None
    /\ cast[u] # None =>
          /\ cast'[u].visited = cast[u].visited
          /\ cast'[u].dead = cast[u].dead
          /\ cast'[u].target = cast[u].target
          /\ cast'[u].tells = cast[u].tells
          /\ (cast[u].changed \/ pool'[home[u]] # pool[home[u]])
                => cast'[u].changed

LEMMA NoneIsNoCast == \A b \in Cast : b # None
  BY HubAssumption

LEMMA DisturbedIs ==
    ASSUME NEW c \in [Tasks -> Cast \cup {None}], NEW w
    PROVE  /\ Disturbed(w, c) \in [Tasks -> Cast \cup {None}]
           /\ \A u \in Tasks :
                 /\ Disturbed(w, c)[u] = None <=> c[u] = None
                 /\ c[u] # None =>
                       /\ Disturbed(w, c)[u].visited = c[u].visited
                       /\ Disturbed(w, c)[u].dead = c[u].dead
                       /\ Disturbed(w, c)[u].target = c[u].target
                       /\ Disturbed(w, c)[u].tells = c[u].tells
                       /\ (c[u].changed \/ home[u] = w) => Disturbed(w, c)[u].changed
  <1> DEFINE D == Disturbed(w, c)
             B(b) == [b EXCEPT !.changed = TRUE]
  <1>1. ASSUME NEW b \in Cast
        PROVE  /\ B(b) \in Cast /\ B(b).visited = b.visited /\ B(b).dead = b.dead
               /\ B(b).target = b.target /\ B(b).tells = b.tells /\ B(b).changed
    BY DEF Cast
  <1>2. D = [u \in Tasks |-> IF c[u] # None /\ home[u] = w THEN B(c[u]) ELSE c[u]]
    BY DEF Disturbed
  <1> HIDE DEF D, B
  <1>3. ASSUME NEW u \in Tasks
        PROVE  /\ D[u] \in Cast \cup {None}
               /\ D[u] = None <=> c[u] = None
               /\ c[u] # None =>
                     /\ D[u].visited = c[u].visited
                     /\ D[u].dead = c[u].dead
                     /\ D[u].target = c[u].target
                     /\ D[u].tells = c[u].tells
                     /\ (c[u].changed \/ home[u] = w) => D[u].changed
    <2>1. CASE c[u] # None /\ home[u] = w
      <3>1. D[u] = B(c[u]) /\ c[u] \in Cast
        BY <1>2, <2>1
      <3> QED
        BY <1>1, <2>1, <3>1, NoneIsNoCast
    <2>2. CASE ~(c[u] # None /\ home[u] = w)
      BY <1>2, <2>2
    <2> QED
      BY <2>1, <2>2
  <1>4. D \in [Tasks -> Cast \cup {None}]
    BY <1>2, <1>3
  <1> QED
    BY <1>3, <1>4 DEF D

LEMMA AddEffect ==
    ASSUME TypeInv, NEW s \in Sockets, NEW w \in Workers, Add(s, w)
    PROVE  /\ PoolsOK'
           /\ pool'[w] = pool[w] \cup {s}
           /\ \A v \in Workers \ {w} : pool'[v] = pool[v]
           /\ \A u \in Tasks : Goes(u)
  <1>1. PoolsOK
    BY DEF TypeInv, Shape
  <1>2. /\ pool' = [pool EXCEPT ![w] = @ \cup {s}]
        /\ cast' = Disturbed(w, cast)
    BY DEF Add
  <1>3. /\ pool' \in [Workers -> SUBSET Sockets]
        /\ pool'[w] = pool[w] \cup {s}
        /\ \A v \in Workers \ {w} : pool'[v] = pool[v]
    BY <1>1, <1>2 DEF PoolsOK
  <1>4. \A v \in Workers : IsFiniteSet(pool'[v])
    <2>1. IsFiniteSet(pool[w])
      BY <1>1 DEF PoolsOK
    <2>2. IsFiniteSet(pool[w] \cup {s})
      BY <2>1, FS_AddElement
    <2>3. \A v \in Workers \ {w} : IsFiniteSet(pool'[v])
      BY <1>1, <1>3 DEF PoolsOK
    <2> QED
      BY <1>3, <2>2, <2>3
  <1>5. cast' \in [Tasks -> Cast \cup {None}]
    BY <1>1, <1>2, DisturbedIs DEF PoolsOK
  <1>6. ASSUME NEW u \in Tasks PROVE Goes(u)
    <2>1. cast[u] # None => home[u] \in Workers
      BY DEF TypeInv, Shape, Housed, HasCast
    <2>2. cast[u] # None /\ home[u] # w => pool'[home[u]] = pool[home[u]]
      BY <1>3, <2>1
    <2> QED
      BY <1>1, <1>2, <2>2, DisturbedIs DEF PoolsOK, Goes
  <1> QED
    BY <1>3, <1>4, <1>5, <1>6 DEF PoolsOK

LEMMA DiscardEffect ==
    ASSUME TypeInv, NEW s \in Sockets, home[s] \in Workers, Discard(s)
    PROVE  /\ PoolsOK'
           /\ pool'[home[s]] = pool[home[s]] \ {s}
           /\ \A v \in Workers \ {home[s]} : pool'[v] = pool[v]
           /\ \A u \in Tasks : Goes(u)
  <1>1. PoolsOK
    BY DEF TypeInv, Shape
  <1> PICK w \in Workers : w = home[s]
    OBVIOUS
  <1>2. /\ pool' = [pool EXCEPT ![w] = @ \ {s}]
        /\ cast' = IF s \in pool[w] THEN Disturbed(w, cast) ELSE cast
    BY DEF Discard
  <1>3. /\ pool' \in [Workers -> SUBSET Sockets]
        /\ pool'[w] = pool[w] \ {s}
        /\ \A v \in Workers \ {w} : pool'[v] = pool[v]
    BY <1>1, <1>2 DEF PoolsOK
  <1>4. \A v \in Workers : IsFiniteSet(pool'[v])
    <2>1. IsFiniteSet(pool[w])
      BY <1>1 DEF PoolsOK
    <2>2. IsFiniteSet(pool[w] \ {s})
      BY <2>1, FS_RemoveElement
    <2>3. \A v \in Workers \ {w} : IsFiniteSet(pool'[v])
      BY <1>1, <1>3 DEF PoolsOK
    <2> QED
      BY <1>3, <2>2, <2>3
  <1>5. cast' \in [Tasks -> Cast \cup {None}]
    BY <1>1, <1>2, DisturbedIs DEF PoolsOK
  <1>6. ASSUME NEW u \in Tasks PROVE Goes(u)
    <2>1. cast[u] # None => home[u] \in Workers
      BY DEF TypeInv, Shape, Housed, HasCast
    <2>2. cast[u] # None /\ home[u] # w => pool'[home[u]] = pool[home[u]]
      BY <1>3, <2>1
    <2>3. CASE s \in pool[w]
      BY <1>1, <1>2, <2>2, <2>3, DisturbedIs DEF PoolsOK, Goes
    <2>4. CASE s \notin pool[w]
      <3>1. pool' = pool /\ cast' = cast
        BY <1>1, <1>2, <2>4 DEF PoolsOK
      <3> QED
        BY <3>1 DEF Goes
    <2> QED
      BY <2>3, <2>4
  <1> QED
    BY <1>3, <1>4, <1>5, <1>6 DEF PoolsOK

LEMMA PoolsTyped == TypeInv => PoolsOK
  BY DEF TypeInv, Shape

LEMMA KeepEffect ==
    ASSUME TypeInv, UNCHANGED <<pool, cast>>
    PROVE  PoolsOK' /\ \A u \in Tasks : Goes(u)
  BY DEF TypeInv, Shape, PoolsOK, Goes

LEMMA AdvanceEffect ==
    ASSUME TypeInv, NEW t \in Tasks, NEW w \in Workers, NEW b \in Cast,
           behind' \subseteq Sockets \X Change, Advance(t, w, b)
    PROVE  /\ PoolsOK' /\ pool' = pool
           /\ \A u \in Tasks \ {t} : Goes(u)
           /\ cast'[t] # None /\ cast'[t] \in Cast
           /\ cast'[t].target \in pool[w] \ b.visited
           /\ cast'[t].visited = b.visited \cup {cast'[t].target}
           /\ cast'[t].dead = b.dead /\ cast'[t].changed = b.changed
           /\ cast'[t].tells = {p \in behind' : p[1] = cast'[t].target}
  <1>1. PoolsOK
    BY PoolsTyped, Zenon
  <1> DEFINE told(s) == {p \in behind' : p[1] = s}
             next(s) == [b EXCEPT !.target = s, !.visited = @ \cup {s}, !.tells = told(s)]
  <1>2. PICK s \in pool[w] \ b.visited : cast' = [cast EXCEPT ![t] = next(s)]
    BY Zenon DEF Advance, Rest
  <1>3. pool' = pool
    BY DEF Advance
  <1>4. told(s) \in SUBSET (Sockets \X Change) /\ s \in Sockets
    BY <1>1 DEF PoolsOK
  <1> HIDE DEF told
  <1>5. /\ next(s) \in Cast /\ next(s).target = s
        /\ next(s).visited = b.visited \cup {s}
        /\ next(s).dead = b.dead /\ next(s).changed = b.changed
        /\ next(s).tells = told(s)
    BY <1>4 DEF Cast
  <1> HIDE DEF next
  <1>6. /\ cast'[t] = next(s) /\ cast' \in [Tasks -> Cast \cup {None}]
        /\ \A u \in Tasks \ {t} : cast'[u] = cast[u]
    BY <1>1, <1>2, <1>5 DEF PoolsOK
  <1>7. PoolsOK'
    BY <1>1, <1>3, <1>6 DEF PoolsOK
  <1>8. \A u \in Tasks \ {t} : Goes(u)
    BY <1>3, <1>6 DEF Goes
  <1>9. cast'[t] # None
    BY <1>5, <1>6, NoneIsNoCast
  <1> QED
    BY <1>2, <1>3, <1>5, <1>6, <1>7, <1>8, <1>9 DEF told

LEMMA ReturnEffect ==
    ASSUME TypeInv, NEW t \in Tasks, NEW w \in Workers, NEW b \in Cast,
           Return(t, w, b)
    PROVE  /\ PoolsOK'
           /\ pool'[w] = pool[w] \ b.dead
           /\ \A v \in Workers \ {w} : pool'[v] = pool[v]
           /\ \A u \in Tasks \ {t} : Goes(u)
           /\ cast'[t] = None
           /\ b.changed \/ pool[w] \subseteq b.visited
  <1>1. PoolsOK
    BY PoolsTyped, Zenon
  <1> DEFINE rest == [cast EXCEPT ![t] = None]
  <1>2. /\ pool' = [pool EXCEPT ![w] = pool[w] \ b.dead]
        /\ cast' = IF pool' = pool THEN rest ELSE Disturbed(w, rest)
        /\ b.changed \/ pool[w] \subseteq b.visited
    BY DEF Return, Cleaned, Exhausted, Rest
  <1>3. /\ rest \in [Tasks -> Cast \cup {None}] /\ rest[t] = None
        /\ \A u \in Tasks \ {t} : rest[u] = cast[u]
    BY <1>1 DEF PoolsOK
  <1> HIDE DEF rest
  <1>4. /\ pool' \in [Workers -> SUBSET Sockets]
        /\ pool'[w] = pool[w] \ b.dead
        /\ \A v \in Workers \ {w} : pool'[v] = pool[v]
    BY <1>1, <1>2 DEF PoolsOK
  <1>5. \A v \in Workers : IsFiniteSet(pool'[v])
    <2>1. IsFiniteSet(pool[w])
      BY <1>1 DEF PoolsOK
    <2>2. IsFiniteSet(pool[w] \ b.dead)
      BY <2>1, FS_Difference
    <2>3. \A v \in Workers \ {w} : IsFiniteSet(pool'[v])
      BY <1>1, <1>4 DEF PoolsOK
    <2> QED
      BY <1>4, <2>2, <2>3
  <1>6. cast' \in [Tasks -> Cast \cup {None}] /\ cast'[t] = None
    BY <1>2, <1>3, DisturbedIs
  <1>7. ASSUME NEW u \in Tasks \ {t} PROVE Goes(u)
    <2>1. cast[u] # None => home[u] \in Workers
      BY DEF TypeInv, Shape, Housed, HasCast
    <2>2. cast[u] # None /\ home[u] # w => pool'[home[u]] = pool[home[u]]
      BY <1>4, <2>1
    <2>3. CASE pool' = pool
      BY <1>2, <1>3, <2>3 DEF Goes
    <2>4. CASE pool' # pool
      <3>1. cast' = Disturbed(w, rest)
        BY <1>2, <2>4
      <3> QED
        BY <1>3, <2>2, <3>1, DisturbedIs DEF Goes
    <2> QED
      BY <2>3, <2>4
  <1> QED
    BY <1>2, <1>4, <1>5, <1>6, <1>7 DEF PoolsOK

LEMMA RaiseEffect ==
    ASSUME TypeInv, NEW t \in Tasks, NEW w \in Workers, NEW b, Raise(t, w, b)
    PROVE  /\ PoolsOK' /\ pool' = pool /\ cast'[t] = None
           /\ \A u \in Tasks \ {t} : Goes(u)
  <1>1. PoolsOK
    BY PoolsTyped, Zenon
  <1>2. /\ pool' = pool /\ cast' \in [Tasks -> Cast \cup {None}]
        /\ cast'[t] = None /\ \A u \in Tasks \ {t} : cast'[u] = cast[u]
    BY <1>1 DEF Raise, PoolsOK
  <1> QED
    BY <1>1, <1>2 DEF PoolsOK, Goes

-----------------------------------------------------------------------------
(***************************************************************************)
(* Types.                                                                  *)
(***************************************************************************)
PhasesOf(t) == IF t \in Sockets THEN SocketPhase ELSE CallPhase

\* A step of t: nothing else changes of the other tasks.
Alone(t) ==
    /\ phase' = [phase EXCEPT ![t] = phase'[t]]
    /\ home' = [home EXCEPT ![t] = home'[t]]
    /\ \A s \in Sockets \ {t} : peer'[s] = peer[s] /\ changes'[s] = changes[s]
    /\ \A u \in Tasks \ {t} : Goes(u)

LEMMA TypeAssembly ==
    ASSUME TypeInv, NEW t \in Tasks, Alone(t), PoolsOK',
           phase'[t] \in PhasesOf(t), home'[t] \in Workers \cup {None},
           peer' \in [Sockets -> {"up", "gone"}],
           changes' \in [Sockets -> 0..MaxChanges], served' \subseteq Sockets,
           excused' \subseteq behind', behind' \subseteq Sockets \X Change,
           Housed(t)', HasCast(t)'
    PROVE  TypeInv'
  <1>1. /\ home' \in [Tasks -> Workers \cup {None}]
        /\ phase' \in [Tasks -> SocketPhase \cup CallPhase]
        /\ \A s \in Sockets : phase'[s] \in SocketPhase
        /\ \A c \in Calls : phase'[c] \in CallPhase
    BY HubAssumption DEF TypeInv, TypeOK, Alone, PhasesOf, Tasks
  <1>2. TypeOK'
    BY <1>1 DEF TypeOK, PoolsOK
  <1>3. ASSUME NEW u \in Tasks \ {t} PROVE Housed(u)' /\ HasCast(u)'
    <2>1. phase'[u] = phase[u] /\ home'[u] = home[u]
      BY DEF Alone, TypeInv, TypeOK
    <2>2. Goes(u) /\ Housed(u) /\ HasCast(u)
      BY DEF Alone, TypeInv, Shape
    <2> QED
      BY <2>1, <2>2 DEF Goes, Housed, HasCast
  <1> QED
    BY <1>2, <1>3 DEF TypeInv, Shape

\* The histories keep their types.
LEMMA HistoryTyped ==
    ASSUME TypeInv, NEW t \in Tasks, NEW pairs, NEW n
    PROVE  /\ Learn(pairs) \/ LearnBroken(pairs, n) \/ UNCHANGED <<behind, excused>>
                => excused' \subseteq behind' /\ behind' \subseteq Sockets \X Change
           /\ n \in Change /\ Commits(n)
                => excused' \subseteq behind' /\ behind' \subseteq Sockets \X Change
  <1> USE DEF TypeInv, TypeOK
  <1>1. Learn(pairs) \/ LearnBroken(pairs, n) \/ UNCHANGED <<behind, excused>>
           => excused' \subseteq behind' /\ behind' \subseteq Sockets \X Change
    BY DEF Learn, LearnBroken
  <1>2. n \in Change /\ Commits(n)
           => excused' \subseteq behind' /\ behind' \subseteq Sockets \X Change
    BY DEF Commits
  <1> QED
    BY <1>1, <1>2

LEMMA ChangeTyped ==
    ASSUME TypeInv, NEW t \in Tasks
    PROVE  ChangeOf(t) \in Change
  BY HubAssumption DEF TypeInv, TypeOK, ChangeOf, Change

\* A task that is at an await has a process.
LEMMA HomeOf ==
    ASSUME TypeInv, NEW t \in Tasks, phase[t] \notin {"absent", "idle"}
    PROVE  home[t] \in Workers
  BY DEF TypeInv, Shape, Housed

LEMMA SocketsAreTasks == Sockets \subseteq Tasks /\ Calls \subseteq Tasks
  BY DEF Tasks


\* The ways a handler ends.
LEMMA EndSetupEffect ==
    ASSUME TypeInv, NEW s \in Sockets, EndSetup(s)
    PROVE  /\ phase' = [phase EXCEPT ![s] = "closed"] /\ phase'[s] = "closed"
           /\ peer' \in [Sockets -> {"up", "gone"}] /\ peer'[s] = "gone"
           /\ \A u \in Sockets \ {s} : peer'[u] = peer[u]
           /\ PoolsOK' /\ \A u \in Tasks : Goes(u)
           /\ UNCHANGED <<pool, cast>>
  <1>1. /\ phase' = [phase EXCEPT ![s] = "closed"]
        /\ peer' = [peer EXCEPT ![s] = "gone"]
        /\ UNCHANGED <<pool, cast>>
    BY DEF EndSetup, Ends, Goto
  <1>2. phase \in [Tasks -> SocketPhase \cup CallPhase] /\ s \in Tasks
        /\ peer \in [Sockets -> {"up", "gone"}]
    BY SocketsAreTasks DEF TypeInv, TypeOK
  <1> QED
    BY <1>1, <1>2, KeepEffect

LEMMA EndServingEffect ==
    ASSUME TypeInv, NEW s \in Sockets, phase[s] \notin {"absent", "idle"},
           EndServing(s)
    PROVE  /\ phase' = [phase EXCEPT ![s] = "closed"] /\ phase'[s] = "closed"
           /\ peer' \in [Sockets -> {"up", "gone"}] /\ peer'[s] = "gone"
           /\ \A u \in Sockets \ {s} : peer'[u] = peer[u]
           /\ PoolsOK' /\ \A u \in Tasks : Goes(u)
           /\ pool'[home[s]] = pool[home[s]] \ {s}
           /\ \A v \in Workers \ {home[s]} : pool'[v] = pool[v]
  <1>1. /\ phase' = [phase EXCEPT ![s] = "closed"]
        /\ peer' = [peer EXCEPT ![s] = "gone"]
        /\ Discard(s)
    BY DEF EndServing, Ends, Goto
  <1>2. phase \in [Tasks -> SocketPhase \cup CallPhase] /\ s \in Tasks
        /\ peer \in [Sockets -> {"up", "gone"}]
    BY SocketsAreTasks DEF TypeInv, TypeOK
  <1>3. home[s] \in Workers
    BY <1>2, HomeOf
  <1>4. /\ PoolsOK' /\ \A u \in Tasks : Goes(u)
        /\ pool'[home[s]] = pool[home[s]] \ {s}
        /\ \A v \in Workers \ {home[s]} : pool'[v] = pool[v]
    BY <1>1, <1>3, DiscardEffect
  <1> QED
    BY <1>1, <1>2, <1>4

\* The broadcast of t at the end of the send it was waiting for.
After(t, ok) ==
    IF ok THEN cast[t] ELSE [cast[t] EXCEPT !.dead = @ \cup {cast[t].target}]

LEMMA AfterIs ==
    ASSUME TypeInv, NEW t \in Tasks, phase[t] = "cast", NEW ok \in BOOLEAN
    PROVE  /\ cast[t] \in Cast /\ cast[t].target \in Sockets
           /\ After(t, ok) \in Cast
           /\ After(t, ok).visited = cast[t].visited
           /\ After(t, ok).changed = cast[t].changed
           /\ After(t, ok).tells = cast[t].tells
           /\ After(t, ok).dead
                = IF ok THEN cast[t].dead ELSE cast[t].dead \cup {cast[t].target}
  <1>1. cast[t] \in Cast /\ cast[t].target \in Sockets
    BY DEF TypeInv, TypeOK, Shape, HasCast
  <1> QED
    BY <1>1 DEF After, Cast

LEMMA NewCastTyped ==
    ASSUME TypeInv, NEW w \in Workers
    PROVE  NewCast(w) \in Cast
  <1>1. Cardinality(pool[w]) \in Nat
    BY FS_CardinalityType DEF TypeInv, Shape, PoolsOK
  <1> QED
    BY <1>1 DEF NewCast, Cast

\* The steps of one task.
HandlerStep(s) ==
    \/ SocketStep(s) \/ Leave(s) \/ ReceiveFetch(s) \/ ReceiveChange(s)
    \/ RefuseChange(s) \/ Disconnect(s)
    \/ \E w \in Workers : Open(s, w)
CallStep(c) == CastSent(c) \/ \E w \in Workers : HeartbeatCommit(c, w)

LEMMA NextSplit ==
    ASSUME [Next]_vars
    PROVE  \/ UNCHANGED vars
           \/ \E s \in Sockets : HandlerStep(s)
           \/ \E c \in Calls : CallStep(c)
  BY DEF Next, HandlerStep, CallStep

\* A step that leaves the pools alone, or ends the handler.
LEMMA HandlerTypes ==
    ASSUME TypeInv, NEW s \in Sockets, phase[s] # "cast",
           phase' = [phase EXCEPT ![s] = phase'[s]],
           home' = [home EXCEPT ![s] = home'[s]], home'[s] \in Workers,
           peer' \in [Sockets -> {"up", "gone"}],
           \A u \in Sockets \ {s} : peer'[u] = peer[u] /\ changes'[u] = changes[u],
           changes' \in [Sockets -> 0..MaxChanges], served' \subseteq Sockets,
           excused' \subseteq behind', behind' \subseteq Sockets \X Change,
           phase'[s] \in SocketPhase \ {"cast"},
           PoolsOK', \A u \in Tasks : Goes(u)
    PROVE  Alone(s) /\ TypeInv'
  <1>1. Alone(s) /\ s \in Tasks
    BY SocketsAreTasks DEF Alone
  <1>2. cast'[s] = None
    BY <1>1 DEF TypeInv, Shape, HasCast, Goes
  <1>3. Housed(s)' /\ HasCast(s)'
    BY <1>2 DEF Housed, HasCast
  <1> QED
    BY <1>1, <1>3, TypeAssembly DEF PhasesOf

LEMMA HandlerTypeInv ==
    ASSUME TypeInv, NEW s \in Sockets, HandlerStep(s), ~CastSent(s),
           ~(Replied(s) /\ phase'[s] # "closed")
    PROVE  Alone(s) /\ TypeInv'
  <1> DEFINE Same == /\ changes' = changes /\ served' = served
             Typed == /\ phase \in [Tasks -> SocketPhase \cup CallPhase]
                      /\ home \in [Tasks -> Workers \cup {None}]
                      /\ peer \in [Sockets -> {"up", "gone"}]
                      /\ changes \in [Sockets -> 0..MaxChanges]
                      /\ served \subseteq Sockets /\ s \in Tasks
                      /\ phase[s] \in SocketPhase
             Histories == /\ excused' \subseteq behind'
                          /\ behind' \subseteq Sockets \X Change
  <1>1. Typed
    BY SocketsAreTasks DEF TypeInv, TypeOK
  <1>2. phase[s] # "absent" => home[s] \in Workers
    BY <1>1, HomeOf DEF SocketPhase
  <1>3. phase[s] # "absent" /\ home' = home
          => home' = [home EXCEPT ![s] = home'[s]] /\ home'[s] \in Workers
    BY <1>1, <1>2
  <1>4. ASSUME NEW pairs, NEW n,
               Learn(pairs) \/ LearnBroken(pairs, n) \/ UNCHANGED <<behind, excused>>
        PROVE  Histories
    BY <1>4, HistoryTyped, SocketsAreTasks
  <1>5. UNCHANGED <<behind, excused>> => Histories
    BY DEF TypeInv, TypeOK
  <1> USE DEF SocketPhase
  <1>6. CASE Leave(s)
    <2>1. /\ phase' = phase /\ home' = home /\ UNCHANGED <<pool, cast>>
          /\ phase[s] # "absent" /\ Same
          /\ peer' = [peer EXCEPT ![s] = "gone"]
      BY <1>6 DEF Leave
    <2>2. PoolsOK' /\ \A u \in Tasks : Goes(u)
      BY <2>1, KeepEffect
    <2>3. Histories
      BY <1>4, <1>6 DEF Leave
    <2>4. Alone(s)
      BY <1>1, <2>1, <2>2 DEF Alone
    <2>5. Housed(s)' /\ HasCast(s)'
      BY <1>1, <2>1 DEF TypeInv, Shape, Housed, HasCast
    <2> QED
      BY <1>1, <1>3, <2>1, <2>2, <2>3, <2>4, <2>5, TypeAssembly DEF PhasesOf
  <1>7. ASSUME NEW w \in Workers, Open(s, w) PROVE Alone(s) /\ TypeInv'
    <2>1. /\ phase[s] = "absent" /\ home' = [home EXCEPT ![s] = w] /\ Same
          /\ UNCHANGED <<behind, excused>>
      BY <1>7 DEF Open
    <2>2. home'[s] = w /\ Histories
      BY <1>1, <1>5, <2>1
    <2>3. CASE Goto(s, "accept") /\ UNCHANGED <<peer, pool, cast>>
      <3>1. PoolsOK' /\ \A u \in Tasks : Goes(u)
        BY <2>3, KeepEffect
      <3> QED
        BY <1>1, <2>1, <2>2, <2>3, <3>1, HandlerTypes DEF Goto
    <2>4. CASE EndSetup(s)
      BY <1>1, <2>1, <2>2, <2>4, EndSetupEffect, HandlerTypes
    <2> QED
      BY <1>7, <2>3, <2>4 DEF Open
  <1>8. CASE Accepted(s)
    <2>1. /\ phase[s] = "accept" /\ home' = home /\ Same
          /\ UNCHANGED <<behind, excused>>
      BY <1>8 DEF Accepted
    <2>2. CASE Add(s, home[s]) /\ Goto(s, "greet") /\ UNCHANGED peer
      <3>1. PoolsOK' /\ \A u \in Tasks : Goes(u)
        BY <1>2, <2>1, <2>2, AddEffect
      <3> QED
        BY <1>1, <1>3, <1>5, <2>1, <2>2, <3>1, HandlerTypes DEF Goto
    <2>3. CASE EndSetup(s)
      BY <1>1, <1>3, <1>5, <2>1, <2>3, EndSetupEffect, HandlerTypes
    <2> QED
      BY <1>8, <2>2, <2>3 DEF Accepted
  <1>9. CASE Greeted(s) \/ Listed(s)
    <2>1. /\ phase[s] \in {"greet", "list"} /\ home' = home
          /\ changes' = changes /\ served' \subseteq Sockets
          /\ UNCHANGED <<behind, excused>>
      BY <1>1, <1>9 DEF Greeted, Listed
    <2>2. CASE /\ Goto(s, "list") \/ Goto(s, "loop")
               /\ UNCHANGED <<peer, pool, cast>>
      <3>1. PoolsOK' /\ \A u \in Tasks : Goes(u)
        BY <2>2, KeepEffect
      <3> QED
        BY <1>1, <1>3, <1>5, <2>1, <2>2, <3>1, HandlerTypes DEF Goto
    <2>3. CASE EndSetup(s)
      BY <1>1, <1>3, <1>5, <2>1, <2>3, EndSetupEffect, HandlerTypes
    <2> QED
      BY <1>9, <2>2, <2>3 DEF Greeted, Listed
  <1>10. CASE Fetched(s) \/ Apologised(s)
    <2>1. /\ phase[s] \in {"fetch", "sorry"} /\ home' = home /\ Same
          /\ UNCHANGED <<behind, excused>>
      BY <1>10 DEF Fetched, Apologised
    <2>2. CASE Goto(s, "loop") /\ UNCHANGED <<peer, pool, cast>>
      <3>1. PoolsOK' /\ \A u \in Tasks : Goes(u)
        BY <2>2, KeepEffect
      <3> QED
        BY <1>1, <1>3, <1>5, <2>1, <2>2, <3>1, HandlerTypes DEF Goto
    <2>3. CASE EndServing(s)
      BY <1>1, <1>3, <1>5, <2>1, <2>3, EndServingEffect, HandlerTypes
    <2> QED
      BY <1>10, <2>2, <2>3 DEF Fetched, Apologised
  <1>11. CASE ReceiveFetch(s)
    <2>1. /\ phase[s] = "loop" /\ home' = home /\ Same /\ Goto(s, "fetch")
          /\ UNCHANGED <<peer, pool, cast>> /\ Learn(PairsOf(s))
      BY <1>11 DEF ReceiveFetch, conn
    <2>2. PoolsOK' /\ \A u \in Tasks : Goes(u)
      BY <2>1, KeepEffect
    <2> QED
      BY <1>1, <1>3, <1>4, <2>1, <2>2, HandlerTypes DEF Goto
  <1>12. CASE ReceiveChange(s)
    <2> DEFINE k == changes[s] + 1
    <2>1. /\ phase[s] = "loop" /\ home' = home /\ served' = served
          /\ Goto(s, "reply") /\ UNCHANGED <<peer, pool, cast>>
          /\ changes[s] < MaxChanges /\ changes' = [changes EXCEPT ![s] = k]
          /\ Commits(<<s, k>>)
      BY <1>12 DEF ReceiveChange
    <2>2. k \in 0..MaxChanges
      BY <1>1, <2>1, HubAssumption
    <2>3. changes' \in [Sockets -> 0..MaxChanges]
          /\ \A u \in Sockets \ {s} : changes'[u] = changes[u]
      BY <1>1, <2>1, <2>2
    <2>4. <<s, k>> \in Change
      BY <1>1, <2>2 DEF Change
    <2>5. Histories
      BY <2>1, <2>4, HistoryTyped, SocketsAreTasks
    <2>6. PoolsOK' /\ \A u \in Tasks : Goes(u)
      BY <2>1, KeepEffect
    <2> HIDE DEF k
    <2> QED
      BY <1>1, <1>3, <2>1, <2>3, <2>5, <2>6, HandlerTypes DEF Goto
  <1>13. CASE Replied(s)
    <2>1. phase[s] = "reply" /\ home' = home /\ Same
      BY <1>13 DEF Replied
    <2>2. EndServing(s) /\ LearnBroken({}, ChangeOf(s))
      BY <1>1, <1>13, <2>1 DEF Replied, Goto, AfterReturn
    <2> QED
      BY <1>1, <1>3, <1>4, <2>1, <2>2, EndServingEffect, HandlerTypes
  <1>14. CASE Disconnect(s)
    <2>1. /\ phase[s] = "loop" /\ home' = home /\ Same /\ EndServing(s)
          /\ Learn(PairsOf(s))
      BY <1>14 DEF Disconnect
    <2> QED
      BY <1>1, <1>3, <1>4, <2>1, EndServingEffect, HandlerTypes
  <1>15. CASE RefuseChange(s)
    <2>1. /\ phase[s] = "loop" /\ home' = home /\ Same /\ Goto(s, "sorry")
          /\ UNCHANGED <<peer, pool, cast, behind, excused>>
      BY <1>15 DEF RefuseChange, conn
    <2>2. PoolsOK' /\ \A u \in Tasks : Goes(u)
      BY <2>1, KeepEffect
    <2> QED
      BY <1>1, <1>3, <1>5, <2>1, <2>2, HandlerTypes DEF Goto
  <1> QED
    BY <1>6, <1>7, <1>8, <1>9, <1>10, <1>11, <1>12, <1>13, <1>14, <1>15
       DEF HandlerStep, SocketStep

\* Broadcast b of t, at process w, goes to its next await or to its end.
Iterates(t, w, b) ==
    \/ Advance(t, w, b) /\ phase'[t] = "cast"
    \/ Return(t, w, b) /\ phase'[t] = AfterReturn(t)
    \/ Raise(t, w, b) /\ phase'[t] = AfterRaise(t)

LEMMA CastTypes ==
    ASSUME TypeInv, NEW t \in Tasks, NEW w \in Workers, NEW b \in Cast,
           Iterates(t, w, b),
           phase' = [phase EXCEPT ![t] = phase'[t]],
           home' = [home EXCEPT ![t] = w], UNCHANGED <<peer, changes, served>>,
           excused' \subseteq behind', behind' \subseteq Sockets \X Change
    PROVE  Alone(t) /\ TypeInv'
  <1>1. /\ PoolsOK' /\ \A u \in Tasks \ {t} : Goes(u)
        /\ phase'[t] = "cast" => cast'[t] # None /\ cast'[t].target \in Sockets
        /\ phase'[t] # "cast" => cast'[t] = None
        /\ phase'[t] \in PhasesOf(t)
    <2>1. CASE Advance(t, w, b) /\ phase'[t] = "cast"
      <3>1. pool[w] \subseteq Sockets
        BY DEF TypeInv, TypeOK
      <3>2. PoolsOK' /\ (\A u \in Tasks \ {t} : Goes(u))
            /\ cast'[t] # None /\ cast'[t].target \in pool[w]
        BY <2>1, AdvanceEffect
      <3> QED
        BY <2>1, <3>1, <3>2 DEF PhasesOf, SocketPhase, CallPhase
    <2>2. CASE Return(t, w, b) /\ phase'[t] = AfterReturn(t)
      <3>1. PoolsOK' /\ (\A u \in Tasks \ {t} : Goes(u)) /\ cast'[t] = None
        BY <2>2, ReturnEffect
      <3> QED
        BY <2>2, <3>1, HubAssumption
           DEF AfterReturn, PhasesOf, SocketPhase, CallPhase, Tasks
    <2>3. CASE Raise(t, w, b) /\ phase'[t] = AfterRaise(t)
      <3>1. PoolsOK' /\ (\A u \in Tasks \ {t} : Goes(u)) /\ cast'[t] = None
        BY <2>3, RaiseEffect
      <3> QED
        BY <2>3, <3>1, HubAssumption
           DEF AfterRaise, PhasesOf, SocketPhase, CallPhase, Tasks
    <2> QED
      BY <2>1, <2>2, <2>3 DEF Iterates
  <1>2. home'[t] = w
    BY DEF TypeInv, TypeOK
  <1>3. Housed(t)' /\ HasCast(t)'
    BY <1>1, <1>2 DEF Housed, HasCast
  <1>4. Alone(t)
    BY <1>1, <1>2 DEF Alone
  <1>5. /\ peer' \in [Sockets -> {"up", "gone"}]
        /\ changes' \in [Sockets -> 0..MaxChanges] /\ served' \subseteq Sockets
    BY DEF TypeInv, TypeOK
  <1> QED
    BY <1>1, <1>2, <1>3, <1>4, <1>5, TypeAssembly


\* The send that t was waiting for ends: what the target knows now, and the
\* three ways on.
Told(t, ok) ==
    IF ok /\ peer[cast[t].target] = "up" THEN After(t, ok).tells ELSE {}
SentOn(t, ok) ==
    /\ Learn(Told(t, ok)) /\ Advance(t, home[t], After(t, ok))
    /\ phase'[t] = "cast"
SentLast(t, ok) ==
    /\ IF After(t, ok).changed THEN LearnBroken(Told(t, ok), ChangeOf(t))
       ELSE Learn(Told(t, ok))
    /\ Return(t, home[t], After(t, ok)) /\ phase'[t] = AfterReturn(t)
SentBroken(t, ok) ==
    /\ LearnBroken(Told(t, ok), ChangeOf(t)) /\ Raise(t, home[t], After(t, ok))
    /\ phase'[t] = AfterRaise(t)

LEMMA CastSentIs ==
    ASSUME TypeInv, NEW t \in Tasks, CastSent(t)
    PROVE  /\ phase[t] = "cast" /\ UNCHANGED conn
           /\ phase' = [phase EXCEPT ![t] = phase'[t]]
           /\ \E ok \in BOOLEAN :
                 /\ ~ok => peer[cast[t].target] = "gone"
                 /\ SentOn(t, ok) \/ SentLast(t, ok) \/ SentBroken(t, ok)
  <1>1. phase[t] = "cast" /\ UNCHANGED conn
    BY DEF CastSent
  <1>2. phase \in [Tasks -> SocketPhase \cup CallPhase]
    BY DEF TypeInv, TypeOK
  <1>3. PICK ok \in BOOLEAN :
          /\ IF ok THEN CanReach(cast[t].target) ELSE CanRaise(cast[t].target)
          /\ \/ /\ Learn(Told(t, ok))
                /\ Advance(t, home[t], After(t, ok))
                /\ UNCHANGED phase
             \/ /\ IF After(t, ok).changed THEN LearnBroken(Told(t, ok), ChangeOf(t))
                   ELSE Learn(Told(t, ok))
                /\ Return(t, home[t], After(t, ok))
                /\ Goto(t, AfterReturn(t))
             \/ /\ LearnBroken(Told(t, ok), ChangeOf(t))
                /\ Raise(t, home[t], After(t, ok))
                /\ Goto(t, AfterRaise(t))
    BY Zenon DEF CastSent, Told, After
  <1>4. /\ phase' = [phase EXCEPT ![t] = phase'[t]]
        /\ SentOn(t, ok) \/ SentLast(t, ok) \/ SentBroken(t, ok)
    BY <1>1, <1>2, <1>3 DEF Goto, SentOn, SentLast, SentBroken
  <1>5. ~ok => peer[cast[t].target] = "gone"
    BY <1>3 DEF CanRaise
  <1> QED
    BY <1>1, <1>4, <1>5

LEMMA CastSentTypeInv ==
    ASSUME TypeInv, NEW t \in Tasks, CastSent(t)
    PROVE  Alone(t) /\ TypeInv'
  <1>1. /\ phase[t] = "cast" /\ UNCHANGED conn
        /\ phase' = [phase EXCEPT ![t] = phase'[t]]
    BY CastSentIs
  <1>2. PICK ok \in BOOLEAN : SentOn(t, ok) \/ SentLast(t, ok) \/ SentBroken(t, ok)
    BY CastSentIs
  <1>3. home[t] \in Workers /\ home' = [home EXCEPT ![t] = home[t]]
        /\ UNCHANGED <<peer, changes, served>>
    BY <1>1, HomeOf DEF conn, TypeInv, TypeOK
  <1>4. After(t, ok) \in Cast
    BY <1>1, AfterIs
  <1>5. excused' \subseteq behind' /\ behind' \subseteq Sockets \X Change
    BY <1>2, HistoryTyped DEF SentOn, SentLast, SentBroken
  <1>6. Iterates(t, home[t], After(t, ok))
    BY <1>2 DEF SentOn, SentLast, SentBroken, Iterates
  <1> QED
    BY <1>1, <1>3, <1>4, <1>5, <1>6, CastTypes

\* The first step of a broadcast.
LEMMA RepliedIs ==
    ASSUME TypeInv, NEW s \in Sockets, Replied(s), phase'[s] # "closed"
    PROVE  /\ phase[s] = "reply" /\ UNCHANGED <<home, peer, changes, served>>
           /\ phase' = [phase EXCEPT ![s] = phase'[s]]
           /\ Learn({})
           /\ \/ Advance(s, home[s], NewCast(home[s])) /\ phase'[s] = "cast"
              \/ Return(s, home[s], NewCast(home[s])) /\ phase'[s] = AfterReturn(s)
  <1>1. phase \in [Tasks -> SocketPhase \cup CallPhase] /\ s \in Tasks
    BY SocketsAreTasks DEF TypeInv, TypeOK
  <1>2. ~EndServing(s)
    BY <1>1 DEF EndServing, Ends, Goto
  <1> QED
    BY <1>1, <1>2 DEF Replied, Goto

LEMMA RepliedTypeInv ==
    ASSUME TypeInv, NEW s \in Sockets, Replied(s), phase'[s] # "closed"
    PROVE  Alone(s) /\ TypeInv'
  <1>1. s \in Tasks /\ home[s] \in Workers /\ home' = [home EXCEPT ![s] = home[s]]
    BY RepliedIs, HomeOf, SocketsAreTasks DEF TypeInv, TypeOK
  <1>2. excused' \subseteq behind' /\ behind' \subseteq Sockets \X Change
    BY <1>1, RepliedIs, HistoryTyped
  <1>3. Iterates(s, home[s], NewCast(home[s]))
    BY RepliedIs DEF Iterates
  <1> QED
    BY <1>1, <1>2, <1>3, RepliedIs, NewCastTyped, CastTypes

LEMMA HeartbeatIs ==
    ASSUME TypeInv, NEW c \in Calls, NEW w \in Workers, HeartbeatCommit(c, w)
    PROVE  /\ phase[c] = "idle" /\ UNCHANGED <<peer, changes, served>>
           /\ home' = [home EXCEPT ![c] = w]
           /\ phase' = [phase EXCEPT ![c] = phase'[c]]
           /\ Commits(ChangeOf(c))
           /\ \/ Advance(c, w, NewCast(w)) /\ phase'[c] = "cast"
              \/ Return(c, w, NewCast(w)) /\ phase'[c] = AfterReturn(c)
  <1>1. phase \in [Tasks -> SocketPhase \cup CallPhase] /\ c \in Tasks
    BY SocketsAreTasks DEF TypeInv, TypeOK
  <1> QED
    BY <1>1 DEF HeartbeatCommit, Goto

LEMMA HeartbeatTypeInv ==
    ASSUME TypeInv, NEW c \in Calls, NEW w \in Workers, HeartbeatCommit(c, w)
    PROVE  Alone(c) /\ TypeInv'
  <1>1. c \in Tasks
    BY SocketsAreTasks
  <1>2. excused' \subseteq behind' /\ behind' \subseteq Sockets \X Change
    BY <1>1, HeartbeatIs, HistoryTyped, ChangeTyped
  <1>3. Iterates(c, w, NewCast(w))
    BY HeartbeatIs DEF Iterates
  <1> QED
    BY <1>1, <1>2, <1>3, HeartbeatIs, NewCastTyped, CastTypes

LEMMA HandlerAlone ==
    ASSUME TypeInv, NEW s \in Sockets, HandlerStep(s)
    PROVE  s \in Tasks /\ Alone(s) /\ TypeInv'
  BY HandlerTypeInv, CastSentTypeInv, RepliedTypeInv, SocketsAreTasks

LEMMA CallAlone ==
    ASSUME TypeInv, NEW c \in Calls, CallStep(c)
    PROVE  c \in Tasks /\ Alone(c) /\ TypeInv'
  BY CastSentTypeInv, HeartbeatTypeInv, SocketsAreTasks DEF CallStep

LEMMA NextTypeInv == TypeInv /\ [Next]_vars => TypeInv'
  <1>1. TypeInv /\ UNCHANGED vars => TypeInv'
    BY DEF vars, TypeInv, TypeOK, Shape, PoolsOK, Housed, HasCast
  <1> QED
    BY <1>1, NextSplit, HandlerAlone, CallAlone

\* The types hold for any number of processes, panels and heartbeats: a task
\* that runs has a process, and one that waits for a send of its broadcast
\* has one.
THEOREM HubTypeCorrect == Spec => []TypeOK
  <1>1. TypeInv => TypeOK
    BY DEF TypeInv
  <1> QED
    BY InitTypeInv, NextTypeInv, <1>1, PTL DEF Spec

-----------------------------------------------------------------------------
(***************************************************************************)
(* Who is in a pool.  A socket is in the pool of its process from accept   *)
(* to the end of its handler, unless a broadcast found it dead; only       *)
(* sockets without a browser are found dead.                               *)
(***************************************************************************)
Joined == {"greet", "list"} \cup Serving

AtHome ==
    \A s \in Sockets, w \in Workers :
        s \in pool[w] => w = home[s] /\ phase[s] \notin {"absent", "accept"}
Listening ==
    \A s \in Sockets :
        (peer[s] = "up" /\ phase[s] \in Joined) => s \in pool[home[s]]
DeadAreGone ==
    \A t \in Tasks : cast[t] # None => \A s \in cast[t].dead : peer[s] = "gone"
ClosedAreGone == \A s \in Sockets : phase[s] = "closed" => peer[s] = "gone"
ServedAhead == \A s \in served : phase[s] \in Serving \cup {"closed"}

PoolInv ==
    AtHome /\ Listening /\ DeadAreGone /\ ClosedAreGone /\ ServedAhead
    /\ OnlySetupLeaks

LEMMA InitPoolInv == Init => PoolInv
  BY HubAssumption, SocketsAreTasks
     DEF Init, PoolInv, AtHome, Listening, DeadAreGone, ClosedAreGone,
         ServedAhead, OnlySetupLeaks, Joined, Serving

\* The phases of a handler in their order.
Path(p, q) ==
    \/ p = q
    \/ p = "absent" /\ q \in {"accept", "closed"}
    \/ p = "accept" /\ q \in {"greet", "closed"}
    \/ p = "greet" /\ q \in {"list", "closed"}
    \/ p = "list" /\ q \in {"loop", "closed"}
    \/ p \in Serving /\ q \in Serving \cup {"closed"}

\* What a step of t does to the pools and to its own handler.
PoolTurn(t) ==
    /\ \A w \in Workers, s \in Sockets :
          /\ s \in pool'[w] \ pool[w] =>
                /\ s = t /\ w = home[s]
                /\ phase[s] = "accept" /\ phase'[s] = "greet"
          /\ s \in pool[w] \ pool'[w] => peer'[s] = "gone"
    /\ \A s \in Sockets : peer[s] = "gone" => peer'[s] = "gone"
    /\ cast'[t] # None => \A s \in cast'[t].dead : peer'[s] = "gone"
    /\ t \in Sockets =>
          /\ Path(phase[t], phase'[t])
          /\ phase[t] # "absent" => home'[t] = home[t]
          /\ (phase[t] = "accept" /\ phase'[t] = "greet")
                => t \in pool'[home[t]]
          /\ (phase'[t] = "closed" /\ phase[t] # "closed") => peer'[t] = "gone"
          /\ (phase[t] \in Serving /\ phase'[t] = "closed")
                => t \notin pool'[home[t]]
    /\ \A s \in served' :
          s \in served \/ (s = t /\ phase[t] = "list" /\ phase'[t] = "loop")

LEMMA PoolStep ==
    ASSUME TypeInv, PoolInv, TypeInv', NEW t \in Tasks, Alone(t), PoolTurn(t)
    PROVE  PoolInv'
  <1>1. /\ \A u \in Tasks \ {t} : phase'[u] = phase[u] /\ home'[u] = home[u]
        /\ \A u \in Sockets \ {t} : peer'[u] = peer[u]
        /\ \A s \in Sockets : phase[s] \in SocketPhase /\ s \in Tasks
        /\ \A s \in Sockets : peer'[s] \in {"up", "gone"}
        /\ served' \subseteq Sockets /\ served \subseteq Sockets
    BY SocketsAreTasks DEF Alone, TypeInv, TypeOK
  <1>2. /\ \A w \in Workers, s \in Sockets :
              /\ s \in pool'[w] \ pool[w] =>
                    /\ s = t /\ w = home[s]
                    /\ phase[s] = "accept" /\ phase'[s] = "greet"
              /\ s \in pool[w] \ pool'[w] => peer'[s] = "gone"
        /\ \A s \in Sockets : peer[s] = "gone" => peer'[s] = "gone"
        /\ \A s \in served' :
              s \in served \/ (s = t /\ phase[t] = "list" /\ phase'[t] = "loop")
    BY DEF PoolTurn
  <1>3. t \in Sockets =>
          /\ Path(phase[t], phase'[t])
          /\ phase[t] # "absent" => home'[t] = home[t]
          /\ (phase[t] = "accept" /\ phase'[t] = "greet")
                => t \in pool'[home[t]]
          /\ (phase'[t] = "closed" /\ phase[t] # "closed") => peer'[t] = "gone"
          /\ (phase[t] \in Serving /\ phase'[t] = "closed")
                => t \notin pool'[home[t]]
    BY DEF PoolTurn
  <1>4. ASSUME NEW s \in Sockets, NEW w \in Workers, s \in pool'[w]
        PROVE  w = home'[s] /\ phase'[s] \notin {"absent", "accept"}
    <2>1. CASE s \in pool[w]
      <3>1. w = home[s] /\ phase[s] \notin {"absent", "accept"}
        BY <2>1 DEF PoolInv, AtHome
      <3>2. home'[s] = home[s]
        BY <1>1, <1>3, <3>1
      <3>3. phase'[s] \notin {"absent", "accept"}
        BY <1>1, <1>3, <3>1 DEF Path, Serving
      <3> QED
        BY <3>1, <3>2, <3>3
    <2>2. CASE s \notin pool[w]
      BY <1>2, <1>3, <1>4, <2>2
    <2> QED
      BY <2>1, <2>2
  <1>5. AtHome'
    BY <1>4 DEF AtHome
  <1>6. ASSUME NEW s \in Sockets, peer'[s] = "up", phase'[s] \in Joined
        PROVE  s \in pool'[home'[s]]
    <2>1. peer[s] = "up"
      BY <1>2, <1>6 DEF TypeInv, TypeOK
    <2>2. CASE phase[s] \in Joined
      <3>1. s \in pool[home[s]] /\ home[s] \in Workers /\ home'[s] = home[s]
        BY <1>1, <1>3, <2>1, <2>2, HomeOf DEF PoolInv, Listening, Joined, Serving
      <3> QED
        BY <1>2, <1>6, <3>1
    <2>3. CASE phase[s] \notin Joined
      <3>1. s = t
        BY <1>1, <1>6, <2>3
      <3>2. phase[s] = "accept" /\ phase'[s] = "greet"
        BY <1>3, <1>6, <2>3, <3>1 DEF Path, Joined, Serving
      <3> QED
        BY <1>3, <3>1, <3>2
    <2> QED
      BY <2>2, <2>3
  <1>7. Listening'
    BY <1>6 DEF Listening
  <1>8. ASSUME NEW u \in Tasks, cast'[u] # None, NEW s \in cast'[u].dead
        PROVE  peer'[s] = "gone"
    <2>1. CASE u = t
      BY <1>8, <2>1 DEF PoolTurn
    <2>2. CASE u # t
      <3>1. cast[u] # None /\ s \in cast[u].dead
        BY <1>8, <2>2 DEF Alone, Goes
      <3>2. peer[s] = "gone" /\ s \in Sockets
        <4>1. cast[u] \in Cast
          BY <3>1 DEF TypeInv, TypeOK
        <4> QED
          BY <3>1, <4>1 DEF PoolInv, DeadAreGone, Cast
      <3> QED
        BY <1>2, <3>2
    <2> QED
      BY <2>1, <2>2
  <1>9. DeadAreGone'
    BY <1>8 DEF DeadAreGone
  <1>10. ClosedAreGone'
    BY <1>1, <1>2, <1>3 DEF PoolInv, ClosedAreGone
  <1>11. ServedAhead'
    <2>1. ASSUME NEW s \in served' PROVE phase'[s] \in Serving \cup {"closed"}
      <3>1. CASE s \in served
        BY <1>1, <1>3, <3>1 DEF PoolInv, ServedAhead, Path, Serving
      <3>2. CASE s \notin served
        BY <1>2, <2>1, <3>2 DEF Serving
      <3> QED
        BY <3>1, <3>2
    <2> QED
      BY <2>1 DEF ServedAhead
  <1>12. ASSUME NEW s \in Sockets, phase'[s] = "closed", NEW w \in Workers,
                s \in pool'[w], s \in served'
         PROVE  FALSE
    <2>1. s \in served /\ phase[s] \in Serving \cup {"closed"}
      BY <1>2, <1>12 DEF PoolInv, ServedAhead
    <2>2. s \in pool[w] /\ w = home[s]
      BY <1>2, <1>12 DEF PoolInv, AtHome
    <2>3. CASE phase[s] = "closed"
      BY <2>1, <2>2, <2>3 DEF PoolInv, OnlySetupLeaks
    <2>4. CASE phase[s] \in Serving
      BY <1>1, <1>3, <1>12, <2>2, <2>4 DEF Serving
    <2> QED
      BY <2>1, <2>3, <2>4
  <1>13. OnlySetupLeaks'
    BY <1>12 DEF OnlySetupLeaks
  <1> QED
    BY <1>5, <1>7, <1>9, <1>10, <1>11, <1>13 DEF PoolInv

\* Steps of a handler that leave the pools alone.
LEMMA QuietTurn ==
    ASSUME TypeInv, PoolInv, NEW s \in Sockets, UNCHANGED <<pool, cast>>,
           peer'[s] \in {peer[s], "gone"},
           \A u \in Sockets \ {s} : peer'[u] = peer[u],
           Path(phase[s], phase'[s]), phase[s] # "absent" => home'[s] = home[s],
           ~(phase[s] = "accept" /\ phase'[s] = "greet"),
           phase'[s] = "closed" =>
              /\ phase[s] \notin Serving
              /\ phase[s] # "closed" => peer'[s] = "gone",
           \/ served' = served
           \/ served' = served \cup {s} /\ phase[s] = "list" /\ phase'[s] = "loop"
    PROVE  PoolTurn(s)
  <1>1. \A u \in Sockets : peer[u] = "gone" => peer'[u] = "gone"
    OBVIOUS
  <1>2. cast'[s] # None => \A u \in cast'[s].dead : peer'[u] = "gone"
    <2>1. cast[s] # None => cast[s] \in Cast
      BY SocketsAreTasks DEF TypeInv, TypeOK
    <2>2. cast[s] # None => \A u \in cast[s].dead : peer[u] = "gone"
      BY SocketsAreTasks DEF PoolInv, DeadAreGone
    <2> QED
      BY <1>1, <2>1, <2>2 DEF Cast
  <1>3. \A u \in served' :
           u \in served \/ (u = s /\ phase[s] = "list" /\ phase'[s] = "loop")
    BY Zenon
  <1> QED
    BY <1>1, <1>2, <1>3 DEF PoolTurn

\* The handler leaves the receive loop.
LEMMA EndTurn ==
    ASSUME TypeInv, PoolInv, NEW s \in Sockets, EndServing(s),
           phase[s] \in Serving \ {"cast"}, UNCHANGED <<home, served>>
    PROVE  PoolTurn(s)
  <1>1. /\ phase'[s] = "closed" /\ peer'[s] = "gone"
        /\ \A u \in Sockets \ {s} : peer'[u] = peer[u]
        /\ \A u \in Tasks : Goes(u)
        /\ pool'[home[s]] = pool[home[s]] \ {s}
        /\ \A v \in Workers \ {home[s]} : pool'[v] = pool[v]
    BY EndServingEffect DEF Serving
  <1>2. cast'[s] = None
    BY <1>1, SocketsAreTasks DEF TypeInv, Shape, HasCast, Goes
  <1>3. ASSUME NEW w \in Workers, NEW u \in Sockets
        PROVE  /\ u \notin pool'[w] \ pool[w]
               /\ u \in pool[w] \ pool'[w] => u = s
    BY <1>1
  <1>4. /\ Path(phase[s], phase'[s]) /\ phase[s] # "accept"
        /\ home'[s] = home[s] /\ s \notin pool'[home[s]]
    BY <1>1 DEF Path, Serving
  <1>5. /\ \A w \in Workers, u \in Sockets :
              /\ u \notin pool'[w] \ pool[w]
              /\ u \in pool[w] \ pool'[w] => peer'[u] = "gone"
        /\ \A u \in Sockets : peer[u] = "gone" => peer'[u] = "gone"
        /\ \A u \in served' : u \in served
    BY <1>1, <1>3
  <1> QED
    BY <1>1, <1>2, <1>4, <1>5, Zenon DEF PoolTurn

LEMMA EnterTurn ==
    ASSUME TypeInv, PoolInv, NEW s \in Sockets, phase[s] = "accept",
           Add(s, home[s]), Goto(s, "greet"), UNCHANGED <<home, peer, served>>
    PROVE  PoolTurn(s)
  <1>1. home[s] \in Workers /\ s \in Tasks
    BY HomeOf, SocketsAreTasks
  <1>2. /\ \A u \in Tasks : Goes(u)
        /\ pool'[home[s]] = pool[home[s]] \cup {s}
        /\ \A v \in Workers \ {home[s]} : pool'[v] = pool[v]
    BY <1>1, AddEffect
  <1>3. cast'[s] = None
    BY <1>1, <1>2 DEF TypeInv, Shape, HasCast, Goes
  <1>4. phase'[s] = "greet"
    BY <1>1 DEF Goto, TypeInv, TypeOK
  <1>5. ASSUME NEW w \in Workers, NEW u \in Sockets
        PROVE  /\ u \in pool'[w] \ pool[w] => u = s /\ w = home[s]
               /\ u \notin pool[w] \ pool'[w]
    BY <1>2
  <1>6. /\ Path(phase[s], phase'[s]) /\ phase[s] \notin Serving
        /\ phase'[s] # "closed" /\ home'[s] = home[s] /\ s \in pool'[home[s]]
    BY <1>2, <1>4 DEF Path, Serving
  <1>7. /\ \A w \in Workers, u \in Sockets :
              /\ u \in pool'[w] \ pool[w] =>
                    /\ u = s /\ w = home[u]
                    /\ phase[u] = "accept" /\ phase'[u] = "greet"
              /\ u \notin pool[w] \ pool'[w]
        /\ \A u \in Sockets : peer[u] = "gone" => peer'[u] = "gone"
        /\ \A u \in served' : u \in served
    BY <1>4, <1>5
  <1> QED
    BY <1>3, <1>6, <1>7, Zenon DEF PoolTurn

LEMMA HandlerTurn ==
    ASSUME TypeInv, PoolInv, NEW s \in Sockets, HandlerStep(s), ~CastSent(s),
           ~(Replied(s) /\ phase'[s] # "closed")
    PROVE  PoolTurn(s)
  <1>1. /\ phase \in [Tasks -> SocketPhase \cup CallPhase]
        /\ peer \in [Sockets -> {"up", "gone"}]
        /\ s \in Tasks /\ phase[s] \in SocketPhase
    BY SocketsAreTasks DEF TypeInv, TypeOK
  <1>3. ASSUME EndSetup(s), phase[s] \notin Serving, served' = served,
               phase[s] # "absent" => home' = home,
               phase[s] \in {"absent", "accept", "greet", "list"}
        PROVE  PoolTurn(s)
    <2>1. /\ phase'[s] = "closed" /\ peer'[s] = "gone"
          /\ \A u \in Sockets \ {s} : peer'[u] = peer[u]
          /\ UNCHANGED <<pool, cast>>
      BY <1>3, EndSetupEffect
    <2>2. Path(phase[s], phase'[s])
      BY <1>3, <2>1 DEF Path
    <2> QED
      BY <1>3, <2>1, <2>2, QuietTurn DEF Serving
  <1>4. CASE Leave(s)
    <2>1. /\ UNCHANGED <<home, pool, cast, phase, served>>
          /\ peer' = [peer EXCEPT ![s] = "gone"]
      BY <1>4 DEF Leave
    <2>2. peer'[s] = "gone" /\ \A u \in Sockets \ {s} : peer'[u] = peer[u]
      BY <1>1, <2>1
    <2>3. CASE phase[s] = "closed"
      BY <2>1, <2>2, <2>3, QuietTurn DEF Path, Serving
    <2>4. CASE phase[s] # "closed"
      BY <2>1, <2>2, <2>4, QuietTurn DEF Path
    <2> QED
      BY <2>3, <2>4
  <1>5. ASSUME NEW w \in Workers, Open(s, w) PROVE PoolTurn(s)
    <2>1. phase[s] = "absent" /\ served' = served
      BY <1>5 DEF Open
    <2>2. CASE Goto(s, "accept") /\ UNCHANGED <<peer, pool, cast>>
      <3>1. phase'[s] = "accept" /\ Path(phase[s], phase'[s])
        BY <1>1, <2>1, <2>2 DEF Goto, Path
      <3> QED
        BY <2>1, <2>2, <3>1, QuietTurn
    <2> QED
      BY <1>3, <1>5, <2>1, <2>2 DEF Open, Serving
  <1>6. CASE Accepted(s)
    <2>1. phase[s] = "accept" /\ home' = home /\ served' = served
      BY <1>6 DEF Accepted
    <2> QED
      BY <1>3, <1>6, <2>1, EnterTurn DEF Accepted, Serving
  <1>7. CASE Greeted(s) \/ Listed(s)
    <2>1. phase[s] \in {"greet", "list"} /\ home' = home
      BY <1>7 DEF Greeted, Listed
    <2>2. CASE EndSetup(s) /\ served' = served
      BY <1>3, <2>1, <2>2 DEF Serving
    <2>3. CASE /\ UNCHANGED <<peer, pool, cast>>
               /\ \/ phase[s] = "greet" /\ Goto(s, "list") /\ served' = served
                  \/ /\ phase[s] = "list" /\ Goto(s, "loop")
                     /\ served' = served \cup {s}
      <3>1. \/ phase[s] = "greet" /\ phase'[s] = "list" /\ served' = served
            \/ /\ phase[s] = "list" /\ phase'[s] = "loop"
               /\ served' = served \cup {s}
        BY <1>1, <2>3 DEF Goto
      <3>2. Path(phase[s], phase'[s]) /\ phase'[s] # "closed"
        BY <3>1 DEF Path
      <3> QED
        BY <2>1, <2>3, <3>1, <3>2, QuietTurn
    <2> QED
      BY <1>7, <2>1, <2>2, <2>3 DEF Greeted, Listed
  <1>8. CASE \/ Fetched(s) \/ Apologised(s) \/ Disconnect(s)
             \/ Replied(s) /\ EndServing(s)
    <2>1. /\ phase[s] \in Serving \ {"cast"} /\ UNCHANGED <<home, served>>
          /\ EndServing(s) \/ (Goto(s, "loop") /\ UNCHANGED <<peer, pool, cast>>)
      BY <1>8 DEF Fetched, Apologised, Disconnect, Replied, Serving
    <2>2. CASE EndServing(s)
      BY <2>1, <2>2, EndTurn
    <2>3. CASE Goto(s, "loop") /\ UNCHANGED <<peer, pool, cast>>
      <3>1. phase'[s] = "loop" /\ Path(phase[s], phase'[s])
        BY <1>1, <2>1, <2>3 DEF Goto, Path, Serving
      <3> QED
        BY <2>1, <2>3, <3>1, QuietTurn DEF Serving
    <2> QED
      BY <2>1, <2>2, <2>3
  <1>9. CASE Replied(s) /\ ~EndServing(s)
    <2>1. phase'[s] \in {"cast", "loop"}
      BY <1>1, <1>9 DEF Replied, Goto, AfterReturn, Tasks, HubAssumption
    <2> QED
      BY <1>9, <2>1
  <1>10. CASE ReceiveFetch(s) \/ ReceiveChange(s) \/ RefuseChange(s)
    <2>1. /\ phase[s] = "loop" /\ UNCHANGED <<home, peer, served, pool, cast>>
          /\ Goto(s, "fetch") \/ Goto(s, "reply") \/ Goto(s, "sorry")
      BY <1>10 DEF ReceiveFetch, ReceiveChange, RefuseChange, conn
    <2>2. phase'[s] \in {"fetch", "reply", "sorry"} /\ Path(phase[s], phase'[s])
      BY <1>1, <2>1 DEF Goto, Path, Serving
    <2> QED
      BY <2>1, <2>2, QuietTurn
  <1> QED
    BY <1>4, <1>5, <1>6, <1>7, <1>8, <1>9, <1>10 DEF HandlerStep, SocketStep

\* A broadcast removes only sockets without a browser.
LEMMA CastTurn ==
    ASSUME TypeInv, PoolInv, NEW t \in Tasks, NEW w \in Workers, NEW b \in Cast,
           Iterates(t, w, b), UNCHANGED <<peer, served>>, TypeInv',
           \A s \in b.dead : peer[s] = "gone",
           t \in Sockets => phase[t] \in {"reply", "cast"} /\ home'[t] = home[t]
    PROVE  PoolTurn(t)
  <1>1. /\ \A v \in Workers, s \in Sockets :
              /\ s \notin pool'[v] \ pool[v]
              /\ s \in pool[v] \ pool'[v] => peer[s] = "gone"
        /\ cast'[t] # None => cast'[t].dead = b.dead
        /\ t \in Sockets => phase'[t] \in {"cast", "loop", "sorry"}
    <2>1. CASE Advance(t, w, b) /\ phase'[t] = "cast"
      <3>1. behind' \subseteq Sockets \X Change
        BY DEF TypeInv, TypeOK
      <3>2. pool' = pool /\ cast'[t].dead = b.dead
        BY <2>1, <3>1, AdvanceEffect
      <3> QED
        BY <2>1, <3>2
    <2>2. CASE Return(t, w, b) /\ phase'[t] = AfterReturn(t)
      <3>1. /\ pool'[w] = pool[w] \ b.dead
            /\ \A v \in Workers \ {w} : pool'[v] = pool[v]
            /\ cast'[t] = None
        BY <2>2, ReturnEffect
      <3>2. t \in Sockets => phase'[t] = "loop"
        BY <2>2, HubAssumption DEF AfterReturn
      <3> QED
        BY <3>1, <3>2
    <2>3. CASE Raise(t, w, b) /\ phase'[t] = AfterRaise(t)
      <3>1. pool' = pool /\ cast'[t] = None
        BY <2>3, RaiseEffect
      <3>2. t \in Sockets => phase'[t] = "sorry"
        BY <2>3, HubAssumption DEF AfterRaise
      <3> QED
        BY <3>1, <3>2
    <2> QED
      BY <2>1, <2>2, <2>3 DEF Iterates
  <1>2. /\ \A v \in Workers, s \in Sockets :
              /\ s \notin pool'[v] \ pool[v]
              /\ s \in pool[v] \ pool'[v] => peer'[s] = "gone"
        /\ \A s \in Sockets : peer[s] = "gone" => peer'[s] = "gone"
        /\ \A s \in served' : s \in served
        /\ cast'[t] # None => \A s \in cast'[t].dead : peer'[s] = "gone"
    BY <1>1
  <1>3. t \in Sockets =>
           /\ Path(phase[t], phase'[t]) /\ home'[t] = home[t]
           /\ phase[t] # "accept" /\ phase'[t] # "closed"
    BY <1>1 DEF Path, Serving
  <1> QED
    BY <1>2, <1>3, Zenon DEF PoolTurn

LEMMA CastSentTurn ==
    ASSUME TypeInv, PoolInv, NEW t \in Tasks, CastSent(t)
    PROVE  PoolTurn(t)
  <1>1. phase[t] = "cast" /\ UNCHANGED conn
    BY CastSentIs
  <1>2. PICK ok \in BOOLEAN :
          /\ ~ok => peer[cast[t].target] = "gone"
          /\ SentOn(t, ok) \/ SentLast(t, ok) \/ SentBroken(t, ok)
    BY CastSentIs
  <1>3. After(t, ok) \in Cast /\ cast[t] \in Cast
        /\ After(t, ok).dead
             = IF ok THEN cast[t].dead ELSE cast[t].dead \cup {cast[t].target}
    BY <1>1, AfterIs
  <1>4. \A s \in After(t, ok).dead : peer[s] = "gone"
    <2>1. \A s \in cast[t].dead : peer[s] = "gone"
      BY <1>3, NoneIsNoCast DEF PoolInv, DeadAreGone
    <2> QED
      BY <1>2, <1>3, <2>1
  <1>5. Iterates(t, home[t], After(t, ok))
    BY <1>2 DEF SentOn, SentLast, SentBroken, Iterates
  <1>6. home[t] \in Workers /\ UNCHANGED <<peer, served, home>>
    BY <1>1, HomeOf DEF conn
  <1>7. TypeInv'
    BY CastSentTypeInv
  <1> QED
    BY <1>1, <1>3, <1>4, <1>5, <1>6, <1>7, CastTurn

LEMMA RepliedTurn ==
    ASSUME TypeInv, PoolInv, NEW s \in Sockets, Replied(s), phase'[s] # "closed"
    PROVE  PoolTurn(s)
  <1>1. s \in Tasks /\ phase[s] = "reply" /\ UNCHANGED <<home, peer, served>>
    BY RepliedIs, SocketsAreTasks
  <1>2. home[s] \in Workers
    BY <1>1, HomeOf
  <1>3. Iterates(s, home[s], NewCast(home[s]))
    BY RepliedIs DEF Iterates
  <1>4. \A u \in NewCast(home[s]).dead : peer[u] = "gone"
    BY DEF NewCast
  <1>5. TypeInv'
    BY RepliedTypeInv
  <1> QED
    BY <1>1, <1>2, <1>3, <1>4, <1>5, NewCastTyped, CastTurn

LEMMA HeartbeatTurn ==
    ASSUME TypeInv, PoolInv, NEW c \in Calls, NEW w \in Workers,
           HeartbeatCommit(c, w)
    PROVE  PoolTurn(c)
  <1>1. c \in Tasks /\ c \notin Sockets /\ UNCHANGED <<peer, served>>
    BY HeartbeatIs, SocketsAreTasks, HubAssumption
  <1>2. Iterates(c, w, NewCast(w))
    BY HeartbeatIs DEF Iterates
  <1>3. \A u \in NewCast(w).dead : peer[u] = "gone"
    BY DEF NewCast
  <1>4. TypeInv'
    BY HeartbeatTypeInv
  <1> QED
    BY <1>1, <1>2, <1>3, <1>4, NewCastTyped, CastTurn

LEMMA NextPoolInv == TypeInv /\ PoolInv /\ [Next]_vars => PoolInv'
  <1> SUFFICES ASSUME TypeInv, PoolInv, [Next]_vars PROVE PoolInv'
    OBVIOUS
  <1>1. CASE UNCHANGED vars
    BY <1>1 DEF vars, PoolInv, AtHome, Listening, DeadAreGone, ClosedAreGone,
       ServedAhead, OnlySetupLeaks
  <1>2. ASSUME NEW s \in Sockets, HandlerStep(s) PROVE PoolInv'
    <2>1. s \in Tasks /\ Alone(s) /\ TypeInv'
      BY <1>2, HandlerAlone
    <2>2. PoolTurn(s)
      BY <1>2, <2>1, HandlerTurn, CastSentTurn, RepliedTurn
    <2> QED
      BY <2>1, <2>2, PoolStep
  <1>3. ASSUME NEW c \in Calls, CallStep(c) PROVE PoolInv'
    <2>1. c \in Tasks /\ Alone(c) /\ TypeInv'
      BY <1>3, CallAlone
    <2>2. PoolTurn(c)
      BY <1>3, <2>1, CastSentTurn, HeartbeatTurn DEF CallStep
    <2> QED
      BY <2>1, <2>2, PoolStep
  <1> QED
    BY <1>1, <1>2, <1>3, NextSplit

\* A panel that is there and being served is in the pool of its process: a
\* broadcast, whatever happens to the pool during its sends, removes only
\* sockets without a browser, and no panel removes another.
THEOREM PanelsListen == Spec => []LivePanelsListen
  <1>1. PoolInv => LivePanelsListen
    BY DEF PoolInv, Listening, LivePanelsListen, Joined
  <1> QED
    BY InitTypeInv, NextTypeInv, InitPoolInv, NextPoolInv, <1>1, PTL DEF Spec

\* Whatever way a handler leaves the receive loop, it takes its socket out of
\* the pool; only a handler that ends in the set-up leaves it there.
THEOREM LeaksAreSetups == Spec => []OnlySetupLeaks
  <1>1. PoolInv => OnlySetupLeaks
    BY DEF PoolInv
  <1> QED
    BY InitTypeInv, NextTypeInv, InitPoolInv, NextPoolInv, <1>1, PTL DEF Spec

-----------------------------------------------------------------------------
(***************************************************************************)
(* Who knows of a change.  A panel in the process of a change that does    *)
(* not know of it, and that no broken broadcast excuses, is still to be    *)
(* told: the reply is under way, or the panel is among the clients that    *)
(* the iterator has not returned, or it is the target of the send.         *)
(***************************************************************************)
Owner(p) == p[2][1]

\* Task t is still to tell of p.
Tells(t, p) ==
    /\ phase[t] \in {"reply", "cast"}
    /\ p[2] = ChangeOf(t)
    /\ phase[t] = "cast" =>
          \/ cast[t].changed
          \/ p[1] \in pool[home[t]] \ cast[t].visited
          \/ p[1] = cast[t].target /\ p \in cast[t].tells
Pending(p) == Tells(Owner(p), p)

Neighbours(p) == peer[p[1]] = "up" /\ home[p[1]] = home[Owner(p)]

Owed(p) ==
    /\ phase[p[1]] \notin {"absent", "accept", "greet"}
    /\ phase[Owner(p)] \notin {"absent", "idle"}
    /\ Neighbours(p) /\ p \notin excused => Pending(p)

ToldInv == \A p \in behind : Owed(p)

LEMMA InitToldInv == Init => ToldInv
  BY DEF Init, ToldInv

LEMMA PairTyped ==
    ASSUME TypeInv, NEW p \in behind
    PROVE  p[1] \in Sockets /\ p[1] \in Tasks /\ Owner(p) \in Tasks /\ p[2] \in Change
  BY SocketsAreTasks DEF TypeInv, TypeOK, Owner, Change

\* A panel of that process that has its list is in the pool.
LEMMA NeighbourInPool ==
    ASSUME TypeInv, PoolInv, NEW s \in Sockets, peer[s] = "up",
           phase[s] \notin {"absent", "accept", "greet"}
    PROVE  s \in pool[home[s]]
  <1>1. phase[s] \in SocketPhase /\ phase[s] # "closed"
    BY DEF TypeInv, TypeOK, PoolInv, ClosedAreGone
  <1> QED
    BY <1>1 DEF SocketPhase, Joined, Serving, PoolInv, Listening

\* A step of t, of which a heartbeat has only one before its broadcast.
ToldTurn(t) ==
    /\ PoolTurn(t)
    /\ t \in Calls /\ phase[t] # "idle" =>
          home'[t] = home[t] /\ phase'[t] \notin {"absent", "idle"}
    /\ \A p \in behind' \cap excused : p \in excused'

LEMMA OwedStays ==
    ASSUME TypeInv, ToldInv, NEW t \in Tasks, Alone(t), ToldTurn(t), NEW p \in behind
    PROVE  /\ phase'[p[1]] \notin {"absent", "accept", "greet"}
           /\ phase'[Owner(p)] \notin {"absent", "idle"}
           /\ home'[Owner(p)] = home[Owner(p)]
           /\ Neighbours(p)' => Neighbours(p)
  <1>1. /\ p[1] \in Sockets /\ p[1] \in Tasks /\ Owner(p) \in Tasks
        /\ phase[p[1]] \notin {"absent", "accept", "greet"}
        /\ phase[Owner(p)] \notin {"absent", "idle"}
    BY PairTyped DEF ToldInv, Owed
  <1>2. /\ \A u \in Tasks \ {t} : phase'[u] = phase[u] /\ home'[u] = home[u]
        /\ \A s \in Sockets : phase[s] \in SocketPhase /\ peer[s] \in {"up", "gone"}
    BY DEF Alone, TypeInv, TypeOK
  <1>3. /\ \A s \in Sockets : peer[s] = "gone" => peer'[s] = "gone"
        /\ t \in Sockets => Path(phase[t], phase'[t])
        /\ t \in Sockets /\ phase[t] # "absent" => home'[t] = home[t]
        /\ t \in Calls /\ phase[t] # "idle" =>
              home'[t] = home[t] /\ phase'[t] \notin {"absent", "idle"}
    BY DEF ToldTurn, PoolTurn
  <1>4. /\ phase'[p[1]] \notin {"absent", "accept", "greet"}
        /\ home'[p[1]] = home[p[1]]
    <2>1. CASE p[1] = t
      BY <1>1, <1>2, <1>3, <2>1 DEF Path, Serving
    <2>2. CASE p[1] # t
      BY <1>1, <1>2, <2>2
    <2> QED
      BY <2>1, <2>2
  <1>5. /\ phase'[Owner(p)] \notin {"absent", "idle"}
        /\ home'[Owner(p)] = home[Owner(p)]
    <2>1. CASE Owner(p) # t
      BY <1>1, <1>2, <2>1
    <2>2. CASE Owner(p) = t /\ t \in Sockets
      BY <1>1, <1>3, <2>2 DEF Path, Serving
    <2>3. CASE Owner(p) = t /\ t \in Calls
      BY <1>1, <1>3, <2>3
    <2> QED
      BY <1>1, <2>1, <2>2, <2>3 DEF Tasks
  <1> QED
    BY <1>1, <1>2, <1>3, <1>4, <1>5 DEF Neighbours

\* The announcement of another task goes on.
LEMMA OthersOwed ==
    ASSUME TypeInv, ToldInv, NEW t \in Tasks, Alone(t), ToldTurn(t),
           NEW p \in behind, p \in behind', Owner(p) # t
    PROVE  Owed(p)'
  <1> PICK o \in Tasks : o = p[2][1] /\ o # t
    BY PairTyped DEF Owner
  <1>1. /\ phase'[p[1]] \notin {"absent", "accept", "greet"}
        /\ phase'[o] \notin {"absent", "idle"}
        /\ home'[o] = home[o]
        /\ Neighbours(p)' => Neighbours(p)
    BY OwedStays DEF Owner
  <1>2. p \notin excused' => p \notin excused
    BY DEF ToldTurn
  <1>3. Neighbours(p) /\ p \notin excused => Tells(o, p)
    BY DEF ToldInv, Owed, Pending, Owner
  <1>4. ASSUME Tells(o, p) PROVE Tells(o, p)'
    <2>1. phase'[o] = phase[o] /\ Goes(o)
      BY DEF Alone, TypeInv, TypeOK
    <2>2. ChangeOf(o)' = ChangeOf(o)
      BY DEF Alone, ChangeOf
    <2>3. phase[o] = "cast" => cast[o] # None
      BY DEF TypeInv, Shape, HasCast
    <2>4. phase[o] = "cast" =>
             /\ cast'[o].visited = cast[o].visited
             /\ cast'[o].tells = cast[o].tells
             /\ cast'[o].target = cast[o].target
             /\ cast[o].changed \/ pool'[home[o]] # pool[home[o]] => cast'[o].changed
      BY <2>1, <2>3 DEF Goes
    <2>5. p[2] = ChangeOf(o) /\ phase[o] \in {"reply", "cast"}
      BY <1>4 DEF Tells
    <2>6. CASE phase[o] # "cast"
      BY <2>1, <2>2, <2>5, <2>6 DEF Tells
    <2>7. CASE phase[o] = "cast" /\ cast'[o].changed
      BY <2>1, <2>2, <2>5, <2>7 DEF Tells
    <2>8. CASE phase[o] = "cast" /\ ~cast'[o].changed
      <3>1. ~cast[o].changed /\ pool'[home[o]] = pool[home[o]]
        BY <2>4, <2>8
      <3>2. \/ p[1] \in pool[home[o]] \ cast[o].visited
            \/ p[1] = cast[o].target /\ p \in cast[o].tells
        BY <1>4, <2>8, <3>1 DEF Tells
      <3>3. \/ p[1] \in pool'[home'[o]] \ cast'[o].visited
            \/ p[1] = cast'[o].target /\ p \in cast'[o].tells
        BY <1>1, <2>4, <2>8, <3>1, <3>2
      <3> QED
        BY <2>1, <2>2, <2>5, <3>3 DEF Tells
    <2> QED
      BY <2>6, <2>7, <2>8
  <1> QED
    BY <1>1, <1>2, <1>3, <1>4 DEF Owed, Pending, Owner

\* What the histories do: only a commit adds pairs, and no pair that is still
\* there loses its excuse.
LEMMA HistoryStep ==
    ASSUME TypeInv, NEW pairs, NEW n
    PROVE  /\ Learn(pairs) \/ LearnBroken(pairs, n) \/ UNCHANGED <<behind, excused>>
                => /\ behind' \subseteq behind
                   /\ \A p \in behind' \cap excused : p \in excused'
           /\ LearnBroken(pairs, n)
                => \A p \in behind' : p[2] = n => p \in excused'
           /\ Commits(n) =>
                /\ excused' = excused
                /\ \A p \in behind' \ behind :
                      /\ p[1] \in Sockets /\ p[2] = n
                      /\ peer[p[1]] = "up" /\ phase[p[1]] \in Serving \cup {"list"}
  <1>1. Learn(pairs) \/ LearnBroken(pairs, n) \/ UNCHANGED <<behind, excused>>
                => /\ behind' \subseteq behind
                   /\ \A p \in behind' \cap excused : p \in excused'
    BY DEF Learn, LearnBroken
  <1>2. LearnBroken(pairs, n) => \A p \in behind' : p[2] = n => p \in excused'
    BY DEF LearnBroken
  <1>3. ASSUME Commits(n), NEW p \in behind' \ behind
        PROVE  /\ p[1] \in Sockets /\ p[2] = n
               /\ peer[p[1]] = "up" /\ phase[p[1]] \in Serving \cup {"list"}
    BY <1>3 DEF Commits
  <1>4. Commits(n) => excused' = excused
    BY DEF Commits
  <1> QED
    BY <1>1, <1>2, <1>3, <1>4

\* The steps of a handler outside of its broadcasts.
LEMMA HandlerToldTurn ==
    ASSUME TypeInv, PoolInv, NEW s \in Sockets, HandlerStep(s), ~CastSent(s),
           ~(Replied(s) /\ phase'[s] # "closed")
    PROVE  /\ ToldTurn(s)
           /\ \/ behind' \subseteq behind
              \/ ReceiveChange(s) /\ Commits(<<s, changes[s] + 1>>)
  <1>1. PoolTurn(s) /\ s \notin Calls
    BY HandlerTurn, HubAssumption
  <1>2. CASE ReceiveChange(s)
    <2>1. Commits(<<s, changes[s] + 1>>)
      BY <1>2 DEF ReceiveChange
    <2> QED
      BY <1>1, <1>2, <2>1, HistoryStep DEF ToldTurn
  <1>3. CASE ~ReceiveChange(s)
    <2>1. PICK pairs, n :
            Learn(pairs) \/ LearnBroken(pairs, n) \/ UNCHANGED <<behind, excused>>
      <3>1. CASE Replied(s)
        <4>1. LearnBroken({}, ChangeOf(s)) \/ Learn({})
          BY <3>1 DEF Replied
        <4> QED
          BY <4>1
      <3>2. CASE Leave(s) \/ ReceiveFetch(s) \/ Disconnect(s)
        BY <3>2 DEF Leave, ReceiveFetch, Disconnect
      <3>3. CASE \/ Accepted(s) \/ Greeted(s) \/ Listed(s) \/ Fetched(s)
                 \/ Apologised(s) \/ RefuseChange(s)
                 \/ \E w \in Workers : Open(s, w)
        BY <3>3 DEF Accepted, Greeted, Listed, Fetched, Apologised,
           RefuseChange, Open
      <3> QED
        BY <1>3, <3>1, <3>2, <3>3 DEF HandlerStep, SocketStep
    <2> QED
      BY <1>1, <2>1, HistoryStep DEF ToldTurn
  <1> QED
    BY <1>2, <1>3

LEMMA HandlerTold ==
    ASSUME TypeInv, PoolInv, ToldInv, NEW s \in Sockets, HandlerStep(s),
           ~CastSent(s), ~(Replied(s) /\ phase'[s] # "closed")
    PROVE  ToldInv'
  <1>1. /\ ToldTurn(s) /\ Alone(s) /\ s \in Tasks
        /\ \/ behind' \subseteq behind
           \/ ReceiveChange(s) /\ Commits(<<s, changes[s] + 1>>)
    BY HandlerToldTurn, HandlerAlone
  <1>2. /\ phase \in [Tasks -> SocketPhase \cup CallPhase]
        /\ changes \in [Sockets -> 0..MaxChanges]
    BY DEF TypeInv, TypeOK
  <1>3. ASSUME NEW p \in behind, p \in behind', p[2][1] = s PROVE Owed(p)'
    <2>1. /\ phase'[p[1]] \notin {"absent", "accept", "greet"}
          /\ phase'[s] \notin {"absent", "idle"}
          /\ Neighbours(p)' => Neighbours(p)
      BY <1>1, <1>3, OwedStays DEF Owner
    <2>2. p \notin excused' => p \notin excused
      BY <1>1, <1>3 DEF ToldTurn
    <2>3. Neighbours(p) /\ p \notin excused => Tells(s, p)
      BY <1>3 DEF ToldInv, Owed, Pending, Owner
    <2>4. ASSUME Tells(s, p), p \notin excused' PROVE Tells(s, p)'
      <3>1. phase[s] \in {"reply", "cast"} /\ p[2] = ChangeOf(s)
        BY <2>4 DEF Tells
      <3>2. ~Replied(s)
        <4>1. ASSUME Replied(s) PROVE FALSE
          <5>1. LearnBroken({}, ChangeOf(s))
            BY <1>2, <4>1, SocketsAreTasks DEF Replied, Goto, AfterReturn
          <5> QED
            BY <1>3, <2>4, <3>1, <5>1, HistoryStep
        <4> QED
          BY <4>1
      <3>3. Leave(s)
        BY <3>1, <3>2 DEF HandlerStep, SocketStep, Accepted, Greeted, Listed, Fetched,
           Apologised, ReceiveFetch, ReceiveChange, RefuseChange, Disconnect, Open
      <3>4. UNCHANGED <<home, pool, phase, cast, changes>>
        BY <3>3 DEF Leave
      <3> QED
        BY <2>4, <3>4 DEF Tells, ChangeOf
    <2> QED
      BY <1>3, <2>1, <2>2, <2>3, <2>4 DEF Owed, Pending, Owner
  <1>4. ASSUME NEW p \in behind', p \notin behind PROVE Owed(p)'
    <2>1. ReceiveChange(s) /\ Commits(<<s, changes[s] + 1>>)
      BY <1>1, <1>4
    <2>2. /\ p[1] \in Sockets /\ p[2] = <<s, changes[s] + 1>>
          /\ phase[p[1]] \in Serving \cup {"list"}
      BY <1>4, <2>1, HistoryStep
    <2>3. /\ phase' = [phase EXCEPT ![s] = "reply"]
          /\ changes' = [changes EXCEPT ![s] = changes[s] + 1]
      BY <2>1 DEF ReceiveChange, Goto
    <2>4. p[2] = ChangeOf(s)' /\ phase'[s] = "reply"
      BY <1>1, <1>2, <2>2, <2>3 DEF ChangeOf
    <2>5. Tells(s, p)' /\ p[2][1] = s
      BY <2>2, <2>4 DEF Tells
    <2>6. phase'[p[1]] \notin {"absent", "accept", "greet"}
      <3>1. CASE p[1] = s
        BY <2>4, <3>1
      <3>2. CASE p[1] # s
        BY <1>2, <2>2, <2>3, <3>2, SocketsAreTasks DEF Serving
      <3> QED
        BY <3>1, <3>2
    <2> QED
      BY <2>4, <2>5, <2>6 DEF Owed, Pending, Owner
  <1>5. ASSUME NEW p \in behind' PROVE Owed(p)'
    <2>1. CASE p \in behind /\ Owner(p) # s
      BY <1>1, <1>5, <2>1, OthersOwed
    <2>2. CASE p \in behind /\ Owner(p) = s
      BY <1>3, <1>5, <2>2 DEF Owner
    <2>3. CASE p \notin behind
      BY <1>4, <1>5, <2>3
    <2> QED
      BY <2>1, <2>2, <2>3
  <1> QED
    BY <1>5, Zenon DEF ToldInv

-----------------------------------------------------------------------------
(* The steps of a broadcast. *)

\* The next send is under way: a panel that the iterator had not returned is
\* the target, or one of those left.
LEMMA TellsOn ==
    ASSUME TypeInv, TypeInv', NEW t \in Tasks, NEW w \in Workers, NEW b \in Cast,
           Advance(t, w, b), phase'[t] = "cast", home'[t] = w,
           NEW p \in behind', p[2] = ChangeOf(t)',
           b.changed \/ p[1] \in pool[w] \ b.visited
    PROVE  Tells(t, p)'
  <1>1. behind' \subseteq Sockets \X Change
    BY DEF TypeInv, TypeOK
  <1>2. /\ pool' = pool /\ cast'[t].changed = b.changed
        /\ cast'[t].visited = b.visited \cup {cast'[t].target}
        /\ cast'[t].tells = {q \in behind' : q[1] = cast'[t].target}
    BY <1>1, AdvanceEffect
  <1>3. \/ cast'[t].changed
        \/ p[1] \in pool'[w] \ cast'[t].visited
        \/ p[1] = cast'[t].target /\ p \in cast'[t].tells
    BY <1>2
  <1> QED
    BY <1>3 DEF Tells

\* The first await of a broadcast: every panel of the process that has its
\* list is in the pool.
LEMMA TellsFirst ==
    ASSUME TypeInv, PoolInv, TypeInv', NEW t \in Tasks, NEW w \in Workers,
           home'[t] = w, NEW p \in behind', p[1] \in Sockets,
           p[2] = ChangeOf(t)', peer[p[1]] = "up", home[p[1]] = w,
           phase[p[1]] \notin {"absent", "accept", "greet"},
           \/ Advance(t, w, NewCast(w)) /\ phase'[t] = "cast"
           \/ Return(t, w, NewCast(w))
    PROVE  Tells(t, p)'
  <1>1. NewCast(w) \in Cast /\ NewCast(w).visited = {} /\ ~NewCast(w).changed
    BY NewCastTyped DEF NewCast
  <1>2. p[1] \in pool[w]
    BY NeighbourInPool
  <1>3. ~Return(t, w, NewCast(w))
    BY <1>1, <1>2, ReturnEffect
  <1> QED
    BY <1>1, <1>2, <1>3, TellsOn

LEMMA CastSentTold ==
    ASSUME TypeInv, PoolInv, ToldInv, NEW t \in Tasks, CastSent(t)
    PROVE  ToldInv'
  <1>1. /\ phase[t] = "cast" /\ UNCHANGED conn /\ PoolTurn(t)
        /\ Alone(t) /\ TypeInv'
    BY CastSentIs, CastSentTurn, CastSentTypeInv
  <1>2. PICK ok \in BOOLEAN :
          /\ ~ok => peer[cast[t].target] = "gone"
          /\ SentOn(t, ok) \/ SentLast(t, ok) \/ SentBroken(t, ok)
    BY CastSentIs
  <1>3. /\ cast[t].target \in Sockets /\ After(t, ok) \in Cast
        /\ After(t, ok).visited = cast[t].visited
        /\ After(t, ok).changed = cast[t].changed
        /\ After(t, ok).tells = cast[t].tells
    BY <1>1, AfterIs
  <1>4. /\ behind' \subseteq behind /\ \A p \in behind' \cap excused : p \in excused'
    BY <1>2, HistoryStep DEF SentOn, SentLast, SentBroken
  <1>5. home[t] \in Workers /\ UNCHANGED <<home, peer, changes>>
        /\ ChangeOf(t)' = ChangeOf(t)
    BY <1>1, HomeOf DEF conn, ChangeOf
  <1>6. ToldTurn(t)
    <2>1. phase'[t] \in {"cast", "answered", "failed", "loop", "sorry"}
      BY <1>2 DEF SentOn, SentLast, SentBroken, AfterReturn, AfterRaise
    <2> QED
      BY <1>1, <1>4, <1>5, <2>1 DEF ToldTurn
  <1>7. ASSUME NEW p \in behind, p \in behind', Tells(t, p), Neighbours(p),
               p[2][1] = t, p \notin excused'
        PROVE  Tells(t, p)'
    <2>1. p[2] = ChangeOf(t)
      BY <1>7 DEF Tells
    <2>2. p \in Told(t, ok) => p \notin behind'
      BY <1>2 DEF SentOn, SentLast, SentBroken, Learn, LearnBroken
    <2>3. ~(p[1] = cast[t].target /\ p \in cast[t].tells)
      <3>1. ASSUME p[1] = cast[t].target, p \in cast[t].tells PROVE FALSE
        <4>1. ok /\ peer[cast[t].target] = "up"
          BY <1>2, <1>7, <3>1 DEF Neighbours
        <4>2. p \in Told(t, ok)
          BY <1>3, <3>1, <4>1 DEF Told
        <4> QED
          BY <1>7, <2>2, <4>2
      <3> QED
        BY <3>1
    <2>4. cast[t].changed \/ p[1] \in pool[home[t]] \ cast[t].visited
      BY <1>1, <1>7, <2>3 DEF Tells
    <2>5. SentOn(t, ok)
      <3>1. ASSUME LearnBroken(Told(t, ok), ChangeOf(t)) PROVE FALSE
        BY <1>7, <2>1, <3>1, HistoryStep
      <3>2. ASSUME Return(t, home[t], After(t, ok)), ~cast[t].changed PROVE FALSE
        BY <1>3, <1>5, <2>4, <3>2, ReturnEffect
      <3> QED
        BY <1>2, <1>3, <3>1, <3>2 DEF SentLast, SentBroken
    <2>6. Advance(t, home[t], After(t, ok)) /\ phase'[t] = "cast"
      BY <2>5 DEF SentOn
    <2> QED
      BY <1>1, <1>3, <1>5, <1>7, <2>1, <2>4, <2>6, TellsOn
  <1>8. ASSUME NEW p \in behind, p \in behind', p[2][1] = t PROVE Owed(p)'
    <2>1. /\ phase'[p[1]] \notin {"absent", "accept", "greet"}
          /\ phase'[t] \notin {"absent", "idle"}
          /\ Neighbours(p)' => Neighbours(p)
      BY <1>1, <1>6, <1>8, OwedStays DEF Owner
    <2>2. p \notin excused' => p \notin excused
      BY <1>4, <1>8
    <2>3. Neighbours(p) /\ p \notin excused => Tells(t, p)
      BY <1>8 DEF ToldInv, Owed, Pending, Owner
    <2> QED
      BY <1>7, <1>8, <2>1, <2>2, <2>3 DEF Owed, Pending, Owner
  <1>9. ASSUME NEW p \in behind' PROVE Owed(p)'
    <2>1. p \in behind
      BY <1>4, <1>9
    <2>2. CASE Owner(p) # t
      BY <1>1, <1>6, <1>9, <2>1, <2>2, OthersOwed
    <2>3. CASE Owner(p) = t
      BY <1>8, <1>9, <2>1, <2>3 DEF Owner
    <2> QED
      BY <2>2, <2>3
  <1> QED
    BY <1>9, Zenon DEF ToldInv

LEMMA RepliedTold ==
    ASSUME TypeInv, PoolInv, ToldInv, NEW s \in Sockets, Replied(s),
           phase'[s] # "closed"
    PROVE  ToldInv'
  <1>1. /\ phase[s] = "reply" /\ UNCHANGED <<home, peer, changes>>
        /\ Learn({}) /\ PoolTurn(s) /\ Alone(s) /\ TypeInv'
        /\ \/ Advance(s, home[s], NewCast(home[s])) /\ phase'[s] = "cast"
           \/ Return(s, home[s], NewCast(home[s]))
    BY RepliedIs, RepliedTurn, RepliedTypeInv
  <1>2. behind' = behind /\ excused' = excused
    BY <1>1 DEF Learn
  <1>3. s \in Tasks /\ home[s] \in Workers /\ ChangeOf(s)' = ChangeOf(s)
    BY <1>1, HomeOf, SocketsAreTasks DEF ChangeOf
  <1>4. ToldTurn(s)
    BY <1>1, <1>2, HubAssumption DEF ToldTurn
  <1>5. ASSUME NEW p \in behind, p[2][1] = s PROVE Owed(p)'
    <2>1. /\ phase'[p[1]] \notin {"absent", "accept", "greet"}
          /\ phase'[s] \notin {"absent", "idle"}
          /\ Neighbours(p)' => Neighbours(p)
      BY <1>1, <1>3, <1>4, <1>5, OwedStays DEF Owner
    <2>2. /\ Neighbours(p) /\ p \notin excused => Tells(s, p)
          /\ phase[p[1]] \notin {"absent", "accept", "greet"} /\ p[1] \in Sockets
      BY <1>5, PairTyped DEF ToldInv, Owed, Pending, Owner
    <2>3. ASSUME Tells(s, p), Neighbours(p) PROVE Tells(s, p)'
      <3>1. /\ p[2] = ChangeOf(s)' /\ peer[p[1]] = "up" /\ home[p[1]] = home[s]
            /\ home'[s] = home[s]
        BY <1>1, <1>3, <1>5, <2>3 DEF Tells, Neighbours, Owner
      <3> QED
        BY <1>1, <1>2, <1>3, <2>2, <3>1, TellsFirst
    <2> QED
      BY <1>2, <1>5, <2>1, <2>2, <2>3 DEF Owed, Pending, Owner
  <1>6. ASSUME NEW p \in behind' PROVE Owed(p)'
    <2>1. CASE Owner(p) # s
      BY <1>1, <1>2, <1>3, <1>4, <1>6, <2>1, OthersOwed
    <2>2. CASE Owner(p) = s
      BY <1>2, <1>5, <1>6, <2>2 DEF Owner
    <2> QED
      BY <2>1, <2>2
  <1> QED
    BY <1>6, Zenon DEF ToldInv

LEMMA HeartbeatTold ==
    ASSUME TypeInv, PoolInv, ToldInv, NEW c \in Calls, NEW w \in Workers,
           HeartbeatCommit(c, w)
    PROVE  ToldInv'
  <1>1. /\ phase[c] = "idle" /\ UNCHANGED <<peer, changes>>
        /\ home' = [home EXCEPT ![c] = w] /\ Commits(ChangeOf(c))
        /\ PoolTurn(c) /\ Alone(c) /\ TypeInv'
        /\ \/ Advance(c, w, NewCast(w)) /\ phase'[c] = "cast"
           \/ Return(c, w, NewCast(w)) /\ phase'[c] = AfterReturn(c)
    BY HeartbeatIs, HeartbeatTurn, HeartbeatTypeInv
  <1>2. /\ c \in Tasks /\ c \notin Sockets /\ home'[c] = w
        /\ ChangeOf(c)' = ChangeOf(c) /\ ChangeOf(c) = <<c, 0>>
    BY <1>1, SocketsAreTasks, HubAssumption DEF ChangeOf, TypeInv, TypeOK
  <1>3. ToldTurn(c)
    BY <1>1, HistoryStep DEF ToldTurn
  <1>4. ASSUME NEW p \in behind', p \notin behind PROVE Owed(p)'
    <2>1. /\ p[1] \in Sockets /\ p[2] = ChangeOf(c) /\ p[2][1] = c
          /\ peer[p[1]] = "up" /\ phase[p[1]] \in Serving \cup {"list"}
      BY <1>1, <1>2, <1>4, HistoryStep
    <2>2. phase[p[1]] \notin {"absent", "accept", "greet"}
      BY <2>1 DEF Serving
    <2>3. phase'[p[1]] = phase[p[1]] /\ home'[p[1]] = home[p[1]]
      BY <1>1, <1>2, <2>1, SocketsAreTasks DEF Alone, TypeInv, TypeOK
    <2>4. home[p[1]] = w => Tells(c, p)'
      BY <1>1, <1>2, <1>4, <2>1, <2>2, TellsFirst
    <2>5. phase'[c] \notin {"absent", "idle"}
      BY <1>1 DEF AfterReturn
    <2> QED
      BY <1>2, <2>1, <2>2, <2>3, <2>4, <2>5 DEF Owed, Pending, Neighbours, Owner
  <1>5. ASSUME NEW p \in behind' PROVE Owed(p)'
    <2>1. CASE p \in behind
      <3>1. Owner(p) # c
        BY <1>1, <2>1 DEF ToldInv, Owed
      <3> QED
        BY <1>1, <1>2, <1>3, <1>5, <2>1, <3>1, OthersOwed
    <2>2. CASE p \notin behind
      BY <1>4, <1>5, <2>2
    <2> QED
      BY <2>1, <2>2
  <1> QED
    BY <1>5, Zenon DEF ToldInv

LEMMA NextToldInv == TypeInv /\ PoolInv /\ ToldInv /\ [Next]_vars => ToldInv'
  <1> SUFFICES ASSUME TypeInv, PoolInv, ToldInv, [Next]_vars PROVE ToldInv'
    OBVIOUS
  <1>1. CASE UNCHANGED vars
    BY <1>1 DEF vars, ToldInv, Owed, Pending, Tells, Neighbours, Owner, ChangeOf
  <1>2. ASSUME NEW s \in Sockets, HandlerStep(s) PROVE ToldInv'
    BY <1>2, HandlerTold, CastSentTold, RepliedTold, SocketsAreTasks
  <1>3. ASSUME NEW c \in Calls, CallStep(c) PROVE ToldInv'
    BY <1>3, CastSentTold, HeartbeatTold, SocketsAreTasks DEF CallStep
  <1> QED
    BY <1>1, <1>2, <1>3, NextSplit

\* A panel in the process of a change knows of it when the task that made it
\* goes on, unless that broadcast raised, met a pool that changed under it or
\* was given up: however the sends of several broadcasts interleave, and
\* whoever joins or leaves during them.
THEOREM PanelsAreTold == Spec => []ToldUnlessBroken
  <1>1. TypeInv /\ ToldInv => ToldUnlessBroken
    <2> SUFFICES ASSUME TypeInv, ToldInv, NEW p \in behind, Watching(p[1]),
                        p[2][1] \notin Announcing, home[p[1]] = home[p[2][1]]
                 PROVE  p \in excused
      BY DEF ToldUnlessBroken
    <2>1. phase[p[2][1]] \notin {"reply", "cast"}
      BY PairTyped DEF Announcing, Owner
    <2> QED
      BY <2>1 DEF ToldInv, Owed, Pending, Tells, Neighbours, Owner, Watching
  <1> QED
    BY InitTypeInv, NextTypeInv, InitPoolInv, NextPoolInv, InitToldInv, NextToldInv,
       <1>1, PTL DEF Spec
=============================================================================
