--------------------------- MODULE UserAdminProof ---------------------------
(***************************************************************************)
(* Theorems about UserAdmin, for any number of accounts, requests and      *)
(* worker processes, on both databases.                                    *)
(***************************************************************************)
EXTENDS UserAdmin, TLAPS

Active == {"select", "commit", "refresh"}

\* What a handler knows at each statement.
Sent(r) == pc[r] # "unsent" => req[r] \in Requests /\ worker[r] \in deployment.workers
HasUser(r) ==
    /\ pc[r] \in Active => me[r] # None /\ req[r].kind # "login"
    /\ pc[r] = "select" =>
          req[r].kind \in {"create_user", "update_user", "delete_user"}
    /\ pc[r] = "refresh" =>
          req[r].kind \in {"create_user", "update_user", "change_password"}
    /\ (pc[r] = "commit" /\ req[r].kind # "cleanup_logs") \/ pc[r] = "refresh" =>
          target[r] # None
    /\ pc[r] = "commit" /\ req[r].kind = "cleanup_logs" => target[r] = None

Shape == 1 <= nextId /\ \A r \in Reqs : Sent(r) /\ HasUser(r)

TypeInv == TypeOK /\ Shape

LEMMA Kinds ==
    ASSUME NEW q \in Requests
    PROVE  /\ q.kind = "login" => q \in LoginRequest
           /\ q.kind = "change_password" => q \in ChangePasswordRequest
           /\ q.kind = "create_user" => q \in CreateRequest
           /\ q.kind = "update_user" => q \in UpdateRequest
           /\ q.kind = "delete_user" => q \in DeleteRequest
           /\ q.kind = "cleanup_logs" => q \in CleanupRequest
           /\ q.kind \in {"login", "change_password", "create_user", "update_user",
                          "delete_user", "cleanup_logs"}
           /\ q # None
  <1>1. q \in AnyRequest
    BY UsersAssumption
  <1>2. /\ \A x \in LoginRequest : x.kind = "login"
        /\ \A x \in ChangePasswordRequest : x.kind = "change_password"
        /\ \A x \in CreateRequest : x.kind = "create_user"
        /\ \A x \in UpdateRequest : x.kind = "update_user"
        /\ \A x \in DeleteRequest : x.kind = "delete_user"
        /\ \A x \in CleanupRequest : x.kind = "cleanup_logs"
    BY DEF LoginRequest, ChangePasswordRequest, CreateRequest, UpdateRequest,
       DeleteRequest, CleanupRequest
  <1> QED
    BY <1>1, <1>2, UsersAssumption DEF AnyRequest

LEMMA NoneIsNoUser == \A x \in Loaded : x # None
  BY UsersAssumption

LEMMA MaxIdIs ==
    ASSUME NEW us, DOMAIN us \subseteq Nat, NEW n \in MaxIdPlusOne(us)
    PROVE  n \in Nat \ {0} /\ n \notin DOMAIN us /\ \A i \in DOMAIN us : i < n
  BY DEF MaxIdPlusOne

LEMMA InitTypeInv == Init => TypeInv
  <1> SUFFICES ASSUME Init PROVE TypeInv
    OBVIOUS
  <1>1. Table(users) /\ deployment \in Deployments
    BY UsersAssumption DEF Init
  <1>2. nextId \in Nat /\ 1 <= nextId
    BY <1>1, MaxIdIs DEF Init, Table
  <1>3. tokens \subseteq Names
    BY <1>1 DEF Init, Table, Row
  <1>4. /\ log \in Seq(Effect) /\ done \subseteq Effect
        /\ req \in [Reqs -> Requests \cup {None}]
        /\ worker \in [Reqs -> Workers \cup {None}]
        /\ pc \in [Reqs -> {"unsent", "select", "commit", "refresh", "end"}]
        /\ me \in [Reqs -> Loaded \cup {None}] /\ target \in [Reqs -> Loaded \cup {None}]
        /\ reply \in [Reqs -> {None, "done", "refused", "error"}]
        /\ \A r \in Reqs : pc[r] = "unsent"
    BY DEF Init
  <1>5. Shape
    BY <1>2, <1>4 DEF Shape, Sent, HasUser, Active
  <1> QED
    BY <1>1, <1>2, <1>3, <1>4, <1>5 DEF TypeInv, TypeOK

-----------------------------------------------------------------------------
(***************************************************************************)
(* What the steps do.                                                      *)
(***************************************************************************)

\* A step of r changes nothing of the other requests.
Alone(r) ==
    /\ \A q \in Reqs \ {r} :
          /\ pc'[q] = pc[q] /\ req'[q] = req[q] /\ worker'[q] = worker[q]
          /\ me'[q] = me[q] /\ target'[q] = target[q] /\ reply'[q] = reply[q]
    /\ deployment' = deployment

\* What it does to the table: nothing, or an INSERT, UPDATE or DELETE of one row.
SameRows == users' = users /\ nextId' = nextId
Inserts(r, i) ==
    /\ i \notin DOMAIN users /\ i \in Nat \ {0}
    /\ deployment.reuse_ids => nextId' = nextId
    /\ ~deployment.reuse_ids => i = nextId /\ nextId' = i + 1
    /\ target[r].row \in Row
    /\ DOMAIN users' = DOMAIN users \cup {i}
    /\ users'[i] = target[r].row
    /\ \A j \in DOMAIN users : users'[j] = users[j] /\ users[j].name # target[r].row.name
Writes(i, row) ==
    /\ i \in DOMAIN users /\ row \in Row /\ row.name = users[i].name
    /\ nextId' = nextId
    /\ DOMAIN users' = DOMAIN users
    /\ users'[i] = row
    /\ \A j \in DOMAIN users \ {i} : users'[j] = users[j]
Drops(i) ==
    /\ nextId' = nextId
    /\ DOMAIN users' = DOMAIN users \ {i}
    /\ \A j \in DOMAIN users \ {i} : users'[j] = users[j]

\* The rows of the table keep their type.
LEMMA TableTyped ==
    ASSUME TypeInv, NEW r, NEW i, NEW row,
           \/ SameRows
           \/ Inserts(r, i)
           \/ Writes(i, row)
           \/ Drops(i)
    PROVE  Table(users') /\ nextId' \in Nat /\ 1 <= nextId'
  <1>1. Table(users) /\ nextId \in Nat /\ 1 <= nextId
    BY DEF TypeInv, TypeOK, Shape
  <1>2. CASE SameRows
    BY <1>1, <1>2 DEF SameRows
  <1>3. CASE Inserts(r, i)
    BY <1>1, <1>3 DEF Inserts, Table
  <1>4. CASE Writes(i, row)
    BY <1>1, <1>4 DEF Writes, Table
  <1>5. CASE Drops(i)
    BY <1>1, <1>5 DEF Drops, Table
  <1> QED
    BY <1>2, <1>3, <1>4, <1>5

\* A step of r that changes nothing of the others keeps the types, if r does.
LEMMA TypeAssembly ==
    ASSUME TypeInv, NEW r \in Reqs, Alone(r), TypeOK', 1 <= nextId', Sent(r)', HasUser(r)'
    PROVE  TypeInv'
  <1>1. ASSUME NEW q \in Reqs \ {r} PROVE Sent(q)' /\ HasUser(q)'
    <2>1. Sent(q) /\ HasUser(q)
      BY DEF TypeInv, Shape
    <2>2. /\ pc'[q] = pc[q] /\ req'[q] = req[q] /\ worker'[q] = worker[q]
          /\ me'[q] = me[q] /\ target'[q] = target[q] /\ deployment' = deployment
      BY DEF Alone
    <2> QED
      BY <2>1, <2>2 DEF Sent, HasUser
  <1> QED
    BY <1>1 DEF TypeInv, Shape

\* The steps of an admitted handler.
Moves(r) ==
    /\ pc[r] \in Active
    /\ UNCHANGED <<tokens, call, me>>
    /\ \E p \in {"commit", "refresh", "end"} : pc' = [pc EXCEPT ![r] = p]
    /\ \/ reply' = reply /\ pc'[r] # "end"
       \/ /\ pc'[r] = "end"
          /\ \E a \in {"done", "refused", "error"} : reply' = [reply EXCEPT ![r] = a]
    /\ \/ target' = target
       \/ \E x \in Loaded : target' = [target EXCEPT ![r] = x]

LEMMA MovesTypes ==
    ASSUME TypeInv, NEW r \in Reqs, Moves(r), HasUser(r)',
           Table(users'), nextId' \in Nat, 1 <= nextId',
           log' \in Seq(Effect), done' \subseteq Effect
    PROVE  Alone(r) /\ TypeInv'
  <1>1. TypeOK /\ Sent(r) /\ pc[r] # "unsent"
    BY DEF TypeInv, Shape, Moves, Active
  <1>2. UNCHANGED <<tokens, req, worker, deployment, me>>
    BY DEF Moves, call
  <1>3. PICK p \in {"commit", "refresh", "end"} : pc' = [pc EXCEPT ![r] = p]
    BY DEF Moves
  <1>4. /\ pc' \in [Reqs -> {"unsent", "select", "commit", "refresh", "end"}]
        /\ \A q \in Reqs \ {r} : pc'[q] = pc[q]
    BY <1>1, <1>3 DEF TypeOK
  <1>5. /\ reply' \in [Reqs -> {None, "done", "refused", "error"}]
        /\ \A q \in Reqs \ {r} : reply'[q] = reply[q]
    BY <1>1 DEF TypeOK, Moves
  <1>6. /\ target' \in [Reqs -> Loaded \cup {None}]
        /\ \A q \in Reqs \ {r} : target'[q] = target[q]
    BY <1>1 DEF TypeOK, Moves
  <1>7. Alone(r)
    BY <1>2, <1>4, <1>5, <1>6 DEF Alone
  <1>8. TypeOK'
    BY <1>1, <1>2, <1>4, <1>5, <1>6 DEF TypeOK
  <1>9. Sent(r)'
    BY <1>1, <1>2 DEF Sent
  <1> QED
    BY <1>7, <1>8, <1>9, TypeAssembly

\* The facts that an admitted handler relies on.
LEMMA Admission ==
    ASSUME TypeInv, NEW r \in Reqs, pc[r] \in Active
    PROVE  /\ req[r] \in Requests /\ req[r] # None
           /\ me[r] \in Loaded /\ req[r].kind # "login"
           /\ target[r] \in Loaded \cup {None}
           /\ pc[r] = "commit" /\ req[r].kind # "cleanup_logs" => target[r] \in Loaded
           /\ pc[r] = "refresh" => target[r] \in Loaded
           /\ pc[r] = "commit" /\ req[r].kind = "cleanup_logs" => target[r] = None
           /\ Table(users) /\ nextId \in Nat /\ 1 <= nextId
           /\ log \in Seq(Effect) /\ done \subseteq Effect
           /\ worker[r] \in deployment.workers
  <1>1. TypeOK /\ Sent(r) /\ HasUser(r) /\ 1 <= nextId
    BY DEF TypeInv, Shape
  <1> QED
    BY <1>1, Kinds DEF TypeOK, Sent, HasUser, Active

LEMMA LoadedIs ==
    \A x \in Loaded : x.id \in Nat /\ x.row \in Row /\ x.row.name \in Names
  BY DEF Loaded, Row

\* What is logged and done about a request.
LEMMA EffectTyped ==
    ASSUME TypeInv, NEW r \in Reqs, pc[r] \in Active \ {"select"}, NEW n \in Names \cup {None},
           req[r].kind # "login"
    PROVE  EffectOn(r, n) \in Effect /\ Entry(r) \in Effect
  <1>1. req[r].kind \in {"change_password", "create_user", "update_user",
                         "delete_user", "cleanup_logs"}
    BY Admission, Kinds
  <1>2. target[r] # None => target[r].row.name \in Names
    BY Admission, LoadedIs
  <1> QED
    BY <1>1, <1>2 DEF EffectOn, Entry, Effect

-----------------------------------------------------------------------------
(***************************************************************************)
(* The steps, one by one.                                                  *)
(***************************************************************************)

\* A request arrives, and is refused, admitted or (a login) done.
Arrives(r, w, q, p) ==
    /\ Receives(r, w, q) /\ UNCHANGED store /\ tokens' \subseteq Names
    /\ pc' = [pc EXCEPT ![r] = p]
    /\ \/ reply' = reply
       \/ \E a \in {"done", "refused"} : reply' = [reply EXCEPT ![r] = a]
    /\ me' = me \/ \E x \in Loaded : me' = [me EXCEPT ![r] = x]
    /\ target' = target \/ \E x \in Loaded \cup {None} : target' = [target EXCEPT ![r] = x]
    /\ p # "end" => HasUser(r)'

LEMMA ReceivesTypes ==
    ASSUME TypeInv, NEW r \in Reqs, NEW w \in Workers, NEW q \in Requests,
           NEW p \in {"select", "commit", "end"}, Arrives(r, w, q, p)
    PROVE  /\ Alone(r) /\ TypeInv'
           /\ pc'[r] = p /\ req'[r] = q /\ worker'[r] = w
  <1>1. TypeOK /\ 1 <= nextId
    BY DEF TypeInv, Shape
  <1>2. /\ w \in deployment.workers /\ deployment' = deployment
        /\ req' = [req EXCEPT ![r] = q] /\ worker' = [worker EXCEPT ![r] = w]
    BY DEF Receives, Arrives
  <1>3. /\ pc' \in [Reqs -> {"unsent", "select", "commit", "refresh", "end"}]
        /\ pc'[r] = p /\ \A x \in Reqs \ {r} : pc'[x] = pc[x]
    BY <1>1 DEF TypeOK, Arrives
  <1>4. /\ req' \in [Reqs -> Requests \cup {None}] /\ req'[r] = q
        /\ worker' \in [Reqs -> Workers \cup {None}] /\ worker'[r] = w
        /\ \A x \in Reqs \ {r} : req'[x] = req[x] /\ worker'[x] = worker[x]
    BY <1>1, <1>2 DEF TypeOK
  <1>5. /\ reply' \in [Reqs -> {None, "done", "refused", "error"}]
        /\ \A x \in Reqs \ {r} : reply'[x] = reply[x]
    BY <1>1 DEF TypeOK, Arrives
  <1>6. /\ me' \in [Reqs -> Loaded \cup {None}]
        /\ \A x \in Reqs \ {r} : me'[x] = me[x]
    BY <1>1 DEF TypeOK, Arrives
  <1>7. /\ target' \in [Reqs -> Loaded \cup {None}]
        /\ \A x \in Reqs \ {r} : target'[x] = target[x]
    BY <1>1 DEF TypeOK, Arrives
  <1>8. Alone(r)
    BY <1>2, <1>3, <1>4, <1>5, <1>6, <1>7 DEF Alone
  <1>9. TypeOK'
    BY <1>1, <1>2, <1>3, <1>4, <1>5, <1>6, <1>7 DEF TypeOK, store, Arrives
  <1>10. Sent(r)'
    BY <1>2, <1>4 DEF Sent
  <1>11. HasUser(r)'
    BY <1>3 DEF HasUser, Active, Arrives
  <1> QED
    BY <1>1, <1>3, <1>4, <1>8, <1>9, <1>10, <1>11, TypeAssembly DEF store, Arrives

LEMMA LoginIs ==
    ASSUME TypeInv, NEW r \in Reqs, NEW w \in Workers, NEW q \in Requests,
           Login(r, w, q)
    PROVE  /\ Alone(r) /\ TypeInv' /\ UNCHANGED store
           /\ pc[r] = "unsent" /\ pc'[r] = "end" /\ req'[r] = q
           /\ q.kind = "login" /\ worker'[r] = w /\ Idle(w)
  <1>1. /\ q.kind = "login" /\ Receives(r, w, q)
        /\ UNCHANGED store /\ me' = me /\ target' = target
        /\ pc' = [pc EXCEPT ![r] = "end"]
        /\ \E a \in {"done", "refused"} : reply' = [reply EXCEPT ![r] = a]
        /\ tokens' \in {tokens, tokens \cup {q.name}}
    BY DEF Login, Ends, Goto
  <1>2. tokens' \subseteq Names
    <2>1. q.name \in Names
      BY <1>1, Kinds DEF LoginRequest
    <2> QED
      BY <1>1, <2>1 DEF TypeInv, TypeOK
  <1>3. Alone(r) /\ TypeInv' /\ pc'[r] = "end" /\ req'[r] = q /\ worker'[r] = w
    <2>1. Arrives(r, w, q, "end")
      BY <1>1, <1>2 DEF Arrives
    <2> QED
      BY <2>1, ReceivesTypes
  <1> QED
    BY <1>1, <1>3 DEF Receives

\* The user a handler is admitted for: the row of the token's name.
Permits(q, x) ==
    /\ x.row.name = q.actor /\ x.row.active
    /\ IF q.kind = "change_password" THEN x.row.password = q.old
       ELSE x.row.admin /\ (q.kind = "delete_user" => q.id # x.id)

LEMMA CheckTokenIs ==
    ASSUME TypeInv, NEW r \in Reqs, NEW w \in Workers, NEW q \in Requests,
           CheckToken(r, w, q)
    PROVE  /\ Alone(r) /\ TypeInv' /\ UNCHANGED store
           /\ pc[r] = "unsent" /\ req'[r] = q
           /\ worker'[r] = w /\ Idle(w)
           /\ \/ pc'[r] = "end" /\ reply'[r] = "refused"
              \/ /\ pc'[r] \in {"select", "commit"}
                 /\ me'[r].id \in DOMAIN users /\ me'[r].row = users[me'[r].id]
                 /\ Permits(q, me'[r])
                 /\ q.kind = "change_password" => target'[r] = me'[r]
                 /\ pc'[r] = "commit" => q.kind \in {"change_password", "cleanup_logs"}
  <1>1. /\ q.kind # "login" /\ Receives(r, w, q) /\ UNCHANGED <<store, tokens>>
        /\ pc[r] = "unsent" /\ Idle(w)
    BY DEF CheckToken, Receives
  <1>2. TypeOK /\ Table(users) /\ tokens' \subseteq Names
    BY <1>1 DEF TypeInv, TypeOK
  <1>3. CASE Ends(r, "refused") /\ UNCHANGED <<me, target>>
    <2>1. /\ pc' = [pc EXCEPT ![r] = "end"] /\ reply' = [reply EXCEPT ![r] = "refused"]
          /\ me' = me /\ target' = target
      BY <1>3 DEF Ends, Goto
    <2>2. Alone(r) /\ TypeInv' /\ pc'[r] = "end" /\ req'[r] = q /\ worker'[r] = w
      <3>1. Arrives(r, w, q, "end")
        BY <1>1, <1>2, <2>1 DEF Arrives
      <3> QED
        BY <3>1, ReceivesTypes
    <2>3. reply'[r] = "refused"
      BY <1>2, <2>1 DEF TypeOK
    <2> QED
      BY <1>1, <2>2, <2>3
  <1>4. CASE ~(Ends(r, "refused") /\ UNCHANGED <<me, target>>)
    <2> DEFINE user(i) == [id |-> i, row |-> users[i]]
               p == IF q.kind \in {"change_password", "cleanup_logs"}
                    THEN "commit" ELSE "select"
    <2>1. PICK i \in IdsOf(q.actor) :
             /\ Admitted(q, i)
             /\ me' = [me EXCEPT ![r] = user(i)]
             /\ target' = [target EXCEPT ![r] = IF q.kind = "change_password"
                                                 THEN user(i) ELSE None]
             /\ pc' = [pc EXCEPT ![r] = p]
             /\ reply' = reply
      BY <1>4 DEF CheckToken, Goto
    <2>2. i \in DOMAIN users /\ i \in Nat /\ users[i] \in Row /\ users[i].name = q.actor
      BY <1>2, <2>1 DEF IdsOf, Table
    <2>3. user(i) \in Loaded /\ user(i).id = i /\ user(i).row = users[i]
      BY <2>2 DEF Loaded
    <2>4. /\ me'[r] = user(i)
          /\ target'[r] = IF q.kind = "change_password" THEN user(i) ELSE None
          /\ pc'[r] = p /\ req'[r] = q
      BY <1>1, <1>2, <2>1 DEF TypeOK, Receives
    <2> HIDE DEF user
    <2>5. HasUser(r)'
      <3>1. q.kind \in {"change_password", "create_user", "update_user",
                        "delete_user", "cleanup_logs"}
        BY <1>1, Kinds
      <3> QED
        BY <2>3, <2>4, <3>1, NoneIsNoUser DEF HasUser, Active
    <2>6. /\ \E x \in Loaded : me' = [me EXCEPT ![r] = x]
          /\ \E x \in Loaded \cup {None} : target' = [target EXCEPT ![r] = x]
      BY <2>1, <2>3
    <2>7. Alone(r) /\ TypeInv' /\ worker'[r] = w
      <3>1. Arrives(r, w, q, p)
        BY <1>1, <1>2, <2>1, <2>5, <2>6 DEF Arrives
      <3>2. p \in {"select", "commit", "end"}
        OBVIOUS
      <3> HIDE DEF p
      <3> QED
        BY <3>1, <3>2, ReceivesTypes
    <2>8. Permits(q, user(i))
      BY <2>1, <2>2, <2>3 DEF Permits, Admitted
    <2> QED
      BY <1>1, <2>2, <2>3, <2>4, <2>7, <2>8
  <1> QED
    BY <1>3, <1>4

LEMMA ExpireIs ==
    ASSUME TypeInv, NEW n \in Names, Expire(n)
    PROVE  /\ TypeInv' /\ UNCHANGED <<store, call, pc, me, target, reply>>
  <1>1. /\ tokens' = tokens \ {n} /\ UNCHANGED <<store, call, pc, me, target, reply>>
    BY DEF Expire
  <1> QED
    BY <1>1 DEF store, call, TypeInv, TypeOK, Shape, Sent, HasUser

LEMMA SelectIs ==
    ASSUME TypeInv, NEW r \in Reqs, SelectUser(r) \/ SelectName(r)
    PROVE  /\ Alone(r) /\ TypeInv' /\ UNCHANGED <<store, call, me>>
           /\ pc[r] = "select"
           /\ \/ pc'[r] = "end" /\ reply'[r] = "refused"
              \/ /\ pc'[r] = "commit" /\ req[r].kind \in {"update_user", "delete_user"}
                 /\ target'[r].id = req[r].id /\ req[r].id \in DOMAIN users
                 /\ \/ req[r].id = me[r].id /\ target'[r] = me[r]
                    \/ target'[r].row = users[req[r].id]
              \/ /\ pc'[r] = "commit" /\ req[r].kind = "create_user"
                 /\ target'[r].id = 0 /\ target'[r].row = req[r].row
                 /\ IdsOf(req[r].row.name) = {}
  <1>1. /\ pc[r] = "select" /\ UNCHANGED <<store, tokens, call, me>>
        /\ req[r].kind \in {"create_user", "update_user", "delete_user"}
    BY DEF SelectUser, SelectName
  <1>2. /\ TypeOK /\ Table(users) /\ nextId \in Nat /\ 1 <= nextId
        /\ req[r] \in Requests /\ me[r] \in Loaded
        /\ log \in Seq(Effect) /\ done \subseteq Effect
    BY <1>1, Admission DEF Active, TypeInv
  <1>3. /\ users' = users /\ nextId' = nextId /\ log' = log /\ done' = done
        /\ req' = req /\ worker' = worker /\ deployment' = deployment /\ me' = me
    BY <1>1 DEF store, call
  <1>4. CASE Ends(r, "refused") /\ UNCHANGED target
    <2>1. /\ pc' = [pc EXCEPT ![r] = "end"] /\ reply' = [reply EXCEPT ![r] = "refused"]
      BY <1>4 DEF Ends, Goto
    <2>2. pc'[r] = "end" /\ reply'[r] = "refused"
      BY <1>2, <2>1 DEF TypeOK
    <2>3. Moves(r) /\ HasUser(r)'
      BY <1>1, <1>4, <2>1, <2>2 DEF Moves, HasUser, Active
    <2> QED
      BY <1>1, <1>2, <1>3, <2>2, <2>3, MovesTypes
  <1>5. ASSUME NEW x \in Loaded, target' = [target EXCEPT ![r] = x],
               Goto(r, "commit"), reply' = reply
        PROVE  /\ Alone(r) /\ TypeInv'
               /\ pc'[r] = "commit" /\ target'[r] = x
    <2>1. pc' = [pc EXCEPT ![r] = "commit"]
      BY <1>5 DEF Goto
    <2>2. pc'[r] = "commit" /\ target'[r] = x /\ x # None
      BY <1>2, <1>5, <2>1, NoneIsNoUser DEF TypeOK
    <2>3. Moves(r)
      BY <1>1, <1>5, <2>1, <2>2 DEF Moves, Active
    <2>4. HasUser(r)'
      BY <1>1, <1>2, <1>3, <2>2, NoneIsNoUser DEF HasUser, Active
    <2> QED
      BY <1>2, <1>3, <2>2, <2>3, <2>4, MovesTypes
  <1>6. CASE SelectUser(r)
    <2>1. req[r].kind \in {"update_user", "delete_user"}
      BY <1>6 DEF SelectUser
    <2>2. CASE req[r].id \notin DOMAIN users
      BY <1>1, <1>4, <1>6, <2>2 DEF SelectUser
    <2>3. CASE req[r].id \in DOMAIN users
      <3> DEFINE x == IF req[r].id = me[r].id THEN me[r]
                      ELSE [id |-> req[r].id, row |-> users[req[r].id]]
      <3>1. /\ target' = [target EXCEPT ![r] = x] /\ Goto(r, "commit") /\ reply' = reply
        BY <1>6, <2>3 DEF SelectUser
      <3>2. /\ x \in Loaded /\ x.id = req[r].id
            /\ \/ req[r].id = me[r].id /\ x = me[r]
               \/ x.row = users[req[r].id]
        BY <1>2, <2>3 DEF Loaded, Table
      <3> HIDE DEF x
      <3>3. Alone(r) /\ TypeInv' /\ pc'[r] = "commit" /\ target'[r] = x
        BY <1>5, <3>1, <3>2
      <3> QED
        BY <1>1, <2>1, <2>3, <3>2, <3>3
    <2> QED
      BY <2>2, <2>3
  <1>7. CASE SelectName(r)
    <2>1. req[r].kind = "create_user"
      BY <1>7 DEF SelectName
    <2>2. CASE IdsOf(req[r].row.name) # {}
      BY <1>1, <1>4, <1>7, <2>2 DEF SelectName
    <2>3. CASE IdsOf(req[r].row.name) = {}
      <3> DEFINE x == [id |-> 0, row |-> req[r].row]
      <3>1. /\ target' = [target EXCEPT ![r] = x] /\ Goto(r, "commit") /\ reply' = reply
        BY <1>7, <2>3 DEF SelectName
      <3>2. x \in Loaded /\ x.id = 0 /\ x.row = req[r].row
        BY <1>2, <2>1, Kinds DEF Loaded, CreateRequest
      <3> HIDE DEF x
      <3>3. Alone(r) /\ TypeInv' /\ pc'[r] = "commit" /\ target'[r] = x
        BY <1>5, <3>1, <3>2
      <3> QED
        BY <1>1, <2>1, <2>3, <3>2, <3>3
    <2> QED
      BY <2>2, <2>3
  <1> QED
    BY <1>6, <1>7

\* The end of a handler that changes nothing: a commit that fails, a refresh.
LEMMA FailsIs ==
    ASSUME TypeInv, NEW r \in Reqs, CommitFails(r)
    PROVE  /\ Alone(r) /\ TypeInv' /\ UNCHANGED <<store, call, me, target>>
           /\ pc[r] = "commit" /\ pc'[r] = "end" /\ reply'[r] = "error"
  <1>1. /\ pc[r] = "commit" /\ UNCHANGED <<store, tokens, call, me, target>>
        /\ pc' = [pc EXCEPT ![r] = "end"] /\ reply' = [reply EXCEPT ![r] = "error"]
    BY DEF CommitFails, Ends, Goto
  <1>2. pc'[r] = "end" /\ reply'[r] = "error"
    BY <1>1 DEF TypeInv, TypeOK
  <1>3. Moves(r) /\ HasUser(r)'
    BY <1>1, <1>2 DEF Moves, HasUser, Active
  <1>4. users' = users /\ nextId' = nextId /\ log' = log /\ done' = done
    BY <1>1 DEF store
  <1> QED
    BY <1>1, <1>2, <1>3, <1>4, Admission, MovesTypes DEF Active

LEMMA RefreshIs ==
    ASSUME TypeInv, NEW r \in Reqs, Refresh(r)
    PROVE  /\ Alone(r) /\ TypeInv' /\ UNCHANGED <<store, call, me, target>>
           /\ pc[r] = "refresh" /\ pc'[r] = "end"
           /\ reply'[r] = IF target[r].id \in DOMAIN users THEN "done" ELSE "error"
  <1> DEFINE a == IF target[r].id \in DOMAIN users THEN "done" ELSE "error"
  <1>1. /\ pc[r] = "refresh" /\ UNCHANGED <<store, tokens, call, me, target>>
        /\ pc' = [pc EXCEPT ![r] = "end"] /\ reply' = [reply EXCEPT ![r] = a]
    BY DEF Refresh, Ends, Goto
  <1>2. a \in {"done", "error"}
    OBVIOUS
  <1> HIDE DEF a
  <1>3. pc'[r] = "end" /\ reply'[r] = a
    BY <1>1 DEF TypeInv, TypeOK
  <1>4. Moves(r) /\ HasUser(r)'
    BY <1>1, <1>2, <1>3 DEF Moves, HasUser, Active
  <1>5. users' = users /\ nextId' = nextId /\ log' = log /\ done' = done
    BY <1>1 DEF store
  <1>6. Alone(r) /\ TypeInv'
    BY <1>1, <1>4, <1>5, Admission, MovesTypes DEF Active
  <1> QED
    BY <1>1, <1>3, <1>6 DEF a

\* A commit ends the handler, or the refresh of the row is left.
LEMMA CommitTypes ==
    ASSUME TypeInv, NEW r \in Reqs, pc[r] = "commit", UNCHANGED <<tokens, call, me>>,
           \/ Goto(r, "refresh") /\ reply' = reply
              /\ req[r].kind \in {"create_user", "update_user", "change_password"}
           \/ Ends(r, "done"),
           \/ target' = target
           \/ \E x \in Loaded : target' = [target EXCEPT ![r] = x],
           Table(users'), nextId' \in Nat, 1 <= nextId',
           log' \in {log, Append(log, Entry(r))},
           \/ done' = done
           \/ \E n \in Names \cup {None} : done' = done \cup {EffectOn(r, n)}
    PROVE  /\ Alone(r) /\ TypeInv'
           /\ \/ Goto(r, "refresh") /\ pc'[r] = "refresh" /\ reply' = reply
              \/ Ends(r, "done") /\ pc'[r] = "end" /\ reply'[r] = "done"
  <1>1. /\ TypeOK /\ req[r].kind # "login" /\ me[r] \in Loaded
        /\ target[r] \in Loaded \cup {None}
        /\ req[r].kind # "cleanup_logs" => target[r] \in Loaded
        /\ log \in Seq(Effect) /\ done \subseteq Effect
    BY Admission DEF TypeInv, Active
  <1>2. \A n \in Names \cup {None} : EffectOn(r, n) \in Effect
    BY <1>1, EffectTyped DEF Active
  <1>3. Entry(r) \in Effect
    BY <1>1, EffectTyped DEF Active
  <1>4. log' \in Seq(Effect) /\ done' \subseteq Effect
    BY <1>1, <1>2, <1>3
  <1>5. \/ Goto(r, "refresh") /\ pc'[r] = "refresh" /\ reply' = reply
           /\ pc' = [pc EXCEPT ![r] = "refresh"]
           /\ req[r].kind \in {"create_user", "update_user", "change_password"}
        \/ Ends(r, "done") /\ pc'[r] = "end" /\ reply'[r] = "done"
           /\ pc' = [pc EXCEPT ![r] = "end"] /\ reply' = [reply EXCEPT ![r] = "done"]
    BY <1>1 DEF Ends, Goto, TypeOK
  <1>6. Moves(r)
    BY <1>5 DEF Moves, Active
  <1>7. HasUser(r)'
    <2>1. target'[r] \in Loaded \/ target'[r] = target[r]
      BY <1>1 DEF TypeOK
    <2>2. req' = req /\ me' = me
      BY DEF call
    <2> QED
      BY <1>1, <1>5, <2>1, <2>2, NoneIsNoUser DEF HasUser, Active
  <1> QED
    BY <1>4, <1>5, <1>6, <1>7, MovesTypes

\* The commit of r does something to the account named n.
Commits(r, n) ==
    /\ log' = Append(log, Entry(r))
    /\ done' = done \cup {EffectOn(r, n)}

LEMMA CreateIs ==
    ASSUME TypeInv, NEW r \in Reqs, CreateUser(r), ~deployment.reuse_ids =>
           \A i \in DOMAIN users : i < nextId
    PROVE  /\ Alone(r) /\ TypeInv' /\ UNCHANGED <<call, me>>
           /\ pc[r] = "commit" /\ req[r].kind = "create_user" /\ pc'[r] = "refresh"
           /\ Commits(r, target[r].row.name)
           /\ \E i : Inserts(r, i) /\ target'[r] \in Loaded /\ target'[r].id = i
  <1> DEFINE row == target[r].row
  <1>1. /\ pc[r] = "commit" /\ req[r].kind = "create_user" /\ MayInsert(row.name)
        /\ Commits(r, row.name) /\ UNCHANGED <<tokens, call, me>>
        /\ Goto(r, "refresh") /\ reply' = reply
    BY DEF CreateUser, At, Does, Commits
  <1>2. /\ TypeOK /\ Table(users) /\ target[r] \in Loaded
        /\ nextId \in Nat /\ 1 <= nextId
    BY <1>1, Admission DEF Active, TypeInv
  <1>3. row \in Row /\ row.name \in Names
    BY <1>2, LoadedIs
  <1> HIDE DEF row
  <1>4. PICK i \in NewIds :
          /\ users' = [j \in DOMAIN users \cup {i} |-> IF j = i THEN row ELSE users[j]]
          /\ nextId' = IF deployment.reuse_ids THEN nextId ELSE i + 1
          /\ target' = [target EXCEPT ![r].id = i]
    BY DEF CreateUser, row
  <1>5. /\ i \in Nat \ {0} /\ i \notin DOMAIN users
        /\ ~deployment.reuse_ids => i = nextId
    <2>1. CASE deployment.reuse_ids
      BY <1>2, <1>4, <2>1, MaxIdIs DEF NewIds, Table
    <2>2. CASE ~deployment.reuse_ids
      BY <1>2, <1>4, <2>2 DEF NewIds
    <2> QED
      BY <2>1, <2>2
  <1>6. \A j \in DOMAIN users : users[j].name # row.name
    BY <1>1 DEF MayInsert, IdsOf
  <1>7. Inserts(r, i)
    <2>1. /\ DOMAIN users' = DOMAIN users \cup {i} /\ users'[i] = row
          /\ \A j \in DOMAIN users : users'[j] = users[j]
      BY <1>4, <1>5
    <2> QED
      BY <1>3, <1>4, <1>5, <1>6, <2>1 DEF Inserts, row
  <1>8. Table(users') /\ nextId' \in Nat /\ 1 <= nextId'
    BY <1>7, TableTyped
  <1> DEFINE x == [target[r] EXCEPT !.id = i]
  <1>9. x \in Loaded /\ x.id = i
    BY <1>2, <1>5 DEF Loaded
  <1>10. target' = [target EXCEPT ![r] = x] /\ target'[r] = x
    BY <1>2, <1>4 DEF TypeOK
  <1> HIDE DEF x
  <1>11. Alone(r) /\ TypeInv' /\ pc'[r] = "refresh"
    <2>1. log' = Append(log, Entry(r)) /\ done' = done \cup {EffectOn(r, row.name)}
      BY <1>1 DEF Commits
    <2>2. ~Ends(r, "done")
      BY <1>1, <1>2 DEF Ends, Goto, TypeOK
    <2> QED
      BY <1>1, <1>3, <1>8, <1>9, <1>10, <2>1, <2>2, CommitTypes
  <1> QED
    BY <1>1, <1>7, <1>9, <1>10, <1>11 DEF row

\* An account may change so, on the request q.
Asked(q, old, new) ==
    \/ /\ q.kind = "change_password"
       /\ new = [old EXCEPT !.password = q.new]
    \/ /\ q.kind = "update_user"
       /\ \A c \in {"password", "active", "admin"} : new[c] \in {old[c], q[c]}

LEMMA UpdatedIs ==
    ASSUME NEW q \in UpdateRequest, NEW old \in Row, NEW row \in Row
    PROVE  /\ Updated(q, old, row) \in Row /\ Updated(q, old, row).name = row.name
           /\ Asked(q, row, Updated(q, old, row))
  <1> DEFINE p == IF q.password # None THEN q.password ELSE row.password
             a == IF Sets(q.active, old.active) THEN q.active ELSE row.active
             m == IF Sets(q.admin, old.admin) THEN q.admin ELSE row.admin
             new == [row EXCEPT !.password = p, !.active = a, !.admin = m]
  <1>1. Updated(q, old, row) = new
    BY DEF Updated
  <1>2. /\ q.password \in Passwords \cup {None} /\ q.active \in BOOLEAN \cup {None}
        /\ q.admin \in BOOLEAN \cup {None} /\ q.kind = "update_user"
    BY DEF UpdateRequest
  <1>3. row.password \in Passwords /\ row.active \in BOOLEAN /\ row.admin \in BOOLEAN
    BY DEF Row
  <1>4. p \in Passwords /\ p \in {row.password, q.password}
    BY <1>2, <1>3
  <1>5. a \in BOOLEAN /\ a \in {row.active, q.active}
    BY <1>2, <1>3 DEF Sets
  <1>6. m \in BOOLEAN /\ m \in {row.admin, q.admin}
    BY <1>2, <1>3 DEF Sets
  <1> HIDE DEF p, a, m
  <1>7. /\ new \in Row /\ new.name = row.name
        /\ new.password = p /\ new.active = a /\ new.admin = m
    BY <1>4, <1>5, <1>6 DEF Row
  <1> HIDE DEF new
  <1>8. \A c \in {"password", "active", "admin"} : new[c] \in {row[c], q[c]}
    BY <1>4, <1>5, <1>6, <1>7
  <1> QED
    BY <1>1, <1>2, <1>7, <1>8 DEF Asked

LEMMA UpdateIs ==
    ASSUME TypeInv, NEW r \in Reqs, UpdateUser(r)
    PROVE  /\ Alone(r) /\ TypeInv' /\ UNCHANGED <<call, me, target>>
           /\ pc[r] = "commit" /\ req[r].kind = "update_user" /\ pc'[r] = "refresh"
           /\ \/ /\ target[r].id \in DOMAIN users
                 /\ Commits(r, users[target[r].id].name)
                 /\ \E row : /\ Writes(target[r].id, row)
                             /\ Asked(req[r], users[target[r].id], row)
              \/ /\ target[r].id \notin DOMAIN users /\ SameRows
                 /\ log' = Append(log, Entry(r)) /\ done' = done
  <1>1. /\ pc[r] = "commit" /\ req[r].kind = "update_user"
        /\ Goto(r, "refresh") /\ reply' = reply
    BY DEF UpdateUser, At
  <1>2. /\ TypeOK /\ Table(users) /\ target[r] \in Loaded
        /\ nextId \in Nat /\ 1 <= nextId
        /\ req[r] \in UpdateRequest
    BY <1>1, Admission, Kinds DEF Active, TypeInv
  <1> DEFINE i == target[r].id
             row == Updated(req[r], target[r].row, users[i])
  <1>3. ~Ends(r, "done")
    BY <1>1, <1>2 DEF Ends, Goto, TypeOK
  <1>4. CASE i \in DOMAIN users
    <2>1. /\ users' = [users EXCEPT ![i] = row] /\ nextId' = nextId
          /\ Commits(r, users[i].name) /\ UNCHANGED <<tokens, call, me, target>>
      BY <1>4 DEF UpdateUser, Does, Commits
    <2>2. users[i] \in Row /\ users[i].name \in Names
      BY <1>2, <1>4 DEF Table, Row
    <2>3. row \in Row /\ row.name = users[i].name /\ Asked(req[r], users[i], row)
      BY <1>2, <2>2, LoadedIs, UpdatedIs
    <2> HIDE DEF row, i
    <2>4. Writes(i, row)
      BY <1>4, <2>1, <2>3 DEF Writes
    <2>5. Table(users') /\ nextId' \in Nat /\ 1 <= nextId'
      BY <2>4, TableTyped
    <2>6. Alone(r) /\ TypeInv' /\ pc'[r] = "refresh"
      BY <1>1, <1>3, <2>1, <2>2, <2>5, CommitTypes DEF Commits
    <2> QED
      BY <1>1, <1>4, <2>1, <2>3, <2>4, <2>6 DEF i
  <1>5. CASE i \notin DOMAIN users
    <2>1. /\ users' = users /\ nextId' = nextId /\ log' = Append(log, Entry(r))
          /\ done' = done /\ UNCHANGED <<tokens, call, me, target>>
      BY <1>5 DEF UpdateUser
    <2>2. Alone(r) /\ TypeInv' /\ pc'[r] = "refresh"
      BY <1>1, <1>2, <1>3, <2>1, CommitTypes
    <2> QED
      BY <1>1, <1>5, <2>1, <2>2 DEF SameRows
  <1> QED
    BY <1>4, <1>5

LEMMA ChangePasswordIs ==
    ASSUME TypeInv, NEW r \in Reqs, ChangePassword(r)
    PROVE  /\ Alone(r) /\ TypeInv' /\ UNCHANGED <<call, me, target>>
           /\ pc[r] = "commit" /\ req[r].kind = "change_password" /\ pc'[r] = "refresh"
           /\ target[r].id \in DOMAIN users
           /\ Commits(r, users[target[r].id].name)
           /\ \E row : /\ Writes(target[r].id, row)
                       /\ Asked(req[r], users[target[r].id], row)
  <1> DEFINE i == target[r].id
             row == [users[i] EXCEPT !.password = req[r].new]
  <1>1. /\ pc[r] = "commit" /\ req[r].kind = "change_password" /\ i \in DOMAIN users
        /\ Goto(r, "refresh") /\ UNCHANGED <<nextId, target, reply>>
        /\ users' = [users EXCEPT ![i] = row] /\ Commits(r, users[i].name)
        /\ UNCHANGED <<tokens, call, me>>
    BY DEF ChangePassword, At, Does, Commits
  <1>2. /\ TypeOK /\ Table(users) /\ target[r] \in Loaded
        /\ nextId \in Nat /\ 1 <= nextId
        /\ req[r] \in ChangePasswordRequest
    BY <1>1, Admission, Kinds DEF Active, TypeInv
  <1>3. users[i] \in Row /\ users[i].name \in Names /\ req[r].new \in Passwords
    BY <1>1, <1>2 DEF Table, Row, ChangePasswordRequest
  <1>4. row \in Row /\ row.name = users[i].name /\ Asked(req[r], users[i], row)
    BY <1>1, <1>3 DEF Row, Asked
  <1> HIDE DEF row, i
  <1>5. Writes(i, row)
    BY <1>1, <1>4 DEF Writes
  <1>6. Table(users') /\ nextId' \in Nat /\ 1 <= nextId'
    BY <1>5, TableTyped
  <1>7. ~Ends(r, "done")
    BY <1>1, <1>2 DEF Ends, Goto, TypeOK
  <1>8. Alone(r) /\ TypeInv' /\ pc'[r] = "refresh"
    BY <1>1, <1>3, <1>6, <1>7, CommitTypes DEF Commits
  <1> QED
    BY <1>1, <1>4, <1>5, <1>8 DEF i

LEMMA DeleteIs ==
    ASSUME TypeInv, NEW r \in Reqs, DeleteUser(r)
    PROVE  /\ Alone(r) /\ TypeInv' /\ UNCHANGED <<call, me, target>>
           /\ pc[r] = "commit" /\ req[r].kind = "delete_user" /\ pc'[r] = "end"
           /\ reply'[r] = "done" /\ Drops(target[r].id)
           /\ \/ target[r].id \in DOMAIN users /\ Commits(r, users[target[r].id].name)
              \/ /\ target[r].id \notin DOMAIN users
                 /\ log' = Append(log, Entry(r)) /\ done' = done
  <1> DEFINE i == target[r].id
  <1>1. /\ pc[r] = "commit" /\ req[r].kind = "delete_user"
        /\ users' = [j \in DOMAIN users \ {i} |-> users[j]]
        /\ log' = Append(log, Entry(r))
        /\ done' = IF i \in DOMAIN users
                   THEN done \cup {EffectOn(r, users[i].name)} ELSE done
        /\ Ends(r, "done") /\ nextId' = nextId /\ target' = target
        /\ UNCHANGED <<tokens, call, me>>
    BY DEF DeleteUser, At
  <1>2. /\ TypeOK /\ Table(users) /\ target[r] \in Loaded
    BY <1>1, Admission DEF Active, TypeInv
  <1>3. i \in DOMAIN users => users[i].name \in Names
    BY <1>2 DEF Table, Row
  <1> HIDE DEF i
  <1>4. Drops(i)
    BY <1>1 DEF Drops
  <1>5. Table(users') /\ nextId' \in Nat /\ 1 <= nextId'
    BY <1>4, TableTyped
  <1>6. done' = done \/ \E n \in Names \cup {None} : done' = done \cup {EffectOn(r, n)}
    BY <1>1, <1>3
  <1>7. ~Goto(r, "refresh")
    BY <1>1, <1>2 DEF Ends, Goto, TypeOK
  <1>8. /\ Alone(r) /\ TypeInv' /\ pc'[r] = "end" /\ reply'[r] = "done"
    BY <1>1, <1>5, <1>6, <1>7, CommitTypes
  <1> QED
    BY <1>1, <1>4, <1>8 DEF i, Commits

LEMMA CleanupIs ==
    ASSUME TypeInv, NEW r \in Reqs, CleanupLogs(r)
    PROVE  /\ Alone(r) /\ TypeInv' /\ UNCHANGED <<call, me, target>> /\ SameRows
           /\ pc[r] = "commit" /\ req[r].kind = "cleanup_logs" /\ pc'[r] = "end"
           /\ reply'[r] = "done"
           /\ \E k \in 0..Len(log) :
                 log' = Append(SubSeq(log, k + 1, Len(log)), Entry(r))
           /\ done' = done \cup {EffectOn(r, None)}
  <1>1. /\ pc[r] = "commit" /\ req[r].kind = "cleanup_logs"
        /\ done' = done \cup {EffectOn(r, None)} /\ Ends(r, "done")
        /\ UNCHANGED <<users, nextId, tokens, call, me, target>>
    BY DEF CleanupLogs, At
  <1>2. PICK k \in 0..Len(log) :
             log' = Append(SubSeq(log, k + 1, Len(log)), Entry(r))
    BY DEF CleanupLogs
  <1>3. /\ TypeOK /\ log \in Seq(Effect) /\ done \subseteq Effect
        /\ Table(users) /\ nextId \in Nat /\ 1 <= nextId
    BY <1>1, Admission DEF Active, TypeInv
  <1>4. EffectOn(r, None) \in Effect /\ Entry(r) \in Effect
    BY <1>1, EffectTyped DEF Active
  <1>5. log' \in Seq(Effect) /\ done' \subseteq Effect
    BY <1>1, <1>2, <1>3, <1>4
  <1>6. /\ pc' = [pc EXCEPT ![r] = "end"] /\ reply' = [reply EXCEPT ![r] = "done"]
        /\ pc'[r] = "end" /\ reply'[r] = "done"
    BY <1>1, <1>3 DEF Ends, Goto, TypeOK
  <1>7. Moves(r) /\ HasUser(r)'
    BY <1>1, <1>6 DEF Moves, HasUser, Active
  <1>8. Alone(r) /\ TypeInv'
    BY <1>1, <1>3, <1>5, <1>7, MovesTypes
  <1> QED
    BY <1>1, <1>2, <1>6, <1>8 DEF SameRows

-----------------------------------------------------------------------------
(***************************************************************************)
(* The steps of a request, by what they do.                                *)
(***************************************************************************)
Arrival(r) ==
    /\ pc[r] = "unsent" /\ UNCHANGED store /\ Idle(worker'[r])
    /\ \/ pc'[r] = "end" /\ (req'[r].kind = "login" \/ reply'[r] = "refused")
       \/ /\ pc'[r] \in {"select", "commit"}
          /\ me'[r].id \in DOMAIN users /\ me'[r].row = users[me'[r].id]
          /\ Permits(req'[r], me'[r])
          /\ req'[r].kind = "change_password" => target'[r] = me'[r]
          /\ pc'[r] = "commit" => req'[r].kind \in {"change_password", "cleanup_logs"}

Reading(r) ==
    /\ pc[r] = "select" /\ UNCHANGED <<store, call, me>>
    /\ \/ pc'[r] = "end" /\ reply'[r] = "refused"
       \/ /\ pc'[r] = "commit" /\ req[r].kind \in {"update_user", "delete_user"}
          /\ target'[r].id = req[r].id /\ req[r].id \in DOMAIN users
          /\ \/ req[r].id = me[r].id /\ target'[r] = me[r]
             \/ target'[r].row = users[req[r].id]
       \/ pc'[r] = "commit" /\ req[r].kind = "create_user"

Failing(r) ==
    /\ pc[r] = "commit" /\ UNCHANGED <<store, call, me, target>>
    /\ pc'[r] = "end" /\ reply'[r] = "error"

Refreshing(r) ==
    /\ pc[r] = "refresh" /\ UNCHANGED <<store, call, me, target>>
    /\ pc'[r] = "end"
    /\ reply'[r] = IF target[r].id \in DOMAIN users THEN "done" ELSE "error"

Creating(r) ==
    /\ pc[r] = "commit" /\ UNCHANGED <<call, me>>
    /\ req[r].kind = "create_user" /\ pc'[r] = "refresh"
    /\ Commits(r, target[r].row.name)
    /\ \E i : Inserts(r, i) /\ target'[r].id = i

Writing(r) ==
    /\ pc[r] = "commit" /\ UNCHANGED <<call, me, target>>
    /\ req[r].kind \in {"change_password", "update_user"} /\ pc'[r] = "refresh"
    /\ target[r].id \in DOMAIN users
    /\ Commits(r, users[target[r].id].name)
    /\ \E row : /\ Writes(target[r].id, row)
                /\ Asked(req[r], users[target[r].id], row)

Missing(r) ==
    /\ pc[r] = "commit" /\ UNCHANGED <<call, me, target>>
    /\ req[r].kind = "update_user" /\ pc'[r] = "refresh"
    /\ target[r].id \notin DOMAIN users /\ SameRows
    /\ log' = Append(log, Entry(r)) /\ done' = done

Deleting(r) ==
    /\ pc[r] = "commit" /\ UNCHANGED <<call, me, target>>
    /\ req[r].kind = "delete_user" /\ pc'[r] = "end" /\ reply'[r] = "done"
    /\ Drops(target[r].id)
    /\ \/ target[r].id \in DOMAIN users /\ Commits(r, users[target[r].id].name)
       \/ /\ target[r].id \notin DOMAIN users
          /\ log' = Append(log, Entry(r)) /\ done' = done

Cleaning(r) ==
    /\ pc[r] = "commit" /\ UNCHANGED <<call, me, target>> /\ SameRows
    /\ req[r].kind = "cleanup_logs" /\ pc'[r] = "end" /\ reply'[r] = "done"
    /\ \E k \in 0..Len(log) : log' = Append(SubSeq(log, k + 1, Len(log)), Entry(r))
    /\ done' = done \cup {EffectOn(r, None)}

Turn(r) ==
    \/ Arrival(r) \/ Reading(r) \/ Failing(r) \/ Refreshing(r) \/ Creating(r)
    \/ Writing(r) \/ Missing(r) \/ Deleting(r) \/ Cleaning(r)

\* Names are unique, and AUTO_INCREMENT is ahead of every id.
UniqueNames ==
    \A i, j \in DOMAIN users : users[i].name = users[j].name => i = j
IdsBelow == ~deployment.reuse_ids => \A i \in DOMAIN users : i < nextId
RowsInv == UniqueNames /\ IdsBelow

LEMMA InitRowsInv == Init => RowsInv
  <1> SUFFICES ASSUME Init PROVE RowsInv
    OBVIOUS
  <1>1. users \in Accounts /\ nextId \in MaxIdPlusOne(users)
    BY DEF Init
  <1>2. UniqueNames /\ Table(users)
    BY <1>1, UsersAssumption DEF UniqueNames
  <1>3. \A i \in DOMAIN users : i < nextId
    BY <1>1, <1>2, MaxIdIs DEF Table
  <1> QED
    BY <1>2, <1>3 DEF RowsInv, IdsBelow

ReqStep(r) ==
    \/ \E w \in Workers, q \in Requests : Login(r, w, q) \/ CheckToken(r, w, q)
    \/ SelectUser(r) \/ SelectName(r) \/ CreateUser(r) \/ UpdateUser(r)
    \/ ChangePassword(r) \/ DeleteUser(r) \/ CleanupLogs(r) \/ CommitFails(r)
    \/ Refresh(r)

LEMMA NextSplit ==
    ASSUME [Next]_vars
    PROVE  \/ UNCHANGED vars
           \/ \E n \in Names : Expire(n)
           \/ \E r \in Reqs : ReqStep(r)
  BY DEF Next, ReqStep

LEMMA TurnIs ==
    ASSUME TypeInv, RowsInv, NEW r \in Reqs, ReqStep(r)
    PROVE  Alone(r) /\ TypeInv' /\ Turn(r)
  <1>1. ASSUME NEW w \in Workers, NEW q \in Requests, Login(r, w, q)
        PROVE  Alone(r) /\ TypeInv' /\ Arrival(r)
    BY <1>1, LoginIs DEF Arrival
  <1>2. ASSUME NEW w \in Workers, NEW q \in Requests, CheckToken(r, w, q)
        PROVE  Alone(r) /\ TypeInv' /\ Arrival(r)
    BY <1>2, CheckTokenIs DEF Arrival
  <1>3. CASE SelectUser(r) \/ SelectName(r)
    BY <1>3, SelectIs DEF Reading, Turn
  <1>4. CASE CommitFails(r)
    BY <1>4, FailsIs DEF Failing, Turn
  <1>5. CASE Refresh(r)
    BY <1>5, RefreshIs DEF Refreshing, Turn
  <1>6. CASE CreateUser(r)
    <2>1. ~deployment.reuse_ids => \A i \in DOMAIN users : i < nextId
      BY DEF RowsInv, IdsBelow
    <2> QED
      BY <1>6, <2>1, CreateIs DEF Creating, Turn
  <1>7. CASE UpdateUser(r)
    <2>1. /\ Alone(r) /\ TypeInv' /\ UNCHANGED <<call, me, target>>
          /\ pc[r] = "commit" /\ req[r].kind = "update_user" /\ pc'[r] = "refresh"
      BY <1>7, UpdateIs
    <2>2. \/ /\ target[r].id \in DOMAIN users
             /\ Commits(r, users[target[r].id].name)
             /\ \E row : /\ Writes(target[r].id, row)
                         /\ Asked(req[r], users[target[r].id], row)
          \/ /\ target[r].id \notin DOMAIN users /\ SameRows
             /\ log' = Append(log, Entry(r)) /\ done' = done
      BY <1>7, UpdateIs, Zenon
    <2> QED
      BY <2>1, <2>2 DEF Writing, Missing, Turn
  <1>8. CASE ChangePassword(r)
    BY <1>8, ChangePasswordIs DEF Writing, Turn
  <1>9. CASE DeleteUser(r)
    BY <1>9, DeleteIs DEF Deleting, Turn
  <1>10. CASE CleanupLogs(r)
    BY <1>10, CleanupIs DEF Cleaning, Turn
  <1> QED
    BY <1>1, <1>2, <1>3, <1>4, <1>5, <1>6, <1>7, <1>8, <1>9, <1>10 DEF ReqStep, Turn

\* What a step does to the rows.
RowsTurn(r) ==
    \/ SameRows
    \/ \E i : Inserts(r, i)
    \/ /\ pc[r] = "commit" /\ pc'[r] = "refresh"
       /\ \E row : /\ Writes(target[r].id, row)
                   /\ Asked(req[r], users[target[r].id], row)
    \/ Drops(target[r].id)

LEMMA RowsTurnIs ==
    ASSUME NEW r \in Reqs, Turn(r)
    PROVE  RowsTurn(r)
  <1>1. UNCHANGED store => SameRows
    BY DEF store, SameRows
  <1> QED
    BY <1>1 DEF Turn, RowsTurn, Arrival, Reading, Failing, Refreshing, Creating,
       Writing, Missing, Deleting, Cleaning

LEMMA RowsKept ==
    ASSUME TypeInv, RowsInv, NEW r \in Reqs, RowsTurn(r), deployment' = deployment
    PROVE  RowsInv'
  <1>1. Table(users) /\ nextId \in Nat /\ deployment \in Deployments
    BY DEF TypeInv, TypeOK
  <1>2. CASE SameRows
    BY <1>2 DEF SameRows, RowsInv, UniqueNames, IdsBelow
  <1>3. ASSUME NEW i, Inserts(r, i) PROVE RowsInv'
    <2>1. UniqueNames'
      BY <1>3 DEF Inserts, RowsInv, UniqueNames
    <2>2. IdsBelow'
      <3>1. CASE deployment.reuse_ids
        BY <3>1 DEF IdsBelow
      <3>2. CASE ~deployment.reuse_ids
        <4>1. nextId' = i + 1 /\ i = nextId /\ DOMAIN users' = DOMAIN users \cup {i}
          BY <1>3, <3>2 DEF Inserts
        <4>2. \A j \in DOMAIN users : j < nextId /\ j \in Nat
          BY <1>1, <3>2 DEF RowsInv, IdsBelow, Table
        <4> QED
          BY <1>1, <4>1, <4>2 DEF IdsBelow
      <3> QED
        BY <3>1, <3>2
    <2> QED
      BY <2>1, <2>2 DEF RowsInv
  <1>4. ASSUME NEW row, Writes(target[r].id, row) PROVE RowsInv'
    BY <1>4 DEF Writes, RowsInv, UniqueNames, IdsBelow
  <1>5. CASE Drops(target[r].id)
    BY <1>5 DEF Drops, RowsInv, UniqueNames, IdsBelow
  <1> QED
    BY <1>2, <1>3, <1>4, <1>5 DEF RowsTurn

LEMMA NextTypeInv == TypeInv /\ RowsInv /\ [Next]_vars => TypeInv' /\ RowsInv'
  <1>1. TypeInv /\ RowsInv /\ UNCHANGED vars => TypeInv' /\ RowsInv'
    BY DEF vars, TypeInv, TypeOK, Shape, Sent, HasUser, RowsInv, UniqueNames, IdsBelow
  <1>2. ASSUME TypeInv, RowsInv, NEW n \in Names, Expire(n) PROVE TypeInv' /\ RowsInv'
    BY <1>2, ExpireIs DEF store, call, RowsInv, UniqueNames, IdsBelow
  <1>3. ASSUME TypeInv, RowsInv, NEW r \in Reqs, ReqStep(r) PROVE TypeInv' /\ RowsInv'
    BY <1>3, TurnIs, RowsTurnIs, RowsKept DEF Alone
  <1> QED
    BY <1>1, <1>2, <1>3, NextSplit

\* The types hold for any number of accounts, requests and processes: a handler
\* that writes holds the user it was admitted for and the row it writes to.
THEOREM UsersTypeCorrect == Spec => []TypeOK
  <1>1. TypeInv => TypeOK
    BY DEF TypeInv
  <1> QED
    BY InitTypeInv, InitRowsInv, NextTypeInv, <1>1, PTL DEF Spec

-----------------------------------------------------------------------------
(***************************************************************************)
(* Names and rows.                                                         *)
(***************************************************************************)
NameKept(n) == IdsOf(n) # {} => IdsOf(n)' \in {IdsOf(n), {}}

AskedBy(i, r) ==
    /\ pc[r] = "commit" /\ pc'[r] = "refresh"
    /\ \/ /\ req[r].kind = "change_password"
          /\ users'[i] = [users[i] EXCEPT !.password = req[r].new]
       \/ /\ req[r].kind = "update_user"
          /\ \A c \in {"password", "active", "admin"} :
                users'[i][c] \in {users[i][c], req[r][c]}

LEMMA NamesStay ==
    ASSUME TypeInv, RowsInv, NEW r \in Reqs, RowsTurn(r), NEW n \in Names
    PROVE  NameKept(n)
  <1> SUFFICES ASSUME NEW i \in DOMAIN users, users[i].name = n PROVE NameKept(n)
    BY DEF NameKept, IdsOf
  <1>1. IdsOf(n) = {i}
    BY DEF IdsOf, RowsInv, UniqueNames
  <1>2. IdsOf(n)' = {j \in DOMAIN users' : users'[j].name = n}
    BY DEF IdsOf
  <1>3. ASSUME \A j \in DOMAIN users' : users'[j].name = n => j = i PROVE NameKept(n)
    BY <1>1, <1>2, <1>3 DEF NameKept
  <1>4. \A j \in DOMAIN users : users[j].name = n => j = i
    BY DEF RowsInv, UniqueNames
  <1>5. CASE SameRows
    BY <1>3, <1>4, <1>5 DEF SameRows
  <1>6. ASSUME NEW k, Inserts(r, k) PROVE NameKept(n)
    BY <1>3, <1>4, <1>6 DEF Inserts
  <1>7. ASSUME NEW row, Writes(target[r].id, row) PROVE NameKept(n)
    BY <1>3, <1>4, <1>7 DEF Writes
  <1>8. CASE Drops(target[r].id)
    <2>1. \A j \in DOMAIN users' : j \in DOMAIN users /\ users'[j] = users[j]
      BY <1>8 DEF Drops
    <2> QED
      BY <1>3, <1>4, <2>1
  <1> QED
    BY <1>5, <1>6, <1>7, <1>8 DEF RowsTurn

LEMMA RowsStay ==
    ASSUME TypeInv, RowsInv, NEW r \in Reqs, RowsTurn(r),
           NEW i \in DOMAIN users \cap DOMAIN users', users'[i] # users[i]
    PROVE  AskedBy(i, r)
  <1>1. ~SameRows /\ ~Drops(target[r].id) /\ \A k : ~Inserts(r, k)
    BY DEF SameRows, Drops, Inserts
  <1>2. /\ pc[r] = "commit" /\ pc'[r] = "refresh"
        /\ \E row : /\ Writes(target[r].id, row)
                    /\ Asked(req[r], users[target[r].id], row)
    BY <1>1, Zenon DEF RowsTurn
  <1>3. PICK row : /\ Writes(target[r].id, row)
                   /\ Asked(req[r], users[target[r].id], row)
    BY <1>2, Zenon
  <1>4. i = target[r].id /\ users'[i] = row
    BY <1>3 DEF Writes
  <1> QED
    BY <1>2, <1>3, <1>4 DEF AskedBy, Asked

\* A name stays with its account until that is deleted, and an account changes
\* only in what a request asks to change: the columns a handler read and does
\* not set are not written back over what others set in the meantime.
THEOREM AccountsAreKept == Spec => AccountsKept
  <1> DEFINE A == /\ \A n \in Names : NameKept(n)
                  /\ \A i \in DOMAIN users \cap DOMAIN users' :
                        users'[i] # users[i] => \E r \in Reqs : AskedBy(i, r)
  <1>1. TypeInv /\ RowsInv /\ [Next]_vars => [A]_vars
    <2> SUFFICES ASSUME TypeInv, RowsInv, [Next]_vars, ~UNCHANGED vars PROVE A
      OBVIOUS
    <2>1. ASSUME NEW n \in Names, Expire(n) PROVE A
      BY <2>1 DEF Expire, store, NameKept, IdsOf
    <2>2. ASSUME NEW r \in Reqs, ReqStep(r) PROVE A
      <3>1. RowsTurn(r)
        BY <2>2, TurnIs, RowsTurnIs
      <3> QED
        BY <3>1, NamesStay, RowsStay
    <2> QED
      BY <2>1, <2>2, NextSplit
  <1>2. Spec => [][A]_vars
    BY InitTypeInv, InitRowsInv, NextTypeInv, <1>1, PTL DEF Spec
  <1> QED
    BY <1>2 DEF AccountsKept, NameKept, AskedBy

-----------------------------------------------------------------------------
(***************************************************************************)
(* What a handler holds.  A process runs one handler at a time; with one   *)
(* process a handler therefore writes on the rows it read.  With ids that  *)
(* do not come back the row of an id keeps its name as long as it exists.  *)
(***************************************************************************)
Exclusive ==
    \A q, r \in Reqs :
        (pc[q] \in Active /\ pc[r] \in Active /\ worker[q] = worker[r]) => q = r

Holds(r) ==
    pc[r] \in {"select", "commit"} =>
        /\ Permits(req[r], me[r])
        /\ pc[r] = "commit" /\ req[r].kind = "change_password" => target[r] = me[r]
        /\ pc[r] = "commit" /\ req[r].kind \in {"update_user", "delete_user"} =>
              target[r].id = req[r].id

\* The handlers that write to an existing row.
Targets == {"change_password", "update_user", "delete_user"}

Fresh(x) == x.id \in DOMAIN users /\ users[x.id] = x.row
FreshRows(r) ==
    /\ pc[r] \in {"select", "commit"} => Fresh(me[r])
    /\ pc[r] = "commit" /\ req[r].kind \in Targets => Fresh(target[r])
    /\ pc[r] = "refresh" => target[r].id \in DOMAIN users

Named(x) ==
    /\ x.id < nextId
    /\ x.id \in DOMAIN users => users[x.id].name = x.row.name
NamedRows(r) ==
    /\ pc[r] \in {"select", "commit"} => Named(me[r])
    /\ pc[r] = "commit" /\ req[r].kind \in Targets => Named(target[r])

HeldInv ==
    /\ Exclusive
    /\ \A r \in Reqs : Holds(r)
    /\ OneWorker => \A r \in Reqs : FreshRows(r)
    /\ ~deployment.reuse_ids => \A r \in Reqs : NamedRows(r)

LEMMA InitHeldInv == Init => HeldInv
  BY DEF Init, HeldInv, Exclusive, Holds, FreshRows, NamedRows, Active

\* While one handler of a process is at work no other one takes a step.
LEMMA Sole ==
    ASSUME TypeInv, HeldInv, NEW r \in Reqs, TypeInv', Alone(r), Turn(r),
           NEW q \in Reqs \ {r}, pc[q] \in Active
    PROVE  /\ worker[q] # worker'[r] /\ worker[q] \in deployment.workers
           /\ pc'[r] \in Active => worker'[r] \in deployment.workers
  <1>1. worker[q] \in deployment.workers
    BY DEF TypeInv, Shape, Sent, Active
  <1>2. pc'[r] \in Active => worker'[r] \in deployment.workers
    BY DEF TypeInv, Shape, Sent, Active, Alone
  <1>3. worker[q] # worker'[r]
    <2>1. CASE Arrival(r)
      BY <2>1 DEF Arrival, Idle, Active
    <2>2. CASE ~Arrival(r)
      <3>1. pc[r] \in Active /\ worker' = worker
        BY <2>2 DEF Turn, Reading, Failing, Refreshing, Creating, Writing, Missing,
           Deleting, Cleaning, Active, call
      <3> QED
        BY <3>1 DEF HeldInv, Exclusive
    <2> QED
      BY <2>1, <2>2
  <1> QED
    BY <1>1, <1>2, <1>3

LEMMA ExclusiveStep ==
    ASSUME TypeInv, HeldInv, NEW r \in Reqs, TypeInv', Alone(r), Turn(r)
    PROVE  Exclusive'
  <1>1. ASSUME NEW q \in Reqs \ {r}
        PROVE  /\ pc'[q] = pc[q] /\ worker'[q] = worker[q]
               /\ pc[q] \in Active => worker[q] # worker'[r]
    BY Sole DEF Alone
  <1> QED
    BY <1>1 DEF Exclusive, HeldInv

LEMMA SoleWorker ==
    ASSUME TypeInv, HeldInv, NEW r \in Reqs, TypeInv', Alone(r), Turn(r), OneWorker,
           NEW q \in Reqs \ {r}
    PROVE  pc[q] \notin Active
  <1> SUFFICES ASSUME pc[q] \in Active PROVE FALSE
    OBVIOUS
  <1>1. worker[q] # worker'[r] /\ worker[q] \in deployment.workers
    BY Sole
  <1>2. worker'[r] \in deployment.workers
    <2>1. pc'[r] # "unsent"
      BY DEF Turn, Arrival, Reading, Failing, Refreshing, Creating, Writing,
         Missing, Deleting, Cleaning
    <2> QED
      BY <2>1 DEF TypeInv, Shape, Sent, Alone
  <1> QED
    BY <1>1, <1>2 DEF OneWorker

LEMMA HoldsStep ==
    ASSUME TypeInv, HeldInv, NEW r \in Reqs, TypeInv', Alone(r), Turn(r),
           NEW q \in Reqs
    PROVE  Holds(q)'
  <1>1. CASE q # r
    BY <1>1 DEF Alone, HeldInv, Holds, Permits
  <1>2. CASE q = r /\ Arrival(r)
    BY <1>2 DEF Arrival, Holds, Permits
  <1>3. CASE q = r /\ Reading(r)
    <2>1. req' = req /\ me' = me /\ pc[r] = "select" /\ pc'[r] \in {"end", "commit"}
      BY <1>3 DEF Reading, call
    <2>2. Permits(req[r], me[r])
      BY <2>1 DEF HeldInv, Holds
    <2>3. Permits(req[r], me[r])'
      BY <2>1, <2>2 DEF Permits
    <2> QED
      BY <1>3, <2>1, <2>3 DEF Reading, Holds
  <1>4. CASE q = r /\ ~Arrival(r) /\ ~Reading(r)
    <2>1. pc'[r] \notin {"select", "commit"}
      BY <1>4 DEF Turn, Failing, Refreshing, Creating, Writing, Missing, Deleting,
         Cleaning
    <2> QED
      BY <1>4, <2>1 DEF Holds
  <1> QED
    BY <1>1, <1>2, <1>3, <1>4

\* With one process: what r holds is what the table has.
LEMMA FreshStep ==
    ASSUME TypeInv, HeldInv, NEW r \in Reqs, TypeInv', Alone(r), Turn(r), OneWorker,
           NEW q \in Reqs
    PROVE  FreshRows(q)'
  <1>1. CASE q # r
    <2>1. pc'[q] \notin Active
      BY <1>1, SoleWorker DEF Alone
    <2> QED
      BY <2>1 DEF FreshRows, Active
  <1>2. FreshRows(r)
    BY DEF HeldInv
  <1>3. CASE q = r /\ Arrival(r)
    BY <1>3 DEF Arrival, FreshRows, Fresh, store, Targets
  <1>4. CASE q = r /\ Reading(r)
    <2>1. req' = req /\ me' = me /\ pc[r] = "select" /\ users' = users
      BY <1>4 DEF Reading, call, store
    <2>2. Fresh(me[r])
      BY <1>2, <2>1 DEF FreshRows
    <2>3. Fresh(me[r])' /\ (target'[r] = me[r] => Fresh(target[r])')
      BY <2>1, <2>2 DEF Fresh
    <2> QED
      BY <1>4, <2>1, <2>3 DEF Reading, FreshRows, Fresh, Targets
  <1>5. CASE q = r /\ pc'[r] = "end"
    BY <1>5 DEF FreshRows
  <1>6. CASE q = r /\ Creating(r)
    BY <1>6 DEF Creating, Inserts, FreshRows
  <1>7. CASE q = r /\ Writing(r)
    BY <1>7 DEF Writing, Writes, FreshRows
  <1>8. CASE q = r /\ Missing(r)
    <2>1. Fresh(target[r])
      BY <1>2, <1>8 DEF Missing, FreshRows, Targets
    <2> QED
      BY <1>8, <2>1 DEF Missing, Fresh
  <1> QED
    BY <1>1, <1>3, <1>4, <1>5, <1>6, <1>7, <1>8
       DEF Turn, Failing, Refreshing, Deleting, Cleaning

\* With ids that do not come back: a step keeps the name of a row that is held.
LEMMA NamedKept ==
    ASSUME TypeInv, RowsInv, NEW r \in Reqs, RowsTurn(r), ~deployment.reuse_ids,
           NEW x \in Loaded, Named(x)
    PROVE  x.id < nextId' /\ (x.id \in DOMAIN users' => users'[x.id].name = x.row.name)
  <1>1. x.id \in Nat /\ nextId \in Nat
    BY LoadedIs DEF TypeInv, TypeOK
  <1>2. CASE SameRows
    BY <1>2 DEF SameRows, Named
  <1>3. ASSUME NEW i, Inserts(r, i) PROVE x.id < nextId' /\
               (x.id \in DOMAIN users' => users'[x.id].name = x.row.name)
    <2>1. i = nextId /\ nextId' = i + 1 /\ x.id < nextId
      BY <1>3 DEF Inserts, Named
    <2>2. x.id \in DOMAIN users' => x.id \in DOMAIN users
      BY <1>1, <1>3, <2>1 DEF Inserts
    <2> QED
      BY <1>1, <1>3, <2>1, <2>2 DEF Inserts, Named
  <1>4. ASSUME NEW row, Writes(target[r].id, row) PROVE x.id < nextId' /\
               (x.id \in DOMAIN users' => users'[x.id].name = x.row.name)
    BY <1>4 DEF Writes, Named
  <1>5. CASE Drops(target[r].id)
    BY <1>5 DEF Drops, Named
  <1> QED
    BY <1>2, <1>3, <1>4, <1>5 DEF RowsTurn

LEMMA NamedStep ==
    ASSUME TypeInv, RowsInv, HeldInv, NEW r \in Reqs, TypeInv', Alone(r), Turn(r),
           ~deployment.reuse_ids, NEW q \in Reqs
    PROVE  NamedRows(q)'
  <1>1. RowsTurn(r) /\ NamedRows(q) /\ HasUser(q)
    BY RowsTurnIs DEF HeldInv, TypeInv, Shape
  <1>2. ASSUME NEW x \in Loaded, Named(x)
        PROVE  x.id < nextId' /\ (x.id \in DOMAIN users' => users'[x.id].name = x.row.name)
    BY <1>1, <1>2, NamedKept
  <1>3. ASSUME NEW i \in DOMAIN users PROVE i \in Nat /\ i < nextId
    BY DEF RowsInv, IdsBelow, TypeInv, TypeOK, Table
  <1>4. CASE q # r
    <2>1. /\ pc'[q] = pc[q] /\ req'[q] = req[q] /\ me'[q] = me[q]
          /\ target'[q] = target[q]
      BY <1>4 DEF Alone
    <2>2. pc[q] \in {"select", "commit"} => me[q] \in Loaded /\ Named(me[q])
      BY <1>1, Admission DEF NamedRows, Active
    <2>3. pc[q] = "commit" /\ req[q].kind \in Targets =>
             target[q] \in Loaded /\ Named(target[q])
      BY <1>1, Admission DEF NamedRows, Active, Targets
    <2> QED
      BY <1>2, <2>1, <2>2, <2>3 DEF NamedRows, Named
  <1>5. CASE q = r /\ Arrival(r)
    <2>1. users' = users /\ nextId' = nextId
      BY <1>5 DEF Arrival, store
    <2> QED
      BY <1>3, <1>5, <2>1 DEF Arrival, NamedRows, Named, Targets
  <1>6. CASE q = r /\ Reading(r)
    <2>1. req' = req /\ me' = me /\ pc[r] = "select" /\ users' = users /\ nextId' = nextId
      BY <1>6 DEF Reading, call, store
    <2>2. Named(me[r])
      BY <1>1, <1>6, <2>1 DEF NamedRows
    <2> QED
      BY <1>3, <1>6, <2>1, <2>2 DEF Reading, NamedRows, Named, Targets
  <1>7. CASE q = r /\ ~Arrival(r) /\ ~Reading(r)
    <2>1. pc'[r] \notin {"select", "commit"}
      BY <1>7 DEF Turn, Failing, Refreshing, Creating, Writing, Missing, Deleting,
         Cleaning
    <2> QED
      BY <1>7, <2>1 DEF NamedRows
  <1> QED
    BY <1>4, <1>5, <1>6, <1>7

LEMMA HeldKept ==
    ASSUME TypeInv, RowsInv, HeldInv, NEW r \in Reqs, TypeInv', Alone(r), Turn(r)
    PROVE  HeldInv'
  <1>1. deployment' = deployment /\ OneWorker' = OneWorker
    BY DEF Alone, OneWorker
  <1> QED
    BY <1>1, ExclusiveStep, HoldsStep, FreshStep, NamedStep DEF HeldInv

LEMMA NextHeldInv == TypeInv /\ RowsInv /\ HeldInv /\ [Next]_vars => HeldInv'
  <1> SUFFICES ASSUME TypeInv, RowsInv, HeldInv, [Next]_vars PROVE HeldInv'
    OBVIOUS
  <1>1. CASE UNCHANGED <<store, call, pc, me, target, reply>>
    BY <1>1 DEF store, call, HeldInv, Exclusive, Holds, Permits, OneWorker, FreshRows,
       Fresh, NamedRows, Named
  <1>2. ASSUME NEW r \in Reqs, ReqStep(r) PROVE HeldInv'
    BY <1>2, TurnIs, HeldKept
  <1> QED
    BY <1>1, <1>2, NextSplit, ExpireIs DEF vars, store, call

-----------------------------------------------------------------------------
(***************************************************************************)
(* Rights, with one process: the user who was checked, and the row that is *)
(* written, are in the table as they were read.                            *)
(***************************************************************************)

LEMMA NewDone ==
    ASSUME TypeInv, NEW r \in Reqs, Turn(r), NEW d \in done' \ done
    PROVE  /\ pc[r] = "commit" /\ d.req = r /\ d.action = req[r].kind
           /\ \/ Creating(r) /\ d.target = target[r].row.name
              \/ Writing(r) /\ d.target = users[target[r].id].name
              \/ /\ Deleting(r) /\ d.target = users[target[r].id].name
                 /\ target[r].id \in DOMAIN users
              \/ Cleaning(r) /\ d.target = None
  <1>1. /\ ~Arrival(r) /\ ~Reading(r) /\ ~Failing(r) /\ ~Refreshing(r) /\ ~Missing(r)
    BY DEF Arrival, Reading, Failing, Refreshing, Missing, store
  <1>2. CASE Creating(r)
    BY <1>2 DEF Creating, Commits, EffectOn
  <1>3. CASE Writing(r)
    BY <1>3 DEF Writing, Commits, EffectOn
  <1>4. CASE Deleting(r)
    BY <1>4 DEF Deleting, Commits, EffectOn
  <1>5. CASE Cleaning(r)
    <2>1. pc[r] = "commit" /\ d = EffectOn(r, None)
      BY <1>5 DEF Cleaning
    <2> QED
      BY <1>5, <2>1 DEF EffectOn
  <1> QED
    BY <1>1, <1>2, <1>3, <1>4, <1>5 DEF Turn

\* The user who was admitted, at the commit.
LEMMA ActorIs ==
    ASSUME TypeInv, HeldInv, NEW r \in Reqs, pc[r] = "commit", OneWorker
    PROVE  /\ me[r].id \in DOMAIN users /\ users[me[r].id] = me[r].row
           /\ Permits(req[r], me[r])
           /\ req[r].kind = "change_password" => target[r] = me[r]
           /\ req[r].kind = "delete_user" => target[r].id = req[r].id
  BY DEF HeldInv, FreshRows, Fresh, Holds

InForce(d) ==
    \E i \in IdsOf(req[d.req].actor) :
        /\ users[i].active
        /\ d.action # "change_password" => users[i].admin
AdminLeft == \E i \in DOMAIN users' : users'[i].active /\ users'[i].admin
HandedOver(d) == \E i \in IdsOf(d.target) : users[i].password = req[d.req].old

LEMMA RightsStep ==
    ASSUME TypeInv, HeldInv, NEW r \in Reqs, Turn(r), OneWorker, NEW d \in done' \ done
    PROVE  /\ InForce(d)
           /\ d.action = "delete_user" => AdminLeft
           /\ d.action = "change_password" => HandedOver(d)
  <1>1. pc[r] = "commit" /\ d.req = r /\ d.action = req[r].kind
    BY NewDone
  <1>2. /\ me[r].id \in DOMAIN users /\ users[me[r].id] = me[r].row
        /\ Permits(req[r], me[r])
        /\ req[r].kind = "change_password" => target[r] = me[r]
        /\ req[r].kind = "delete_user" => target[r].id = req[r].id
    BY <1>1, ActorIs
  <1>3. me[r].id \in IdsOf(req[r].actor)
    BY <1>2 DEF IdsOf, Permits
  <1>4. InForce(d)
    BY <1>1, <1>2, <1>3 DEF InForce, Permits
  <1>5. CASE d.action = "delete_user"
    <2>1. Deleting(r)
      BY <1>1, <1>5, NewDone DEF Creating, Writing, Cleaning
    <2>2. me[r].id # target[r].id /\ me[r].row.admin /\ me[r].row.active
      BY <1>1, <1>2, <1>5 DEF Permits
    <2>3. me[r].id \in DOMAIN users' /\ users'[me[r].id] = me[r].row
      BY <1>2, <2>1, <2>2 DEF Deleting, Drops
    <2> QED
      BY <1>4, <1>5, <2>2, <2>3 DEF AdminLeft
  <1>6. CASE d.action = "change_password"
    <2>1. d.target = users[target[r].id].name
      BY <1>1, <1>6, NewDone DEF Creating, Deleting, Cleaning
    <2>2. target[r] = me[r] /\ me[r].row.password = req[r].old
      BY <1>1, <1>2, <1>6 DEF Permits
    <2>3. me[r].id \in IdsOf(d.target)
      BY <1>2, <2>1, <2>2 DEF IdsOf
    <2> QED
      BY <1>1, <1>2, <1>4, <1>6, <2>2, <2>3 DEF HandedOver
  <1> QED
    BY <1>4, <1>5, <1>6

LEMMA RightsInv ==
    TypeInv /\ RowsInv /\ HeldInv /\ [Next]_vars =>
        \/ UNCHANGED vars
        \/ OneWorker => \A d \in done' \ done :
              /\ InForce(d)
              /\ d.action = "delete_user" => AdminLeft
              /\ d.action = "change_password" => HandedOver(d)
  <1>1. ASSUME NEW n \in Names, Expire(n) PROVE done' = done
    BY <1>1 DEF Expire, store
  <1> QED
    BY <1>1, NextSplit, TurnIs, RightsStep

\* Whoever changes something is at that moment an active user, and an
\* administrator unless it is their own password, if there is one process: the
\* check and the change are separate statements of the handler.
THEOREM ActorsAreInForce == Spec => ActorsInForce
  <1> DEFINE A == OneWorker => \A d \in done' \ done : InForce(d)
  <1>1. TypeInv /\ RowsInv /\ HeldInv /\ [Next]_vars => [A]_vars
    BY RightsInv
  <1>2. Spec => [][A]_vars
    BY InitTypeInv, InitRowsInv, InitHeldInv, NextTypeInv, NextHeldInv, <1>1, PTL DEF Spec
  <1> QED
    BY <1>2 DEF ActorsInForce, InForce

\* With one process a deletion leaves the administrator who made it.
THEOREM DeletionsLeaveAdmin == Spec => DeletionLeavesAdmin
  <1> DEFINE A == OneWorker => \A d \in done' \ done :
                     d.action = "delete_user" => AdminLeft
  <1>1. TypeInv /\ RowsInv /\ HeldInv /\ [Next]_vars => [A]_vars
    BY RightsInv
  <1>2. Spec => [][A]_vars
    BY InitTypeInv, InitRowsInv, InitHeldInv, NextTypeInv, NextHeldInv, <1>1, PTL DEF Spec
  <1> QED
    BY <1>2 DEF DeletionLeavesAdmin, AdminLeft

\* With one process a password is replaced by the user who has it, not by one
\* whose password was reset after it was checked.
THEOREM PasswordsHandedOver == Spec => PasswordHandedOver
  <1> DEFINE A == OneWorker => \A d \in done' \ done :
                     d.action = "change_password" => HandedOver(d)
  <1>1. TypeInv /\ RowsInv /\ HeldInv /\ [Next]_vars => [A]_vars
    BY RightsInv
  <1>2. Spec => [][A]_vars
    BY InitTypeInv, InitRowsInv, InitHeldInv, NextTypeInv, NextHeldInv, <1>1, PTL DEF Spec
  <1> QED
    BY <1>2 DEF PasswordHandedOver, HandedOver

-----------------------------------------------------------------------------
(***************************************************************************)
(* The log.  A commit writes the change and its entry; both name the same  *)
(* account if the row that was read is still the one that is written.      *)
(***************************************************************************)
Elems(s) == {s[k] : k \in 1..Len(s)}

LEMMA ElemsAppend ==
    ASSUME NEW S, NEW s \in Seq(S), NEW e \in S
    PROVE  \A x : x \in Elems(Append(s, e)) <=> x \in Elems(s) \/ x = e
  <1> DEFINE t == Append(s, e)
  <1>1. /\ Len(t) = Len(s) + 1 /\ Len(s) \in Nat /\ t[Len(s) + 1] = e
        /\ \A k \in 1..Len(s) : t[k] = s[k]
    OBVIOUS
  <1> HIDE DEF t
  <1>2. \A k \in 1..Len(t) : k \in 1..Len(s) \/ k = Len(s) + 1
    BY <1>1
  <1>3. ASSUME NEW x, x \in Elems(t) PROVE x \in Elems(s) \/ x = e
    BY <1>1, <1>2, <1>3 DEF Elems
  <1>4. ASSUME NEW x, x \in Elems(s) PROVE x \in Elems(t)
    <2>1. PICK k \in 1..Len(s) : x = s[k]
      BY <1>4 DEF Elems
    <2>2. k \in 1..Len(t) /\ t[k] = x
      BY <1>1, <2>1
    <2> QED
      BY <2>2 DEF Elems
  <1>5. e \in Elems(t)
    <2>1. Len(s) + 1 \in 1..Len(t)
      BY <1>1
    <2> QED
      BY <1>1, <2>1 DEF Elems
  <1> QED
    BY <1>3, <1>4, <1>5 DEF t

LEMMA ElemsCut ==
    ASSUME NEW S, NEW s \in Seq(S), NEW k \in 0..Len(s)
    PROVE  /\ SubSeq(s, k + 1, Len(s)) \in Seq(S)
           /\ Elems(SubSeq(s, k + 1, Len(s))) \subseteq Elems(s)
  <1> DEFINE t == SubSeq(s, k + 1, Len(s))
  <1>1. /\ t \in Seq(S) /\ Len(t) = Len(s) - k /\ Len(s) \in Nat
        /\ \A i \in 1..Len(t) : t[i] = s[k + i]
    <2>1. Len(s) \in Nat /\ Len(t) = Len(s) - k
      OBVIOUS
    <2>2. t \in Seq(S)
      OBVIOUS
    <2>3. \A i \in 1..Len(t) : t[i] = s[k + i]
      OBVIOUS
    <2> QED
      BY <2>1, <2>2, <2>3
  <1> HIDE DEF t
  <1>2. ASSUME NEW x \in Elems(t) PROVE x \in Elems(s)
    <2>1. PICK i \in 1..Len(t) : x = t[i]
      BY DEF Elems
    <2>2. k + i \in 1..Len(s) /\ x = s[k + i]
      BY <1>1, <2>1
    <2> QED
      BY <2>2 DEF Elems
  <1> QED
    BY <1>1, <1>2 DEF t

LEMMA EntriesAre == Entries = Elems(log) /\ Entries' = Elems(log')
  BY DEF Entries, Elems

\* The account of a row id is still the one that was read.
SameAccount == OneWorker \/ ~deployment.reuse_ids

Logged(r) ==
    /\ pc[r] = "commit" /\ pc'[r] \in {"refresh", "end"} /\ req'[r] = req[r]
    /\ Entry(r) \in Entries'
    /\ \A e \in Entries' : e \in Entries \/ e = Entry(r)
    /\ \A e \in Entries : e \in Entries' \/ Entry(r).action = "cleanup_logs"
    /\ \A d \in done' :
          \/ d \in done
          \/ /\ d.req = r /\ d.action = req[r].kind
             /\ SameAccount => d = Entry(r)
    /\ \A d \in done : d \in done'
    /\ OneWorker => Entry(r) \in done'

\* The name in the entry is the name of the row.
LEMMA EntryNames ==
    ASSUME TypeInv, HeldInv, NEW r \in Reqs, pc[r] = "commit",
           req[r].kind \in Targets
    PROVE  /\ SameAccount /\ target[r].id \in DOMAIN users =>
                Entry(r) = EffectOn(r, users[target[r].id].name)
           /\ OneWorker => target[r].id \in DOMAIN users
  <1>1. target[r] \in Loaded /\ target[r] # None
    BY Admission, NoneIsNoUser DEF Active, Targets
  <1>2. OneWorker => Fresh(target[r])
    BY DEF HeldInv, FreshRows
  <1>3. ~deployment.reuse_ids => Named(target[r])
    BY DEF HeldInv, NamedRows
  <1>4. Entry(r) = EffectOn(r, target[r].row.name)
    BY <1>1 DEF Entry
  <1> QED
    BY <1>2, <1>3, <1>4 DEF SameAccount, Fresh, Named

LEMMA LoggedIs ==
    ASSUME TypeInv, HeldInv, NEW r \in Reqs, Turn(r)
    PROVE  (log' = log /\ done' = done /\ pc[r] # "commit") \/ Failing(r) \/ Logged(r)
  <1>1. CASE Arrival(r) \/ Reading(r) \/ Refreshing(r)
    BY <1>1 DEF Arrival, Reading, Refreshing, store
  <1>2. log \in Seq(Effect)
    BY DEF TypeInv, TypeOK
  <1>3. ASSUME pc[r] = "commit", NEW n, Commits(r, n), UNCHANGED call,
               pc'[r] \in {"refresh", "end"}, SameAccount => Entry(r) = EffectOn(r, n)
        PROVE  Logged(r)
    <2>1. Entry(r) \in Effect
      BY <1>3, EffectTyped, Admission DEF Active
    <2>2. log' = Append(log, Entry(r)) /\ done' = done \cup {EffectOn(r, n)} /\ req' = req
      BY <1>3 DEF Commits, call
    <2>3. \A x : x \in Entries' <=> x \in Entries \/ x = Entry(r)
      BY <1>2, <2>1, <2>2, EntriesAre, ElemsAppend
    <2>4. EffectOn(r, n).req = r /\ EffectOn(r, n).action = req[r].kind
      BY DEF EffectOn
    <2> QED
      BY <1>3, <2>2, <2>3, <2>4 DEF Logged, SameAccount
  <1>4. CASE Creating(r)
    <2>1. target[r] # None
      BY <1>4, Admission, NoneIsNoUser DEF Creating, Active
    <2>2. Entry(r) = EffectOn(r, target[r].row.name)
      BY <2>1 DEF Entry
    <2> QED
      BY <1>3, <1>4, <2>2 DEF Creating
  <1>5. CASE Writing(r)
    <2>1. SameAccount => Entry(r) = EffectOn(r, users[target[r].id].name)
      BY <1>5, EntryNames DEF Writing, Targets
    <2> QED
      BY <1>3, <1>5, <2>1 DEF Writing
  <1>6. ASSUME pc[r] = "commit", req[r].kind \in Targets, target[r].id \notin DOMAIN users,
               log' = Append(log, Entry(r)), done' = done, UNCHANGED call,
               pc'[r] \in {"refresh", "end"}
        PROVE  Logged(r)
    <2>1. Entry(r) \in Effect
      BY <1>6, EffectTyped, Admission DEF Active
    <2>2. \A x : x \in Entries' <=> x \in Entries \/ x = Entry(r)
      BY <1>2, <1>6, <2>1, EntriesAre, ElemsAppend
    <2>3. ~OneWorker
      BY <1>6, EntryNames
    <2> QED
      BY <1>6, <2>2, <2>3 DEF Logged, call
  <1>7. CASE Missing(r)
    BY <1>6, <1>7 DEF Missing, Targets
  <1>8. CASE Deleting(r)
    <2>1. SameAccount /\ target[r].id \in DOMAIN users =>
             Entry(r) = EffectOn(r, users[target[r].id].name)
      BY <1>8, EntryNames DEF Deleting, Targets
    <2> QED
      BY <1>3, <1>6, <1>8, <2>1 DEF Deleting, Targets
  <1>9. CASE Cleaning(r)
    <2>1. /\ pc[r] = "commit" /\ req[r].kind = "cleanup_logs" /\ pc'[r] = "end"
          /\ req' = req /\ done' = done \cup {EffectOn(r, None)}
      BY <1>9 DEF Cleaning, call
    <2>2. PICK k \in 0..Len(log) : log' = Append(SubSeq(log, k + 1, Len(log)), Entry(r))
      BY <1>9 DEF Cleaning
    <2>3. Entry(r) \in Effect
      BY <2>1, EffectTyped, Admission DEF Active
    <2>4. Entry(r) = EffectOn(r, None)
      BY <2>1, Admission DEF Entry, Active
    <2>5. Entry(r).req = r /\ Entry(r).action = "cleanup_logs"
      BY <2>1, <2>4 DEF EffectOn
    <2>6. /\ \A x : x \in Entries' =>  x \in Entries \/ x = Entry(r)
          /\ Entry(r) \in Entries'
      <3> DEFINE s == SubSeq(log, k + 1, Len(log))
      <3>1. s \in Seq(Effect) /\ Elems(s) \subseteq Elems(log)
        BY <1>2, ElemsCut
      <3> HIDE DEF s
      <3>2. \A x : x \in Elems(Append(s, Entry(r))) <=> x \in Elems(s) \/ x = Entry(r)
        BY <2>3, <3>1, ElemsAppend
      <3> QED
        BY <2>2, <3>1, <3>2, EntriesAre DEF s
    <2> QED
      BY <2>1, <2>4, <2>5, <2>6 DEF Logged
  <1> QED
    BY <1>1, <1>4, <1>5, <1>7, <1>8, <1>9 DEF Turn

\* A handler leaves its trace with its commit, and says "done" only after it.
Told == \A d \in done : \E e \in Entries :
            e.action = "cleanup_logs" \/ (e.req = d.req /\ e.action = d.action)
Agree == \A d \in done, e \in Entries : d.req = e.req => d.target = e.target
Once ==
    /\ \A d \in done : d.req \in Reqs /\ pc[d.req] \in {"refresh", "end"}
    /\ \A e \in Entries : e.req \in Reqs /\ pc[e.req] \in {"refresh", "end"}
Did(r) == \E d \in done : d.req = r
RepliesTrue ==
    \A r \in Reqs :
        /\ pc[r] = "refresh" => Did(r)
        /\ pc[r] = "end" /\ req[r].kind # "login" => (reply[r] = "done" <=> Did(r))

LogInv ==
    /\ Once
    /\ Told
    /\ SameAccount => Agree
    /\ OneWorker => Entries \subseteq done /\ RepliesTrue

LEMMA InitLogInv == Init => LogInv
  <1> SUFFICES ASSUME Init PROVE LogInv
    OBVIOUS
  <1>1. Entries = {} /\ done = {}
    BY DEF Init, Entries
  <1> QED
    BY <1>1 DEF Init, LogInv, Once, Told, Agree, RepliesTrue, Did

LEMMA OnceStep ==
    ASSUME TypeInv, LogInv, NEW r \in Reqs, Alone(r), TypeInv',
           \/ /\ log' = log /\ done' = done
              /\ pc[r] \in {"refresh", "end"} => pc'[r] \in {"refresh", "end"}
           \/ Logged(r)
    PROVE  Once'
  <1>1. \A q \in Reqs : pc[q] \in {"refresh", "end"} => pc'[q] \in {"refresh", "end"}
    BY DEF Alone, Logged
  <1>2. /\ \A d \in done : d.req \in Reqs /\ pc[d.req] \in {"refresh", "end"}
        /\ \A e \in Entries : e.req \in Reqs /\ pc[e.req] \in {"refresh", "end"}
    BY DEF LogInv, Once
  <1>3. CASE log' = log /\ done' = done
    <2>1. Entries' = Entries
      BY <1>3 DEF Entries
    <2> QED
      BY <1>1, <1>2, <1>3, <2>1 DEF Once
  <1>4. CASE Logged(r)
    <2>1. /\ \A d \in done' : d \in done \/ d.req = r
          /\ \A e \in Entries' : e \in Entries \/ e = Entry(r)
          /\ pc'[r] \in {"refresh", "end"}
      BY <1>4 DEF Logged
    <2>2. Entry(r).req = r
      BY DEF Entry, EffectOn
    <2> QED
      BY <1>1, <1>2, <2>1, <2>2 DEF Once
  <1> QED
    BY <1>3, <1>4

LEMMA LoggedKept ==
    ASSUME TypeInv, LogInv, NEW r \in Reqs, Logged(r), deployment' = deployment
    PROVE  /\ Told'
           /\ SameAccount => Agree'
           /\ OneWorker => Entries' \subseteq done'
  <1>1. /\ Entry(r).req = r /\ Entry(r).action = req[r].kind
        /\ Entry(r) \in Entries' /\ pc[r] = "commit"
    BY DEF Entry, EffectOn, Logged
  <1>2. /\ \A d \in done : d.req # r
        /\ \A e \in Entries : e.req # r
    BY <1>1 DEF LogInv, Once
  <1>3. ASSUME NEW d \in done'
        PROVE  \E e \in Entries' :
                 e.action = "cleanup_logs" \/ (e.req = d.req /\ e.action = d.action)
    <2>1. CASE d \in done
      <3>1. PICK e \in Entries :
                 e.action = "cleanup_logs" \/ (e.req = d.req /\ e.action = d.action)
        BY <2>1 DEF LogInv, Told
      <3>2. e \in Entries' \/ Entry(r).action = "cleanup_logs"
        BY DEF Logged
      <3> QED
        BY <1>1, <3>1, <3>2
    <2>2. CASE d \notin done
      BY <1>1, <2>2 DEF Logged
    <2> QED
      BY <2>1, <2>2
  <1>4. ASSUME SameAccount, NEW d \in done', NEW e \in Entries', d.req = e.req
        PROVE  d.target = e.target
    <2>1. d \in done \/ d = Entry(r)
      BY <1>4 DEF Logged
    <2>2. e \in Entries \/ e = Entry(r)
      BY DEF Logged
    <2> QED
      BY <1>1, <1>2, <1>4, <2>1, <2>2 DEF LogInv, Agree
  <1>5. ASSUME OneWorker, NEW e \in Entries' PROVE e \in done'
    BY <1>5 DEF Logged, LogInv
  <1> QED
    BY <1>3, <1>4, <1>5 DEF Told, Agree

\* What a step makes of the reply of its request.
LEMMA ReplyIs ==
    ASSUME TypeInv, HeldInv, NEW r \in Reqs, TypeInv', Turn(r), OneWorker, LogInv
    PROVE  /\ pc'[r] = "refresh" => Did(r)'
           /\ pc'[r] = "end" /\ req'[r].kind # "login" => (reply'[r] = "done" <=> Did(r)')
  <1>1. pc[r] \in {"unsent", "select", "commit"} => ~Did(r)
    BY DEF LogInv, Once, Did
  <1>2. Entry(r).req = r
    BY DEF Entry, EffectOn
  <1>3. Logged(r) => Did(r)'
    BY <1>2 DEF Logged, Did
  <1>4. done' = done => Did(r)' = Did(r)
    BY DEF Did
  <1>5. CASE Arrival(r)
    BY <1>1, <1>4, <1>5 DEF Arrival, store
  <1>6. CASE Reading(r)
    BY <1>1, <1>4, <1>6 DEF Reading, store
  <1>7. CASE Failing(r)
    BY <1>1, <1>4, <1>7 DEF Failing, store
  <1>8. CASE Refreshing(r)
    <2>1. target[r].id \in DOMAIN users /\ Did(r)
      BY <1>8 DEF Refreshing, HeldInv, FreshRows, LogInv, RepliesTrue
    <2> QED
      BY <1>4, <1>8, <2>1 DEF Refreshing, store
  <1>9. CASE Creating(r) \/ Writing(r) \/ Missing(r) \/ Deleting(r) \/ Cleaning(r)
    <2>1. /\ pc[r] = "commit" /\ pc'[r] \in {"refresh", "end"}
          /\ pc'[r] = "end" => reply'[r] = "done"
      BY <1>9 DEF Creating, Writing, Missing, Deleting, Cleaning
    <2>2. Logged(r)
      <3>1. ~Failing(r)
        BY <2>1 DEF Failing
      <3> QED
        BY <2>1, <3>1, LoggedIs
    <2> QED
      BY <1>3, <2>1, <2>2
  <1> QED
    BY <1>5, <1>6, <1>7, <1>8, <1>9 DEF Turn

LEMMA LogStep ==
    ASSUME TypeInv, HeldInv, LogInv, NEW r \in Reqs, TypeInv', Alone(r), Turn(r)
    PROVE  LogInv'
  <1>1. deployment' = deployment /\ OneWorker' = OneWorker /\ SameAccount' = SameAccount
    BY DEF Alone, OneWorker, SameAccount
  <1>2. (log' = log /\ done' = done) \/ Logged(r)
    BY LoggedIs DEF Failing, store
  <1>3. pc[r] \in {"refresh", "end"} => pc'[r] \in {"refresh", "end"}
    BY DEF Turn, Arrival, Reading, Failing, Refreshing, Creating, Writing, Missing,
       Deleting, Cleaning
  <1>4. Once'
    BY <1>2, <1>3, OnceStep
  <1>5. /\ Told'
        /\ SameAccount => Agree'
        /\ OneWorker => Entries' \subseteq done'
    <2>1. CASE Logged(r)
      BY <1>1, <2>1, LoggedKept
    <2>2. CASE log' = log /\ done' = done
      <3>1. Entries' = Entries
        BY <2>2 DEF Entries
      <3> QED
        BY <2>2, <3>1 DEF LogInv, Told, Agree
    <2> QED
      BY <1>2, <2>1, <2>2
  <1>6. ASSUME OneWorker, NEW q \in Reqs \ {r}
        PROVE  /\ pc'[q] = "refresh" => Did(q)'
               /\ pc'[q] = "end" /\ req'[q].kind # "login" =>
                     (reply'[q] = "done" <=> Did(q)')
    <2>1. pc'[q] = pc[q] /\ req'[q] = req[q] /\ reply'[q] = reply[q]
      BY DEF Alone
    <2>2. Did(q)' <=> Did(q)
      BY <1>2 DEF Logged, Did
    <2> QED
      BY <1>6, <2>1, <2>2 DEF LogInv, RepliesTrue
  <1>7. OneWorker => RepliesTrue'
    BY <1>6, ReplyIs DEF RepliesTrue
  <1> QED
    BY <1>1, <1>4, <1>5, <1>7 DEF LogInv

LEMMA NextLogInv == TypeInv /\ RowsInv /\ HeldInv /\ LogInv /\ [Next]_vars => LogInv'
  <1> SUFFICES ASSUME TypeInv, RowsInv, HeldInv, LogInv, [Next]_vars PROVE LogInv'
    OBVIOUS
  <1>1. CASE UNCHANGED <<store, call, pc, me, target, reply>>
    <2>1. Entries' = Entries /\ done' = done
      BY <1>1 DEF Entries, store
    <2> QED
      BY <1>1, <2>1 DEF store, call, LogInv, Once, Told, Agree, SameAccount, OneWorker,
         RepliesTrue, Did
  <1>2. ASSUME NEW r \in Reqs, ReqStep(r) PROVE LogInv'
    BY <1>2, TurnIs, LogStep
  <1> QED
    BY <1>1, <1>2, NextSplit, ExpireIs DEF vars, store, call

\* Whatever is done to an account has its entry in the log, unless a clean-up
\* has one, on both databases and with any number of processes; with one
\* process, or ids that do not come back, the entry names the account.
THEOREM LogTells == Spec => []LogTellsTargets
  <1>1. LogInv => LogTellsTargets
    BY DEF LogInv, Told, Agree, SameAccount, LogTellsTargets
  <1> QED
    BY InitTypeInv, InitRowsInv, InitHeldInv, InitLogInv, NextTypeInv, NextHeldInv,
       NextLogInv, <1>1, PTL DEF Spec

\* With one process the log tells of nothing that was not done, and a request
\* is answered "done" if and only if it did what it asks.
THEOREM LogAndRepliesAreTrue == Spec => []LogAndRepliesTrue
  <1>1. LogInv => LogAndRepliesTrue
    BY DEF LogInv, RepliesTrue, Did, LogAndRepliesTrue
  <1> QED
    BY InitTypeInv, InitRowsInv, InitHeldInv, InitLogInv, NextTypeInv, NextHeldInv,
       NextLogInv, <1>1, PTL DEF Spec
=============================================================================
