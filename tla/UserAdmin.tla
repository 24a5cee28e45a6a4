------------------------------ MODULE UserAdmin ------------------------------
(***************************************************************************)
(* The user accounts of the server: the users table, the tokens that were  *)
(* issued for it and the entries about it in the operation log, and the    *)
(* handlers that read and write them                                       *)
(*   POST /api/user/login, /api/user/change-password   app/routers/user.py *)
(*   POST, PUT, DELETE /api/admin/users                                    *)
(*   DELETE /api/admin/logs                            app/routers/admin.py*)
(* one database statement per step.  A handler is admitted by a token that *)
(* names a user (app/auth.py get_current_user, app/deps.py require_admin). *)
(*                                                                         *)
(* From its first statement to its reply a handler never waits for         *)
(* anything but the database: a worker process runs one at a time, and the *)
(* statements of different worker processes interleave.  A transaction     *)
(* that reads nothing between its first write and its commit is one step.  *)
(* Any commit may fail, and then writes nothing; reads do not fail.        *)
(***************************************************************************)
EXTENDS Naturals, Sequences

CONSTANTS
    Names,      \* usernames
    Passwords,  \* passwords; a hash is as good as its password
    Ids,        \* row ids a request may carry
    Reqs,       \* request instances; each is sent once
    Workers,    \* worker processes
    Requests,   \* the requests that may be sent
    Accounts,   \* the users tables the model starts with: id -> row
    Deployments,\* the installations it starts with
    None        \* no value

\* A row of the users table without its id.
Row == [name : Names, password : Passwords, active : BOOLEAN, admin : BOOLEAN]

\* An ORM object: the id of its row and the column values it holds.
Loaded == [id : Nat, row : Row]

LoginRequest == [kind : {"login"}, name : Names, password : Passwords]
ChangePasswordRequest ==
    [kind : {"change_password"}, actor : Names,
     old : Passwords, new : Passwords]
CreateRequest ==
    [kind : {"create_user"}, actor : Names, row : Row]
UpdateRequest ==
    [kind : {"update_user"}, actor : Names, id : Ids,
     password : Passwords \cup {None},
     active : BOOLEAN \cup {None}, admin : BOOLEAN \cup {None}]
DeleteRequest == [kind : {"delete_user"}, actor : Names, id : Ids]
CleanupRequest == [kind : {"cleanup_logs"}, actor : Names]

AnyRequest ==
    LoginRequest \cup ChangePasswordRequest \cup CreateRequest
    \cup UpdateRequest \cup DeleteRequest \cup CleanupRequest

\* The worker processes that run, and whether ids come back: the largest id in
\* the table + 1 (INTEGER PRIMARY KEY of SQLite), or AUTO_INCREMENT of MySQL.
Deployment == [workers : SUBSET Workers, reuse_ids : BOOLEAN]

Table(us) ==
    /\ DOMAIN us \subseteq Nat \ {0}
    /\ \A i \in DOMAIN us : us[i] \in Row

ASSUME UsersAssumption ==
    /\ Requests \subseteq AnyRequest
    /\ Ids \subseteq Nat
    /\ Deployments \subseteq Deployment
    /\ \A us \in Accounts :
          /\ Table(us)
          /\ \A i, j \in DOMAIN us : us[i].name = us[j].name => i = j
    /\ None \notin Passwords \cup Names \cup BOOLEAN \cup Loaded
                   \cup AnyRequest \cup Workers

VARIABLES
    deployment, \* the installation
    users,      \* the users table: id -> row
    nextId,     \* the AUTO_INCREMENT counter
    tokens,     \* the names in tokens that were issued and did not expire
    log,        \* operation_logs: entries [req, action, target], oldest first
    req,        \* req[r]: the request r carries, None before it is sent
    worker,     \* worker[r]: the process that handles r
    pc,         \* pc[r]: the next statement of the handler of r
    me,         \* me[r]: current_user
    target,     \* target[r]: db_user, new_user
    reply,      \* reply[r]
    done        \* history: what was done: [req, action, target]

vars == <<deployment, users, nextId, tokens, log, req, worker, pc, me,
          target, reply, done>>
store == <<users, nextId, log, done>>
call == <<req, worker, deployment>>

Effect == [req : Reqs, target : Names \cup {None},
           action : {"change_password", "create_user", "update_user",
                     "delete_user", "cleanup_logs"}]

TypeOK ==
    /\ deployment \in Deployments
    /\ Table(users)
    /\ nextId \in Nat
    /\ tokens \subseteq Names
    /\ log \in Seq(Effect)
    /\ req \in [Reqs -> Requests \cup {None}]
    /\ worker \in [Reqs -> Workers \cup {None}]
    /\ pc \in [Reqs -> {"unsent", "select", "commit", "refresh", "end"}]
    /\ me \in [Reqs -> Loaded \cup {None}]
    /\ target \in [Reqs -> Loaded \cup {None}]
    /\ reply \in [Reqs -> {None, "done", "refused", "error"}]
    /\ done \subseteq Effect

\* The largest id in the table + 1.
MaxIdPlusOne(us) ==
    {n \in {1} \cup {i + 1 : i \in DOMAIN us} : \A i \in DOMAIN us : i < n}

\* The server has been running: accounts exist and their tokens are about.
Init ==
    /\ deployment \in Deployments
    /\ users \in Accounts
    /\ nextId \in MaxIdPlusOne(users)
    /\ tokens = {users[i].name : i \in DOMAIN users}
    /\ log = <<>>
    /\ req = [r \in Reqs |-> None]
    /\ worker = [r \in Reqs |-> None]
    /\ pc = [r \in Reqs |-> "unsent"]
    /\ me = [r \in Reqs |-> None]
    /\ target = [r \in Reqs |-> None]
    /\ reply = [r \in Reqs |-> None]
    /\ done = {}

-----------------------------------------------------------------------------
(* Helpers *)

\* The ids of the rows named n: what "WHERE username = n" selects.
IdsOf(n) == {i \in DOMAIN users : users[i].name = n}

\* username is UNIQUE: the INSERT fails when another request was faster.
MayInsert(n) == IdsOf(n) = {}

\* The id the database gives to a new row.
NewIds == IF deployment.reuse_ids THEN MaxIdPlusOne(users) ELSE {nextId}

Idle(w) ==
    \A r \in Reqs : worker[r] = w => pc[r] \in {"unsent", "end"}

Goto(r, l) == pc' = [pc EXCEPT ![r] = l]
Ends(r, a) == Goto(r, "end") /\ reply' = [reply EXCEPT ![r] = a]

Receives(r, w, q) ==
    /\ pc[r] = "unsent"
    /\ w \in deployment.workers
    /\ Idle(w)
    /\ UNCHANGED deployment
    /\ req' = [req EXCEPT ![r] = q]
    /\ worker' = [worker EXCEPT ![r] = w]

\* What request r does to the user whose row its handler read, or that it
\* creates, and the entry of the operation log about it.
EffectOn(r, n) == [req |-> r, action |-> req[r].kind, target |-> n]
Entry_Mutant(r) ==
    EffectOn(r, IF target[r] = None THEN None ELSE me[r].row.name)
Entry(r) == EffectOn(r, IF target[r] = None THEN None ELSE target[r].row.name)

\* The commit of r writes its log entry; it changed the account named n.
Does(r, n) ==
    /\ log' = Append(log, Entry(r))
    /\ done' = done \cup {EffectOn(r, n)}
    /\ UNCHANGED <<tokens, call, me>>

-----------------------------------------------------------------------------
(* Tokens *)

\* A request that needs no token, in one statement.
Login(r, w, q) ==
    LET accepted == \E i \in IdsOf(q.name) :
                       users[i].password = q.password /\ users[i].active
    IN  /\ q.kind = "login"
        /\ Receives(r, w, q)
        /\ IF accepted
           THEN tokens' = tokens \cup {q.name} /\ Ends(r, "done")
           ELSE UNCHANGED tokens /\ Ends(r, "refused")
        /\ UNCHANGED <<store, me, target>>

\* After ACCESS_TOKEN_EXPIRE_MINUTES.
Expire(n) ==
    /\ n \in tokens
    /\ tokens' = tokens \ {n}
    /\ UNCHANGED <<store, call, pc, me, target, reply>>

\* get_current_user and require_admin, and what the handlers check of the
\* current user before they read more.
Admitted_AnyActivity(q, i) ==
    IF q.kind = "change_password"
    THEN users[i].password = q.old /\ q.new # q.old
    ELSE users[i].admin /\ (q.kind = "delete_user" => q.id # i)
Admitted_Self(q, i) ==
    /\ users[i].active
    /\ IF q.kind = "change_password"
       THEN users[i].password = q.old /\ q.new # q.old
       ELSE users[i].admin
Admitted_AnyOld(q, i) ==
    /\ users[i].active
    /\ IF q.kind = "change_password"
       THEN q.new # q.old
       ELSE users[i].admin /\ (q.kind = "delete_user" => q.id # i)
Admitted(q, i) ==
    /\ users[i].active
    /\ IF q.kind = "change_password"
       THEN users[i].password = q.old /\ q.new # q.old
       ELSE users[i].admin /\ (q.kind = "delete_user" => q.id # i)

CheckToken(r, w, q) ==
    LET admitted == {i \in IdsOf(q.actor) : Admitted(q, i)}
    IN  /\ q.kind # "login"
        /\ q.actor \in tokens
        /\ Receives(r, w, q)
        /\ IF admitted = {}
           THEN Ends(r, "refused") /\ UNCHANGED <<me, target>>
           ELSE \E i \in admitted :
                   LET user == [id |-> i, row |-> users[i]] IN
                   /\ me' = [me EXCEPT ![r] = user]
                   /\ target' = [target EXCEPT ![r] =
                                   IF q.kind = "change_password"
                                   THEN user ELSE None]
                   /\ Goto(r, IF q.kind \in {"change_password", "cleanup_logs"}
                              THEN "commit" ELSE "select")
                   /\ UNCHANGED reply
        /\ UNCHANGED <<store, tokens>>

-----------------------------------------------------------------------------
(* The second statement *)

\* A row that is in the session already is not read again: db_user is then
\* current_user with the values it has.
SelectUser(r) ==
    LET i == req[r].id
    IN  /\ pc[r] = "select"
        /\ req[r].kind \in {"update_user", "delete_user"}
        /\ IF i \notin DOMAIN users
           THEN Ends(r, "refused") /\ UNCHANGED target
           ELSE /\ target' = [target EXCEPT ![r] =
                                IF i = me[r].id
                                THEN me[r] ELSE [id |-> i, row |-> users[i]]]
                /\ Goto(r, "commit")
                /\ UNCHANGED reply
        /\ UNCHANGED <<store, tokens, call, me>>

SelectName(r) ==
    /\ pc[r] = "select"
    /\ req[r].kind = "create_user"
    /\ IF IdsOf(req[r].row.name) # {}
       THEN Ends(r, "refused") /\ UNCHANGED target
       ELSE /\ target' = [target EXCEPT ![r] = [id |-> 0, row |-> req[r].row]]
            /\ Goto(r, "commit")
            /\ UNCHANGED reply
    /\ UNCHANGED <<store, tokens, call, me>>

-----------------------------------------------------------------------------
(* The transaction *)

At(r, k) == pc[r] = "commit" /\ req[r].kind = k

\* db.commit() raises and no user handler catches it: get_db closes the
\* session, which rolls back, and the reply is an error.
CommitFails_Mutant(r) ==
    /\ pc[r] = "commit"
    /\ Ends(r, "error")
    /\ log' = Append(log, Entry(r))
    /\ UNCHANGED <<users, nextId, done, tokens, call, me, target>>
CommitFails(r) ==
    /\ pc[r] = "commit"
    /\ Ends(r, "error")
    /\ UNCHANGED <<store, tokens, call, me, target>>

CreateUser(r) ==
    LET row == target[r].row
    IN  /\ At(r, "create_user")
        /\ MayInsert(row.name)
        /\ \E i \in NewIds :
              /\ users' = [j \in DOMAIN users \cup {i} |->
                             IF j = i THEN row ELSE users[j]]
              /\ nextId' = IF deployment.reuse_ids THEN nextId ELSE i + 1
              /\ target' = [target EXCEPT ![r].id = i]
        /\ Does(r, row.name)
        /\ Goto(r, "refresh")
        /\ UNCHANGED reply

\* Only an attribute set to something else than the value loaded is part of
\* the UPDATE; a password always is, for its hash is salted.
Sets(new, old) == new # None /\ new # old
Updated_Mutant(q, old, row) ==
    [row EXCEPT !.password = q.password,
                !.active = IF Sets(q.active, old.active) THEN q.active ELSE @,
                !.admin = IF Sets(q.admin, old.admin) THEN q.admin ELSE @]
Updated_Stale(q, old, row) ==
    [old EXCEPT !.password = IF q.password # None THEN q.password ELSE @,
                !.active = IF q.active # None THEN q.active ELSE @,
                !.admin = IF q.admin # None THEN q.admin ELSE @]
Updated(q, old, row) ==
    [row EXCEPT !.password = IF q.password # None THEN q.password ELSE @,
                !.active = IF Sets(q.active, old.active) THEN q.active ELSE @,
                !.admin = IF Sets(q.admin, old.admin) THEN q.admin ELSE @]

\* An UPDATE whose row is gone raises StaleDataError, so that the transaction
\* is rolled back; without an UPDATE only the log entry is written.
UpdateUser(r) ==
    LET q == req[r]
        i == target[r].id
        old == target[r].row
    IN  /\ At(r, "update_user")
        /\ \/ /\ i \in DOMAIN users
              /\ users' = [users EXCEPT ![i] = Updated(q, old, @)]
              /\ Does(r, users[i].name)
              /\ UNCHANGED <<nextId, target>>
           \/ /\ i \notin DOMAIN users
              /\ q.password = None
              /\ ~Sets(q.active, old.active) /\ ~Sets(q.admin, old.admin)
              /\ log' = Append(log, Entry(r))
              /\ UNCHANGED <<users, nextId, done, tokens, call, me, target>>
        /\ Goto(r, "refresh")
        /\ UNCHANGED reply

ChangePassword(r) ==
    LET i == target[r].id
    IN  /\ At(r, "change_password")
        /\ i \in DOMAIN users
        /\ users' = [users EXCEPT ![i].password = req[r].new]
        /\ Does(r, users[i].name)
        /\ Goto(r, "refresh")
        /\ UNCHANGED <<nextId, target, reply>>

\* A DELETE whose row is gone is no error (SQLAlchemy warns of it).
DeleteUser(r) ==
    LET i == target[r].id
    IN  /\ At(r, "delete_user")
        /\ users' = [j \in DOMAIN users \ {i} |-> users[j]]
        /\ log' = Append(log, Entry(r))
        /\ done' = IF i \in DOMAIN users
                   THEN done \cup {EffectOn(r, users[i].name)} ELSE done
        /\ Ends(r, "done")
        /\ UNCHANGED <<nextId, tokens, call, me, target>>

\* The entries older than so many days, or all, make room for one about it.
CleanupLogs_Mutant(r) ==
    /\ At(r, "cleanup_logs")
    /\ \E k \in 0..Len(log) :
          log' = SubSeq(Append(log, Entry(r)), k + 2, Len(log) + 1)
    /\ done' = done \cup {EffectOn(r, None)}
    /\ Ends(r, "done")
    /\ UNCHANGED <<users, nextId, tokens, call, me, target>>
CleanupLogs(r) ==
    /\ At(r, "cleanup_logs")
    /\ \E k \in 0..Len(log) :
          log' = Append(SubSeq(log, k + 1, Len(log)), Entry(r))
    /\ done' = done \cup {EffectOn(r, None)}
    /\ Ends(r, "done")
    /\ UNCHANGED <<users, nextId, tokens, call, me, target>>

\* db.refresh raises when the row is gone.
Refresh(r) ==
    /\ pc[r] = "refresh"
    /\ Ends(r, IF target[r].id \in DOMAIN users THEN "done" ELSE "error")
    /\ UNCHANGED <<store, tokens, call, me, target>>

-----------------------------------------------------------------------------

Next ==
    \/ \E r \in Reqs, w \in Workers, q \in Requests :
          Login(r, w, q) \/ CheckToken(r, w, q)
    \/ \E n \in Names : Expire(n)
    \/ \E r \in Reqs :
          \/ SelectUser(r) \/ SelectName(r)
          \/ CreateUser(r) \/ UpdateUser(r) \/ ChangePassword(r)
          \/ DeleteUser(r) \/ CleanupLogs(r) \/ CommitFails(r)
          \/ Refresh(r)

Spec == Init /\ [][Next]_vars

-----------------------------------------------------------------------------
(* Properties *)

\* Nothing comes between the statements of a handler.
OneWorker == \A u, w \in deployment.workers : u = w

\* A name stays with its account until that is deleted, and an account changes
\* only in what a request asks to change: an administrator who blocks a user
\* does not undo the password another one set after the user was read.
AccountsKept ==
    [][/\ \A n \in Names : IdsOf(n) # {} => IdsOf(n)' \in {IdsOf(n), {}}
       /\ \A i \in DOMAIN users \cap DOMAIN users' :
             users'[i] # users[i] =>
                 \E r \in Reqs :
                    /\ pc[r] = "commit" /\ pc'[r] = "refresh"
                    /\ \/ /\ req[r].kind = "change_password"
                          /\ users'[i] = [users[i] EXCEPT !.password = req[r].new]
                       \/ /\ req[r].kind = "update_user"
                          /\ \A c \in {"password", "active", "admin"} :
                                users'[i][c] \in {users[i][c], req[r][c]}]_vars

Entries == {log[k] : k \in 1..Len(log)}

\* The log never becomes silent about a change: the request that made it has
\* its entry, or a clean-up has.  And the entry names the account that was
\* changed, although handlers write by the row id they read a statement earlier:
\* that takes one worker, or ids that do not come back.
LogTellsTargets ==
    /\ \A d \in done : \E e \in Entries :
          e.action = "cleanup_logs" \/ (e.req = d.req /\ e.action = d.action)
    /\ (OneWorker \/ ~deployment.reuse_ids) =>
          \A d \in done, e \in Entries : d.req = e.req => d.target = e.target

\* With one worker the log holds nothing that was not done, and a request was
\* done if and only if its reply says so (a login leaves no trace).
LogAndRepliesTrue ==
    OneWorker =>
        /\ Entries \subseteq done
        /\ \A r \in Reqs :
              (pc[r] = "end" /\ req[r].kind # "login") =>
                  (reply[r] = "done" <=> \E d \in done : d.req = r)

\* With one worker whoever changes something is at that moment an active user,
\* and an administrator unless it is their own password.  The handler checked
\* it in a statement before, and the token knows nothing of it.
ActorsInForce ==
    [][OneWorker => \A d \in done' \ done :
          \E i \in IdsOf(req[d.req].actor) :
             /\ users[i].active
             /\ d.action # "change_password" => users[i].admin]_vars

\* With one worker a deletion never leaves the server without an active
\* administrator (an update may: administrators can demote themselves).
DeletionLeavesAdmin ==
    [][OneWorker => \A d \in done' \ done : d.action = "delete_user" =>
          \E i \in DOMAIN users' : users'[i].active /\ users'[i].admin]_vars

\* With one worker users who change their password hand over the one they
\* have, not one that was reset in the meantime.
PasswordHandedOver ==
    [][OneWorker => \A d \in done' \ done : d.action = "change_password" =>
          \E i \in IdsOf(d.target) :
             users[i].password = req[d.req].old]_vars
=============================================================================
