------------------------------- MODULE Startup -------------------------------
(***************************************************************************)
(* The start of the server (main.py): its worker processes initialise the  *)
(* database under a file lock, and one that does not get the lock goes on  *)
(* without waiting.  Initialisation creates the tables and then the        *)
(* default administrator, unless a user of that name exists.               *)
(*                                                                         *)
(* Any step on the database may fail, which is logged and does not stop    *)
(* the start.  A process may end at any time, which frees its lock, and is *)
(* started again (uvicorn's supervisor, the container's restart policy).   *)
(* While processes serve, administrators may create and delete accounts,   *)
(* the default one included.                                               *)
(***************************************************************************)
EXTENDS Naturals

CONSTANTS
    Workers,    \* worker processes of one machine
    MaxStarts,  \* bound: starts of each
    None        \* nobody

ASSUME StartupAssumption ==
    MaxStarts \in Nat \ {0} /\ Workers # {} /\ None \notin Workers

VARIABLES
    state,      \* state[w]: what w does next
    lock,       \* the process that holds the lock on py_auth_init.lock
    tables,     \* the tables exist
    admin,      \* the account ADMIN_USERNAME exists
    others,     \* another active administrator exists
    starts,     \* history: starts[w]: how often w was started
    failed,     \* history: a step of it failed
    removed     \* history: the account ADMIN_USERNAME was deleted

database == <<tables, admin, others>>
history == <<failed, removed>>
vars == <<state, lock, database, starts, history>>

Initialising == {"create tables", "find admin", "create admin", "unlock"}

TypeOK ==
    /\ state \in [Workers -> {"down", "lock", "serving"} \cup Initialising]
    /\ lock \in Workers \cup {None}
    /\ tables \in BOOLEAN /\ admin \in BOOLEAN /\ others \in BOOLEAN
    /\ failed \in BOOLEAN /\ removed \in BOOLEAN
    /\ admin \/ others => tables
    /\ starts \in [Workers -> 0..MaxStarts]

Init ==
    /\ state = [w \in Workers |-> "down"]
    /\ lock = None
    /\ tables = FALSE /\ admin = FALSE /\ others = FALSE
    /\ starts = [w \in Workers |-> 0]
    /\ failed = FALSE /\ removed = FALSE

-----------------------------------------------------------------------------
(* A worker process *)

Goto(w, l) == state' = [state EXCEPT ![w] = l]

Start(w) ==
    /\ state[w] = "down"
    /\ starts[w] < MaxStarts
    /\ starts' = [starts EXCEPT ![w] = @ + 1]
    /\ Goto(w, "lock")
    /\ UNCHANGED <<lock, database, history>>

\* LOCK_EX | LOCK_NB: whoever does not get the lock skips initialisation.
TryLock_Mutant(w) ==
    /\ state[w] = "lock"
    /\ lock' = w
    /\ Goto(w, "create tables")
    /\ UNCHANGED <<database, starts, history>>
TryLock(w) ==
    /\ state[w] = "lock"
    /\ IF lock = None
       THEN lock' = w /\ Goto(w, "create tables")
       ELSE Goto(w, "serving") /\ UNCHANGED lock
    /\ UNCHANGED <<database, starts, history>>

CreateTables_Mutant(w) ==
    /\ state[w] = "create tables"
    /\ tables' = TRUE
    /\ Goto(w, IF tables THEN "unlock" ELSE "find admin")
    /\ UNCHANGED <<lock, admin, others, starts, history>>
CreateTables(w) ==
    /\ state[w] = "create tables"
    /\ tables' = TRUE
    /\ Goto(w, "find admin")
    /\ UNCHANGED <<lock, admin, others, starts, history>>

FindAdmin(w) ==
    /\ state[w] = "find admin"
    /\ Goto(w, IF admin THEN "unlock" ELSE "create admin")
    /\ UNCHANGED <<lock, database, starts, history>>

\* username is UNIQUE.
CreateAdmin(w) ==
    /\ state[w] = "create admin"
    /\ ~admin
    /\ admin' = TRUE
    /\ Goto(w, "unlock")
    /\ UNCHANGED <<lock, tables, others, starts, history>>

\* The exception is logged, whichever handler catches it.
StepFails_Mutant(w) ==
    /\ state[w] \in {"create tables", "find admin", "create admin"}
    /\ failed' = TRUE
    /\ lock' = None
    /\ Goto(w, "down")
    /\ UNCHANGED <<database, starts, removed>>
StepFails_Swallows(w) ==
    /\ state[w] \in {"create tables", "find admin", "create admin"}
    /\ failed' = TRUE
    /\ Goto(w, IF state[w] = "create tables" THEN "find admin" ELSE "unlock")
    /\ UNCHANGED <<lock, database, starts, removed>>
StepFails(w) ==
    /\ state[w] \in {"create tables", "find admin", "create admin"}
    /\ failed' = TRUE
    /\ Goto(w, "unlock")
    /\ UNCHANGED <<lock, database, starts, removed>>

Unlock(w) ==
    /\ state[w] = "unlock"
    /\ lock' = None
    /\ Goto(w, "serving")
    /\ UNCHANGED <<database, starts, history>>

\* The lock is one of the open file: it ends with the process.
Crash(w) ==
    /\ state[w] # "down" /\ starts[w] < MaxStarts
    /\ lock' = IF lock = w THEN None ELSE lock
    /\ Goto(w, "down")
    /\ UNCHANGED <<database, starts, history>>

-----------------------------------------------------------------------------
(* Administrators, through a process that serves *)

Serving == \E w \in Workers : state[w] = "serving"

CreateUser ==
    /\ Serving /\ (admin \/ others)
    /\ \/ others' = TRUE /\ UNCHANGED admin
       \/ admin' = TRUE /\ UNCHANGED others
    /\ UNCHANGED <<state, lock, tables, starts, history>>

\* Nobody deletes themselves.
DeleteUser ==
    /\ Serving /\ admin /\ others
    /\ \/ admin' = FALSE /\ removed' = TRUE /\ UNCHANGED others
       \/ others' = FALSE /\ UNCHANGED <<admin, removed>>
    /\ UNCHANGED <<state, lock, tables, starts, failed>>

-----------------------------------------------------------------------------

Runs(w) ==
    \/ Start(w) \/ TryLock(w) \/ CreateTables(w) \/ FindAdmin(w)
    \/ CreateAdmin(w) \/ StepFails(w) \/ Unlock(w)

Next == (\E w \in Workers : Runs(w) \/ Crash(w)) \/ CreateUser \/ DeleteUser

\* A process that is started, or that runs, goes on.
Fairness == \A w \in Workers : WF_vars(Runs(w))

Spec == Init /\ [][Next]_vars /\ Fairness

-----------------------------------------------------------------------------
(* Properties *)

\* The lock keeps two processes from initialising at the same time.
OneInitialiser ==
    \A u, w \in Workers :
        (state[u] \in Initialising /\ state[w] \in Initialising) => u = w

\* When every process serves, none of them waits for another and no step has
\* failed, the database is ready: whoever skipped the initialisation did so
\* for one that completed it, or that died and came back to do it.
ReadyWhenAllServe ==
    (~failed /\ \A w \in Workers : state[w] = "serving")
        => tables /\ (admin \/ removed)

\* Every process gets to serve, whatever fails and whoever dies holding the
\* lock.
EveryoneServes == \A w \in Workers : []<>(state[w] = "serving")
=============================================================================
