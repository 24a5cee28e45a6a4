---------------------------- MODULE StartupProof ----------------------------
(***************************************************************************)
(* Theorems about Startup, for any number of worker processes.             *)
(***************************************************************************)
EXTENDS Startup, TLAPS

\* The tables come before the administrator.
TypeInv ==
    /\ TypeOK
    /\ \A w \in Workers : state[w] \in {"find admin", "create admin"} => tables

LEMMA TypeInit ==
    ASSUME Init
    PROVE  TypeInv
  <1>1. starts \in [Workers -> 0..MaxStarts]
    <2>1. 0 \in 0..MaxStarts
      BY StartupAssumption, SMT
    <2> QED
      BY <2>1 DEF Init
  <1>2. state \in [Workers -> {"down", "lock", "serving"} \cup Initialising]
        /\ \A w \in Workers : state[w] \notin {"find admin", "create admin"}
    BY SMT DEF Init
  <1>3. lock \in Workers \cup {None}
    BY DEF Init
  <1> QED
    BY <1>1, <1>2, <1>3, Zenon DEF Init, TypeInv, TypeOK

LEMMA TypeStep ==
    ASSUME TypeInv, [Next]_vars
    PROVE  TypeInv'
  <1> USE DEF TypeInv, TypeOK, Initialising
  <1>1. ASSUME NEW w \in Workers, Start(w) PROVE TypeInv'
    <2>1. starts' \in [Workers -> 0..MaxStarts]
      <3>1. starts[w] \in 0..MaxStarts
        BY Zenon
      <3>2. starts[w] + 1 \in 0..MaxStarts
        <4>1. starts[w] < MaxStarts
          BY <1>1, Zenon DEF Start
        <4> HIDE DEF TypeInv, TypeOK
        <4> QED
          BY <3>1, <4>1, StartupAssumption, SMT
      <3> QED
        BY <1>1, <3>2 DEF Start
    <2> QED
      BY <1>1, <2>1 DEF Start, Goto, database, history
  <1>2. ASSUME NEW w \in Workers, TryLock(w) PROVE TypeInv'
    <2>1. state' \in [Workers -> {"down", "lock", "serving"} \cup Initialising]
          /\ lock' \in Workers \cup {None}
          /\ \A v \in Workers : state'[v] \in {"find admin", "create admin"}
                                => state'[v] = state[v]
      BY <1>2 DEF TryLock, Goto
    <2> QED
      BY <1>2, <2>1 DEF TryLock, database, history
  <1>3. ASSUME NEW w \in Workers, Unlock(w) PROVE TypeInv'
    BY <1>3 DEF Unlock, Goto, database, history
  <1>4. ASSUME NEW w \in Workers, Crash(w) PROVE TypeInv'
    <2>1. state' \in [Workers -> {"down", "lock", "serving"} \cup Initialising]
          /\ \A v \in Workers : state'[v] \in {"find admin", "create admin"}
                                => state'[v] = state[v]
      BY <1>4 DEF Crash, Goto
    <2>2. lock' \in Workers \cup {None}
      BY <1>4 DEF Crash
    <2> QED
      BY <1>4, <2>1, <2>2 DEF Crash, database, history
  <1>5. ASSUME NEW w \in Workers, CreateTables(w) PROVE TypeInv'
    BY <1>5 DEF CreateTables, Goto, database, history
  <1>6. ASSUME NEW w \in Workers, FindAdmin(w) PROVE TypeInv'
    BY <1>6 DEF FindAdmin, Goto, database, history
  <1>7. ASSUME NEW w \in Workers, CreateAdmin(w) PROVE TypeInv'
    BY <1>7 DEF CreateAdmin, Goto, history
  <1>8. ASSUME NEW w \in Workers, StepFails(w) PROVE TypeInv'
    BY <1>8 DEF StepFails, Goto, database
  <1>9. CASE CreateUser \/ DeleteUser
    BY <1>9 DEF CreateUser, DeleteUser, database, history
  <1>10. CASE UNCHANGED vars
    BY <1>10 DEF vars, database, history
  <1> QED
    BY <1>1, <1>2, <1>3, <1>4, <1>5, <1>6, <1>7, <1>8,
       <1>9, <1>10 DEF Next, Runs

\* The types hold for any number of processes and starts; in particular there
\* is no account before there are tables.
THEOREM StartupTypeCorrect == Spec => []TypeOK
  <1>1. TypeInv => TypeOK
    BY DEF TypeInv
  <1> QED
    BY <1>1, TypeInit, TypeStep, PTL DEF Spec

(***************************************************************************)
(* One process initialises at a time: whoever does holds the lock, and     *)
(* whoever holds it does.                                                  *)
(***************************************************************************)
LockInv == \A w \in Workers : state[w] \in Initialising <=> lock = w

LEMMA LockStep ==
    ASSUME TypeInv, LockInv, [Next]_vars
    PROVE  LockInv'
  <1> USE StartupAssumption DEF TypeInv, TypeOK, Initialising, LockInv
  <1>1. ASSUME NEW w \in Workers, Start(w) \/ TryLock(w) PROVE LockInv'
    BY <1>1 DEF Start, TryLock, Goto
  <1>2. ASSUME NEW w \in Workers, Unlock(w) \/ Crash(w) PROVE LockInv'
    <2>1. state'[w] \notin Initialising
          /\ \A v \in Workers : v # w => state'[v] = state[v]
      BY <1>2 DEF Unlock, Crash, Goto
    <2>2. lock' = IF lock = w THEN None ELSE lock
      BY <1>2 DEF Unlock, Crash
    <2> QED
      BY <2>1, <2>2
  <1>3. ASSUME NEW w \in Workers, \/ CreateTables(w) \/ FindAdmin(w)
                                \/ CreateAdmin(w) \/ StepFails(w)
        PROVE  LockInv'
    <2>1. state[w] \in Initialising /\ lock' = lock
      BY <1>3 DEF CreateTables, FindAdmin, CreateAdmin, StepFails, database
    <2>2. state'[w] \in Initialising
          /\ \A v \in Workers : v # w => state'[v] = state[v]
      BY <1>3 DEF CreateTables, FindAdmin, CreateAdmin, StepFails, Goto
    <2> QED
      BY <2>1, <2>2
  <1>4. CASE CreateUser \/ DeleteUser
    BY <1>4 DEF CreateUser, DeleteUser
  <1>5. CASE UNCHANGED vars
    BY <1>5 DEF vars
  <1> QED
    BY <1>1, <1>2, <1>3, <1>4, <1>5 DEF Next, Runs

LEMMA LockInit ==
    ASSUME Init
    PROVE  LockInv
  BY StartupAssumption DEF Init, LockInv, Initialising

\* The file lock keeps any number of processes apart.
THEOREM OneInitialises == Spec => []OneInitialiser
  <1>1. LockInv => OneInitialiser
    BY DEF LockInv, OneInitialiser
  <1>2. Init => TypeInv /\ LockInv
    BY TypeInit, LockInit
  <1>3. TypeInv /\ LockInv /\ [Next]_vars => (TypeInv /\ LockInv)'
    BY TypeStep, LockStep
  <1> QED
    BY <1>1, <1>2, <1>3, PTL DEF Spec

(***************************************************************************)
(* The database is ready when all serve.  The last process to serve has    *)
(* initialised, or somebody who served already had: a process that skips   *)
(* the initialisation leaves behind the one that holds the lock, which     *)
(* does not serve yet.                                                     *)
(***************************************************************************)
Ready == tables /\ (admin \/ removed)

ReadyInv ==
    ~failed => /\ \A w \in Workers : state[w] = "unlock" => Ready
               /\ (\A w \in Workers : state[w] = "serving") => Ready

LEMMA ReadyStays ==
    ASSUME TypeInv, [Next]_vars, Ready
    PROVE  Ready'
  <1>1. ASSUME NEW w \in Workers, Runs(w) \/ Crash(w) PROVE Ready'
    BY <1>1 DEF Runs, Start, TryLock, CreateTables, FindAdmin, CreateAdmin, StepFails,
       Unlock, Crash, Ready, database, history
  <1>2. CASE CreateUser \/ DeleteUser
    BY <1>2 DEF CreateUser, DeleteUser, Ready, history
  <1>3. CASE UNCHANGED vars
    BY <1>3 DEF vars, Ready, database, history
  <1> QED
    BY <1>1, <1>2, <1>3 DEF Next

LEMMA ReadyStep ==
    ASSUME TypeInv, LockInv, ReadyInv, [Next]_vars
    PROVE  ReadyInv'
  <1> USE StartupAssumption DEF TypeInv, TypeOK
  <1>1. SUFFICES ASSUME ~failed', ~failed, ~Ready PROVE ReadyInv'
    <2>1. failed => failed'
      BY DEF Next, Runs, vars, database, history, Start, TryLock, CreateTables, FindAdmin,
         CreateAdmin, StepFails, Unlock, Crash, CreateUser, DeleteUser
    <2> QED
      BY <2>1, ReadyStays DEF ReadyInv
  <1>2. PICK u \in Workers : state[u] # "serving"
    BY <1>1 DEF ReadyInv
  <1>3. ASSUME NEW w \in Workers, Start(w) \/ CreateTables(w) \/ Crash(w)
        PROVE  ReadyInv'
    <2>1. state'[w] \notin {"unlock", "serving"}
          /\ \A v \in Workers : v # w => state'[v] = state[v]
      BY <1>3 DEF Start, CreateTables, Crash, Goto
    <2> QED
      BY <1>1, <2>1 DEF ReadyInv
  <1>4. ASSUME NEW w \in Workers, TryLock(w) PROVE ReadyInv'
    <2>1. CASE lock = None
      <3>1. state'[w] = "create tables"
            /\ \A v \in Workers : v # w => state'[v] = state[v]
        BY <1>4, <2>1 DEF TryLock, Goto
      <3> QED
        BY <1>1, <3>1 DEF ReadyInv
    <2>2. CASE lock # None
      <3>1. state[lock] \in Initialising /\ lock # w
        BY <1>4, <2>2 DEF LockInv, TryLock, Initialising
      <3>2. state'[lock] = state[lock]
            /\ \A v \in Workers : state'[v] = "unlock" => state[v] = "unlock"
        BY <1>4, <2>2, <3>1 DEF TryLock, Goto
      <3>3. lock \in Workers /\ state'[lock] # "serving"
        BY <2>2, <3>1, <3>2 DEF Initialising
      <3> QED
        BY <1>1, <3>2, <3>3 DEF ReadyInv
    <2> QED
      BY <2>1, <2>2
  <1>5. ASSUME NEW w \in Workers, FindAdmin(w) PROVE ReadyInv'
    <2>1. state'[w] # "serving" /\ (state'[w] = "unlock" => admin)
          /\ tables
          /\ \A v \in Workers : v # w => state'[v] = state[v]
      BY <1>5 DEF FindAdmin, Goto
    <2> QED
      BY <1>1, <2>1 DEF ReadyInv, Ready
  <1>6. ASSUME NEW w \in Workers, CreateAdmin(w) PROVE Ready'
    BY <1>6 DEF CreateAdmin, Ready, history
  <1>7. ASSUME NEW w \in Workers, StepFails(w) PROVE FALSE
    BY <1>1, <1>7 DEF StepFails
  <1>8. ASSUME NEW w \in Workers, Unlock(w) PROVE FALSE
    BY <1>1, <1>8 DEF Unlock, ReadyInv
  <1>9. CASE CreateUser \/ DeleteUser \/ UNCHANGED vars
    <2>1. state' = state
      BY <1>9 DEF CreateUser, DeleteUser, vars
    <2> QED
      BY <1>1, <2>1 DEF ReadyInv
  <1> QED
    BY <1>3, <1>4, <1>5, <1>6, <1>7, <1>8, <1>9 DEF Next, Runs, ReadyInv

\* Whoever skipped the initialisation serves a database that is ready once all
\* do, unless a step failed, for any number of processes.
THEOREM ReadyOnceAllServe == Spec => []ReadyWhenAllServe
  <1>1. ReadyInv => ReadyWhenAllServe
    BY DEF ReadyInv, Ready, ReadyWhenAllServe
  <1>2. Init => TypeInv /\ LockInv /\ ReadyInv
    <2>1. Init => ReadyInv
      BY StartupAssumption DEF Init, ReadyInv
    <2> QED
      BY <2>1, TypeInit, LockInit
  <1>3. TypeInv /\ LockInv /\ ReadyInv /\ [Next]_vars => (TypeInv /\ LockInv /\ ReadyInv)'
    BY TypeStep, LockStep, ReadyStep
  <1> QED
    BY <1>1, <1>2, <1>3, PTL DEF Spec
=============================================================================
