--------------------------- MODULE AuthClientProof ---------------------------
(***************************************************************************)
(* Theorems about AuthClient, for any number of products and of tasks that *)
(* call the SDKs at the same time.                                         *)
(***************************************************************************)
EXTENDS AuthClient, TLAPS

(***************************************************************************)
(* Types.  The counters of a call stay in their ranges because a call that *)
(* counts two heartbeats reserves both, and because a write is given up    *)
(* after the last of its tries.                                            *)
(***************************************************************************)
Reserved(j) == IF j.op = "progressive" /\ ~j.light THEN 1 ELSE 0

Bounded(j) ==
    /\ j.tries < 2 * Saves(j.sdk, j.op)
    /\ j.op \in Checks => j.next_hb + Reserved(j) <= MaxBeats

\* A check that saves has an answer to save.
HasAnswer(t) ==
    (pc[t] \in {"read", "open", "fill"} /\ job[t].op \in Checks)
        => job[t].answer \in {"authorized", "denied"}

\* Heartbeats are sent by checks.
IsCheck(t) == pc[t] \in {"fast", "full", "fallback"} => job[t].op \in Checks

TypeInv ==
    /\ TypeOK
    /\ \A t \in Tasks : job[t] # None => Bounded(job[t])
    /\ \A t \in Tasks : HasAnswer(t) /\ IsCheck(t)

LEMMA InitTypeInv == Init => TypeInv
  BY ClientAssumption
     DEF Init, TypeInv, TypeOK, HasAnswer, IsCheck, PC, File, NoRows

(***************************************************************************)
(* Facts used by most steps.                                               *)
(***************************************************************************)
LEMMA NoRowsTyped == NoRows \in File
  BY DEF NoRows, File

LEMMA BudgetTyped ==
    ASSUME NEW x \in Sdks, NEW o \in Ops
    PROVE  Saves(x, o) \in {1, 3}
  BY DEF Saves

\* The tries of a save come in pairs, so that the count meets the budget.
LEMMA NextTry ==
    ASSUME NEW j \in Job, Bounded(j)
    PROVE  /\ j.tries % 2 = 0 => j.tries + 1 < 2 * Saves(j.sdk, j.op)
           /\ j.tries + 2 - (j.tries % 2) \in 0..2 * Saves(j.sdk, j.op)
           /\ 2 * Saves(j.sdk, j.op) \in {2, 6}
  <1>1. j.tries \in 0..6 /\ Saves(j.sdk, j.op) \in {1, 3}
    BY BudgetTyped DEF Job
  <1>2. j.tries \in {0, 1, 2, 3, 4, 5, 6}
    BY <1>1
  <1>3. 0 % 2 = 0 /\ 1 % 2 = 1 /\ 2 % 2 = 0 /\ 3 % 2 = 1 /\ 4 % 2 = 0
        /\ 5 % 2 = 1
    OBVIOUS
  <1> QED
    BY <1>1, <1>2, <1>3 DEF Bounded

\* A task that is in a call has its local variables.
LEMMA Busy ==
    ASSUME TypeInv, NEW t \in Tasks, pc[t] # "idle"
    PROVE  job[t] \in Job /\ Bounded(job[t]) /\ HasAnswer(t) /\ IsCheck(t)
  BY DEF TypeInv, TypeOK

LEMMA JobFields ==
    ASSUME NEW j \in Job
    PROVE  /\ j # None
           /\ j.sdk \in Sdks /\ j.op \in Ops
           /\ j.app \in Apps /\ j.begun \in 1..MaxTime
           /\ j.valid \in BOOLEAN /\ j.next_hb \in 1..MaxBeats + 1
           /\ j.answer \in {None, "authorized", "denied"}
           /\ j.light \in BOOLEAN /\ j.stored \in BOOLEAN
           /\ j.held \in File /\ j.tries \in 0..6
  BY NoneAssumption DEF Job

\* The local variables at the start of the second stage of a check.
LEMMA SecondStage ==
    ASSUME NEW j \in Job, NEW s \in BOOLEAN, NEW n \in 1..MaxBeats + 1,
           NEW h \in File
    PROVE  [j EXCEPT !.light = TRUE, !.stored = s, !.next_hb = n,
                     !.answer = None, !.held = h, !.tries = 0] \in Job
  <1>1. \A i \in Job : [i EXCEPT !.light = TRUE] \in Job
    BY DEF Job
  <1>2. \A i \in Job : [i EXCEPT !.stored = s] \in Job
    BY DEF Job
  <1>3. \A i \in Job : [i EXCEPT !.next_hb = n] \in Job
    BY DEF Job
  <1>4. \A i \in Job : [i EXCEPT !.answer = None] \in Job
    BY DEF Job
  <1>5. \A i \in Job : [i EXCEPT !.held = h] \in Job
    BY DEF Job
  <1>6. \A i \in Job : [i EXCEPT !.tries = 0] \in Job
    BY DEF Job
  <1> QED
    BY <1>1, <1>2, <1>3, <1>4, <1>5, <1>6

(***************************************************************************)
(* One task steps to label l with local variables j.                       *)
(***************************************************************************)
LEMMA MoveTyped ==
    ASSUME TypeInv, NEW t \in Tasks, NEW l \in PC \ {"idle"}, NEW j \in Job,
           Bounded(j),
           (l \in {"read", "open", "fill"} /\ j.op \in Checks)
               => j.answer \in {"authorized", "denied"},
           l \in {"fast", "full", "fallback"} => j.op \in Checks,
           pc' = [pc EXCEPT ![t] = l], job' = [job EXCEPT ![t] = j],
           now' \in 1..MaxTime, file' \in File, mixed' \subseteq Tasks,
           result' \in [Tasks -> Result \cup {None}],
           granted' \in [Apps -> 0..MaxTime], denied' \in [Apps -> BOOLEAN],
           own' \in File
    PROVE  TypeInv'
  <1>1. j # None
    BY JobFields
  <1>2. TypeOK'
    BY <1>1 DEF TypeInv, TypeOK
  <1>3. \A u \in Tasks : (job[u] # None => Bounded(job[u]))'
    BY <1>1 DEF TypeInv, TypeOK, Bounded, Reserved
  <1>4. \A u \in Tasks : HasAnswer(u)' /\ IsCheck(u)'
    BY DEF TypeInv, TypeOK, HasAnswer, IsCheck
  <1> QED
    BY <1>2, <1>3, <1>4 DEF TypeInv

\* The call of one task ends.
LEMMA FinishTyped ==
    ASSUME TypeInv, NEW t \in Tasks, Finish(t),
           now' \in 1..MaxTime, file' \in File, mixed' \subseteq Tasks,
           result' \in [Tasks -> Result \cup {None}],
           granted' \in [Apps -> 0..MaxTime], denied' \in [Apps -> BOOLEAN],
           own' \in File
    PROVE  TypeInv'
  <1>1. TypeOK'
    BY DEF TypeInv, TypeOK, Finish, Goto, PC
  <1>2. \A u \in Tasks : (job[u] # None => Bounded(job[u]))'
    BY DEF TypeInv, TypeOK, Finish, Goto, Bounded, Reserved
  <1>3. \A u \in Tasks : HasAnswer(u)' /\ IsCheck(u)'
    BY DEF TypeInv, TypeOK, Finish, Goto, HasAnswer, IsCheck
  <1> QED
    BY <1>1, <1>2, <1>3 DEF TypeInv

LEMMA ReturnsTyped ==
    ASSUME TypeInv, NEW t \in Tasks, pc[t] # "idle",
           NEW ok \in BOOLEAN, NEW cached \in BOOLEAN, NEW time \in 1..MaxTime,
           Returns(t, ok, cached, time),
           now' \in 1..MaxTime, file' \in File, mixed' \subseteq Tasks,
           granted' \in [Apps -> 0..MaxTime], denied' \in [Apps -> BOOLEAN],
           own' \in File
    PROVE  TypeInv'
  <1>1. job[t].app \in Apps
    BY Busy, JobFields
  <1>2. result' \in [Tasks -> Result \cup {None}]
    BY <1>1 DEF Returns, Result, TypeInv, TypeOK
  <1> QED
    BY <1>2, FinishTyped DEF Returns

LEMMA AfterSaveTyped ==
    ASSUME TypeInv, NEW t \in Tasks, pc[t] \in {"open", "fill"},
           NEW saved \in BOOLEAN, AfterSave(t, saved),
           now' \in 1..MaxTime, file' \in File, mixed' \subseteq Tasks,
           granted' \in [Apps -> 0..MaxTime], denied' \in [Apps -> BOOLEAN],
           own' \in File
    PROVE  TypeInv'
  <1> DEFINE j == job[t]
  <1>1. j \in Job /\ Bounded(j) /\ result \in [Tasks -> Result \cup {None}]
    BY Busy DEF TypeInv, TypeOK
  <1>2. CASE j.op \notin Checks
    BY <1>1, <1>2, FinishTyped DEF AfterSave
  <1>3. CASE j.op = "progressive" /\ j.answer = "authorized" /\ ~j.light
    <2> DEFINE k == [j EXCEPT !.light = TRUE, !.stored = saved,
                              !.next_hb = @ + 1, !.answer = None,
                              !.held = NoRows, !.tries = 0]
    <2>1. j.op \in Checks /\ j.next_hb + 1 <= MaxBeats
      BY <1>1, <1>3 DEF Checks, Bounded, Reserved
    <2>a. j.next_hb + 1 \in 1..MaxBeats + 1
      BY <1>1, <2>1, JobFields, ClientAssumption
    <2>2. k \in Job
      BY <1>1, <2>a, NoRowsTyped, SecondStage
    <2>3. k.op = j.op /\ k.tries = 0 /\ k.light /\ k.next_hb = j.next_hb + 1
          /\ k.sdk = j.sdk
      BY <1>1 DEF Job
    <2>4. Bounded(k)
      <3>1. k.tries = 0 /\ k.op \in Ops /\ k.next_hb = j.next_hb + 1 /\ k.light
            /\ k.sdk \in Sdks
        BY <1>1, <2>3, JobFields
      <3>2. 0 < 2 * Saves(k.sdk, k.op)
        BY <3>1, BudgetTyped
      <3>3. Reserved(k) = 0
        BY <3>1 DEF Reserved
      <3> HIDE DEF k
      <3> QED
        BY <2>1, <3>1, <3>2, <3>3, <1>1, JobFields DEF Bounded
    <2>5. pc' = [pc EXCEPT ![t] = "full"] /\ job' = [job EXCEPT ![t] = k]
          /\ UNCHANGED result
      BY <1>3, <2>1 DEF AfterSave, Goto
    <2> HIDE DEF k
    <2> QED
      BY <1>1, <2>1, <2>2, <2>3, <2>4, <2>5, MoveTyped DEF PC
  <1>4. CASE j.op \in Checks
             /\ ~(j.op = "progressive" /\ j.answer = "authorized" /\ ~j.light)
    <2>1. Returns(t, j.answer = "authorized", FALSE, j.begun)
      BY <1>4 DEF AfterSave
    <2>2. (j.answer = "authorized") \in BOOLEAN /\ j.begun \in 1..MaxTime
      BY <1>1, JobFields
    <2> QED
      BY <2>1, <2>2, ReturnsTyped
  <1> QED
    BY <1>2, <1>3, <1>4

\* A save goes on: with a second write, or by reading the file again.
LEMMA TriesTyped ==
    ASSUME TypeInv, NEW t \in Tasks, pc[t] \in {"open", "fill"},
           NEW l \in {"read", "open"}, NEW n \in 0..6,
           n < 2 * Saves(job[t].sdk, job[t].op),
           job' = [job EXCEPT ![t].tries = n], Goto(t, l), UNCHANGED result,
           now' \in 1..MaxTime, file' \in File, mixed' \subseteq Tasks,
           granted' \in [Apps -> 0..MaxTime], denied' \in [Apps -> BOOLEAN],
           own' \in File
    PROVE  TypeInv'
  <1> DEFINE j == job[t]
             k == [j EXCEPT !.tries = n]
  <1>1. j \in Job /\ Bounded(j) /\ HasAnswer(t)
        /\ result \in [Tasks -> Result \cup {None}]
    BY Busy DEF TypeInv, TypeOK
  <1>2. k \in Job
    BY <1>1 DEF Job
  <1>3. k.op = j.op /\ k.tries = n /\ k.light = j.light /\ k.sdk = j.sdk
        /\ k.next_hb = j.next_hb /\ k.answer = j.answer
    BY <1>1 DEF Job
  <1>4. Bounded(k)
    BY <1>1, <1>3 DEF Bounded, Reserved
  <1>5. pc' = [pc EXCEPT ![t] = l] /\ job' = [job EXCEPT ![t] = k]
    BY DEF Goto
  <1>6. j.op \in Checks => j.answer \in {"authorized", "denied"}
    BY <1>1 DEF HasAnswer
  <1>7. l \in PC \ {"idle"}
    BY DEF PC
  <1> HIDE DEF k
  <1> QED
    BY <1>1, <1>2, <1>3, <1>4, <1>5, <1>6, <1>7, MoveTyped

LEMMA WriteFailsTyped ==
    ASSUME TypeInv, NEW t \in Tasks, pc[t] \in {"open", "fill"},
           WritesAgain(t) \/ SaveFails(t),
           now' \in 1..MaxTime, file' \in File, mixed' \subseteq Tasks,
           granted' \in [Apps -> 0..MaxTime], denied' \in [Apps -> BOOLEAN],
           own' \in File
    PROVE  TypeInv'
  <1> DEFINE j == job[t]
             n == j.tries + 2 - (j.tries % 2)
  <1>1. /\ j \in Job /\ Bounded(j) /\ j.tries \in 0..6
        /\ j.tries % 2 = 0 => j.tries + 1 < 2 * Saves(j.sdk, j.op)
        /\ n \in 0..2 * Saves(j.sdk, j.op)
        /\ 2 * Saves(j.sdk, j.op) \in {2, 6}
    BY Busy, JobFields, NextTry
  <1> HIDE DEF n
  <1>2. CASE WritesAgain(t)
    <2>1. /\ j.tries % 2 = 0
          /\ job' = [job EXCEPT ![t].tries = j.tries + 1]
          /\ Goto(t, "open") /\ UNCHANGED result
      BY <1>2 DEF WritesAgain, MayWriteAgain
    <2>2. j.tries + 1 < 2 * Saves(j.sdk, j.op) /\ j.tries + 1 \in 0..6
      BY <1>1, <2>1
    <2> QED
      BY <2>1, <2>2, TriesTyped
  <1>3. CASE SaveFails(t)
    <2>1. CASE n = 2 * Saves(j.sdk, j.op)
      <3>1. AfterSave(t, FALSE)
        BY <1>3, <2>1 DEF SaveFails, n
      <3> QED
        BY <3>1, AfterSaveTyped
    <2>2. CASE n # 2 * Saves(j.sdk, j.op)
      <3>1. n < 2 * Saves(j.sdk, j.op) /\ n \in 0..6
        BY <1>1, <2>2
      <3>2. job' = [job EXCEPT ![t].tries = n] /\ Goto(t, "read")
            /\ UNCHANGED result
        BY <1>3, <2>2 DEF SaveFails, n
      <3> QED
        BY <3>1, <3>2, TriesTyped
    <2> QED
      BY <2>1, <2>2
  <1> QED
    BY <1>2, <1>3

\* The row a save leaves is a row.
LEMMA NewRowTyped ==
    ASSUME TypeInv, NEW t \in Tasks, pc[t] = "read",
           NEW row \in Row \cup {None}
    PROVE  NewRow(t, row) \in Row
  <1> DEFINE j == job[t]
  <1>1. j \in Job /\ Bounded(j) /\ HasAnswer(t) /\ now \in 1..MaxTime
    BY Busy DEF TypeInv, TypeOK
  <1>2. j.op \in Ops /\ j.next_hb \in 1..MaxBeats + 1
    BY <1>1, JobFields
  <1>3. Blank \in Row
    BY ClientAssumption DEF Row, Blank
  <1>4. CASE ~(j.op \in Checks /\ j.answer = "authorized")
    BY <1>3, <1>4 DEF NewRow
  <1>5. CASE j.op \in Checks /\ j.answer = "authorized"
    <2>1. j.next_hb \in 1..MaxBeats
      BY <1>1, <1>2, <1>5, ClientAssumption DEF Bounded, Reserved
    <2>2. [at |-> now, beats |-> j.next_hb] \in Row
      BY <1>1, <2>1, ClientAssumption DEF Row
    <2> QED
      BY <1>5, <2>2 DEF NewRow
  <1> QED
    BY <1>4, <1>5

\* A read finds the row that is in the file, or none.
LEMMA RowRead ==
    ASSUME TypeInv, NEW rows \in Readable
    PROVE  /\ rows \in File
           /\ \A a \in Apps : rows[a] \in {file[a], None}
  <1>1. file \in File
    BY DEF TypeInv, TypeOK
  <1> QED
    BY <1>1, NoRowsTyped DEF Readable, NoRows

LEMMA ReadValid ==
    ASSUME TypeInv, NEW rows \in Readable, NEW a \in Apps, CacheValid(rows[a])
    PROVE  CacheValid(file[a])
  <1>1. rows[a] # None
    BY DEF CacheValid
  <1> QED
    BY <1>1, RowRead

LEMMA NewJobTyped ==
    ASSUME TypeInv, NEW x \in Sdks, NEW a \in Apps, NEW o \in Ops,
           NEW row \in Row \cup {None},
           o \in Checks => HeartbeatTimes(row) + 2 <= MaxBeats
    PROVE  /\ NewJob(x, a, o, row) \in Job
           /\ Bounded(NewJob(x, a, o, row))
           /\ NewJob(x, a, o, row).op = o
  <1> DEFINE n == HeartbeatTimes(row) + 1
             v == CacheValid(row)
  <1>1. now \in 1..MaxTime
    BY DEF TypeInv, TypeOK
  <1>3. HeartbeatTimes(row) \in 0..MaxBeats
    BY ClientAssumption DEF HeartbeatTimes, Row
  <1>4. n \in 1..MaxBeats + 1
    BY <1>3, ClientAssumption
  <1>5. v \in BOOLEAN
    BY DEF CacheValid
  <1>6. NewJob(x, a, o, row) = [sdk |-> x, op |-> o, app |-> a, begun |-> now, valid |-> v,
                        next_hb |-> n, answer |-> None, light |-> FALSE,
                        stored |-> FALSE, held |-> NoRows, tries |-> 0]
    BY DEF NewJob
  <1> HIDE DEF n, v
  <1>7. NewJob(x, a, o, row) \in Job
    BY <1>1, <1>4, <1>5, <1>6, NoRowsTyped DEF Job
  <1>8. Bounded(NewJob(x, a, o, row))
    <2>1. 0 < 2 * Saves(x, o)
      BY BudgetTyped
    <2>2. o \in Checks => n + 1 <= MaxBeats
      BY <1>3, ClientAssumption DEF n
    <2> QED
      BY <1>4, <1>6, <2>1, <2>2, ClientAssumption DEF Bounded, Reserved
  <1> QED
    BY <1>6, <1>7, <1>8

LEMMA NextTypeInv == TypeInv /\ [Next]_vars => TypeInv'
  <1> SUFFICES ASSUME TypeInv, [Next]_vars
               PROVE  TypeInv'
    OBVIOUS
  <1>t. /\ now \in 1..MaxTime /\ file \in File /\ mixed \subseteq Tasks
        /\ pc \in [Tasks -> PC] /\ job \in [Tasks -> Job \cup {None}]
        /\ result \in [Tasks -> Result \cup {None}]
        /\ granted \in [Apps -> 0..MaxTime] /\ denied \in [Apps -> BOOLEAN]
        /\ own \in File
    BY DEF TypeInv, TypeOK
  <1>1. CASE Tick
    <2>1. now' \in 1..MaxTime
      BY <1>1, <1>t, ClientAssumption DEF Tick
    <2> QED
      BY <1>1, <2>1 DEF Tick, TypeInv, TypeOK, HasAnswer, IsCheck, Bounded,
                        Reserved, history
  <1>2. ASSUME NEW t \in Tasks, ReadRows(t)
        PROVE  TypeInv'
    <2>r. PICK rows \in Readable : job' = [job EXCEPT ![t].held = Replaced(t, rows)]
      BY <1>2 DEF ReadRows
    <2> DEFINE j == job[t]
               k == [j EXCEPT !.held = Replaced(t, rows)]
    <2>1. j \in Job /\ Bounded(j) /\ HasAnswer(t) /\ pc[t] = "read"
      BY <1>2, Busy DEF ReadRows
    <2>2. rows \in File /\ rows[j.app] \in Row \cup {None}
      BY <2>1, RowRead, JobFields DEF File
    <2>3. NewRow(t, rows[j.app]) \in Row
      BY <2>1, <2>2, NewRowTyped
    <2>4. Replaced(t, rows) \in File
      BY <2>2, <2>3 DEF Replaced, File
    <2>5. k \in Job
      BY <2>1, <2>4 DEF Job
    <2>6. k.op = j.op /\ k.tries = j.tries /\ k.light = j.light
          /\ k.next_hb = j.next_hb /\ k.answer = j.answer /\ k.sdk = j.sdk
      BY <2>1 DEF Job
    <2>7. Bounded(k)
      BY <2>1, <2>6 DEF Bounded, Reserved
    <2>8. pc' = [pc EXCEPT ![t] = "open"] /\ job' = [job EXCEPT ![t] = k]
          /\ UNCHANGED <<now, file, mixed, result, granted, denied, own>>
      BY <1>2, <2>r DEF ReadRows, Goto, history
    <2>9. j.op \in Checks => j.answer \in {"authorized", "denied"}
      BY <2>1 DEF HasAnswer
    <2> HIDE DEF k
    <2> QED
      BY <1>t, <2>1, <2>5, <2>6, <2>7, <2>8, <2>9, MoveTyped DEF PC
  <1>3. ASSUME NEW t \in Tasks, OpenFile(t)
        PROVE  TypeInv'
    <2>1. pc[t] = "open" /\ UNCHANGED <<now, granted, denied, own>>
      BY <1>3 DEF OpenFile, history
    <2>2. CASE file' = NoRows /\ mixed' = {} /\ Goto(t, "fill")
               /\ UNCHANGED <<job, result>>
      <3>1. job[t] \in Job /\ Bounded(job[t]) /\ HasAnswer(t)
        BY <2>1, Busy
      <3>2. job' = [job EXCEPT ![t] = job[t]]
        BY <2>2, <1>t
      <3>3. job[t].op \in Checks => job[t].answer \in {"authorized", "denied"}
        BY <2>1, <3>1 DEF HasAnswer
      <3> QED
        BY <1>t, <2>1, <2>2, <3>1, <3>2, <3>3, NoRowsTyped, MoveTyped DEF Goto, PC
    <2>3. CASE (WritesAgain(t) \/ SaveFails(t)) /\ file' \in {file, NoRows}
               /\ UNCHANGED mixed
      BY <1>t, <2>1, <2>3, NoRowsTyped, WriteFailsTyped
    <2> QED
      BY <1>3, <2>2, <2>3 DEF OpenFile
  <1>4. ASSUME NEW t \in Tasks, FillFile(t)
        PROVE  TypeInv'
    <2>1. pc[t] = "fill" /\ UNCHANGED now
      BY <1>4 DEF FillFile
    <2>2. job[t] \in Job /\ job[t].held \in File /\ job[t].app \in Apps
      BY <2>1, Busy, JobFields
    <2>3. CASE /\ file' \in {job[t].held, NoRows}
               /\ mixed' = {u \in Tasks \ {t} : pc[u] = "fill"}
               /\ AfterSave(t, TRUE)
               /\ own' = [own EXCEPT ![job[t].app] = job[t].held[job[t].app]]
               /\ denied' = [denied EXCEPT ![job[t].app] =
                     @ \/ job[t].op = "clear" \/ job[t].answer = "denied"]
               /\ UNCHANGED granted
      <3>1. own' \in File
        BY <1>t, <2>2, <2>3 DEF File
      <3>2. denied' \in [Apps -> BOOLEAN]
        <4>1. \A a \in Apps : denied[a] \in BOOLEAN
          BY <1>t
        <4>2. (denied[job[t].app] \/ job[t].op = "clear"
                 \/ job[t].answer = "denied") \in BOOLEAN
          BY <2>2, <4>1, Zenon
        <4> QED
          BY <1>t, <2>3, <4>2, Zenon
      <3>3. file' \in File /\ mixed' \subseteq Tasks
        BY <2>2, <2>3, NoRowsTyped
      <3> QED
        BY <1>t, <2>1, <2>3, <3>1, <3>2, <3>3, AfterSaveTyped
    <2>4. CASE /\ file' = NoRows /\ mixed' = mixed \ {t} /\ UNCHANGED history
               /\ WritesAgain(t) \/ SaveFails(t)
      BY <1>t, <2>1, <2>4, NoRowsTyped, WriteFailsTyped DEF history
    <2> QED
      BY <1>4, <2>3, <2>4 DEF FillFile
  <1>5. ASSUME NEW t \in Tasks, Answered(t), pc[t] \in {"fast", "full"}
        PROVE  TypeInv'
    <2> DEFINE j == job[t]
    <2>1. j \in Job /\ Bounded(j) /\ IsCheck(t)
      BY <1>5, Busy
    <2>2. PICK v \in {"authorized", "denied"} :
             /\ job' = [job EXCEPT ![t].answer = v]
             /\ granted' = [granted EXCEPT ![job[t].app] =
                              IF v = "authorized" THEN now ELSE @]
             /\ denied' = [denied EXCEPT ![job[t].app] = @ /\ v = "denied"]
      BY <1>5 DEF Answered
    <2> DEFINE k == [j EXCEPT !.answer = v]
    <2>3. k \in Job
      <3>1. \A i \in Job : [i EXCEPT !.answer = v] \in Job
        BY <2>2 DEF Job
      <3> QED
        BY <2>1, <3>1
    <2>4. k.op = j.op /\ k.tries = j.tries /\ k.light = j.light
          /\ k.next_hb = j.next_hb /\ k.answer = v /\ k.sdk = j.sdk
      BY <2>1 DEF Job
    <2>5. Bounded(k)
      BY <2>1, <2>4 DEF Bounded, Reserved
    <2>6. job' = [job EXCEPT ![t] = k]
      BY <2>2
    <2>7. granted' \in [Apps -> 0..MaxTime]
      <3>1. job[t].app \in Apps
        BY <2>1, JobFields
      <3>2. now \in 0..MaxTime /\ granted[job[t].app] \in 0..MaxTime
        BY <1>t, <3>1, ClientAssumption
      <3>3. (IF v = "authorized" THEN now ELSE granted[job[t].app]) \in 0..MaxTime
        BY <3>2
      <3> QED
        BY <1>t, <2>2, <3>3
    <2>8. denied' \in [Apps -> BOOLEAN]
      <3>1. (denied[job[t].app] /\ v = "denied") \in BOOLEAN
        OBVIOUS
      <3> QED
        BY <1>t, <2>2, <3>1, Zenon
    <2>9. pc' = [pc EXCEPT ![t] = "read"]
          /\ UNCHANGED <<now, file, mixed, result, own>>
      BY <1>5 DEF Answered, Goto
    <2> HIDE DEF k
    <2> QED
      BY <1>t, <2>3, <2>4, <2>5, <2>6, <2>7, <2>8, <2>9, MoveTyped DEF PC
  <1>6. ASSUME NEW t \in Tasks, FastHeartbeat(t)
        PROVE  TypeInv'
    <2>1. CASE Answered(t)
      BY <1>5, <1>6, <2>1 DEF FastHeartbeat
    <2>2. CASE job' = [job EXCEPT ![t].op = "check"] /\ Goto(t, "full")
               /\ UNCHANGED <<now, file, mixed, result, history>>
      <3> DEFINE j == job[t]
                 k == [j EXCEPT !.op = "check"]
      <3>1. j \in Job /\ Bounded(j) /\ IsCheck(t) /\ pc[t] = "fast"
        BY <1>6, Busy DEF FastHeartbeat
      <3>2. k \in Job
        BY <3>1 DEF Job, Ops, Checks
      <3>3. k.op = "check" /\ k.tries = j.tries /\ k.next_hb = j.next_hb
            /\ k.sdk = j.sdk
        BY <3>1 DEF Job
      <3>4. j.op \in Checks /\ j.next_hb \in Nat /\ Reserved(j) \in {0, 1}
        BY <3>1, JobFields, ClientAssumption DEF IsCheck, Reserved
      <3>5. Bounded(k)
        BY <3>1, <3>3, <3>4, ClientAssumption
           DEF Bounded, Reserved, Saves, Checks
      <3>6. pc' = [pc EXCEPT ![t] = "full"] /\ job' = [job EXCEPT ![t] = k]
            /\ UNCHANGED <<now, file, mixed, result, granted, denied, own>>
        BY <2>2 DEF Goto, history
      <3>7. k.op \in Checks
        BY <3>3 DEF Checks
      <3> HIDE DEF k
      <3> QED
        BY <1>t, <3>2, <3>5, <3>6, <3>7, MoveTyped DEF PC
    <2> QED
      BY <1>6, <2>1, <2>2 DEF FastHeartbeat
  <1>7. ASSUME NEW t \in Tasks, FullHeartbeat(t)
        PROVE  TypeInv'
    <2>1. CASE Answered(t)
      BY <1>5, <1>7, <2>1 DEF FullHeartbeat
    <2>2. CASE ~job[t].light /\ Returns(t, job[t].valid, job[t].valid, job[t].begun)
               /\ UNCHANGED <<now, file, mixed, history>>
      <3>1. job[t].valid \in BOOLEAN /\ job[t].begun \in 1..MaxTime /\ pc[t] # "idle"
        BY <1>7, Busy, JobFields DEF FullHeartbeat
      <3> QED
        BY <1>t, <2>2, <3>1, ReturnsTyped DEF history
    <2>3. CASE Goto(t, "fallback") /\ UNCHANGED <<job, result>>
               /\ UNCHANGED <<now, file, mixed, history>>
      <3>1. job[t] \in Job /\ Bounded(job[t]) /\ job[t].op \in Checks
        BY <1>7, Busy DEF FullHeartbeat, IsCheck
      <3>2. job' = [job EXCEPT ![t] = job[t]]
        BY <2>3, <1>t
      <3> QED
        BY <1>t, <2>3, <3>1, <3>2, MoveTyped DEF Goto, PC, history
    <2> QED
      BY <1>7, <2>1, <2>2, <2>3 DEF FullHeartbeat
  <1>8. ASSUME NEW t \in Tasks, Fallback(t)
        PROVE  TypeInv'
    <2>r. PICK rows \in Readable :
             LET valid == CacheValid(rows[job[t].app])
                 cached == valid \/ (job[t].sdk = "go" /\ job[t].valid)
             IN  Returns(t, cached, cached, IF valid THEN now ELSE job[t].begun)
      BY <1>8 DEF Fallback
    <2> DEFINE valid == CacheValid(rows[job[t].app])
               cached == valid \/ (job[t].sdk = "go" /\ job[t].valid)
               time == IF valid THEN now ELSE job[t].begun
    <2>1. pc[t] # "idle" /\ Returns(t, cached, cached, time)
          /\ UNCHANGED <<now, file, mixed, granted, denied, own>>
      BY <1>8, <2>r DEF Fallback, history
    <2>2. cached \in BOOLEAN /\ time \in 1..MaxTime
      BY <1>t, <2>1, Busy, JobFields DEF CacheValid
    <2> HIDE DEF cached, time
    <2> QED
      BY <1>t, <2>1, <2>2, ReturnsTyped
  <1>9. ASSUME NEW t \in Tasks, Crash(t)
        PROVE  TypeInv'
    BY <1>9, <1>t, FinishTyped DEF Crash, history
  <1>10. ASSUME NEW t \in Tasks, NEW x \in Sdks, NEW a \in Apps,
                OpenClient(t, x, a)
         PROVE  TypeInv'
    <2> DEFINE k == NewJob(x, a, "open", None)
    <2>1. k \in Job /\ Bounded(k) /\ k.op = "open"
      BY NewJobTyped DEF Ops, Checks
    <2>2. pc' = [pc EXCEPT ![t] = "read"] /\ job' = [job EXCEPT ![t] = k]
          /\ result' = [result EXCEPT ![t] = None]
          /\ UNCHANGED <<now, file, mixed, granted, denied, own>>
      BY <1>10 DEF OpenClient, Starts, Goto, history
    <2> HIDE DEF k
    <2> QED
      BY <1>t, <2>1, <2>2, MoveTyped DEF PC, Checks
  <1>11. ASSUME NEW t \in Tasks, NEW x \in Sdks, NEW a \in Apps,
                ClearCache(t, x, a)
         PROVE  TypeInv'
    <2>1. CASE /\ denied' = [denied EXCEPT ![a] = @ \/ file = NoRows]
               /\ UNCHANGED <<now, file, mixed, pc, job, result, granted, own>>
      <3>2. denied' \in [Apps -> BOOLEAN]
        BY <2>1, <1>t
      <3> QED
        BY <2>1, <3>2 DEF TypeInv, TypeOK, HasAnswer, IsCheck, Bounded, Reserved
    <2>2. CASE /\ Starts(t, [NewJob(x, a, "clear", None) EXCEPT
                               !.held = [file EXCEPT ![a] = Blank]], "open")
               /\ UNCHANGED history
      <3> DEFINE h == [file EXCEPT ![a] = Blank]
                 i == NewJob(x, a, "clear", None)
                 k == [i EXCEPT !.held = h]
      <3>1. i \in Job /\ Bounded(i) /\ i.op = "clear"
        BY NewJobTyped DEF Ops, Checks
      <3>2. h \in File
        BY <1>t, ClientAssumption DEF File, Row, Blank
      <3> HIDE DEF i, h
      <3>3. k \in Job /\ k.op = "clear" /\ k.tries = i.tries /\ k.sdk = i.sdk
        BY <3>1, <3>2 DEF Job
      <3>4. Bounded(k)
        BY <3>1, <3>3 DEF Bounded, Checks
      <3>5. pc' = [pc EXCEPT ![t] = "open"] /\ job' = [job EXCEPT ![t] = k]
            /\ result' = [result EXCEPT ![t] = None]
            /\ UNCHANGED <<now, file, mixed, granted, denied, own>>
        BY <2>2 DEF Starts, Goto, history, h, i
      <3> HIDE DEF k
      <3> QED
        BY <1>t, <3>3, <3>4, <3>5, MoveTyped DEF PC, Checks
    <2> QED
      BY <1>11, <2>1, <2>2 DEF ClearCache
  <1>12. ASSUME NEW t \in Tasks, NEW x \in Sdks, NEW a \in Apps,
                NEW o \in Checks, StartCheck(t, x, a, o)
         PROVE  TypeInv'
    <2> DEFINE l == IF o = "progressive" THEN "fast" ELSE "full"
    <2>r. PICK rows \in Readable : Starts(t, NewJob(x, a, o, rows[a]), l)
      BY <1>12 DEF StartCheck
    <2> DEFINE k == NewJob(x, a, o, rows[a])
    <2>1. k \in Job /\ Bounded(k) /\ k.op = o
      <3>1. rows[a] \in {file[a], None} /\ file[a] \in Row \cup {None}
        BY <1>t, RowRead DEF File
      <3>2. HeartbeatTimes(file[a]) \in Nat /\ HeartbeatTimes(file[a]) + 2 <= MaxBeats
        BY <1>12, <3>1, ClientAssumption DEF StartCheck, HeartbeatTimes, Row
      <3>3. HeartbeatTimes(rows[a]) + 2 <= MaxBeats
        BY <3>1, <3>2, ClientAssumption DEF HeartbeatTimes
      <3> QED
        BY <3>1, <3>3, NewJobTyped DEF Ops
    <2>2. pc' = [pc EXCEPT ![t] = l] /\ job' = [job EXCEPT ![t] = k]
          /\ result' = [result EXCEPT ![t] = None]
          /\ UNCHANGED <<now, file, mixed, granted, denied, own>>
      BY <1>12, <2>r DEF StartCheck, Starts, Goto, history
    <2>3. l \in {"fast", "full"} /\ l \in PC \ {"idle"}
      BY DEF PC
    <2> HIDE DEF k, l
    <2> QED
      BY <1>t, <2>1, <2>2, <2>3, MoveTyped
  <1>13. CASE UNCHANGED vars
    BY <1>13 DEF vars, TypeInv, TypeOK, HasAnswer, IsCheck, Bounded, Reserved
  <1> QED
    BY <1>1, <1>2, <1>3, <1>4, <1>6, <1>7, <1>8, <1>9, <1>10, <1>11, <1>12,
       <1>13 DEF Next

(***************************************************************************)
(* TypeOK holds in every reachable state of the SDK and the state file,    *)
(* whatever fails and whichever calls overlap.                             *)
(***************************************************************************)
THEOREM ClientTypeCorrect == Spec => []TypeOK
  <1>1. TypeInv => TypeOK
    BY DEF TypeInv
  <1> QED
    BY InitTypeInv, NextTypeInv, <1>1, PTL DEF Spec

(***************************************************************************)
(* No success on record is later than the last authorization the server    *)
(* gave: not in the file, not in the rows a call is about to write, and    *)
(* not in the snapshot a check relies on.  A check that is about to stamp  *)
(* its row was authorized in the current tick.                             *)
(***************************************************************************)
Backed(row, a) == row # None => row.at <= granted[a]

Covered(a, time) == granted[a] > 0 /\ time < granted[a] + Validity

Sound(t) ==
    job[t] # None =>
        /\ \A a \in Apps : Backed(job[t].held[a], a)
        /\ job[t].valid => Covered(job[t].app, job[t].begun)

Fresh(t) ==
    (pc[t] \in {"read", "open", "fill"} /\ job[t].op \in Checks
       /\ job[t].answer = "authorized") => granted[job[t].app] = now

Offline(t) ==
    (result[t] # None /\ result[t].cached)
        => Covered(result[t].app, result[t].time)

LeaseInv ==
    /\ \A a \in Apps : granted[a] <= now
    /\ \A a \in Apps : Backed(file[a], a)
    /\ \A t \in Tasks : Sound(t) /\ Fresh(t) /\ Offline(t)

LEMMA InitLeaseInv == Init => LeaseInv
  BY DEF Init, LeaseInv, Backed, Sound, Fresh, Offline, NoRows

\* What a step of task t has to keep, when it leaves the other tasks alone.
LEMMA StepKeepsLease ==
    ASSUME TypeInv, TypeInv', LeaseInv, NEW t \in Tasks,
           now' = now,
           \A a \in Apps : granted[a] <= granted'[a] /\ granted'[a] <= now,
           \A a \in Apps : Backed(file[a], a)',
           \A u \in Tasks \ {t} : /\ pc'[u] = pc[u] /\ job'[u] = job[u]
                                  /\ result'[u] = result[u],
           Sound(t)', Fresh(t)', Offline(t)'
    PROVE  LeaseInv'
  <1>t. /\ now \in 1..MaxTime /\ granted \in [Apps -> 0..MaxTime]
        /\ granted' \in [Apps -> 0..MaxTime]
        /\ job \in [Tasks -> Job \cup {None}]
        /\ result \in [Tasks -> Result \cup {None}]
    BY DEF TypeInv, TypeOK
  <1>1. ASSUME NEW a \in Apps, NEW row \in Row \cup {None}, Backed(row, a)
        PROVE  row # None => row.at <= granted'[a]
    BY <1>1, <1>t, ClientAssumption DEF Backed, Row
  <1>2. ASSUME NEW a \in Apps, NEW time \in 1..MaxTime, Covered(a, time)
        PROVE  granted'[a] > 0 /\ time < granted'[a] + Validity
    BY <1>2, <1>t, ClientAssumption DEF Covered
  <1>3. ASSUME NEW u \in Tasks \ {t}
        PROVE  Sound(u)'
    <2> SUFFICES ASSUME job[u] # None
                 PROVE  /\ \A a \in Apps : Backed(job[u].held[a], a)'
                        /\ job[u].valid => Covered(job[u].app, job[u].begun)'
      BY DEF Sound
    <2>1. job[u] \in Job
      BY <1>t
    <2>2. /\ \A a \in Apps : job[u].held[a] \in Row \cup {None}
          /\ job[u].app \in Apps /\ job[u].begun \in 1..MaxTime
      BY <2>1, JobFields DEF File
    <2>3. Sound(u) /\ job'[u] = job[u]
      BY DEF LeaseInv
    <2> QED
      BY <1>1, <1>2, <2>2, <2>3 DEF Sound, Backed, Covered
  <1>4. ASSUME NEW u \in Tasks \ {t}
        PROVE  Fresh(u)'
    <2>1. Fresh(u) /\ pc'[u] = pc[u] /\ job'[u] = job[u]
      BY DEF LeaseInv
    <2>2. SUFFICES ASSUME pc[u] \in {"read", "open", "fill"},
                          job[u].op \in Checks, job[u].answer = "authorized"
                   PROVE  granted'[job[u].app] = now
      BY <2>1 DEF Fresh
    <2>3. job[u].app \in Apps
      BY <2>2, Busy, JobFields
    <2> QED
      BY <1>t, <2>1, <2>2, <2>3 DEF Fresh
  <1>5. ASSUME NEW u \in Tasks \ {t}
        PROVE  Offline(u)'
    <2>1. Offline(u) /\ result'[u] = result[u]
      BY DEF LeaseInv
    <2>2. result[u] # None =>
             result[u].app \in Apps /\ result[u].time \in 1..MaxTime
      BY <1>t DEF Result
    <2> QED
      BY <1>2, <2>1, <2>2 DEF Offline, Covered
  <1> QED
    BY <1>3, <1>4, <1>5 DEF LeaseInv

\* The call of t ends with nothing in the cache's name.
LEMMA ReturnsLease ==
    ASSUME TypeInv, TypeInv', LeaseInv, NEW t \in Tasks, pc[t] # "idle",
           NEW ok, NEW cached \in BOOLEAN, NEW time \in 1..MaxTime,
           Returns(t, ok, cached, time),
           cached => Covered(job[t].app, time),
           UNCHANGED <<now, granted>>,
           \A a \in Apps : Backed(file[a], a)'
    PROVE  LeaseInv'
  <1>t. /\ now \in 1..MaxTime /\ granted \in [Apps -> 0..MaxTime]
        /\ pc \in [Tasks -> PC] /\ job \in [Tasks -> Job \cup {None}]
        /\ result \in [Tasks -> Result \cup {None}]
    BY DEF TypeInv, TypeOK
  <1>1. pc' = [pc EXCEPT ![t] = "idle"] /\ job' = [job EXCEPT ![t] = None]
        /\ result' = [result EXCEPT ![t] = [app |-> job[t].app, ok |-> ok,
                                            cached |-> cached, time |-> time]]
    BY DEF Returns, Finish, Goto
  <1>2. Sound(t)' /\ Fresh(t)'
    BY <1>1, <1>t DEF Sound, Fresh
  <1>3. Offline(t)'
    BY <1>1, <1>t DEF Offline, Covered
  <1>4. \A u \in Tasks \ {t} : /\ pc'[u] = pc[u] /\ job'[u] = job[u]
                               /\ result'[u] = result[u]
    BY <1>1, <1>t
  <1>5. \A a \in Apps : granted[a] <= granted'[a] /\ granted'[a] <= now
    BY <1>t, ClientAssumption DEF LeaseInv
  <1> QED
    BY <1>2, <1>3, <1>4, <1>5, StepKeepsLease

\* A step that leaves the grants and the results alone, and the snapshot.
LEMMA MoveLease ==
    ASSUME TypeInv, TypeInv', LeaseInv, NEW t \in Tasks,
           UNCHANGED <<now, granted, result>>,
           \A a \in Apps : Backed(file[a], a)',
           \A u \in Tasks \ {t} : pc'[u] = pc[u] /\ job'[u] = job[u],
           Sound(t)', Fresh(t)'
    PROVE  LeaseInv'
  <1>1. \A a \in Apps : granted[a] <= granted'[a] /\ granted'[a] <= now
    BY ClientAssumption DEF LeaseInv, TypeInv, TypeOK
  <1>2. Offline(t)'
    BY DEF LeaseInv, Offline, Covered
  <1> QED
    BY <1>1, <1>2, StepKeepsLease

LEMMA FileBacked ==
    ASSUME LeaseInv, UNCHANGED granted, file' \in {file, NoRows}
    PROVE  \A a \in Apps : Backed(file[a], a)'
  BY DEF LeaseInv, Backed, NoRows

\* The call of t ends without an answer.
LEMMA FinishLease ==
    ASSUME TypeInv, TypeInv', LeaseInv, NEW t \in Tasks, Finish(t),
           UNCHANGED <<now, granted, result>>,
           \A a \in Apps : Backed(file[a], a)'
    PROVE  LeaseInv'
  <1>1. /\ job'[t] = None /\ pc'[t] = "idle"
        /\ \A u \in Tasks \ {t} : pc'[u] = pc[u] /\ job'[u] = job[u]
    BY DEF TypeInv, TypeOK, Finish, Goto
  <1>2. Sound(t)' /\ Fresh(t)'
    BY <1>1 DEF Sound, Fresh
  <1> QED
    BY <1>1, <1>2, MoveLease

LEMMA AfterSaveLease ==
    ASSUME TypeInv, TypeInv', LeaseInv, NEW t \in Tasks,
           pc[t] \in {"open", "fill"}, NEW saved \in BOOLEAN,
           AfterSave(t, saved), UNCHANGED <<now, granted>>,
           \A a \in Apps : Backed(file[a], a)'
    PROVE  LeaseInv'
  <1> DEFINE j == job[t]
  <1>1. j \in Job
    BY Busy
  <1>2. CASE j.op \notin Checks
    BY <1>2, FinishLease DEF AfterSave
  <1>3. CASE j.op = "progressive" /\ j.answer = "authorized" /\ ~j.light
    <2> DEFINE k == [j EXCEPT !.light = TRUE, !.stored = saved,
                              !.next_hb = @ + 1, !.answer = None,
                              !.held = NoRows, !.tries = 0]
    <2>1. k.held = NoRows /\ k.valid = j.valid /\ k.app = j.app
          /\ k.begun = j.begun
      BY <1>1 DEF Job
    <2>2. pc' = [pc EXCEPT ![t] = "full"] /\ job' = [job EXCEPT ![t] = k]
          /\ UNCHANGED result
      BY <1>3 DEF AfterSave, Goto, Checks
    <2> HIDE DEF k
    <2>3. /\ job'[t] = k /\ pc'[t] = "full"
          /\ \A u \in Tasks \ {t} : pc'[u] = pc[u] /\ job'[u] = job[u]
      BY <2>2 DEF TypeInv, TypeOK
    <2>4. Sound(t)
      BY DEF LeaseInv
    <2>5. Sound(t)'
      BY <1>1, <2>1, <2>3, <2>4, JobFields DEF Sound, Backed, NoRows, Covered
    <2>6. Fresh(t)'
      BY <2>3 DEF Fresh
    <2> QED
      BY <2>2, <2>3, <2>5, <2>6, MoveLease
  <1>4. CASE j.op \in Checks
             /\ ~(j.op = "progressive" /\ j.answer = "authorized" /\ ~j.light)
    <2>1. Returns(t, j.answer = "authorized", FALSE, j.begun)
      BY <1>4 DEF AfterSave
    <2>2. j.begun \in 1..MaxTime
      BY <1>1, JobFields
    <2> QED
      BY <2>1, <2>2, ReturnsLease
  <1> QED
    BY <1>2, <1>3, <1>4

LEMMA TriesLease ==
    ASSUME TypeInv, TypeInv', LeaseInv, NEW t \in Tasks,
           pc[t] \in {"open", "fill"}, NEW l \in {"read", "open"}, NEW n,
           job' = [job EXCEPT ![t].tries = n], Goto(t, l),
           UNCHANGED <<now, granted, result>>,
           \A a \in Apps : Backed(file[a], a)'
    PROVE  LeaseInv'
  <1> DEFINE j == job[t]
             k == [j EXCEPT !.tries = n]
  <1>1. j \in Job /\ Sound(t) /\ Fresh(t)
    BY Busy DEF LeaseInv
  <1>2. k.held = j.held /\ k.valid = j.valid /\ k.app = j.app
        /\ k.begun = j.begun /\ k.op = j.op /\ k.answer = j.answer
    BY <1>1 DEF Job
  <1>3. job' = [job EXCEPT ![t] = k] /\ pc' = [pc EXCEPT ![t] = l]
    BY DEF Goto
  <1> HIDE DEF k
  <1>4. /\ job'[t] = k
        /\ \A u \in Tasks \ {t} : pc'[u] = pc[u] /\ job'[u] = job[u]
    BY <1>3 DEF TypeInv, TypeOK
  <1>5. Sound(t)'
    BY <1>1, <1>2, <1>4, JobFields DEF Sound, Backed, Covered
  <1>6. Fresh(t)'
    BY <1>1, <1>2, <1>4 DEF Fresh
  <1> QED
    BY <1>3, <1>4, <1>5, <1>6, MoveLease

LEMMA WriteFailsLease ==
    ASSUME TypeInv, TypeInv', LeaseInv, NEW t \in Tasks,
           pc[t] \in {"open", "fill"}, WritesAgain(t) \/ SaveFails(t),
           UNCHANGED <<now, granted>>,
           \A a \in Apps : Backed(file[a], a)'
    PROVE  LeaseInv'
  <1>1. CASE WritesAgain(t)
    BY <1>1, TriesLease DEF WritesAgain
  <1>2. CASE AfterSave(t, FALSE)
    BY <1>2, AfterSaveLease
  <1>3. ASSUME NEW n, job' = [job EXCEPT ![t].tries = n], Goto(t, "read"),
               UNCHANGED result
        PROVE  LeaseInv'
    BY <1>3, TriesLease
  <1> QED
    BY <1>1, <1>2, <1>3 DEF SaveFails

\* A call that starts with local variables j that are sound.
LEMMA StartsLease ==
    ASSUME TypeInv, TypeInv', LeaseInv, NEW t \in Tasks, NEW j, NEW l,
           Starts(t, j, l), UNCHANGED granted,
           \A a \in Apps : Backed(j.held[a], a),
           j.valid => Covered(j.app, j.begun),
           l \in {"fast", "full"} \/ j.op \notin Checks
    PROVE  LeaseInv'
  <1>1. /\ job'[t] = j /\ result'[t] = None
        /\ \A u \in Tasks \ {t} : /\ pc'[u] = pc[u] /\ job'[u] = job[u]
                                  /\ result'[u] = result[u]
        /\ now' = now /\ file' = file
    BY DEF TypeInv, TypeOK, Starts, Goto
  <1>p. pc'[t] = l
    BY DEF TypeInv, TypeOK, Starts, Goto
  <1>2. \A a \in Apps : granted[a] <= granted'[a] /\ granted'[a] <= now
    BY ClientAssumption DEF LeaseInv, TypeInv, TypeOK
  <1>3. \A a \in Apps : Backed(file[a], a)'
    BY <1>1 DEF LeaseInv, Backed
  <1>4. Sound(t)'
    BY <1>1 DEF Sound, Backed, Covered
  <1>5. Fresh(t)'
    BY <1>1, <1>p DEF Fresh
  <1>6. Offline(t)'
    BY <1>1 DEF Offline
  <1> QED
    BY <1>1, <1>2, <1>3, <1>4, <1>5, <1>6, StepKeepsLease

\* A row that is valid now is covered now.
LEMMA ValidCovered ==
    ASSUME TypeInv, LeaseInv, NEW a \in Apps, CacheValid(file[a])
    PROVE  Covered(a, now)
  <1>1. file[a] \in Row /\ now \in 1..MaxTime /\ granted[a] \in 0..MaxTime
    BY DEF TypeInv, TypeOK, File, CacheValid
  <1>2. file[a].at <= granted[a] /\ file[a].at > 0
        /\ now - file[a].at < Validity
    BY DEF LeaseInv, Backed, CacheValid, Age
  <1> QED
    BY <1>1, <1>2, ClientAssumption DEF Covered, Row

LEMMA NextLeaseInv == TypeInv /\ TypeInv' /\ LeaseInv /\ [Next]_vars => LeaseInv'
  <1> SUFFICES ASSUME TypeInv, TypeInv', LeaseInv, [Next]_vars
               PROVE  LeaseInv'
    OBVIOUS
  <1>t. /\ now \in 1..MaxTime /\ file \in File /\ pc \in [Tasks -> PC]
        /\ job \in [Tasks -> Job \cup {None}]
        /\ result \in [Tasks -> Result \cup {None}]
        /\ granted \in [Apps -> 0..MaxTime]
    BY DEF TypeInv, TypeOK
  <1>1. CASE Tick
    <2>1. now' = now + 1 /\ UNCHANGED <<file, pc, job, result, granted>>
      BY <1>1 DEF Tick, history
    <2>2. \A a \in Apps : granted[a] <= now'
      BY <2>1, <1>t DEF LeaseInv
    <2>3. \A u \in Tasks : Fresh(u)'
      BY <1>1, <2>1 DEF Tick, Fresh
    <2>4. \A u \in Tasks : Sound(u)' /\ Offline(u)'
      BY <2>1 DEF LeaseInv, Sound, Offline, Backed, Covered
    <2>5. \A a \in Apps : Backed(file[a], a)'
      BY <2>1 DEF LeaseInv, Backed
    <2> QED
      BY <2>1, <2>2, <2>3, <2>4, <2>5 DEF LeaseInv
  <1>2. ASSUME NEW t \in Tasks, ReadRows(t)
        PROVE  LeaseInv'
    <2>r. PICK rows \in Readable : job' = [job EXCEPT ![t].held = Replaced(t, rows)]
      BY <1>2 DEF ReadRows
    <2>f. rows \in File /\ \A a \in Apps : Backed(rows[a], a)
      BY RowRead DEF LeaseInv, Backed
    <2> DEFINE j == job[t]
               k == [j EXCEPT !.held = Replaced(t, rows)]
    <2>1. j \in Job /\ Sound(t) /\ Fresh(t) /\ pc[t] = "read"
      BY <1>2, Busy DEF ReadRows, LeaseInv
    <2>2. k.held = Replaced(t, rows) /\ k.valid = j.valid /\ k.app = j.app
          /\ k.begun = j.begun /\ k.op = j.op /\ k.answer = j.answer
      BY <2>1 DEF Job
    <2>3. UNCHANGED <<now, file, result, granted>>
          /\ pc' = [pc EXCEPT ![t] = "open"] /\ job' = [job EXCEPT ![t] = k]
      BY <1>2, <2>r DEF ReadRows, Goto, history
    <2> HIDE DEF k
    <2>4. /\ job'[t] = k
          /\ \A u \in Tasks \ {t} : pc'[u] = pc[u] /\ job'[u] = job[u]
      BY <2>3, <1>t
    <2>5. Backed(NewRow(t, rows[j.app]), j.app)
      <3>1. j.app \in Apps /\ Backed(rows[j.app], j.app)
            /\ granted[j.app] \in 0..MaxTime
        BY <2>1, <2>f, <1>t, JobFields
      <3>2. CASE j.op \in Checks /\ j.answer = "authorized"
        BY <2>1, <3>1, <3>2, <1>t DEF Fresh, NewRow, Backed
      <3>3. CASE ~(j.op \in Checks /\ j.answer = "authorized")
        BY <3>1, <3>3, <1>t, ClientAssumption DEF NewRow, Backed, Blank
      <3> QED
        BY <3>2, <3>3
    <2>6. \A a \in Apps : Backed(Replaced(t, rows)[a], a)
      <3>1. \A a \in Apps : Replaced(t, rows)[a] = IF a = j.app
                              THEN NewRow(t, rows[j.app]) ELSE rows[a]
        BY <2>f DEF Replaced, File
      <3> QED
        BY <3>1, <2>5, <2>f
    <2>7. Sound(t)'
      BY <2>1, <2>2, <2>3, <2>4, <2>6, JobFields DEF Sound, Backed, Covered
    <2>8. Fresh(t)'
      BY <2>1, <2>2, <2>3, <2>4 DEF Fresh
    <2>9. \A a \in Apps : Backed(file[a], a)'
      BY <2>3 DEF LeaseInv, Backed
    <2> QED
      BY <2>3, <2>4, <2>7, <2>8, <2>9, MoveLease
  <1>3. ASSUME NEW t \in Tasks, OpenFile(t)
        PROVE  LeaseInv'
    <2>1. pc[t] = "open" /\ UNCHANGED <<now, granted>>
      BY <1>3 DEF OpenFile, history
    <2>2. file' \in {file, NoRows}
      BY <1>3 DEF OpenFile
    <2>3. \A a \in Apps : Backed(file[a], a)'
      BY <2>1, <2>2, FileBacked
    <2>4. CASE Goto(t, "fill") /\ UNCHANGED <<job, result>>
      <3>1. /\ job' = job
            /\ \A u \in Tasks \ {t} : pc'[u] = pc[u]
        BY <2>4, <1>t DEF Goto
      <3>2. Sound(t)'
        BY <2>1, <3>1 DEF LeaseInv, Sound, Backed, Covered
      <3>3. Fresh(t)'
        BY <2>1, <3>1 DEF LeaseInv, Fresh
      <3> QED
        BY <2>1, <2>3, <2>4, <3>1, <3>2, <3>3, MoveLease
    <2>5. CASE WritesAgain(t) \/ SaveFails(t)
      BY <2>1, <2>3, <2>5, WriteFailsLease
    <2> QED
      BY <1>3, <2>4, <2>5 DEF OpenFile
  <1>4. ASSUME NEW t \in Tasks, FillFile(t)
        PROVE  LeaseInv'
    <2>1. pc[t] = "fill" /\ UNCHANGED <<now, granted>>
      BY <1>4 DEF FillFile, history
    <2>2. file' \in {job[t].held, NoRows}
      BY <1>4 DEF FillFile
    <2>3. job[t] # None /\ Sound(t)
      BY <2>1, Busy, JobFields DEF LeaseInv
    <2>4. \A a \in Apps : Backed(file[a], a)'
      BY <2>1, <2>2, <2>3 DEF Sound, Backed, NoRows
    <2>5. CASE AfterSave(t, TRUE)
      BY <2>1, <2>4, <2>5, AfterSaveLease
    <2>6. CASE WritesAgain(t) \/ SaveFails(t)
      BY <2>1, <2>4, <2>6, WriteFailsLease
    <2> QED
      BY <1>4, <2>5, <2>6 DEF FillFile
  <1>5. ASSUME NEW t \in Tasks, pc[t] \in {"fast", "full"}, Answered(t)
        PROVE  LeaseInv'
    <2> DEFINE j == job[t]
    <2>1. j \in Job /\ j.app \in Apps /\ Sound(t) /\ Offline(t)
      BY <1>5, Busy, JobFields DEF LeaseInv
    <2>2. PICK v \in {"authorized", "denied"} :
             /\ job' = [job EXCEPT ![t].answer = v]
             /\ granted' = [granted EXCEPT ![job[t].app] =
                              IF v = "authorized" THEN now ELSE @]
      BY <1>5 DEF Answered
    <2> DEFINE k == [j EXCEPT !.answer = v]
    <2>3. k.held = j.held /\ k.valid = j.valid /\ k.app = j.app
          /\ k.begun = j.begun /\ k.op = j.op /\ k.answer = v
      BY <2>1 DEF Job
    <2>4. job' = [job EXCEPT ![t] = k]
      BY <2>2
    <2>5. pc' = [pc EXCEPT ![t] = "read"] /\ UNCHANGED <<now, file, result>>
      BY <1>5 DEF Answered, Goto
    <2> HIDE DEF k
    <2>6. /\ job'[t] = k
          /\ \A u \in Tasks \ {t} : /\ pc'[u] = pc[u] /\ job'[u] = job[u]
                                    /\ result'[u] = result[u]
      BY <2>4, <2>5, <1>t
    <2>7. /\ \A a \in Apps : granted[a] <= granted'[a] /\ granted'[a] <= now
          /\ \A a \in Apps : granted'[a] \in 0..MaxTime
          /\ v = "authorized" => granted'[j.app] = now
      BY <1>t, <2>1, <2>2, ClientAssumption DEF LeaseInv
    <2>8. \A a \in Apps : \A row \in Row \cup {None} :
             Backed(row, a) => (row # None => row.at <= granted'[a])
      BY <1>t, <2>7, ClientAssumption DEF Backed, Row
    <2>9. \A a \in Apps : \A time \in 1..MaxTime : Covered(a, time) =>
             granted'[a] > 0 /\ time < granted'[a] + Validity
      BY <1>t, <2>7, ClientAssumption DEF Covered
    <2>10. \A a \in Apps : Backed(file[a], a)'
      BY <1>t, <2>5, <2>8 DEF LeaseInv, Backed, File
    <2>11. Sound(t)'
      <3>1. j.held \in File /\ j.begun \in 1..MaxTime
        BY <2>1, JobFields
      <3>2. \A a \in Apps : j.held[a] \in Row \cup {None}
        BY <3>1 DEF File
      <3>3. /\ \A a \in Apps : Backed(j.held[a], a)
            /\ j.valid => Covered(j.app, j.begun)
        BY <2>1, JobFields DEF Sound
      <3> QED
        BY <2>1, <2>3, <2>6, <2>8, <2>9, <3>1, <3>2, <3>3
           DEF Sound, Backed, Covered
    <2>12. Fresh(t)'
      BY <2>3, <2>5, <2>6, <2>7 DEF Fresh
    <2>13. Offline(t)'
      <3>1. result[t] # None =>
               result[t].app \in Apps /\ result[t].time \in 1..MaxTime
        BY <1>t DEF Result
      <3> QED
        BY <2>1, <2>5, <2>9, <3>1 DEF Offline, Covered
    <2> QED
      BY <2>5, <2>6, <2>7, <2>10, <2>11, <2>12, <2>13, StepKeepsLease
  <1>6. ASSUME NEW t \in Tasks, FastHeartbeat(t)
        PROVE  LeaseInv'
    <2>1. CASE Answered(t)
      BY <1>5, <1>6, <2>1 DEF FastHeartbeat
    <2>2. CASE job' = [job EXCEPT ![t].op = "check"] /\ Goto(t, "full")
               /\ UNCHANGED <<now, file, mixed, result, history>>
      <3> DEFINE j == job[t]
                 k == [j EXCEPT !.op = "check"]
      <3>1. j \in Job /\ Sound(t)
        BY <1>6, Busy DEF FastHeartbeat, LeaseInv
      <3>2. k.held = j.held /\ k.valid = j.valid /\ k.app = j.app
            /\ k.begun = j.begun
        BY <3>1 DEF Job
      <3>3. /\ job' = [job EXCEPT ![t] = k] /\ pc' = [pc EXCEPT ![t] = "full"]
            /\ UNCHANGED <<now, file, result, granted>>
        BY <2>2 DEF Goto, history
      <3> HIDE DEF k
      <3>4. /\ job'[t] = k /\ pc'[t] = "full"
            /\ \A u \in Tasks \ {t} : pc'[u] = pc[u] /\ job'[u] = job[u]
        BY <3>3, <1>t
      <3>5. Sound(t)' /\ Fresh(t)'
        BY <3>1, <3>2, <3>3, <3>4, JobFields DEF Sound, Fresh, Backed, Covered
      <3>6. \A a \in Apps : Backed(file[a], a)'
        BY <3>3 DEF LeaseInv, Backed
      <3> QED
        BY <3>3, <3>4, <3>5, <3>6, MoveLease
    <2> QED
      BY <1>6, <2>1, <2>2 DEF FastHeartbeat
  <1>7. ASSUME NEW t \in Tasks, FullHeartbeat(t)
        PROVE  LeaseInv'
    <2>1. job[t] \in Job /\ Sound(t) /\ pc[t] = "full"
      BY <1>7, Busy DEF FullHeartbeat, LeaseInv
    <2>2. CASE Answered(t)
      BY <1>5, <2>1, <2>2
    <2>3. CASE Returns(t, job[t].valid, job[t].valid, job[t].begun)
               /\ UNCHANGED <<now, file, mixed, history>>
      <3>1. \A a \in Apps : Backed(file[a], a)'
        BY <2>3 DEF LeaseInv, Backed, history
      <3>2. job[t].valid \in BOOLEAN /\ job[t].begun \in 1..MaxTime
            /\ (job[t].valid => Covered(job[t].app, job[t].begun))
        BY <2>1, JobFields DEF Sound
      <3> QED
        BY <2>1, <2>3, <3>1, <3>2, ReturnsLease DEF history
    <2>4. CASE Goto(t, "fallback") /\ UNCHANGED <<job, result>>
               /\ UNCHANGED <<now, file, mixed, history>>
      <3>1. /\ pc'[t] = "fallback"
            /\ \A u \in Tasks \ {t} : pc'[u] = pc[u] /\ job'[u] = job[u]
            /\ UNCHANGED <<now, granted, result, file, job>>
        BY <2>4, <1>t DEF Goto, history
      <3>2. Sound(t)' /\ Fresh(t)'
        BY <2>1, <3>1 DEF Sound, Fresh, Backed, Covered
      <3>3. \A a \in Apps : Backed(file[a], a)'
        BY <3>1 DEF LeaseInv, Backed
      <3> QED
        BY <3>1, <3>2, <3>3, MoveLease
    <2> QED
      BY <1>7, <2>2, <2>3, <2>4 DEF FullHeartbeat
  <1>8. ASSUME NEW t \in Tasks, Fallback(t)
        PROVE  LeaseInv'
    <2>r. PICK rows \in Readable :
             LET valid == CacheValid(rows[job[t].app])
                 cached == valid \/ (job[t].sdk = "go" /\ job[t].valid)
             IN  Returns(t, cached, cached, IF valid THEN now ELSE job[t].begun)
      BY <1>8 DEF Fallback
    <2> DEFINE valid == CacheValid(rows[job[t].app])
               cached == valid \/ (job[t].sdk = "go" /\ job[t].valid)
               time == IF valid THEN now ELSE job[t].begun
    <2>1. /\ job[t].app \in Apps /\ pc[t] # "idle" /\ Sound(t)
          /\ job[t] # None /\ job[t].begun \in 1..MaxTime
          /\ job[t].valid \in BOOLEAN
      BY <1>8, Busy, JobFields DEF Fallback, LeaseInv
    <2>2. valid => Covered(job[t].app, now)
      BY <2>1, ReadValid, ValidCovered
    <2>3. cached \in BOOLEAN /\ time \in 1..MaxTime
          /\ (cached => Covered(job[t].app, time))
      BY <1>t, <2>1, <2>2 DEF CacheValid, Sound
    <2>4. Returns(t, cached, cached, time) /\ UNCHANGED <<now, file, granted>>
      BY <1>8, <2>r DEF Fallback, history
    <2> HIDE DEF cached, time
    <2>5. \A a \in Apps : Backed(file[a], a)'
      BY <2>4 DEF LeaseInv, Backed
    <2> QED
      BY <1>t, <2>1, <2>3, <2>4, <2>5, ReturnsLease
  <1>9. ASSUME NEW t \in Tasks, Crash(t)
        PROVE  LeaseInv'
    <2>1. Finish(t) /\ UNCHANGED <<now, file, result, granted>>
      BY <1>9 DEF Crash, history
    <2>2. \A a \in Apps : Backed(file[a], a)'
      BY <2>1 DEF LeaseInv, Backed
    <2> QED
      BY <2>1, <2>2, FinishLease
  <1>n. ASSUME NEW x \in Sdks, NEW a \in Apps, NEW o \in Ops, NEW row,
               CacheValid(row) => CacheValid(file[a])
        PROVE  LET i == NewJob(x, a, o, row)
               IN  /\ i.op = o /\ i.app = a /\ i.begun = now
                   /\ \A b \in Apps : Backed(i.held[b], b)
                   /\ i.valid => Covered(i.app, i.begun)
    BY <1>n, ValidCovered DEF NewJob, NoRows, Backed
  <1>v. ~CacheValid(None)
    BY DEF CacheValid
  <1>10. ASSUME NEW t \in Tasks, NEW x \in Sdks, NEW a \in Apps,
                OpenClient(t, x, a)
         PROVE  LeaseInv'
    <2>1. Starts(t, NewJob(x, a, "open", None), "read") /\ UNCHANGED granted
      BY <1>10 DEF OpenClient, history
    <2>2. "open" \in Ops /\ "open" \notin Checks
      BY DEF Ops, Checks
    <2> QED
      BY <1>n, <1>v, <2>1, <2>2, StartsLease
  <1>11. ASSUME NEW t \in Tasks, NEW x \in Sdks, NEW a \in Apps,
                ClearCache(t, x, a)
         PROVE  LeaseInv'
    <2>1. CASE UNCHANGED <<now, file, mixed, pc, job, result, granted, own>>
      BY <2>1 DEF LeaseInv, Sound, Fresh, Offline, Backed, Covered
    <2>2. CASE /\ Starts(t, [NewJob(x, a, "clear", None) EXCEPT
                               !.held = [file EXCEPT ![a] = Blank]], "open")
               /\ UNCHANGED history
      <3> DEFINE h == [file EXCEPT ![a] = Blank]
                 i == NewJob(x, a, "clear", None)
                 k == [i EXCEPT !.held = h]
      <3>1. "clear" \in Ops /\ "clear" \notin Checks
        BY DEF Ops, Checks
      <3>2. \A b \in Apps : Backed(h[b], b)
        BY <1>t, ClientAssumption DEF File, LeaseInv, Backed, Blank
      <3>3. k.op = "clear" /\ k.app = i.app /\ k.begun = i.begun
            /\ k.valid = i.valid /\ k.held = h
        BY DEF NewJob
      <3>4. i.valid => Covered(i.app, i.begun)
        BY <1>n, <1>v, <3>1
      <3>5. Starts(t, k, "open") /\ UNCHANGED granted
        BY <2>2 DEF history
      <3> HIDE DEF k, i, h
      <3> QED
        BY <3>1, <3>2, <3>3, <3>4, <3>5, StartsLease
    <2> QED
      BY <1>11, <2>1, <2>2 DEF ClearCache
  <1>12. ASSUME NEW t \in Tasks, NEW x \in Sdks, NEW a \in Apps,
                NEW o \in Checks, StartCheck(t, x, a, o)
         PROVE  LeaseInv'
    <2> DEFINE l == IF o = "progressive" THEN "fast" ELSE "full"
    <2>1. PICK rows \in Readable :
             Starts(t, NewJob(x, a, o, rows[a]), l) /\ UNCHANGED granted
      BY <1>12 DEF StartCheck, history
    <2>v. CacheValid(rows[a]) => CacheValid(file[a])
      BY ReadValid
    <2>2. o \in Ops /\ l \in {"fast", "full"}
      BY DEF Ops
    <2> HIDE DEF l
    <2> QED
      BY <1>n, <2>1, <2>2, <2>v, StartsLease
  <1>13. CASE UNCHANGED vars
    BY <1>13 DEF vars, history, LeaseInv, Sound, Fresh, Offline, Backed, Covered
  <1> QED
    BY <1>1, <1>2, <1>3, <1>4, <1>6, <1>7, <1>8, <1>9, <1>10, <1>11, <1>12,
       <1>13 DEF Next

(***************************************************************************)
(* Every answer of a check that comes from the cache is less than          *)
(* cache_validity_days after an authorization of that product by the       *)
(* server, however many programs and threads write the state file at the   *)
(* same time and whatever fails.                                           *)
(***************************************************************************)
THEOREM OfflineIsBacked == Spec => []OfflineWithinValidity
  <1>1. LeaseInv => OfflineWithinValidity
    BY DEF LeaseInv, Offline, Covered, OfflineWithinValidity
  <1> QED
    BY InitTypeInv, NextTypeInv, InitLeaseInv, NextLeaseInv, <1>1, PTL DEF Spec

(***************************************************************************)
(* One task.  Between two steps of its call nobody else writes the file or *)
(* asks the server, so that what a call holds is what it read.             *)
(***************************************************************************)
Authorized(j) == j.op \in Checks /\ j.answer = "authorized"

\* The row says nothing of a success.
Clean(row) == row = None \/ row.at = 0

\* A row in the file is that of the last call of its product, and the row of
\* a product that was denied is clean.
KeptRows ==
    /\ mixed = {}
    /\ RowsAreOwn
    /\ \A a \in Apps : denied[a] => Clean(file[a])

\* How far a call got: how often the clock advanced, which stage it is in.
Stage(t) ==
    /\ now \in {job[t].begun, job[t].begun + 1}
    /\ pc[t] = "fast" => ~job[t].light
    /\ job[t].stored => job[t].light
    /\ job[t].op \notin Checks => job[t].answer = None

\* A call with anything in favour of its product is not about one that was
\* denied: the call that saves a denial returns.
Undenied(t) ==
    (job[t].valid \/ job[t].light \/ Authorized(job[t])) => ~denied[job[t].app]

\* The rows a call is about to write.
Written(t) ==
    pc[t] \in {"open", "fill"} =>
        /\ \A b \in Apps \ {job[t].app} :
              /\ job[t].held[b] # None => job[t].held[b] = own[b]
              /\ denied[b] => Clean(job[t].held[b])
        /\ job[t].held[job[t].app] # None
        /\ Authorized(job[t]) => job[t].held[job[t].app].at = now
        /\ (denied[job[t].app] \/ job[t].op = "clear" \/ job[t].answer = "denied")
              => Clean(job[t].held[job[t].app])

\* What the light heartbeat of a call stored is in the file.
Counted(t) ==
    (pc[t] \in {"full", "fallback"} /\ job[t].stored) =>
        /\ file[job[t].app] # None
        /\ job[t].begun <= file[job[t].app].at

InCall(t) == Stage(t) /\ Undenied(t) /\ Written(t) /\ Counted(t)

SoleInv == KeptRows /\ \A t \in Tasks : job[t] # None => InCall(t)

LEMMA InitSoleInv == Init => SoleInv
  BY DEF Init, SoleInv, KeptRows, RowsAreOwn, NoRows, Clean

\* The only task steps to label l with local variables k.
LEMMA SoleMoves ==
    ASSUME TypeInv, NEW t \in Tasks, Tasks = {t}, NEW l, NEW k,
           pc' = [pc EXCEPT ![t] = l], job' = [job EXCEPT ![t] = k],
           KeptRows', InCall(t)'
    PROVE  SoleInv'
  BY DEF SoleInv

LEMMA SoleFinishes ==
    ASSUME TypeInv, NEW t \in Tasks, Tasks = {t}, Finish(t), KeptRows'
    PROVE  SoleInv'
  <1>1. job'[t] = None
    BY DEF TypeInv, TypeOK, Finish
  <1> QED
    BY <1>1 DEF SoleInv

\* A write that did not get anything into the file.
LEMMA KeepsRows ==
    ASSUME KeptRows, UNCHANGED <<denied, own>>, mixed' \subseteq mixed,
           file' \in {file, NoRows}
    PROVE  KeptRows'
  <1>1. \A a \in Apps : file'[a] \in {file[a], None}
    BY DEF NoRows
  <1>2. mixed' = {}
    BY DEF KeptRows
  <1>3. RowsAreOwn'
    BY <1>1 DEF KeptRows, RowsAreOwn
  <1>4. \A a \in Apps : denied'[a] => Clean(file'[a])
    BY <1>1 DEF KeptRows, Clean
  <1> QED
    BY <1>2, <1>3, <1>4 DEF KeptRows

LEMMA SoleAfterSave ==
    ASSUME TypeInv, NEW t \in Tasks, Tasks = {t}, pc[t] \in {"open", "fill"},
           NEW saved \in BOOLEAN, AfterSave(t, saved), UNCHANGED now,
           Stage(t), KeptRows',
           Authorized(job[t]) => ~denied'[job[t].app],
           saved /\ Authorized(job[t]) =>
               file'[job[t].app] # None /\ job[t].begun <= file'[job[t].app].at
    PROVE  SoleInv'
  <1> DEFINE j == job[t]
  <1>1. j \in Job
    BY Busy
  <1>2. CASE j.op \notin Checks
    BY <1>2, SoleFinishes DEF AfterSave
  <1>3. CASE j.op = "progressive" /\ j.answer = "authorized" /\ ~j.light
    <2> DEFINE k == [j EXCEPT !.light = TRUE, !.stored = saved,
                              !.next_hb = @ + 1, !.answer = None,
                              !.held = NoRows, !.tries = 0]
    <2>1. k.app = j.app /\ k.begun = j.begun /\ k.op = j.op /\ k.light
          /\ k.stored = saved
      BY <1>1 DEF Job
    <2>2. pc' = [pc EXCEPT ![t] = "full"] /\ job' = [job EXCEPT ![t] = k]
      BY <1>3 DEF AfterSave, Goto, Checks
    <2> HIDE DEF k
    <2>3. pc'[t] = "full" /\ job'[t] = k
      BY <2>2 DEF TypeInv, TypeOK
    <2>4. Authorized(j)
      BY <1>3 DEF Authorized, Checks
    <2>5. Stage(t)'
      BY <1>3, <2>1, <2>3 DEF Stage, Checks
    <2>6. Undenied(t)'
      BY <2>1, <2>3, <2>4 DEF Undenied
    <2>7. Written(t)'
      BY <2>3 DEF Written
    <2>8. Counted(t)'
      BY <2>1, <2>3, <2>4 DEF Counted
    <2> QED
      BY <2>2, <2>5, <2>6, <2>7, <2>8, SoleMoves DEF InCall
  <1>4. CASE j.op \in Checks
             /\ ~(j.op = "progressive" /\ j.answer = "authorized" /\ ~j.light)
    BY <1>4, SoleFinishes DEF AfterSave, Returns
  <1> QED
    BY <1>2, <1>3, <1>4

\* A save goes on.
LEMMA SoleTries ==
    ASSUME TypeInv, SoleInv, NEW t \in Tasks, Tasks = {t},
           pc[t] \in {"open", "fill"}, NEW l \in {"read", "open"}, NEW n,
           job' = [job EXCEPT ![t].tries = n], Goto(t, l),
           UNCHANGED <<now, denied, own>>, KeptRows'
    PROVE  SoleInv'
  <1> DEFINE j == job[t]
             k == [j EXCEPT !.tries = n]
  <1>1. j \in Job /\ InCall(t)
    BY Busy, JobFields DEF SoleInv
  <1>2. k.held = j.held /\ k.valid = j.valid /\ k.app = j.app /\ k.light = j.light
        /\ k.begun = j.begun /\ k.op = j.op /\ k.answer = j.answer
        /\ k.stored = j.stored
    BY <1>1 DEF Job
  <1>3. pc' = [pc EXCEPT ![t] = l] /\ job' = [job EXCEPT ![t] = k]
    BY DEF Goto
  <1> HIDE DEF k
  <1>4. pc'[t] = l /\ job'[t] = k
    BY <1>3 DEF TypeInv, TypeOK
  <1>5. Authorized(k) = Authorized(j)
    BY <1>2 DEF Authorized
  <1>6. Stage(t)'
    BY <1>1, <1>2, <1>4 DEF InCall, Stage
  <1>7. Undenied(t)'
    BY <1>1, <1>2, <1>4, <1>5 DEF InCall, Undenied
  <1>8. Written(t)'
    BY <1>1, <1>2, <1>4, <1>5 DEF InCall, Written
  <1>9. Counted(t)'
    BY <1>4 DEF Counted
  <1> QED
    BY <1>3, <1>6, <1>7, <1>8, <1>9, SoleMoves DEF InCall

LEMMA SoleWriteFails ==
    ASSUME TypeInv, SoleInv, NEW t \in Tasks, Tasks = {t},
           pc[t] \in {"open", "fill"}, WritesAgain(t) \/ SaveFails(t),
           UNCHANGED <<now, denied, own>>, KeptRows'
    PROVE  SoleInv'
  <1>1. CASE WritesAgain(t)
    BY <1>1, SoleTries DEF WritesAgain
  <1>2. CASE AfterSave(t, FALSE)
    <2>1. Stage(t) /\ Undenied(t)
      BY Busy, JobFields DEF SoleInv, InCall
    <2> QED
      BY <1>2, <2>1, SoleAfterSave DEF Undenied
  <1>3. ASSUME NEW n, job' = [job EXCEPT ![t].tries = n], Goto(t, "read")
        PROVE  SoleInv'
    BY <1>3, SoleTries
  <1> QED
    BY <1>1, <1>2, <1>3 DEF SaveFails

\* The local variables of a call at its start.
Begins(k) ==
    /\ k.begun = now /\ k.light = FALSE /\ k.stored = FALSE /\ k.answer = None
    /\ k.valid => ~denied[k.app]

LEMMA SoleStarts ==
    ASSUME TypeInv, SoleInv, NEW t \in Tasks, Tasks = {t}, NEW k, NEW l,
           Starts(t, k, l), UNCHANGED history,
           Begins(k),
           l \in {"open", "fill"} =>
               /\ k.op = "clear"
               /\ k.app \in Apps /\ file \in File
               /\ k.held = [file EXCEPT ![k.app] = Blank]
    PROVE  SoleInv'
  <1>1. pc' = [pc EXCEPT ![t] = l] /\ job' = [job EXCEPT ![t] = k]
        /\ UNCHANGED <<now, file, mixed, denied, own>>
    BY DEF Starts, Goto, history
  <1>2. pc'[t] = l /\ job'[t] = k
    BY <1>1 DEF TypeInv, TypeOK
  <1>3. KeptRows /\ KeptRows'
    BY <1>1 DEF SoleInv, KeptRows, RowsAreOwn
  <1>4. Stage(t)'
    BY <1>1, <1>2 DEF Stage, Begins
  <1>5. ~Authorized(k) /\ k.answer = None
    BY NoneAssumption DEF Authorized, Begins
  <1>6. Undenied(t)'
    BY <1>1, <1>2, <1>5 DEF Undenied, Begins
  <1>7. Written(t)'
    <2> SUFFICES ASSUME l \in {"open", "fill"}
                 PROVE  Written(t)'
      BY <1>2 DEF Written
    <2>1. /\ k.held[k.app] = Blank
          /\ \A b \in Apps \ {k.app} : k.held[b] = file[b]
      BY DEF File
    <2>2. Blank # None /\ Clean(Blank)
      BY ClientAssumption, NoneAssumption DEF Blank, Clean, Row
    <2>3. \A b \in Apps \ {k.app} : /\ k.held[b] # None => k.held[b] = own[b]
                                    /\ denied[b] => Clean(k.held[b])
      BY <1>3, <2>1 DEF KeptRows, RowsAreOwn
    <2> QED
      BY <1>1, <1>2, <1>5, <2>1, <2>2, <2>3 DEF Written
  <1>8. Counted(t)'
    BY <1>2 DEF Counted, Begins
  <1> QED
    BY <1>1, <1>3, <1>4, <1>6, <1>7, <1>8, SoleMoves DEF InCall

\* A row that is valid is not one of a product that was denied.
LEMMA ValidUndenied ==
    ASSUME SoleInv, NEW a \in Apps, CacheValid(file[a])
    PROVE  ~denied[a]
  BY DEF SoleInv, KeptRows, Clean, CacheValid

LEMMA NextSoleInv ==
    ASSUME TypeInv, SoleInv, NEW t \in Tasks, Tasks = {t}, [Next]_vars
    PROVE  SoleInv'
  <1> DEFINE j == job[t]
  <1>t. /\ now \in 1..MaxTime /\ file \in File /\ mixed \subseteq Tasks
        /\ pc \in [Tasks -> PC] /\ job \in [Tasks -> Job \cup {None}]
        /\ denied \in [Apps -> BOOLEAN] /\ own \in File
    BY DEF TypeInv, TypeOK
  <1>k. KeptRows
    BY DEF SoleInv
  <1>j. ASSUME pc[t] # "idle"
        PROVE  j \in Job /\ j # None /\ j.app \in Apps /\ InCall(t)
               /\ HasAnswer(t) /\ IsCheck(t)
    BY <1>j, Busy, JobFields DEF SoleInv
  <1>s. ASSUME KeptRows, UNCHANGED <<file, mixed, denied, own>>
        PROVE  KeptRows'
    BY <1>s DEF KeptRows, RowsAreOwn
  <1>1. CASE Tick
    <2>1. now' = now + 1 /\ UNCHANGED <<file, mixed, pc, job, denied, own>>
      BY <1>1 DEF Tick, history
    <2>2. KeptRows'
      BY <1>k, <1>s, <2>1
    <2>3. ASSUME job[t] # None
          PROVE  InCall(t)'
      <3>1. j.begun = now /\ pc[t] \in {"fast", "full", "fallback"}
        BY <1>1, <2>3 DEF Tick, TypeInv, TypeOK
      <3>2. InCall(t)
        BY <2>3 DEF SoleInv
      <3>3. Stage(t)'
        BY <2>1, <3>1, <3>2 DEF InCall, Stage
      <3>4. Undenied(t)'
        BY <2>1, <3>2 DEF InCall, Undenied
      <3>5. Written(t)'
        BY <2>1, <3>1 DEF Written
      <3>6. Counted(t)'
        BY <2>1, <3>2 DEF InCall, Counted
      <3> QED
        BY <3>3, <3>4, <3>5, <3>6 DEF InCall
    <2> QED
      BY <2>1, <2>2, <2>3 DEF SoleInv
  <1>2. CASE ReadRows(t)
    <2>r. PICK rows \in Readable : job' = [job EXCEPT ![t].held = Replaced(t, rows)]
      BY <1>2 DEF ReadRows
    <2>f. rows \in File /\ \A b \in Apps : rows[b] \in {file[b], None}
      BY RowRead
    <2> DEFINE k == [j EXCEPT !.held = Replaced(t, rows)]
    <2>1. j \in Job /\ j.app \in Apps /\ InCall(t) /\ HasAnswer(t)
          /\ pc[t] = "read"
      BY <1>2, <1>j DEF ReadRows
    <2>2. k.held = Replaced(t, rows) /\ k.valid = j.valid /\ k.app = j.app
          /\ k.light = j.light /\ k.begun = j.begun /\ k.op = j.op
          /\ k.answer = j.answer /\ k.stored = j.stored
      BY <2>1 DEF Job
    <2>3. pc' = [pc EXCEPT ![t] = "open"] /\ job' = [job EXCEPT ![t] = k]
          /\ UNCHANGED <<now, file, mixed, denied, own>>
      BY <1>2, <2>r DEF ReadRows, Goto, history
    <2> HIDE DEF k
    <2>4. pc'[t] = "open" /\ job'[t] = k
      BY <2>3, <1>t
    <2>5. Authorized(k) = Authorized(j)
      BY <2>2 DEF Authorized
    <2>6. Stage(t)'
      BY <2>1, <2>2, <2>3, <2>4 DEF InCall, Stage
    <2>7. Undenied(t)'
      BY <2>1, <2>2, <2>3, <2>4, <2>5 DEF InCall, Undenied
    <2>8. Written(t)'
      <3>1. /\ Replaced(t, rows)[j.app] = NewRow(t, rows[j.app])
            /\ \A b \in Apps \ {j.app} : Replaced(t, rows)[b] = rows[b]
        BY <2>f, <2>1 DEF Replaced, File
      <3>2. \A b \in Apps \ {j.app} :
               /\ Replaced(t, rows)[b] # None => Replaced(t, rows)[b] = own[b]
               /\ denied[b] => Clean(Replaced(t, rows)[b])
        BY <1>k, <2>f, <3>1 DEF KeptRows, RowsAreOwn, Clean
      <3>3. NewRow(t, rows[j.app]) # None
        <4>1. rows[j.app] \in Row \cup {None}
          BY <2>f, <2>1 DEF File
        <4> QED
          BY <2>1, <4>1, NewRowTyped, NoneAssumption
      <3>4. Authorized(j) => NewRow(t, rows[j.app]).at = now
        BY DEF Authorized, NewRow
      <3>5. ASSUME denied[j.app] \/ j.op = "clear" \/ j.answer = "denied"
            PROVE  Clean(NewRow(t, rows[j.app]))
        <4>1. ~Authorized(j)
          BY <2>1, <3>5 DEF InCall, Undenied, Authorized, Checks
        <4>2. CASE j.op = "open" /\ rows[j.app] # None
          <5>1. denied[j.app]
            BY <2>1, <3>5, <4>2, NoneAssumption DEF InCall, Stage, Checks
          <5> QED
            BY <1>k, <2>f, <2>1, <4>2, <5>1 DEF KeptRows, NewRow, Checks
        <4>3. CASE ~(j.op = "open" /\ rows[j.app] # None)
          BY <4>1, <4>3 DEF NewRow, Authorized, Clean, Blank
        <4> QED
          BY <4>2, <4>3
      <3> QED
        BY <2>1, <2>2, <2>3, <2>4, <2>5, <3>1, <3>2, <3>3, <3>4, <3>5
           DEF Written
    <2>9. Counted(t)'
      BY <2>4 DEF Counted
    <2> QED
      BY <1>k, <1>s, <2>3, <2>6, <2>7, <2>8, <2>9, SoleMoves DEF InCall
  <1>3. CASE OpenFile(t)
    <2>1. pc[t] = "open" /\ UNCHANGED <<now, denied, own>>
      BY <1>3 DEF OpenFile, history
    <2>2. file' \in {file, NoRows} /\ mixed' \subseteq mixed
      BY <1>3 DEF OpenFile
    <2>3. KeptRows'
      BY <1>k, <2>1, <2>2, KeepsRows
    <2>4. CASE Goto(t, "fill") /\ UNCHANGED <<job, result>>
      <3>1. InCall(t) /\ job' = [job EXCEPT ![t] = j]
        BY <1>t, <1>j, <2>1, <2>4
      <3>2. pc' = [pc EXCEPT ![t] = "fill"] /\ pc'[t] = "fill"
        BY <1>t, <2>4 DEF Goto
      <3>3. InCall(t)'
        BY <2>1, <2>4, <3>1, <3>2
           DEF InCall, Stage, Undenied, Written, Counted, Authorized
      <3> QED
        BY <2>3, <3>1, <3>2, <3>3, SoleMoves
    <2>5. CASE WritesAgain(t) \/ SaveFails(t)
      BY <2>1, <2>3, <2>5, SoleWriteFails
    <2> QED
      BY <1>3, <2>4, <2>5 DEF OpenFile
  <1>4. CASE FillFile(t)
    <2>1. pc[t] = "fill" /\ UNCHANGED now
      BY <1>4 DEF FillFile
    <2>2. j \in Job /\ j.app \in Apps /\ InCall(t) /\ j.held \in File
      BY <1>j, <2>1, JobFields
    <2>3. CASE /\ file' = j.held
               /\ mixed' = {u \in Tasks \ {t} : pc[u] = "fill"}
               /\ AfterSave(t, TRUE)
               /\ own' = [own EXCEPT ![j.app] = j.held[j.app]]
               /\ denied' = [denied EXCEPT ![j.app] =
                     @ \/ j.op = "clear" \/ j.answer = "denied"]
      <3>1. /\ own'[j.app] = j.held[j.app]
            /\ \A b \in Apps \ {j.app} : own'[b] = own[b]
        BY <1>t, <2>2, <2>3 DEF File
      <3>2. /\ denied'[j.app] =
                 (denied[j.app] \/ j.op = "clear" \/ j.answer = "denied")
            /\ \A b \in Apps \ {j.app} : denied'[b] = denied[b]
        BY <1>t, <2>2, <2>3, Zenon
      <3>3. Written(t) /\ Undenied(t) /\ Stage(t)
        BY <2>2 DEF InCall
      <3>4. RowsAreOwn'
        BY <2>1, <2>3, <3>1, <3>3 DEF RowsAreOwn, Written
      <3>5. \A b \in Apps : denied'[b] => Clean(file'[b])
        BY <2>1, <2>3, <3>2, <3>3 DEF Written
      <3>6. mixed' = {}
        BY <2>3
      <3>7. KeptRows'
        BY <3>4, <3>5, <3>6 DEF KeptRows
      <3>8. Authorized(j) => ~denied'[j.app]
        BY <3>2, <3>3 DEF Undenied, Authorized, Checks
      <3>9. Authorized(j) => file'[j.app] # None /\ j.begun <= file'[j.app].at
        <4>1. j.begun \in 1..MaxTime
          BY <2>2, JobFields
        <4> QED
          BY <1>t, <2>1, <2>3, <3>3, <4>1 DEF Written, Stage
      <3> QED
        BY <2>1, <2>3, <3>3, <3>7, <3>8, <3>9, SoleAfterSave
    <2>4. CASE /\ file' = NoRows /\ mixed' = mixed \ {t} /\ UNCHANGED history
               /\ WritesAgain(t) \/ SaveFails(t)
      <3>1. KeptRows' /\ UNCHANGED <<denied, own>>
        BY <1>k, <2>4, KeepsRows DEF history
      <3> QED
        BY <2>1, <2>4, <3>1, SoleWriteFails
    <2>5. t \notin mixed
      BY <1>k DEF KeptRows
    <2> QED
      BY <1>4, <2>3, <2>4, <2>5 DEF FillFile
  <1>5. ASSUME pc[t] \in {"fast", "full"}, Answered(t)
        PROVE  SoleInv'
    <2>1. j \in Job /\ j.app \in Apps /\ InCall(t) /\ IsCheck(t)
      BY <1>j, <1>5
    <2>2. PICK v \in {"authorized", "denied"} :
             /\ job' = [job EXCEPT ![t].answer = v]
             /\ denied' = [denied EXCEPT ![job[t].app] = @ /\ v = "denied"]
      BY <1>5 DEF Answered
    <2> DEFINE k == [j EXCEPT !.answer = v]
    <2>3. k.valid = j.valid /\ k.app = j.app /\ k.light = j.light
          /\ k.begun = j.begun /\ k.op = j.op /\ k.answer = v
          /\ k.stored = j.stored
      BY <2>1 DEF Job
    <2>4. pc' = [pc EXCEPT ![t] = "read"] /\ job' = [job EXCEPT ![t] = k]
          /\ UNCHANGED <<now, file, mixed, own>>
      BY <1>5, <2>2 DEF Answered, Goto
    <2> HIDE DEF k
    <2>5. pc'[t] = "read" /\ job'[t] = k
      BY <2>4, <1>t
    <2>6. /\ denied'[j.app] = (denied[j.app] /\ v = "denied")
          /\ \A b \in Apps \ {j.app} : denied'[b] = denied[b]
      BY <1>t, <2>1, <2>2, Zenon
    <2>7. KeptRows'
      BY <1>k, <2>4, <2>6 DEF KeptRows, RowsAreOwn
    <2>8. j.op \in Checks
      BY <1>5, <2>1 DEF IsCheck
    <2>9. Stage(t)'
      BY <2>1, <2>3, <2>4, <2>5, <2>8 DEF InCall, Stage
    <2>10. Undenied(t)'
      BY <2>1, <2>3, <2>5, <2>6 DEF InCall, Undenied, Authorized
    <2>11. Written(t)' /\ Counted(t)'
      BY <2>5 DEF Written, Counted
    <2> QED
      BY <2>4, <2>7, <2>9, <2>10, <2>11, SoleMoves DEF InCall
  <1>6. CASE FastHeartbeat(t)
    <2>1. CASE Answered(t)
      BY <1>5, <1>6, <2>1 DEF FastHeartbeat
    <2>2. CASE job' = [job EXCEPT ![t].op = "check"] /\ Goto(t, "full")
               /\ UNCHANGED <<now, file, mixed, result, history>>
      <3> DEFINE k == [j EXCEPT !.op = "check"]
      <3>1. j \in Job /\ InCall(t) /\ IsCheck(t) /\ pc[t] = "fast"
        BY <1>6, <1>j DEF FastHeartbeat
      <3>2. k.valid = j.valid /\ k.app = j.app /\ k.light = j.light
            /\ k.begun = j.begun /\ k.op = "check" /\ k.answer = j.answer
            /\ k.stored = j.stored
        BY <3>1 DEF Job
      <3>3. pc' = [pc EXCEPT ![t] = "full"] /\ job' = [job EXCEPT ![t] = k]
            /\ UNCHANGED <<now, file, mixed, denied, own>>
        BY <2>2 DEF Goto, history
      <3> HIDE DEF k
      <3>4. pc'[t] = "full" /\ job'[t] = k
        BY <3>3, <1>t
      <3>5. KeptRows'
        BY <1>k, <1>s, <3>3
      <3>6. Authorized(k) => Authorized(j)
        BY <3>1, <3>2 DEF Authorized, IsCheck
      <3>7. Stage(t)'
        BY <3>1, <3>2, <3>3, <3>4 DEF InCall, Stage, Checks
      <3>8. Undenied(t)'
        BY <3>1, <3>2, <3>3, <3>4, <3>6 DEF InCall, Undenied
      <3>9. Written(t)' /\ Counted(t)'
        BY <3>1, <3>2, <3>4 DEF InCall, Stage, Written, Counted
      <3> QED
        BY <3>3, <3>5, <3>7, <3>8, <3>9, SoleMoves DEF InCall
    <2> QED
      BY <1>6, <2>1, <2>2 DEF FastHeartbeat
  <1>7. CASE FullHeartbeat(t)
    <2>1. pc[t] = "full" /\ InCall(t)
      BY <1>7, <1>j DEF FullHeartbeat
    <2>2. CASE Answered(t)
      BY <1>5, <2>1, <2>2
    <2>3. CASE Returns(t, job[t].valid, job[t].valid, job[t].begun)
               /\ UNCHANGED <<now, file, mixed, history>>
      BY <1>k, <1>s, <2>3, SoleFinishes DEF Returns, history
    <2>4. CASE Goto(t, "fallback") /\ UNCHANGED <<job, result>>
               /\ UNCHANGED <<now, file, mixed, history>>
      <3>1. KeptRows' /\ job' = [job EXCEPT ![t] = j]
            /\ UNCHANGED <<now, file, denied, own>>
        BY <1>t, <1>k, <1>s, <2>4 DEF history
      <3>2. pc' = [pc EXCEPT ![t] = "fallback"] /\ pc'[t] = "fallback"
        BY <1>t, <2>4 DEF Goto
      <3>3. InCall(t)'
        BY <2>1, <2>4, <3>1, <3>2
           DEF InCall, Stage, Undenied, Written, Counted, Authorized
      <3> QED
        BY <3>1, <3>2, <3>3, SoleMoves
    <2> QED
      BY <1>7, <2>2, <2>3, <2>4 DEF FullHeartbeat
  <1>8. CASE Fallback(t)
    <2>1. Finish(t) /\ UNCHANGED <<now, file, mixed, denied, own>>
      BY <1>8 DEF Fallback, Returns, history
    <2> QED
      BY <1>k, <1>s, <2>1, SoleFinishes
  <1>9. CASE Crash(t)
    <2>1. Finish(t) /\ UNCHANGED <<denied, own>> /\ mixed' \subseteq mixed
          /\ file' \in {file, NoRows}
      BY <1>9 DEF Crash, history
    <2>2. KeptRows'
      BY <1>k, <2>1, KeepsRows
    <2> QED
      BY <2>1, <2>2, SoleFinishes
  <1>n. ASSUME NEW x \in Sdks, NEW a \in Apps, NEW o \in Ops, NEW row,
               CacheValid(row) => CacheValid(file[a])
        PROVE  Begins(NewJob(x, a, o, row))
    BY <1>n, ValidUndenied DEF Begins, NewJob
  <1>v. ~CacheValid(None)
    BY DEF CacheValid
  <1>10. ASSUME NEW x \in Sdks, NEW a \in Apps, OpenClient(t, x, a)
         PROVE  SoleInv'
    <2>1. Starts(t, NewJob(x, a, "open", None), "read") /\ UNCHANGED history
      BY <1>10 DEF OpenClient
    <2>2. Begins(NewJob(x, a, "open", None))
      BY <1>n, <1>v DEF Ops
    <2> QED
      BY <2>1, <2>2, SoleStarts
  <1>11. ASSUME NEW x \in Sdks, NEW a \in Apps, ClearCache(t, x, a)
         PROVE  SoleInv'
    <2>1. CASE /\ denied' = [denied EXCEPT ![a] = @ \/ file = NoRows]
               /\ UNCHANGED <<now, file, mixed, pc, job, result, granted, own>>
      <3>1. job[t] = None
        BY <1>11 DEF ClearCache, TypeInv, TypeOK
      <3>2. KeptRows'
        <4>1. ASSUME NEW b \in Apps, denied'[b] PROVE denied[b] \/ file = NoRows
          <5>1. CASE b = a
            BY <1>t, <2>1, <4>1, <5>1
          <5>2. CASE b # a
            BY <1>t, <2>1, <4>1, <5>2
          <5> QED
            BY <5>1, <5>2
        <4>2. \A b \in Apps : denied'[b] => Clean(file[b])
          BY <1>k, <4>1 DEF KeptRows, Clean, NoRows
        <4> QED
          BY <1>k, <2>1, <4>2 DEF KeptRows, RowsAreOwn, Clean
      <3> QED
        BY <2>1, <3>1, <3>2 DEF SoleInv
    <2>2. CASE /\ Starts(t, [NewJob(x, a, "clear", None) EXCEPT
                               !.held = [file EXCEPT ![a] = Blank]], "open")
               /\ UNCHANGED history
      <3> DEFINE h == [file EXCEPT ![a] = Blank]
                 i == NewJob(x, a, "clear", None)
                 k == [i EXCEPT !.held = h]
      <3>1. "clear" \in Ops
        BY DEF Ops
      <3>2. k.op = i.op /\ k.app = i.app /\ k.begun = i.begun /\ k.light = i.light
            /\ k.valid = i.valid /\ k.held = h /\ k.answer = i.answer
            /\ k.stored = i.stored
        BY DEF NewJob
      <3>3. Starts(t, k, "open")
        BY <2>2
      <3>4. i.op = "clear" /\ i.app = a
        BY DEF NewJob
      <3>5. Begins(k)
        <4>1. Begins(i)
          BY <1>n, <1>v, <3>1
        <4> HIDE DEF k, i
        <4> QED
          BY <3>2, <4>1 DEF Begins
      <3>6. k.op = "clear" /\ k.app \in Apps /\ k.held = [file EXCEPT ![k.app] = Blank]
        BY <3>2, <3>4
      <3> HIDE DEF k, i, h
      <3> QED
        BY <1>t, <2>2, <3>3, <3>5, <3>6, SoleStarts
    <2> QED
      BY <1>11, <2>1, <2>2 DEF ClearCache
  <1>12. ASSUME NEW x \in Sdks, NEW a \in Apps, NEW o \in Checks,
                StartCheck(t, x, a, o)
         PROVE  SoleInv'
    <2> DEFINE l == IF o = "progressive" THEN "fast" ELSE "full"
    <2>1. PICK rows \in Readable :
             Starts(t, NewJob(x, a, o, rows[a]), l) /\ UNCHANGED history
      BY <1>12 DEF StartCheck
    <2>v. CacheValid(rows[a]) => CacheValid(file[a])
      BY ReadValid
    <2>2. Begins(NewJob(x, a, o, rows[a])) /\ l \in {"fast", "full"}
      BY <1>n, <2>v DEF Ops
    <2> HIDE DEF l
    <2> QED
      BY <2>1, <2>2, SoleStarts
  <1>13. CASE UNCHANGED vars
    BY <1>13 DEF vars, history, SoleInv, KeptRows, RowsAreOwn, InCall, Stage,
                 Undenied, Written, Counted, Authorized
  <1> QED
    BY <1>1, <1>2, <1>3, <1>4, <1>6, <1>7, <1>8, <1>9, <1>10, <1>11, <1>12,
       <1>13 DEF Next

(***************************************************************************)
(* As long as one call is made at a time, the row of a product that is in  *)
(* the state file is the one the last call of that product wrote: saving   *)
(* one product never brings back an older row of another.                  *)
(***************************************************************************)
THEOREM RowsKeptApart ==
    ASSUME NEW t \in Tasks, Tasks = {t}
    PROVE  Spec => []RowsAreOwn
  <1>1. TypeInv /\ SoleInv /\ [Next]_vars => SoleInv'
    BY NextSoleInv
  <1>2. SoleInv => RowsAreOwn
    BY DEF SoleInv, KeptRows
  <1> QED
    BY InitTypeInv, NextTypeInv, InitSoleInv, <1>1, <1>2, PTL DEF Spec

(***************************************************************************)
(* As long as one call is made at a time, and the validity is longer than  *)
(* the tick by which the clock may advance during a call, a light answer   *)
(* that was stored is found when the full heartbeat fails.                 *)
(***************************************************************************)
THEOREM LightAnswersCount ==
    ASSUME NEW t \in Tasks, Tasks = {t}, Validity > 1
    PROVE  Spec => []LightAnswerCounts
  <1>1. TypeInv /\ SoleInv /\ [Next]_vars => SoleInv'
    BY NextSoleInv
  <1>2. TypeInv /\ SoleInv => LightAnswerCounts
    <2> SUFFICES ASSUME TypeInv, SoleInv, pc[t] = "fallback", job[t].stored
                 PROVE  CacheValid(file[job[t].app])
      BY DEF LightAnswerCounts
    <2> DEFINE row == file[job[t].app]
    <2>1. /\ job[t].begun \in 1..MaxTime /\ job[t].app \in Apps
          /\ Stage(t) /\ Counted(t)
      BY Busy, JobFields DEF SoleInv, InCall
    <2>2. row # None /\ job[t].begun <= row.at
      BY <2>1 DEF Counted
    <2>3. row \in Row /\ now \in 1..MaxTime
      BY <2>1, <2>2 DEF TypeInv, TypeOK, File
    <2>4. row.at \in 0..MaxTime /\ now <= job[t].begun + 1
      BY <2>1, <2>3, ClientAssumption DEF Row, Stage
    <2> HIDE DEF row
    <2>5. row.at > 0 /\ now - row.at < Validity
      BY <2>1, <2>2, <2>3, <2>4, ClientAssumption
    <2> QED
      BY <2>2, <2>5 DEF CacheValid, Age, row
  <1> QED
    BY InitTypeInv, NextTypeInv, InitSoleInv, <1>1, <1>2, PTL DEF Spec

\* Who puts an answer from the cache into the results: a full heartbeat that
\* failed, from the snapshot of its call or from the row in the file.
LEMMA CachedAnswers ==
    ASSUME TypeInv, NEW t \in Tasks, Tasks = {t}, [Next]_vars,
           result'[t] # result[t], result'[t] # None, result'[t].cached
    PROVE  /\ pc[t] # "idle" /\ result'[t].app = job[t].app
           /\ job[t].valid \/ CacheValid(file[job[t].app])
  <1>t. result \in [Tasks -> Result \cup {None}]
    BY DEF TypeInv, TypeOK
  <1>r. ASSUME NEW ok, NEW cached, NEW time, Returns(t, ok, cached, time)
        PROVE  result'[t].app = job[t].app /\ result'[t].cached = cached
    BY <1>r, <1>t DEF Returns
  <1>s. ASSUME NEW k, NEW l, Starts(t, k, l)
        PROVE  FALSE
    BY <1>s, <1>t DEF Starts
  <1>a. ASSUME NEW saved, AfterSave(t, saved)
        PROVE  FALSE
    BY <1>a, <1>r DEF AfterSave
  <1>w. ~WritesAgain(t)
    BY DEF WritesAgain
  <1>f. ~SaveFails(t)
    BY <1>a DEF SaveFails
  <1>1. UNCHANGED result => FALSE
    OBVIOUS
  <1>2. ~Tick /\ ~ReadRows(t) /\ ~Crash(t) /\ ~FastHeartbeat(t)
        /\ ~UNCHANGED vars
    BY <1>1 DEF Tick, ReadRows, Crash, FastHeartbeat, Answered, vars
  <1>3. ~OpenFile(t)
    BY <1>1, <1>w, <1>f DEF OpenFile
  <1>4. ~FillFile(t)
    BY <1>a, <1>w, <1>f DEF FillFile
  <1>5. ASSUME NEW x \in Sdks, NEW a \in Apps
        PROVE  /\ ~OpenClient(t, x, a) /\ ~ClearCache(t, x, a)
               /\ \A o \in Checks : ~StartCheck(t, x, a, o)
    BY <1>1, <1>s DEF OpenClient, ClearCache, StartCheck
  <1>6. CASE FullHeartbeat(t)
    <2>1. pc[t] = "full" /\ Returns(t, job[t].valid, job[t].valid, job[t].begun)
      BY <1>1, <1>6 DEF FullHeartbeat, Answered
    <2> QED
      BY <2>1, <1>r
  <1>7. CASE Fallback(t)
    <2>r. PICK rows \in Readable :
             LET valid == CacheValid(rows[job[t].app])
                 cached == valid \/ (job[t].sdk = "go" /\ job[t].valid)
             IN  Returns(t, cached, cached, IF valid THEN now ELSE job[t].begun)
      BY <1>7 DEF Fallback
    <2> DEFINE valid == CacheValid(rows[job[t].app])
               cached == valid \/ (job[t].sdk = "go" /\ job[t].valid)
               time == IF valid THEN now ELSE job[t].begun
    <2>1. pc[t] = "fallback" /\ Returns(t, cached, cached, time)
      BY <1>7, <2>r DEF Fallback
    <2>2. valid => CacheValid(file[job[t].app])
      BY <2>1, ReadValid, Busy, JobFields
    <2> HIDE DEF cached, time, valid
    <2>3. result'[t].app = job[t].app /\ result'[t].cached = cached
      BY <2>1, <1>r
    <2> QED
      BY <2>1, <2>2, <2>3 DEF cached
  <1> QED
    BY <1>2, <1>3, <1>4, <1>5, <1>6, <1>7 DEF Next

(***************************************************************************)
(* As long as one call is made at a time, no check answers from the cache  *)
(* after a saved denial or clearing until the server authorizes the        *)
(* product again, whichever writes fail and whenever the program ends.     *)
(***************************************************************************)
THEOREM DenialsStick ==
    ASSUME NEW u \in Tasks, Tasks = {u}
    PROVE  Spec => DenialSticks
  <1> DEFINE A == \A t \in Tasks :
                    (result'[t] # result[t] /\ result'[t] # None
                       /\ result'[t].cached) => ~denied[result'[t].app]
  <1>1. TypeInv /\ SoleInv /\ [Next]_vars => SoleInv'
    BY NextSoleInv
  <1>2. TypeInv /\ SoleInv /\ [Next]_vars => [A]_vars
    <2> SUFFICES ASSUME TypeInv, SoleInv, [Next]_vars, result'[u] # result[u],
                        result'[u] # None, result'[u].cached
                 PROVE  ~denied[result'[u].app]
      OBVIOUS
    <2>1. /\ pc[u] # "idle" /\ result'[u].app = job[u].app
          /\ job[u].valid \/ CacheValid(file[job[u].app])
      BY CachedAnswers
    <2>2. job[u].app \in Apps /\ Undenied(u)
      BY <2>1, Busy, JobFields DEF SoleInv, InCall
    <2> QED
      BY <2>1, <2>2, ValidUndenied DEF Undenied
  <1>3. Spec => [][A]_vars
    BY InitTypeInv, NextTypeInv, InitSoleInv, <1>1, <1>2, PTL DEF Spec
  <1> QED
    BY <1>3 DEF DenialSticks
=============================================================================
