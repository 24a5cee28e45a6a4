----------------------------- MODULE AuthClient -----------------------------
(***************************************************************************)
(* The client SDKs in Python, Go and TypeScript: their AuthClient and      *)
(* AuthCache over the state file of a server, which all products of a      *)
(* machine share, whatever they are written in.                            *)
(*                                                                         *)
(* A task is a program, or a thread of one, that makes one call of an SDK  *)
(* after another.  The calls of different tasks interleave at every read   *)
(* and write of the file and at every answer of the server: nothing locks  *)
(* the file.  (A save of a TypeScript program is one step for the other    *)
(* calls of that program, not for other programs.)  A write truncates the  *)
(* file before it fills it, may fail before and after that, and dies with  *)
(* its program.                                                            *)
(*                                                                         *)
(* A file that is missing, empty, torn or undecryptable is read as one     *)
(* without rows, and so is a good one when the read fails.  The server's   *)
(* answers are arbitrary; an answer that comes after the deadline of the   *)
(* call is dropped, as if the heartbeat failed.                            *)
(***************************************************************************)
EXTENDS Naturals

CONSTANTS
    Apps,       \* products (software_name)
    Tasks,      \* programs and threads using the SDK
    Validity,   \* cache_validity_days, in ticks of the clock
    MaxTime,    \* bound: the last tick
    MaxBeats,   \* bound: the largest heartbeat_times
    None        \* no value

ASSUME ClientAssumption ==
    /\ Validity \in Nat \ {0}
    /\ MaxTime \in Nat \ {0}
    /\ MaxBeats \in Nat

\* The row of a product: last_success_at and heartbeat_times, 0 when absent.
\* Every writer sets device_id, and a row without one does not exist.  What
\* succeeded was counted, and only that: the branch that discards a success
\* without a count (_snapshot_auth_row) does not run and is left out.
Row == {r \in [at : 0..MaxTime, beats : 0..MaxBeats] : r.at = 0 <=> r.beats = 0}
File == [Apps -> Row \cup {None}]

VARIABLES
    now,        \* time.time(), in ticks
    file,       \* the rows a reader of the state file finds
    mixed,      \* the tasks in whose open file another one wrote
    pc,         \* pc[t]: the next step of the call of task t
    job,        \* job[t]: the local variables of that call
    result,     \* result[t]: what its last check returned
    granted,    \* history: granted[a]: when the server last authorized a
    denied,     \* history: denied[a]: a denial or a clearing of a was saved
                \* and no authorization was received since
    own         \* history: own[a]: the row that a call of a last wrote

vars == <<now, file, mixed, pc, job, result, granted, denied, own>>
history == <<granted, denied, own>>

Sdks == {"python", "go", "typescript"}
Checks == {"check", "progressive"}
Ops == Checks \cup {"open", "clear"}
PC == {"idle", "fast", "full", "read", "open", "fill", "fallback"}

\* valid: the cached row was valid when the call began; next_hb; the answer
\* of the last heartbeat; light: the light heartbeat was authorized; stored:
\* and saved; held: the rows about to be written; tries: failed writes, where
\* a save that made no second one counts two.
Job == [sdk : Sdks, op : Ops, app : Apps, begun : 1..MaxTime, valid : BOOLEAN,
        next_hb : 1..MaxBeats + 1, answer : {None, "authorized", "denied"},
        light : BOOLEAN, stored : BOOLEAN, held : File, tries : 0..6]
Result == [app : Apps, ok : BOOLEAN, cached : BOOLEAN, time : 1..MaxTime]

ASSUME NoneAssumption ==
    None \notin Row \cup Job \cup Result \cup {"authorized", "denied"}

NoRows == [a \in Apps |-> None]

TypeOK ==
    /\ now \in 1..MaxTime
    /\ file \in File
    /\ mixed \subseteq Tasks
    /\ pc \in [Tasks -> PC]
    /\ job \in [Tasks -> Job \cup {None}]
    /\ \A t \in Tasks : (pc[t] = "idle") = (job[t] = None)
    /\ result \in [Tasks -> Result \cup {None}]
    /\ granted \in [Apps -> 0..MaxTime]
    /\ denied \in [Apps -> BOOLEAN]
    /\ own \in File

Init ==
    /\ now = 1
    /\ file = NoRows
    /\ mixed = {}
    /\ pc = [t \in Tasks |-> "idle"]
    /\ job = [t \in Tasks |-> None]
    /\ result = [t \in Tasks |-> None]
    /\ granted = [a \in Apps |-> 0]
    /\ denied = [a \in Apps |-> FALSE]
    /\ own = NoRows

-----------------------------------------------------------------------------
(* Helpers *)

Goto(t, l) == pc' = [pc EXCEPT ![t] = l]

\* The call of t is over.
Finish(t) == Goto(t, "idle") /\ job' = [job EXCEPT ![t] = None]

Returns(t, ok, cached, time) ==
    /\ Finish(t)
    /\ result' = [result EXCEPT ![t] = [app |-> job[t].app, ok |-> ok,
                                        cached |-> cached, time |-> time]]

\* read_state_dict: the rows, or none when the file cannot be read.
Readable == {file, NoRows}

\* get_cache and _is_cache_valid_dict.
Age(row) == now - row.at
CacheValid_Mutant(row) == row # None /\ row.at > 0 /\ Age(row) <= Validity
CacheValid(row) == row # None /\ row.at > 0 /\ Age(row) < Validity

HeartbeatTimes(row) == IF row = None THEN 0 ELSE row.beats

\* A call lasts seconds, a tick is a good part of the validity: a call sees
\* the clock advance once at most, and not while it is saving.
Tick ==
    /\ now < MaxTime
    /\ \A t \in Tasks : pc[t] # "idle" =>
          /\ job[t].begun = now
          /\ pc[t] \in {"fast", "full", "fallback"}
    /\ now' = now + 1
    /\ UNCHANGED <<file, mixed, pc, job, result, history>>

\* The program of t ends in the middle of a call.
Crash(t) ==
    /\ pc[t] # "idle"
    /\ Finish(t)
    /\ mixed' = mixed \ {t}
    /\ UNCHANGED <<now, file, result, history>>

-----------------------------------------------------------------------------
(* Saving: read the file, replace one row, write the file *)

\* A row with a device_id only.
Blank == [at |-> 0, beats |-> 0]

\* The row the call of t leaves in the file in place of row.
NewRow_KeepsStamp(t, row) ==
    LET old == IF row = None THEN Blank ELSE row IN
    IF job[t].op = "open" THEN old
    ELSE IF job[t].op \in Checks /\ job[t].answer = "authorized"
    THEN [at |-> IF old.at = 0 THEN now ELSE old.at, beats |-> job[t].next_hb]
    ELSE [old EXCEPT !.beats = 0]
NewRow_KeepsCount(t, row) ==
    IF job[t].op \in Checks /\ job[t].answer = "authorized"
    THEN [at |-> now, beats |-> job[t].next_hb]
    ELSE IF row = None THEN Blank
    ELSE IF job[t].op = "open" THEN row ELSE [row EXCEPT !.at = 0]
NewRow_KeepsDenied(t, row) ==
    IF job[t].op \in Checks /\ job[t].answer = "authorized"
    THEN [at |-> now, beats |-> job[t].next_hb]
    ELSE IF row = None \/ job[t].op = "clear" THEN Blank ELSE row
NewRow(t, row) ==
    IF job[t].op \in Checks /\ job[t].answer = "authorized"
    THEN [at |-> now, beats |-> job[t].next_hb]
    ELSE IF job[t].op = "open" /\ row # None THEN row ELSE Blank

\* The rows of the other products are written as they were read.
Replaced_Mutant(t, rows) == [a \in Apps |-> NewRow(t, rows[job[t].app])]
Replaced(t, rows) == [rows EXCEPT ![job[t].app] = NewRow(t, @)]

ReadRows(t) ==
    /\ pc[t] = "read"
    /\ \E rows \in Readable : job' = [job EXCEPT ![t].held = Replaced(t, rows)]
    /\ Goto(t, "open")
    /\ UNCHANGED <<now, file, mixed, result, history>>

\* Saves per answer (_write_check_cache_retries, persistHeartbeatResult); the
\* TypeScript SDK tries once (persistOnlineResult).
Saves(s, o) == IF o \in Checks /\ s # "typescript" THEN 3 ELSE 1

\* The second write of a save: always in Python's _write_bundle_with_retry,
\* never in its persist_device_id; elsewhere on Windows only.
MayWriteAgain(j) == j.tries % 2 = 0 /\ ~(j.sdk = "python" /\ j.op = "open")
MayGiveUp(j) == j.tries % 2 = 1 \/ j.sdk # "python" \/ j.op = "open"

\* What follows a save, which was successful or given up.
AfterSave(t, saved) ==
    LET j == job[t] IN
    IF j.op \notin Checks
    THEN Finish(t) /\ UNCHANGED result
    ELSE IF j.op = "progressive" /\ j.answer = "authorized" /\ ~j.light
    THEN /\ Goto(t, "full")
         /\ job' = [job EXCEPT ![t] = [j EXCEPT !.light = TRUE, !.stored = saved,
                                         !.next_hb = @ + 1, !.answer = None,
                                         !.held = NoRows, !.tries = 0]]
         /\ UNCHANGED result
    ELSE Returns(t, j.answer = "authorized", FALSE, j.begun)

WritesAgain(t) ==
    /\ MayWriteAgain(job[t])
    /\ job' = [job EXCEPT ![t].tries = @ + 1]
    /\ Goto(t, "open")
    /\ UNCHANGED result

SaveFails(t) ==
    LET j == job[t]
        n == j.tries + 2 - (j.tries % 2)
    IN  /\ MayGiveUp(j)
        /\ IF n = 2 * Saves(j.sdk, j.op)
           THEN AfterSave(t, FALSE)
           ELSE /\ job' = [job EXCEPT ![t].tries = n]
                /\ Goto(t, "read")
                /\ UNCHANGED result

\* open(path, "wb") truncates the file, or fails and leaves it alone; before
\* a second write it may be removed (on Windows).
OpenFile(t) ==
    /\ pc[t] = "open"
    /\ \/ /\ file' = NoRows
          /\ mixed' = {}
          /\ Goto(t, "fill")
          /\ UNCHANGED <<job, result>>
       \/ /\ WritesAgain(t)
          /\ file' \in {file, NoRows}
          /\ UNCHANGED mixed
       \/ /\ SaveFails(t)
          /\ UNCHANGED <<file, mixed>>
    /\ UNCHANGED <<now, history>>

\* The contents get into the file, unless the disk is full; over those of
\* another writer they may leave a mixture that nobody can decrypt.
FillFile(t) ==
    /\ pc[t] = "fill"
    /\ \/ /\ \/ file' = job[t].held
             \/ t \in mixed /\ file' = NoRows
          /\ mixed' = {u \in Tasks \ {t} : pc[u] = "fill"}
          /\ AfterSave(t, TRUE)
          /\ own' = [own EXCEPT ![job[t].app] = job[t].held[job[t].app]]
          /\ denied' = [denied EXCEPT ![job[t].app] =
                          @ \/ job[t].op = "clear" \/ job[t].answer = "denied"]
          /\ UNCHANGED granted
       \/ /\ file' = NoRows
          /\ mixed' = mixed \ {t}
          /\ WritesAgain(t) \/ SaveFails(t)
          /\ UNCHANGED history
    /\ UNCHANGED now

-----------------------------------------------------------------------------
(* The calls *)

\* row: of the product, as it was read; None where it is not.
NewJob(s, a, o, row) ==
    [sdk |-> s, op |-> o, app |-> a, begun |-> now, valid |-> CacheValid(row),
     next_hb |-> HeartbeatTimes(row) + 1, answer |-> None,
     light |-> FALSE, stored |-> FALSE, held |-> NoRows, tries |-> 0]

Starts(t, j, l) ==
    /\ job' = [job EXCEPT ![t] = j]
    /\ Goto(t, l)
    /\ result' = [result EXCEPT ![t] = None]
    /\ UNCHANGED <<now, file, mixed>>

\* AuthClient(...) with a device_id of the caller's, or without a persisted
\* one, saves it.  (In Go there is no client when that fails.)
OpenClient(t, s, a) ==
    /\ pc[t] = "idle"
    /\ Starts(t, NewJob(s, a, "open", None), "read")
    /\ UNCHANGED history

\* clear_cache; without rows there is nothing to write.  (A read that fails
\* finds none either: clear_cache says it cleared what is still there.)
ClearCache(t, s, a) ==
    /\ pc[t] = "idle"
    /\ \/ /\ denied' = [denied EXCEPT ![a] = @ \/ file = NoRows]
          /\ UNCHANGED <<now, file, mixed, pc, job, result, granted, own>>
       \/ /\ file # NoRows
          /\ Starts(t, [NewJob(s, a, "clear", None) EXCEPT
                            !.held = [file EXCEPT ![a] = Blank]],
                    "open")
          /\ UNCHANGED history

\* check_authorization and check_authorization_progressive: the snapshot of
\* the row (_snapshot_auth_row), then the heartbeat, the light one first.
StartCheck(t, s, a, o) ==
    /\ pc[t] = "idle"
    /\ HeartbeatTimes(file[a]) + 2 <= MaxBeats
    /\ \E rows \in Readable :
          Starts(t, NewJob(s, a, o, rows[a]),
                 IF o = "progressive" THEN "fast" ELSE "full")
    /\ UNCHANGED history

\* The server answered, and the answer is saved whatever it is.
Answered(t) ==
    /\ \E v \in {"authorized", "denied"} :
          /\ job' = [job EXCEPT ![t].answer = v]
          /\ granted' = [granted EXCEPT ![job[t].app] =
                           IF v = "authorized" THEN now ELSE @]
          /\ denied' = [denied EXCEPT ![job[t].app] = @ /\ v = "denied"]
    /\ Goto(t, "read")
    /\ UNCHANGED <<now, file, mixed, result, own>>

\* When the light heartbeat fails, what follows is check_authorization.
FastHeartbeat(t) ==
    /\ pc[t] = "fast"
    /\ \/ Answered(t)
       \/ /\ job' = [job EXCEPT ![t].op = "check"]
          /\ Goto(t, "full")
          /\ UNCHANGED <<now, file, mixed, result, history>>

\* The full heartbeat.  When it fails the check falls back: after a light one
\* that was authorized on the file as it is, otherwise on the snapshot.
FullHeartbeat(t) ==
    /\ pc[t] = "full"
    /\ \/ Answered(t)
       \/ /\ IF job[t].light
             THEN Goto(t, "fallback") /\ UNCHANGED <<job, result>>
             ELSE Returns(t, job[t].valid, job[t].valid, job[t].begun)
          /\ UNCHANGED <<now, file, mixed, history>>

\* The Go SDK goes on to the snapshot (CheckAuthorizationProgressive).
Fallback(t) ==
    LET j == job[t]
        before == j.sdk = "go" /\ j.valid
    IN  /\ pc[t] = "fallback"
        /\ \E rows \in Readable :
              LET valid == CacheValid(rows[j.app])
              IN  Returns(t, valid \/ before, valid \/ before,
                          IF valid THEN now ELSE j.begun)
        /\ UNCHANGED <<now, file, mixed, history>>

-----------------------------------------------------------------------------

Next ==
    \/ Tick
    \/ \E t \in Tasks :
          \/ ReadRows(t) \/ OpenFile(t) \/ FillFile(t)
          \/ FastHeartbeat(t) \/ FullHeartbeat(t) \/ Fallback(t) \/ Crash(t)
          \/ \E s \in Sdks, a \in Apps :
                \/ OpenClient(t, s, a) \/ ClearCache(t, s, a)
                \/ \E o \in Checks : StartCheck(t, s, a, o)

Spec == Init /\ [][Next]_vars

-----------------------------------------------------------------------------
(* Properties *)

\* A check that answers from the cache stands for an authorization the server
\* gave this product less than cache_validity_days before, whoever wrote the
\* file in the meantime and whatever was lost.
OfflineWithinValidity ==
    \A t \in Tasks :
        (result[t] # None /\ result[t].cached) =>
            /\ granted[result[t].app] > 0
            /\ result[t].time < granted[result[t].app] + Validity

\* After a denial, or a clearing, that the SDK says it saved no check answers
\* from the cache until the server authorizes the product again: failed
\* writes, crashes and the calls of other products do not bring it back.
\* (A clearing that could not read the file is none, whatever it answered; a
\* denial of which no write succeeded is not kept.)
DenialSticks ==
    [][\A t \in Tasks :
          (result'[t] # result[t] /\ result'[t] # None /\ result'[t].cached)
              => ~denied[result'[t].app]]_vars

\* The products are kept apart by their software_name
\* (docs/dev/client-storage.md:112): the row of a product that is in the file
\* is the one its own last call wrote, not an older one.
RowsAreOwn == \A a \in Apps : file[a] # None => file[a] = own[a]

\* A progressive check whose light heartbeat was authorized and saved finds
\* the product authorized when the full heartbeat fails, if it can read the
\* file.  (One that could not save the light answer has nothing to find.)
LightAnswerCounts ==
    \A t \in Tasks :
        (pc[t] = "fallback" /\ job[t].stored) => CacheValid(file[job[t].app])
=============================================================================
