------------------------ MODULE DeviceIdentityProof ------------------------
(***************************************************************************)
(* Theorems about DeviceIdentity, for any number of programs and threads   *)
(* and machines with any number of interfaces.                             *)
(***************************************************************************)
EXTENDS DeviceIdentity, WellFoundedInduction, TLAPS

USE DEF Making

(***************************************************************************)
(* The choice of an interface.  Of any interfaces one comes first: among   *)
(* those with the best score the one that is listed first.                 *)
(***************************************************************************)
LEMMA LeastNat ==
    ASSUME NEW S \in SUBSET Nat, S # {}
    PROVE  \E x \in S : \A y \in S : x <= y
  <1>1. PICK x \in S : \A y \in S : <<y, x>> \notin OpToRel(<, Nat)
    BY NatLessThanWellFounded, WFMin
  <1>2. ASSUME NEW y \in S PROVE x <= y
    <2>1. ~(y < x)
      BY <1>1, <1>2 DEF OpToRel
    <2> QED
      BY <2>1
  <1> QED
    BY <1>2

LEMMA ScoreRange ==
    ASSUME NEW i \in Interface
    PROVE  Score(i) \in Int /\ 150 - Score(i) \in Nat
  BY DEF Score

LEMMA FirstExists ==
    ASSUME NEW n \in Seq(Interface), NEW K \in SUBSET DOMAIN n, K # {}
    PROVE  FirstOf(n, K) \in K /\ \A l \in K : Before(n, FirstOf(n, K), l)
  <1> DEFINE rank(k) == 150 - Score(n[k])
  <1>1. /\ \A k \in K : n[k] \in Interface
        /\ K \subseteq Nat
    OBVIOUS
  <1>2. \A k \in K : Score(n[k]) \in Int /\ rank(k) \in Nat
    BY <1>1, ScoreRange
  <1>3. PICK b \in {rank(k) : k \in K} : \A y \in {rank(k) : k \in K} : b <= y
    <2>1. {rank(k) : k \in K} \in SUBSET Nat /\ {rank(k) : k \in K} # {}
      BY <1>2
    <2> QED
      BY <2>1, LeastNat
  <1>4. PICK k \in {l \in K : rank(l) = b} : \A l \in {l \in K : rank(l) = b} : k <= l
    <2>1. {l \in K : rank(l) = b} \in SUBSET Nat /\ {l \in K : rank(l) = b} # {}
      BY <1>1, <1>3
    <2> QED
      BY <2>1, LeastNat
  <1>5. ASSUME NEW l \in K PROVE Before(n, k, l)
    <2>1. rank(k) <= rank(l) /\ rank(k) = b
      BY <1>3, <1>4
    <2>2. rank(l) = b => k <= l
      BY <1>4
    <2>3. Score(n[k]) \in Int /\ Score(n[l]) \in Int
      BY <1>2, <1>4
    <2>4. \/ Score(n[k]) > Score(n[l])
          \/ Score(n[k]) = Score(n[l]) /\ rank(l) = b
      BY <2>1, <2>3, SMT
    <2> HIDE DEF rank
    <2> QED
      BY <2>2, <2>4, Zenon DEF Before
  <1> QED
    BY <1>4, <1>5 DEF FirstOf

LEMMA PreferredTyped ==
    ASSUME NEW n \in Networks
    PROVE  PreferredMac(n) \in Mac
  <1> DEFINE with_mac == {k \in Candidates(n) : n[k].mac # None}
             both == {k \in with_mac : Addressed(n[k])}
             real == {k \in with_mac : ~n[k].mac.virtual}
  <1>1. n \in Seq(Interface)
    BY NetworkAssumption
  <1>2. with_mac \in SUBSET DOMAIN n /\ both \subseteq with_mac /\ real \subseteq with_mac
    BY DEF Candidates
  <1>3. ASSUME NEW k \in with_mac
        PROVE  n[k].mac \in Mac
    <2>1. k \in DOMAIN n /\ n[k].mac # None
      BY DEF Candidates
    <2>2. n[k] \in Interface
      BY <1>1, <2>1
    <2> QED
      BY <2>1, <2>2 DEF Interface
  <1>4. ASSUME NEW K \in SUBSET with_mac, K # {}
        PROVE  n[FirstOf(n, K)].mac \in Mac
    BY <1>1, <1>2, <1>3, <1>4, FirstExists
  <1>5. NodeMac \in Mac
    BY DEF NodeMac, Mac
  <1> HIDE DEF with_mac, both, real
  <1>6. PreferredMac(n) \in Mac
    <2>1. PreferredMac(n) = IF both # {} THEN n[FirstOf(n, both)].mac
                            ELSE IF real # {} THEN n[FirstOf(n, real)].mac
                            ELSE IF with_mac # {} THEN n[FirstOf(n, with_mac)].mac
                            ELSE NodeMac
      BY DEF PreferredMac, both, real, with_mac
    <2> QED
      BY <2>1, <1>2, <1>4, <1>5
  <1> QED
    BY <1>6

(***************************************************************************)
(* The MAC of a virtual card is only preferred when no real card that is   *)
(* up has an address, however many interfaces there are: having both, the  *)
(* real one scores at least 100 and the virtual one at most 50.            *)
(***************************************************************************)
LEMMA RealBeforeVirtual ==
    ASSUME NEW n \in Networks, PreferredMac(n).virtual,
           NEW k \in DOMAIN n,
           n[k].up, n[k].mac # None, ~n[k].mac.virtual
    PROVE  ~Addressed(n[k])
  <1> DEFINE with_mac == {l \in Candidates(n) : n[l].mac # None}
             both == {l \in with_mac : Addressed(n[l])}
             m == FirstOf(n, both)
  <1>1. n \in Seq(Interface)
    BY NetworkAssumption
  <1>2. SUFFICES ASSUME Addressed(n[k])
                 PROVE  FALSE
    OBVIOUS
  <1>3. k \in both
    BY <1>2 DEF Candidates
  <1>4. both \in SUBSET DOMAIN n
    BY DEF Candidates
  <1>5. m \in both /\ Before(n, m, k)
    BY <1>1, <1>3, <1>4, FirstExists
  <1>6. n[m] \in Interface /\ n[k] \in Interface /\ Addressed(n[m]) /\ n[m].mac # None
    BY <1>1, <1>4, <1>5
  <1>7. PreferredMac(n) = n[m].mac
    BY <1>3 DEF PreferredMac
  <1>8. n[m].mac.virtual
    BY <1>7
  <1>9. Score(n[m]) <= 50 /\ Score(n[k]) >= 100
    BY <1>2, <1>6, <1>8 DEF Score, Addressed, Interface
  <1>10. Score(n[m]) \in Int /\ Score(n[k]) \in Int
    BY <1>6, ScoreRange
  <1> QED
    BY <1>5, <1>9, <1>10 DEF Before

(***************************************************************************)
(* Type correctness.  What is needed besides the types: which call is at   *)
(* which step, a check has a client, a start is the only call of its       *)
(* program, and the facts are fetched ahead for at most one collection.    *)
(***************************************************************************)
CallOf(t) ==
    /\ pc[t] \in Making => job[t].op = "start" /\ job[t].network \in Networks
    /\ pc[t] = "snapshot" => /\ job[t].op = "start"
                             /\ Mine(t) # None
                             /\ Mine(t).deferred /\ ~Mine(t).facts
    /\ pc[t] \in Checking => job[t].op # "start"
    /\ pc[t] = "light" => job[t].op = "progressive" /\ ~job[t].light
    /\ pc[t] \in Checking \cup Saving => job[t].id # None
    /\ pc[t] # "idle" /\ job[t].op # "start" => Mine(t) # None
    /\ pc[t] # "idle" /\ job[t].light => job[t].op = "progressive"
    /\ Busy(t, "start") => /\ program[t] \notin late
                           /\ pc[t] # "snapshot" => Mine(t) = None
                           /\ \A u \in ThreadsOf(program[t]) : u # t => pc[u] = "idle"
    /\ pc[t] = "collect" => ~Mine(t).facts

FactsOf(p) ==
    /\ client[p] # None /\ client[p].facts => sdk # "typescript"
    /\ p \in late => client[p] # None /\ ~client[p].facts

TypeInv ==
    /\ TypeOK
    /\ \A t \in Threads : CallOf(t)
    /\ \A p \in Programs : FactsOf(p)

LEMMA JobTyped ==
    /\ \A o \in {"start", "check", "progressive"}, id \in Mac \cup {None} :
          NewJob(o, id) \in Job
    /\ \A id \in Mac : Deferred(id) \in Client
    /\ \A c \in Client : Completed(c) \in Client
  BY DEF NewJob, Job, Deferred, Client, Completed

LEMMA TypeInit ==
    ASSUME Init
    PROVE  TypeInv
  BY IdentityAssumption DEF Init, TypeInv, TypeOK, CallOf, FactsOf, PC, Busy, Mine,
     Checking, Saving

LEMMA LoadIdTyped ==
    ASSUME TypeInv, NEW t \in Threads, LoadId(t)
    PROVE  TypeInv'
  <1> DEFINE p == program[t]
  <1> USE IdentityAssumption, NoneAssumption
  <1>1. p \in Programs /\ program \in [Threads -> Programs]
    BY DEF TypeInv, TypeOK
  <1>2. \A u \in Threads : program[u] = p => pc[u] = "idle"
    BY DEF LoadId, ThreadsOf
  <1>3. p \notin late /\ client[p] = None
    BY <1>1 DEF LoadId, TypeInv, FactsOf
  <1>4. CASE file # None
    <2>1. file.id \in Mac
      BY <1>4 DEF TypeInv, TypeOK, Row
    <2>2. /\ client' = [client EXCEPT ![p] = Deferred(file.id)]
          /\ pc' = [pc EXCEPT ![t] = "snapshot"]
          /\ job' = [job EXCEPT ![t] = NewJob("start", file.id)]
          /\ first' = IF excused \/ first # None THEN first ELSE file.id
          /\ excused' = excused
      BY <1>4 DEF LoadId, Constructed, Remember, Goto
    <2>3. UNCHANGED <<sdk, program, file, late, interrupted, clash>>
      BY DEF LoadId, setting
    <2>4. NewJob("start", file.id) \in Job /\ Deferred(file.id) \in Client
      BY <2>1, JobTyped
    <2>5. TypeOK'
      BY <1>1, <1>2, <2>1, <2>2, <2>3, <2>4
         DEF TypeInv, TypeOK, PC, Starting, Checking, Deferred
    <2>6. ASSUME NEW u \in Threads PROVE CallOf(u)'
      <3>1. CASE u = t
        <4>1. /\ pc'[t] = "snapshot" /\ job'[t] = NewJob("start", file.id)
              /\ Mine(t)' = Deferred(file.id)
              /\ \A v \in Threads : program[v] = p /\ v # t => pc'[v] = "idle"
          BY <1>1, <1>2, <2>2, <2>3 DEF TypeInv, TypeOK, Mine
        <4>2. Deferred(file.id) # None
          BY <2>4
        <4> QED
          BY <1>3, <2>3, <3>1, <4>1, <4>2
             DEF CallOf, Busy, ThreadsOf, NewJob, Deferred, Checking, Saving
      <3>2. CASE u # t
        <4>1. /\ pc'[u] = pc[u] /\ job'[u] = job[u]
              /\ (Mine(u)' = Mine(u) \/ program[u] = p)
          BY <1>1, <2>2, <2>3, <3>2 DEF TypeInv, TypeOK, Mine
        <4>2. program[u] = p => pc'[u] = "idle"
          BY <1>2, <2>2, <2>3, <3>2 DEF TypeInv, TypeOK
        <4>3. \A v \in Threads : program[v] # p => pc'[v] = pc[v]
          BY <2>2, <2>3 DEF TypeInv, TypeOK
        <4> QED
          BY <1>1, <2>3, <4>1, <4>2, <4>3
             DEF TypeInv, CallOf, Busy, ThreadsOf, Checking, Saving
      <3> QED
        BY <3>1, <3>2
    <2>7. \A q \in Programs : FactsOf(q)'
      BY <1>1, <1>3, <2>2, <2>3 DEF TypeInv, TypeOK, FactsOf, Deferred
    <2> QED
      BY <2>5, <2>6, <2>7 DEF TypeInv
  <1>5. CASE file = None
    <2>1. PICK n \in Networks :
             job' = [job EXCEPT ![t] = [NewJob("start", None) EXCEPT !.network = n]]
      BY <1>5 DEF LoadId
    <2> DEFINE j == [NewJob("start", None) EXCEPT !.network = n]
    <2>2. j \in Job /\ j.op = "start" /\ j.network = n /\ ~j.light
      BY DEF NewJob, Job
    <2>3. /\ pc' = [pc EXCEPT ![t] = "make"]
          /\ first' \in {None, first}
          /\ excused' \in BOOLEAN
          /\ UNCHANGED <<sdk, program, client, file, late, interrupted, clash>>
      BY <1>5 DEF LoadId, Goto, ExcuseIf, setting
    <2> HIDE DEF j
    <2>4. job' = [job EXCEPT ![t] = j]
      BY <2>1 DEF j
    <2>5. TypeOK'
      BY <1>1, <1>2, <2>2, <2>3, <2>4 DEF TypeInv, TypeOK, PC, Starting, Checking
    <2>6. ASSUME NEW u \in Threads PROVE CallOf(u)'
      <3>1. CASE u = t
        <4>1. /\ pc'[t] = "make" /\ job'[t] = j /\ Mine(t)' = None
              /\ \A v \in Threads : program[v] = p /\ v # t => pc'[v] = "idle"
          BY <1>1, <1>2, <1>3, <2>3, <2>4 DEF TypeInv, TypeOK, Mine
        <4> QED
          BY <1>3, <2>2, <2>3, <3>1, <4>1
             DEF CallOf, Busy, ThreadsOf, Checking, Saving
      <3>2. CASE u # t
        <4>1. /\ pc'[u] = pc[u] /\ job'[u] = job[u]
              /\ (Mine(u)' = Mine(u) \/ program[u] = p)
          BY <1>1, <2>3, <2>4, <3>2 DEF TypeInv, TypeOK, Mine
        <4>2. program[u] = p => pc'[u] = "idle"
          BY <1>2, <2>3, <2>4, <3>2 DEF TypeInv, TypeOK
        <4>3. \A v \in Threads : program[v] # p => pc'[v] = pc[v]
          BY <2>3, <2>4 DEF TypeInv, TypeOK
        <4> QED
          BY <1>1, <2>3, <4>1, <4>2, <4>3
             DEF TypeInv, CallOf, Busy, ThreadsOf, Checking, Saving
      <3> QED
        BY <3>1, <3>2
    <2>7. \A q \in Programs : FactsOf(q)'
      BY <2>3 DEF TypeInv, FactsOf
    <2> QED
      BY <2>5, <2>6, <2>7 DEF TypeInv
  <1> QED
    BY <1>4, <1>5

\* What a step of thread t may do to its own call and to its client.
Fits(t, l, j, c) ==
    /\ (l = "idle") = (j = None)
    /\ l \in Making => j.op = "start" /\ j.network \in Networks
    /\ l = "snapshot" => j.op = "start" /\ c # None /\ c.deferred /\ ~c.facts
    /\ l \in Checking => j.op # "start" /\ c # None
    /\ l = "light" => j.op = "progressive" /\ ~j.light
    /\ l \in Checking \cup Saving => j.id # None
    /\ l # "idle" /\ j.op # "start" => c # None
    /\ l # "idle" /\ j.light => j.op = "progressive"
    /\ l # "idle" /\ j.op = "start" => pc[t] # "idle" /\ job[t].op = "start"
    /\ l \notin {"idle", "snapshot"} /\ j.op = "start" => c = None
    /\ l = "collect" => ~c.facts

MayBecome(t, c) ==
    \/ c = Mine(t)
    \/ /\ pc[t] # "idle" /\ c # None
       /\ c.facts => c.deferred /\ sdk # "typescript"
       /\ c.facts => job[t].op = "start" \/ (Mine(t) # None /\ Mine(t).facts)

LEMMA CallTyped ==
    ASSUME TypeInv, NEW t \in Threads, NEW l \in PC, NEW j \in Job \cup {None},
           NEW c \in Client \cup {None},
           pc' = [pc EXCEPT ![t] = l],
           job' = [job EXCEPT ![t] = j],
           client' = [client EXCEPT ![program[t]] = c],
           UNCHANGED <<sdk, program, late>>,
           file' \in Row \cup {None}, first' \in Mac \cup {None},
           excused' \in BOOLEAN, interrupted' \in BOOLEAN, clash' \in BOOLEAN,
           pc[t] # "idle" \/ \A u \in ThreadsOf(program[t]) : ~Busy(u, "start"),
           Fits(t, l, j, c), MayBecome(t, c)
    PROVE  TypeInv'
  <1> DEFINE p == program[t]
  <1>1. p \in Programs /\ program \in [Threads -> Programs]
    BY IdentityAssumption DEF TypeInv, TypeOK
  <1>2. client' \in [Programs -> Client \cup {None}]
    BY DEF TypeInv, TypeOK
  <1>3. ASSUME NEW u \in Threads, u # t, program[u] = p, pc[t] # "idle"
        PROVE  /\ Busy(t, "start") => pc[u] = "idle"
               /\ ~Busy(u, "start")
    BY <1>3 DEF TypeInv, CallOf, ThreadsOf
  <1>4. Mine(t) # None => c # None
    BY DEF MayBecome
  <1>5. c # None /\ c.facts =>
           /\ c.deferred /\ sdk # "typescript"
           /\ Busy(t, "start") \/ (Mine(t) # None /\ Mine(t).facts)
    BY <1>1 DEF MayBecome, TypeInv, TypeOK, FactsOf, Mine, Busy
  <1>6. ASSUME NEW u \in Threads PROVE (pc'[u] = "idle") = (job'[u] = None)
    BY DEF TypeInv, TypeOK, Fits
  <1>7. ASSUME NEW u \in Threads
        PROVE  /\ (pc'[u] \in Checking => client'[program[u]] # None)
               /\ CallOf(u)'
    <2>1. CASE u = t
      <3>1. pc'[u] = l /\ job'[u] = j /\ client'[program[u]] = c
        BY <1>1, <2>1 DEF TypeInv, TypeOK
      <3>2. Busy(t, "start")' => /\ p \notin late
                                 /\ \A v \in Threads : program[v] = p /\ v # t => pc[v] = "idle"
        BY <2>1, <3>1 DEF Fits, Busy, TypeInv, CallOf, ThreadsOf
      <3>3. \A v \in Threads : v # t => pc'[v] = pc[v]
        BY DEF TypeInv, TypeOK
      <3> QED
        BY <2>1, <3>1, <3>2, <3>3 DEF CallOf, Fits, Mine, ThreadsOf, Busy
    <2>2. CASE u # t
      <3>1. pc'[u] = pc[u] /\ job'[u] = job[u]
        BY <2>2 DEF TypeInv, TypeOK
      <3>2. CASE program[u] # p
        <4>1. client'[program[u]] = client[program[u]]
          BY <1>1, <3>2 DEF TypeInv, TypeOK
        <4>2. \A v \in Threads : program[v] = program[u] => pc'[v] = pc[v]
          BY <3>2 DEF TypeInv, TypeOK
        <4> QED
          BY <3>1, <4>1, <4>2 DEF TypeInv, TypeOK, CallOf, Busy, Mine, ThreadsOf
      <3>3. CASE program[u] = p
        <4>1. client'[program[u]] = c
          BY <1>1, <3>3 DEF TypeInv, TypeOK
        <4>2. ~Busy(u, "start")
          BY <1>3, <2>2, <3>3 DEF ThreadsOf
        <4>3. pc[u] = "collect" => ~c.facts
          <5>1. SUFFICES ASSUME pc[u] = "collect", c.facts PROVE FALSE
            OBVIOUS
          <5>2. Mine(u) # None /\ ~Mine(u).facts /\ Mine(u) = Mine(t)
            BY <3>3, <5>1 DEF TypeInv, TypeOK, CallOf, Mine, Checking
          <5>3. Busy(t, "start") /\ pc[t] # "idle"
            BY <1>4, <1>5, <5>1, <5>2 DEF Busy
          <5> QED
            BY <1>3, <2>2, <3>3, <5>1, <5>3
        <4>4. Mine(u) = Mine(t)
          BY <3>3 DEF Mine
        <4> QED
          BY <1>4, <3>1, <4>1, <4>2, <4>3, <4>4
             DEF TypeInv, TypeOK, CallOf, Busy, Mine, Checking
      <3> QED
        BY <3>2, <3>3
    <2> QED
      BY <2>1, <2>2
  <1>8. ASSUME NEW q \in Programs
        PROVE  /\ FactsOf(q)'
               /\ (client'[q] # None /\ client'[q].facts) => client'[q].deferred
    <2>1. CASE q # p
      <3>1. client'[q] = client[q]
        BY <2>1 DEF TypeInv, TypeOK
      <3> QED
        BY <3>1 DEF FactsOf, TypeInv, TypeOK
    <2>2. CASE q = p
      <3>1. client'[q] = c
        BY <2>2 DEF TypeInv, TypeOK
      <3>2. Busy(t, "start") => p \notin late
        BY DEF TypeInv, CallOf
      <3>3. p \in late => Mine(t) # None /\ ~Mine(t).facts
        BY <1>1 DEF TypeInv, FactsOf, Mine
      <3> QED
        BY <1>4, <1>5, <2>2, <3>1, <3>2, <3>3 DEF FactsOf
    <2> QED
      BY <2>1, <2>2
  <1>9. TypeOK'
    BY <1>1, <1>2, <1>6, <1>7, <1>8 DEF TypeInv, TypeOK
  <1> QED
    BY <1>7, <1>8, <1>9 DEF TypeInv

\* The types that a step starts from.
LEMMA CallFacts ==
    ASSUME TypeInv, NEW t \in Threads
    PROVE  /\ program[t] \in Programs
           /\ Mine(t) \in Client \cup {None}
           /\ pc[t] # "idle" => job[t] \in Job
           /\ client = [client EXCEPT ![program[t]] = Mine(t)]
           /\ MayBecome(t, Mine(t))
  BY IdentityAssumption DEF TypeInv, TypeOK, Mine, MayBecome

LEMMA MakeIdTyped ==
    ASSUME TypeInv, NEW t \in Threads, MakeId(t)
    PROVE  TypeInv'
  <1> DEFINE kept == IF file = None THEN None ELSE file.info
             id == BuildId(job[t].network)
             j == [NewJob("start", id) EXCEPT !.info = kept]
  <1>1. pc[t] \in Making /\ job[t].op = "start" /\ job[t].network \in Networks
    BY DEF MakeId, Making, TypeInv, CallOf
  <1>2. id \in Mac /\ id # None
    BY <1>1, PreferredTyped, NoneAssumption DEF BuildId
  <1>3. kept \in {None, "stub", "full"}
    BY DEF TypeInv, TypeOK, Row
  <1>4. j \in Job /\ j # None /\ j.id = id /\ j.op = "start" /\ ~j.light
    <2> HIDE DEF id, kept
    <2> QED
      BY <1>2, <1>3, NoneAssumption DEF NewJob, Job
  <1>5. /\ pc' = [pc EXCEPT ![t] = "open"]
        /\ job' = [job EXCEPT ![t] = j]
        /\ UNCHANGED <<sdk, program, late, file, client, first, excused, clash>>
        /\ interrupted' \in BOOLEAN
    BY DEF MakeId, Goto, setting
  <1> HIDE DEF j
  <1>6. Fits(t, "open", j, Mine(t)) /\ "open" \in PC
    <2>1. Mine(t) = None
      BY <1>1 DEF TypeInv, CallOf, Busy
    <2> QED
      BY <1>1, <1>2, <1>4, <2>1 DEF Fits, Starting, Checking, Saving, PC
  <1>7. file \in Row \cup {None} /\ first \in Mac \cup {None}
        /\ excused \in BOOLEAN /\ clash \in BOOLEAN
    BY DEF TypeInv, TypeOK
  <1> QED
    BY <1>1, <1>4, <1>5, <1>6, <1>7, CallFacts, CallTyped

\* A call that ends, and one that has no more to do for its client.
LEMMA FinishTyped ==
    ASSUME TypeInv, NEW t \in Threads, pc[t] # "idle", Finish(t),
           NEW c \in Client \cup {None}, MayBecome(t, c),
           client' = [client EXCEPT ![program[t]] = c],
           UNCHANGED <<sdk, program, late>>,
           file' \in Row \cup {None}, first' \in Mac \cup {None},
           excused' \in BOOLEAN, interrupted' \in BOOLEAN, clash' \in BOOLEAN
    PROVE  TypeInv'
  <1>1. Fits(t, "idle", None, c) /\ "idle" \in PC
    BY DEF Fits, Checking, Saving, PC
  <1> QED
    BY <1>1, CallTyped DEF Finish, Goto

LEMMA LoadSnapshotTyped ==
    ASSUME TypeInv, NEW t \in Threads, LoadSnapshot(t)
    PROVE  TypeInv'
  <1> DEFINE found == file # None /\ file.info # None
             old == Mine(t)
             c == IF found THEN [old EXCEPT !.info = file.info, !.deferred = FALSE]
                           ELSE [old EXCEPT !.facts = sdk # "typescript"]
  <1>1. /\ pc[t] = "snapshot" /\ job[t].op = "start"
        /\ old # None /\ old.deferred /\ ~old.facts /\ old \in Client
    BY CallFacts DEF LoadSnapshot, TypeInv, CallOf
  <1>2. program[t] \in Programs
    BY CallFacts
  <1>3. found => file.info \in {"stub", "full"}
    BY DEF TypeInv, TypeOK, Row
  <1>4. old = Mine(t)
    OBVIOUS
  <1> HIDE DEF old
  <1>5. c \in Client /\ c # None
    BY <1>1, <1>3, NoneAssumption DEF Client
  <1>6. /\ client' = [client EXCEPT ![program[t]] = c]
        /\ Finish(t)
        /\ UNCHANGED <<sdk, program, late, file, first, excused, clash>>
        /\ interrupted' \in BOOLEAN
    BY <1>1, <1>2, <1>4 DEF LoadSnapshot, setting, Mine, TypeInv, TypeOK
  <1>7. file \in Row \cup {None} /\ first \in Mac \cup {None}
        /\ excused \in BOOLEAN /\ clash \in BOOLEAN
    BY DEF TypeInv, TypeOK
  <1>8. MayBecome(t, c)
    BY <1>1, <1>5 DEF MayBecome, Client
  <1> HIDE DEF c
  <1> QED
    BY <1>1, <1>5, <1>6, <1>7, <1>8, FinishTyped

LEMMA ConstructedTyped ==
    ASSUME TypeInv, NEW t \in Threads, pc[t] # "idle", job[t].op = "start",
           NEW id \in Mac, Constructed(t, id, FALSE),
           UNCHANGED <<sdk, program, late>>,
           file' \in Row \cup {None}, first' \in Mac \cup {None},
           excused' \in BOOLEAN, interrupted' \in BOOLEAN, clash' \in BOOLEAN
    PROVE  TypeInv'
  <1> DEFINE d == Deferred(id)
  <1>1. /\ d \in Client /\ d # None /\ d.deferred /\ ~d.facts
        /\ Completed(d) \in Client /\ Completed(d) # None /\ ~Completed(d).facts
    <2>1. d \in Client /\ Completed(d) \in Client
      BY JobTyped
    <2>2. d.deferred /\ ~d.facts /\ ~Completed(d).facts
      BY DEF Deferred, Completed
    <2> HIDE DEF d
    <2> QED
      BY <2>1, <2>2, NoneAssumption
  <1>2. MayBecome(t, d) /\ MayBecome(t, Completed(d))
    BY <1>1 DEF MayBecome
  <1>3. CASE sdk = "python"
    <2> DEFINE j == NewJob("start", id)
    <2>1. /\ client' = [client EXCEPT ![program[t]] = d]
          /\ pc' = [pc EXCEPT ![t] = "snapshot"]
          /\ job' = [job EXCEPT ![t] = j]
      BY <1>3 DEF Constructed, Goto
    <2>2. j \in Job /\ j # None /\ j.op = "start" /\ ~j.light
      BY JobTyped, NoneAssumption DEF NewJob
    <2> HIDE DEF d, j
    <2>3. Fits(t, "snapshot", j, d) /\ "snapshot" \in PC
      BY <1>1, <2>2 DEF Fits, Starting, Checking, Saving, PC
    <2> QED
      BY <1>1, <1>2, <2>1, <2>2, <2>3, CallTyped
  <1>4. CASE sdk # "python"
    <2>1. client' = [client EXCEPT ![program[t]] = Completed(d)] /\ Finish(t)
      BY <1>4 DEF Constructed
    <2> HIDE DEF d
    <2> QED
      BY <1>1, <1>2, <2>1, FinishTyped
  <1> QED
    BY <1>3, <1>4

LEMMA FindIdTyped ==
    ASSUME TypeInv, NEW t \in Threads, FindId(t)
    PROVE  TypeInv'
  <1>1. /\ pc[t] = "make" /\ job[t].op = "start" /\ job[t].network \in Networks
        /\ UNCHANGED <<sdk, program, late, file, interrupted, clash>>
    BY DEF FindId, Making, setting, TypeInv, CallOf
  <1>2. /\ file \in Row \cup {None} /\ first \in Mac \cup {None}
        /\ excused \in BOOLEAN /\ interrupted \in BOOLEAN /\ clash \in BOOLEAN
        /\ job[t] \in Job
    BY <1>1, CallFacts DEF TypeInv, TypeOK
  <1>3. CASE file # None
    <2>1. file.id \in Mac
      BY <1>2, <1>3 DEF Row
    <2>2. Constructed(t, file.id, FALSE) /\ Remember(file.id)
      BY <1>3 DEF FindId
    <2>3. first' \in Mac \cup {None} /\ excused' \in BOOLEAN
      BY <1>2, <2>1, <2>2 DEF Remember
    <2> QED
      BY <1>1, <1>2, <2>1, <2>2, <2>3, ConstructedTyped
  <1>4. CASE file = None
    <2>1. /\ pc' = [pc EXCEPT ![t] = "hash"]
          /\ UNCHANGED <<client, job, first, excused>>
      BY <1>4 DEF FindId, Goto
    <2>2. Mine(t) = None
      BY <1>1 DEF TypeInv, CallOf, Busy
    <2>3. Fits(t, "hash", job[t], Mine(t)) /\ "hash" \in PC
      <3>1. job[t] # None /\ ~job[t].light
        BY <1>1, NoneAssumption DEF TypeInv, TypeOK, CallOf
      <3> QED
        BY <1>1, <2>2, <3>1 DEF Fits, Making, Starting, Checking, Saving, PC
    <2>4. job' = [job EXCEPT ![t] = job[t]] /\ client' = [client EXCEPT ![program[t]] = Mine(t)]
      BY <2>1, CallFacts DEF TypeInv, TypeOK
    <2> QED
      BY <1>1, <1>2, <2>1, <2>3, <2>4, CallFacts, CallTyped
  <1> QED
    BY <1>3, <1>4

LEMMA AfterSaveTyped ==
    ASSUME TypeInv, NEW t \in Threads, pc[t] \in Saving,
           NEW saved \in BOOLEAN, AfterSave(t, saved),
           UNCHANGED <<sdk, program, late, clash>>,
           file' \in Row \cup {None}, first' \in Mac \cup {None},
           excused' \in BOOLEAN
    PROVE  TypeInv'
  <1>1. pc[t] # "idle" /\ job[t] \in Job /\ job[t].id \in Mac
    BY CallFacts DEF TypeInv, CallOf, Saving, Job
  <1>2. clash' \in BOOLEAN /\ interrupted \in BOOLEAN
    BY DEF TypeInv, TypeOK
  <1>3. CASE job[t].op = "start"
    <2>1. interrupted' \in BOOLEAN
      BY <1>2, <1>3 DEF AfterSave
    <2>2. CASE saved \/ sdk # "go"
      <3>1. Constructed(t, job[t].id, FALSE)
        BY <1>3, <2>2 DEF AfterSave
      <3> QED
        BY <1>1, <1>2, <1>3, <2>1, <3>1, ConstructedTyped
    <2>3. CASE ~(saved \/ sdk # "go")
      <3>1. Finish(t) /\ client' = client
        BY <1>3, <2>3 DEF AfterSave
      <3>2. client' = [client EXCEPT ![program[t]] = Mine(t)]
        BY <3>1, CallFacts
      <3> QED
        BY <1>1, <1>2, <2>1, <3>1, <3>2, CallFacts, FinishTyped
    <2> QED
      BY <2>2, <2>3
  <1>4. CASE job[t].op # "start"
    <2>1. client' = [client EXCEPT ![program[t]] = Mine(t)]
      BY <1>4, CallFacts DEF AfterSave
    <2>2. interrupted' \in BOOLEAN
      BY <1>4 DEF AfterSave
    <2>3. CASE Finish(t)
      BY <1>1, <1>2, <2>1, <2>2, <2>3, CallFacts, FinishTyped
    <2>4. CASE job[t].op = "progressive" /\ GoesOn(t)
      <3> DEFINE j == [job[t] EXCEPT !.light = TRUE, !.info = None]
      <3>1. /\ pc' = [pc EXCEPT ![t] = "ensure"]
            /\ job' = [job EXCEPT ![t] = j]
        BY <2>4 DEF GoesOn, Goto, TypeInv, TypeOK
      <3>2. j \in Job /\ j # None /\ j.op = "progressive" /\ j.id # None
        <4>1. j \in Job
          BY <1>1, <2>4 DEF Job
        <4>2. j.op = "progressive" /\ j.id # None
          BY <1>1, <2>4, NoneAssumption DEF Job
        <4> QED
          BY <4>1, <4>2, NoneAssumption
      <3>3. Mine(t) # None
        BY <1>1, <1>4 DEF TypeInv, CallOf
      <3> HIDE DEF j
      <3>4. Fits(t, "ensure", j, Mine(t)) /\ "ensure" \in PC
        BY <3>2, <3>3 DEF Fits, Starting, Checking, Saving, PC
      <3> QED
        BY <1>1, <1>2, <2>1, <2>2, <3>1, <3>2, <3>4, CallFacts, CallTyped
    <2> QED
      BY <1>4, <2>3, <2>4 DEF AfterSave
  <1> QED
    BY <1>3, <1>4

LEMMA SavingTyped ==
    ASSUME TypeInv, NEW t \in Threads, OpenFile(t) \/ FillFile(t)
    PROVE  TypeInv'
  <1>1. /\ pc[t] \in Saving /\ pc[t] # "idle" /\ job[t] \in Job /\ job[t].id \in Mac
        /\ UNCHANGED <<sdk, program, late, clash>>
    BY CallFacts DEF OpenFile, FillFile, setting, TypeInv, CallOf, Saving, Job
  <1>2. /\ first \in Mac \cup {None} /\ excused \in BOOLEAN
        /\ interrupted \in BOOLEAN /\ clash \in BOOLEAN /\ file \in Row \cup {None}
    BY DEF TypeInv, TypeOK
  <1>3. NewRow(t) \in Row
    BY <1>1 DEF NewRow, Row, Job
  <1>4. CASE \E saved \in BOOLEAN : AfterSave(t, saved)
    <2>1. file' \in Row \cup {None}
      BY <1>1, <1>2, <1>3, <1>4 DEF OpenFile, FillFile, Saving
    <2>2. first' \in Mac \cup {None} /\ excused' \in BOOLEAN
      BY <1>1, <1>2, <1>4 DEF OpenFile, FillFile, ExcuseIf, Remember
    <2> QED
      BY <1>1, <1>4, <2>1, <2>2, AfterSaveTyped
  <1>5. CASE /\ pc[t] = "open" /\ file' = None /\ Goto(t, "fill")
             /\ UNCHANGED <<client, job, first, excused, interrupted>>
    <2>1. /\ job' = [job EXCEPT ![t] = job[t]]
          /\ client' = [client EXCEPT ![program[t]] = Mine(t)]
      BY <1>5, CallFacts DEF TypeInv, TypeOK
    <2>2. Fits(t, "fill", job[t], Mine(t)) /\ "fill" \in PC
      BY <1>1, <1>5, NoneAssumption
         DEF Fits, Starting, Checking, Saving, PC, TypeInv, CallOf, Busy
    <2> QED
      BY <1>1, <1>2, <1>5, <2>1, <2>2, CallFacts, CallTyped DEF Goto
  <1> QED
    BY <1>4, <1>5 DEF OpenFile, FillFile

LEMMA StartCheckTyped ==
    ASSUME TypeInv, NEW t \in Threads, NEW o \in {"check", "progressive"},
           StartCheck(t, o)
    PROVE  TypeInv'
  <1> DEFINE l == IF o = "progressive" THEN "light" ELSE "ensure"
             j == NewJob(o, Mine(t).id)
  <1>1. Mine(t) \in Client /\ Mine(t) # None
    BY CallFacts DEF StartCheck, Mine
  <1>2. j \in Job /\ j # None /\ j.op = o /\ j.id # None /\ ~j.light
    <2>1. Mine(t).id \in Mac
      BY <1>1 DEF Client
    <2> QED
      BY <2>1, JobTyped, NoneAssumption DEF NewJob
  <1>3. /\ pc' = [pc EXCEPT ![t] = l] /\ job' = [job EXCEPT ![t] = j]
        /\ \A u \in ThreadsOf(program[t]) : ~Busy(u, "start")
        /\ UNCHANGED <<sdk, program, file, client, late, first, excused, interrupted, clash>>
    BY DEF StartCheck, Goto, Mine, setting, history
  <1> HIDE DEF j
  <1>4. Fits(t, l, j, Mine(t)) /\ l \in PC
    BY <1>1, <1>2 DEF Fits, Starting, Checking, Saving, PC
  <1>5. /\ file \in Row \cup {None} /\ first \in Mac \cup {None}
        /\ excused \in BOOLEAN /\ interrupted \in BOOLEAN /\ clash \in BOOLEAN
    BY DEF TypeInv, TypeOK
  <1> HIDE DEF l
  <1> QED
    BY <1>2, <1>3, <1>4, <1>5, CallFacts, CallTyped

\* What a step of a check starts from.
LEMMA CheckFacts ==
    ASSUME TypeInv, NEW t \in Threads, pc[t] \in Checking
    PROVE  /\ pc[t] # "idle" /\ job[t] \in Job /\ job[t] # None
           /\ job[t].op # "start" /\ job[t].id # None
           /\ Mine(t) \in Client /\ Mine(t) # None
           /\ job[t].light => job[t].op = "progressive"
           /\ job = [job EXCEPT ![t] = job[t]]
           /\ file \in Row \cup {None} /\ first \in Mac \cup {None}
           /\ excused \in BOOLEAN /\ interrupted \in BOOLEAN /\ clash \in BOOLEAN
  BY CallFacts, NoneAssumption DEF TypeInv, TypeOK, CallOf, Mine, Checking, Job

LEMMA AnsweredTyped ==
    ASSUME TypeInv, NEW t \in Threads, pc[t] \in Checking, Answered(t)
    PROVE  TypeInv'
  <1>1. PICK authorized \in BOOLEAN :
           job' = [job EXCEPT ![t].info = IF authorized THEN Mine(t).info ELSE None]
    BY DEF Answered
  <1> DEFINE info == IF authorized THEN Mine(t).info ELSE None
             j == [job[t] EXCEPT !.info = info]
  <1>2. info \in {None, "stub", "full"}
    BY CheckFacts DEF Client
  <1> HIDE DEF info
  <1>3. /\ j \in Job /\ j # None /\ j.op = job[t].op /\ j.id = job[t].id
        /\ j.light = job[t].light
    BY <1>2, CheckFacts, NoneAssumption DEF Job
  <1>4. /\ pc' = [pc EXCEPT ![t] = "open"] /\ job' = [job EXCEPT ![t] = j]
        /\ client' = [client EXCEPT ![program[t]] = Mine(t)]
        /\ UNCHANGED <<sdk, program, file, late, first, excused, interrupted, clash>>
    BY <1>1, CallFacts DEF Answered, Goto, setting, history, info, TypeInv, TypeOK
  <1> HIDE DEF j
  <1>5. Fits(t, "open", j, Mine(t)) /\ "open" \in PC
    BY <1>3, CheckFacts DEF Fits, Starting, Checking, Saving, PC
  <1> QED
    BY <1>3, <1>4, <1>5, CheckFacts, CallFacts, CallTyped

\* A check that goes on with the heartbeat it was about to send.
LEMMA OnTyped ==
    ASSUME TypeInv, NEW t \in Threads, pc[t] \in Checking,
           NEW l \in {"ensure", "receive", "collect", "full"}, Goto(t, l),
           NEW j \in Job, job' = [job EXCEPT ![t] = j],
           j.op # "start", j.id # None, j.light => j.op = "progressive",
           NEW c \in Client, MayBecome(t, c), l = "collect" => ~c.facts,
           client' = [client EXCEPT ![program[t]] = c],
           UNCHANGED <<sdk, program, late, file, first, excused>>,
           interrupted' \in BOOLEAN, clash' \in BOOLEAN
    PROVE  TypeInv'
  <1>1. Fits(t, l, j, c) /\ l \in PC
    BY NoneAssumption DEF Fits, Starting, Checking, Saving, PC
  <1> QED
    BY <1>1, CheckFacts, CallTyped DEF Goto

LEMMA LightHeartbeatTyped ==
    ASSUME TypeInv, NEW t \in Threads, LightHeartbeat(t)
    PROVE  TypeInv'
  <1>1. pc[t] = "light" /\ pc[t] \in Checking
    BY DEF LightHeartbeat, Checking
  <1>2. CASE Answered(t)
    BY <1>1, <1>2, AnsweredTyped
  <1>3. CASE ~Answered(t)
    <2> DEFINE j == [job[t] EXCEPT !.op = "check"]
    <2>1. j \in Job /\ j.op = "check" /\ j.id # None /\ ~j.light
      BY <1>1, CheckFacts DEF Job, TypeInv, CallOf
    <2>2. /\ Goto(t, "ensure") /\ job' = [job EXCEPT ![t] = j]
          /\ UNCHANGED <<sdk, program, file, client, late, first, excused, interrupted, clash>>
      BY <1>3 DEF LightHeartbeat, setting, history, TypeInv, TypeOK
    <2> HIDE DEF j
    <2> QED
      BY <1>1, <2>1, <2>2, CheckFacts, CallFacts, OnTyped
  <1> QED
    BY <1>2, <1>3

LEMMA EnsureTyped ==
    ASSUME TypeInv, NEW t \in Threads, EnsureDeviceInfo(t)
    PROVE  TypeInv'
  <1> DEFINE c == Mine(t)
             e == [c EXCEPT !.facts = FALSE]
  <1>1. /\ pc[t] \in Checking /\ c = client[program[t]]
        /\ UNCHANGED <<sdk, program, file, job, late, first, excused, interrupted>>
        /\ clash' \in BOOLEAN
    BY DEF EnsureDeviceInfo, Checking, setting, TypeInv, TypeOK, Mine
  <1>2. c \in Client /\ c # None /\ program[t] \in Programs
    BY <1>1, CheckFacts, CallFacts
  <1>3. /\ e \in Client /\ MayBecome(t, e) /\ ~e.facts
        /\ Completed(c) \in Client /\ (~c.facts => MayBecome(t, Completed(c)))
    <2> HIDE DEF c
    <2> QED
      BY <1>1, <1>2, CheckFacts, NoneAssumption DEF MayBecome, Client, Completed
  <1>4. sdk = "typescript" => ~c.facts
    BY <1>2 DEF TypeInv, FactsOf, Mine
  <1>5. PICK l \in {"full", "collect", "receive"} :
           /\ Goto(t, l)
           /\ \/ client' = client /\ l # "collect"
              \/ client' = [client EXCEPT ![program[t]] = e]
              \/ client' = [client EXCEPT ![program[t]] = Completed(c)] /\ ~c.facts /\ l # "collect"
    <2>1. CASE ~c.deferred
      BY <1>1, <2>1 DEF EnsureDeviceInfo
    <2>2. CASE c.deferred /\ sdk = "typescript"
      <3>1. client' = [client EXCEPT ![program[t]] = Completed(c)] /\ Goto(t, "full")
        BY <1>1, <1>2, <2>2 DEF EnsureDeviceInfo, TypeInv, TypeOK
      <3> QED
        BY <1>4, <2>2, <3>1
    <2>3. CASE c.deferred /\ (sdk = "python" \/ (sdk = "go" /\ ~c.facts))
      <3>1. client' = [client EXCEPT ![program[t]] = e] /\ Goto(t, "collect")
        BY <1>1, <1>2, <2>3 DEF EnsureDeviceInfo, TypeInv, TypeOK
      <3> QED
        BY <3>1
    <2>4. CASE c.deferred /\ sdk = "go" /\ c.facts
      BY <1>1, <2>4 DEF EnsureDeviceInfo
    <2> QED
      BY <1>1, <2>1, <2>2, <2>3, <2>4 DEF EnsureDeviceInfo
  <1> HIDE DEF e
  <1> QED
    BY <1>1, <1>2, <1>3, <1>5, CheckFacts, CallFacts, OnTyped

LEMMA FactsArriveTyped ==
    ASSUME TypeInv, NEW t \in Threads, ReceiveFacts(t) \/ CollectFacts(t)
    PROVE  TypeInv'
  <1> DEFINE c == Mine(t)
             e == Completed([c EXCEPT !.facts = FALSE])
  <1>1. /\ pc[t] \in Checking /\ c = client[program[t]] /\ Goto(t, "full")
        /\ UNCHANGED <<sdk, program, file, job, late, first, excused, interrupted, clash>>
    BY DEF ReceiveFacts, CollectFacts, Checking, setting, history, Mine
  <1>2. c \in Client /\ c # None /\ program[t] \in Programs
    BY <1>1, CheckFacts, CallFacts
  <1>3. CASE ReceiveFacts(t)
    <2>1. client' = [client EXCEPT ![program[t]] = e]
      BY <1>1, <1>2, <1>3 DEF ReceiveFacts, TypeInv, TypeOK
    <2>2. e \in Client /\ MayBecome(t, e)
      <3> HIDE DEF c
      <3> QED
        BY <1>1, <1>2, CheckFacts, NoneAssumption DEF MayBecome, Client, Completed
    <2> HIDE DEF e
    <2> QED
      BY <1>1, <1>2, <2>1, <2>2, CheckFacts, OnTyped
  <1>4. CASE CollectFacts(t)
    <2>1. client' = [client EXCEPT ![program[t]] = Completed(c)]
      BY <1>1, <1>2, <1>4 DEF CollectFacts, TypeInv, TypeOK
    <2>2. ~c.facts
      BY <1>4 DEF CollectFacts, TypeInv, CallOf, Mine
    <2>3. Completed(c) \in Client /\ MayBecome(t, Completed(c))
      <3> HIDE DEF c
      <3> QED
        BY <1>1, <1>2, <2>2, CheckFacts, NoneAssumption DEF MayBecome, Client, Completed
    <2> QED
      BY <1>1, <1>2, <2>1, <2>3, CheckFacts, OnTyped
  <1> QED
    BY <1>3, <1>4

LEMMA FullHeartbeatTyped ==
    ASSUME TypeInv, NEW t \in Threads, FullHeartbeat(t)
    PROVE  TypeInv'
  <1>1. pc[t] \in Checking
    BY DEF FullHeartbeat, Checking
  <1>2. CASE Answered(t)
    BY <1>1, <1>2, AnsweredTyped
  <1>3. CASE FullFails(t) /\ UNCHANGED late
    <2>1. /\ Finish(t)
          /\ UNCHANGED <<sdk, program, late, file, client, first, excused, clash>>
          /\ interrupted' \in BOOLEAN
      BY <1>3 DEF FullFails, setting
    <2> QED
      BY <1>1, <2>1, CheckFacts, CallFacts, FinishTyped
  <1> QED
    BY <1>2, <1>3 DEF FullHeartbeat

\* A heartbeat thread that is left behind: its client has no facts ahead.
LEMMA DeadlineTyped ==
    ASSUME TypeInv, NEW t \in Threads, Deadline(t)
    PROVE  TypeInv'
  <1> DEFINE p == program[t]
  <1>1. /\ pc[t] = "collect" /\ pc[t] \in Checking
        /\ pc' = [pc EXCEPT ![t] = "idle"] /\ job' = [job EXCEPT ![t] = None]
        /\ late' = late \cup {p}
        /\ UNCHANGED <<sdk, program, file, client, first, excused, clash>>
        /\ interrupted' \in BOOLEAN
    BY DEF Deadline, FullFails, Finish, Goto, setting, Checking
  <1>2. /\ p \in Programs /\ client[p] # None /\ ~client[p].facts
        /\ job[t].op # "start"
    BY <1>1, CallFacts, CheckFacts DEF TypeInv, CallOf, Mine
  <1>3. \A u \in ThreadsOf(p) : ~Busy(u, "start")
    BY <1>1, <1>2 DEF TypeInv, CallOf, ThreadsOf, Busy
  <1>4. TypeOK'
    BY <1>1, <1>2 DEF TypeInv, TypeOK, PC, Checking
  <1>5. ASSUME NEW u \in Threads PROVE CallOf(u)'
    <2>1. CASE u = t
      BY <1>1, <2>1 DEF TypeInv, TypeOK, CallOf, Busy, Checking, Saving
    <2>2. CASE u # t
      <3>1. /\ pc'[u] = pc[u] /\ job'[u] = job[u] /\ Mine(u)' = Mine(u)
            /\ \A v \in Threads : pc'[v] \in {pc[v], "idle"}
        BY <1>1, <2>2 DEF TypeInv, TypeOK, Mine
      <3>2. Busy(u, "start") => program[u] \notin late'
        BY <1>1, <1>3 DEF TypeInv, CallOf, ThreadsOf
      <3> QED
        BY <1>1, <3>1, <3>2 DEF TypeInv, CallOf, Busy, ThreadsOf
    <2> QED
      BY <2>1, <2>2
  <1>6. \A q \in Programs : FactsOf(q)'
    BY <1>1, <1>2 DEF TypeInv, FactsOf
  <1> QED
    BY <1>4, <1>5, <1>6 DEF TypeInv

LEMMA LateCollectsTyped ==
    ASSUME TypeInv, NEW p \in Programs, LateCollects(p)
    PROVE  TypeInv'
  <1>1. /\ p \in late /\ client[p] \in Client /\ client[p] # None /\ ~client[p].facts
        /\ late' = late \ {p}
        /\ client' = [client EXCEPT ![p] = Completed(client[p])]
        /\ UNCHANGED <<sdk, program, file, pc, job, first, excused, interrupted, clash>>
    BY DEF LateCollects, TypeInv, TypeOK, FactsOf, setting, history
  <1>2. /\ Completed(client[p]) \in Client /\ Completed(client[p]) # None
        /\ ~Completed(client[p]).facts
    BY <1>1, NoneAssumption DEF Completed, Client
  <1>3. TypeOK'
    BY <1>1, <1>2 DEF TypeInv, TypeOK
  <1>4. ASSUME NEW u \in Threads PROVE CallOf(u)'
    <2>1. program[u] = p => ~Busy(u, "start")
      BY <1>1 DEF TypeInv, CallOf
    <2>2. program[u] = p => Mine(u)' = Completed(client[p])
      BY <1>1 DEF TypeInv, TypeOK, Mine
    <2>3. program[u] # p => Mine(u)' = Mine(u)
      BY <1>1 DEF TypeInv, TypeOK, Mine
    <2>4. pc[u] = "snapshot" => Busy(u, "start")
      BY DEF TypeInv, CallOf, Busy
    <2> QED
      BY <1>1, <1>2, <2>1, <2>2, <2>3, <2>4 DEF TypeInv, CallOf, Busy, ThreadsOf
  <1>5. \A q \in Programs : FactsOf(q)'
    BY <1>1, <1>2 DEF TypeInv, TypeOK, FactsOf
  <1> QED
    BY <1>3, <1>4, <1>5 DEF TypeInv

LEMMA EndsTyped ==
    ASSUME TypeInv, NEW p \in Programs, Ends(p)
    PROVE  TypeInv'
  <1>1. /\ client' = [client EXCEPT ![p] = None]
        /\ pc' = [t \in Threads |-> IF program[t] = p THEN "idle" ELSE pc[t]]
        /\ job' = [t \in Threads |-> IF program[t] = p THEN None ELSE job[t]]
        /\ late' = late \ {p}
        /\ UNCHANGED <<sdk, program, file, clash>>
        /\ first' \in {None, first} /\ excused' \in BOOLEAN /\ interrupted' \in BOOLEAN
    BY DEF Ends, ExcuseIf, setting
  <1>2. TypeOK'
    BY <1>1 DEF TypeInv, TypeOK, PC, Checking
  <1>3. ASSUME NEW u \in Threads PROVE CallOf(u)'
    <2>1. CASE program[u] = p
      BY <1>1, <2>1 DEF TypeInv, TypeOK, CallOf, Busy, Checking, Saving
    <2>2. CASE program[u] # p
      <3>1. /\ pc'[u] = pc[u] /\ job'[u] = job[u] /\ Mine(u)' = Mine(u)
            /\ \A v \in Threads : pc'[v] \in {pc[v], "idle"}
        BY <1>1, <2>2 DEF TypeInv, TypeOK, Mine
      <3> QED
        BY <1>1, <3>1 DEF TypeInv, CallOf, Busy, ThreadsOf
    <2> QED
      BY <2>1, <2>2
  <1>4. \A q \in Programs : FactsOf(q)'
    BY <1>1 DEF TypeInv, TypeOK, FactsOf
  <1> QED
    BY <1>2, <1>3, <1>4 DEF TypeInv

LEMMA TypeSame ==
    ASSUME TypeInv, UNCHANGED <<sdk, program, client, pc, job, late, interrupted, clash>>,
           file' \in Row \cup {None}, first' \in Mac \cup {None}, excused' \in BOOLEAN
    PROVE  TypeInv'
  <1>1. TypeOK'
    BY DEF TypeInv, TypeOK
  <1>2. \A t \in Threads : CallOf(t)'
    BY DEF TypeInv, CallOf, Busy, Mine, ThreadsOf
  <1>3. \A p \in Programs : FactsOf(p)'
    BY DEF TypeInv, FactsOf
  <1> QED
    BY <1>1, <1>2, <1>3 DEF TypeInv

LEMMA TypeStep ==
    ASSUME TypeInv, [Next]_vars
    PROVE  TypeInv'
  <1> USE IdentityAssumption
  <1>1. ASSUME NEW t \in Threads, LoadId(t) PROVE TypeInv'
    BY <1>1, LoadIdTyped
  <1>2. ASSUME NEW t \in Threads, Step(t) PROVE TypeInv'
    BY <1>2, FindIdTyped, MakeIdTyped, LoadSnapshotTyped, SavingTyped, LightHeartbeatTyped,
       EnsureTyped, FactsArriveTyped, FullHeartbeatTyped, DeadlineTyped DEF Step
  <1>3. ASSUME NEW t \in Threads, NEW o \in {"check", "progressive"}, StartCheck(t, o)
        PROVE  TypeInv'
    BY <1>3, StartCheckTyped
  <1>4. ASSUME NEW p \in Programs, LateCollects(p) \/ Ends(p) PROVE TypeInv'
    BY <1>4, LateCollectsTyped, EndsTyped
  <1>5. CASE FileLost
    BY <1>5, TypeSame DEF FileLost, ExcuseIf, setting, TypeInv, TypeOK
  <1>6. CASE UNCHANGED vars
    BY <1>6, TypeSame DEF vars, TypeInv, TypeOK
  <1> QED
    BY <1>1, <1>2, <1>3, <1>4, <1>5, <1>6 DEF Next

\* TypeOK holds of every machine with any number of programs and threads.
THEOREM IdentityTypeCorrect == Spec => []TypeOK
  <1>1. TypeInv => TypeOK
    BY DEF TypeInv
  <1> QED
    BY <1>1, TypeInit, TypeStep, PTL DEF Spec

\* No start takes a virtual card for a real one that has an address, whatever
\* interfaces the machine has and in whatever order they are listed.
THEOREM RealCardsPreferred == Spec => []PhysicalFirst
  <1>1. ASSUME TypeInv PROVE PhysicalFirst
    <2> SUFFICES ASSUME NEW t \in Threads, pc[t] \in Making,
                        BuildId(job[t].network).virtual,
                        NEW k \in DOMAIN job[t].network,
                        job[t].network[k].up, job[t].network[k].mac # None,
                        ~job[t].network[k].mac.virtual
                 PROVE  ~Addressed(job[t].network[k])
      BY DEF PhysicalFirst
    <2>1. job[t].network \in Networks
      BY <1>1 DEF TypeInv, CallOf
    <2> QED
      BY <2>1, RealBeforeVirtual DEF BuildId
  <1> QED
    BY <1>1, TypeInit, TypeStep, PTL DEF Spec

(***************************************************************************)
(* The id survives.  Inductive: while a first id is known, every trace of  *)
(* an id has it, no start is making one, and the file is only empty while  *)
(* somebody writes it; before the first id there is nothing but at most    *)
(* one start that is making it; and after an excuse nothing is said.       *)
(***************************************************************************)
Maker(t) == Busy(t, "start") /\ pc[t] \in Making \cup {"open", "fill"}

KeepsFirst(i) ==
    /\ file # None => file.id = i
    /\ file = None => \E u \in Threads : pc[u] = "fill"
    /\ \A p \in Programs : client[p] # None => client[p].id = i
    /\ \A t \in Threads : pc[t] # "idle" => job[t].id = i /\ ~Maker(t)

NothingYet ==
    /\ file = None
    /\ \A p \in Programs : client[p] = None
    /\ \A t \in Threads : pc[t] # "idle" => Maker(t)
    /\ \A t, u \in Threads : pc[t] # "idle" /\ pc[u] # "idle" => t = u

IdInv ==
    /\ excused => first = None
    /\ first # None => KeepsFirst(first)
    /\ first = None /\ ~excused => NothingYet

\* A step of thread t that goes on with the id its call has, or ends it.
LEMMA IdKept ==
    ASSUME TypeInv, IdInv, NEW t \in Threads,
           UNCHANGED <<program, first, excused>>,
           \A q \in Programs : client'[q] # None =>
               client[q] # None /\ client'[q].id = client[q].id,
           \A u \in Threads : u # t => pc'[u] = pc[u] /\ job'[u] = job[u],
           pc'[t] # "idle" => /\ pc[t] # "idle" /\ job'[t].id = job[t].id
                              /\ (Maker(t)' <=> Maker(t)),
           pc[t] # "fill", file' = file \/ (file' = None /\ pc'[t] = "fill")
    PROVE  IdInv'
  <1>1. CASE first # None
    <2>1. \A u \in Threads : pc'[u] # "idle" => job'[u].id = first /\ ~Maker(u)'
      BY <1>1 DEF IdInv, KeepsFirst, Maker, Busy
    <2>2. file' = None => \E u \in Threads : pc'[u] = "fill"
      BY <1>1 DEF IdInv, KeepsFirst
    <2> QED
      BY <1>1, <2>1, <2>2 DEF IdInv, KeepsFirst
  <1>2. CASE first = None /\ ~excused
    <2>1. \A u \in Threads : pc'[u] # "idle" => pc[u] # "idle" /\ Maker(u)'
      BY <1>2 DEF IdInv, NothingYet, Maker, Busy
    <2> QED
      BY <1>2, <2>1 DEF IdInv, NothingYet
  <1>3. CASE first = None /\ excused
    BY <1>3 DEF IdInv
  <1> QED
    BY <1>1, <1>2, <1>3

LEMMA LoadIdKeeps ==
    ASSUME TypeInv, IdInv, NEW t \in Threads, LoadId(t)
    PROVE  IdInv'
  <1> DEFINE p == program[t]
  <1> USE NoneAssumption
  <1>1. p \in Programs /\ pc[t] = "idle" /\ program' = program /\ file' = file
    BY CallFacts DEF LoadId, ThreadsOf, setting
  <1>2. CASE file # None
    <2>1. /\ client' = [client EXCEPT ![p] = Deferred(file.id)]
          /\ pc' = [pc EXCEPT ![t] = "snapshot"]
          /\ job' = [job EXCEPT ![t] = NewJob("start", file.id)]
          /\ first' = IF excused \/ first # None THEN first ELSE file.id
          /\ excused' = excused
      BY <1>2 DEF LoadId, Constructed, Remember, Goto
    <2>2. first # None \/ excused
      BY <1>2 DEF IdInv, NothingYet
    <2>3. CASE first # None
      <3>1. \A u \in Threads : pc'[u] # "idle" => job'[u].id = first /\ ~Maker(u)'
        BY <2>1, <2>3, <1>2 DEF IdInv, KeepsFirst, Maker, Busy, TypeInv, TypeOK, NewJob
      <3>2. \A q \in Programs : client'[q] # None => client'[q].id = first
        BY <2>1, <2>3, <1>1, <1>2 DEF IdInv, KeepsFirst, TypeInv, TypeOK, Deferred
      <3> QED
        BY <1>1, <1>2, <2>1, <2>3, <3>1, <3>2 DEF IdInv, KeepsFirst
    <2>4. CASE first = None
      BY <2>1, <2>2, <2>4 DEF IdInv
    <2> QED
      BY <2>3, <2>4
  <1>3. CASE file = None
    <2> DEFINE late_one == \E u \in Threads :
                  pc[u] = "fill" \/ (pc[u] \in Making \cup {"open"} /\ Busy(u, "start"))
    <2>1. /\ first' = IF late_one THEN None ELSE first
          /\ excused' = (excused \/ late_one)
          /\ client' = client /\ pc' = [pc EXCEPT ![t] = "make"]
      BY <1>3 DEF LoadId, ExcuseIf, Goto
    <2>2. CASE late_one \/ excused
      BY <2>1, <2>2 DEF IdInv
    <2>3. CASE ~late_one /\ ~excused
      <3>1. first = None
        BY <1>3, <2>3 DEF IdInv, KeepsFirst
      <3>2. \A u \in Threads : pc[u] = "idle"
        BY <2>3, <3>1 DEF IdInv, NothingYet, Maker
      <3>3. Busy(t, "start")' /\ pc'[t] = "make"
        <4>1. PICK n \in Networks :
                 job' = [job EXCEPT ![t] = [NewJob("start", None) EXCEPT !.network = n]]
          BY <1>3 DEF LoadId
        <4>2. job'[t].op = "start"
          BY <4>1 DEF TypeInv, TypeOK, NewJob
        <4> QED
          BY <2>1, <4>2 DEF TypeInv, TypeOK, Busy
      <3>4. \A u \in Threads : u # t => pc'[u] = "idle"
        BY <2>1, <3>2 DEF TypeInv, TypeOK
      <3> QED
        BY <1>1, <2>1, <2>3, <3>1, <3>3, <3>4 DEF IdInv, NothingYet, Maker
    <2> QED
      BY <2>2, <2>3
  <1> QED
    BY <1>2, <1>3

\* Before a first id is known, and nothing was excused, there is no row to find.
LEMMA FindIdKeeps ==
    ASSUME TypeInv, IdInv, NEW t \in Threads, FindId(t)
    PROVE  IdInv'
  <1>1. pc[t] = "make" /\ Maker(t)
    BY DEF FindId, Making, Maker, Busy, TypeInv, CallOf
  <1>2. first = None
    BY <1>1 DEF IdInv, KeepsFirst
  <1>3. CASE file # None
    <2>1. excused
      BY <1>2, <1>3 DEF IdInv, NothingYet
    <2>2. first' = None /\ excused'
      BY <1>2, <1>3, <2>1 DEF FindId, Remember
    <2> QED
      BY <2>2 DEF IdInv
  <1>4. CASE file = None
    <2>1. /\ pc' = [pc EXCEPT ![t] = "hash"]
          /\ UNCHANGED <<file, client, job, first, excused>>
      BY <1>4 DEF FindId, Goto
    <2>2. CASE excused
      BY <1>2, <2>1, <2>2 DEF IdInv
    <2>3. CASE ~excused
      <3>1. Maker(t)'
        BY <1>1, <2>1 DEF Making, Maker, Busy, TypeInv, TypeOK
      <3>2. \A u \in Threads : u # t => pc'[u] = "idle"
        BY <1>1, <1>2, <2>1, <2>3 DEF IdInv, NothingYet, TypeInv, TypeOK, Maker, Busy
      <3> QED
        BY <1>2, <2>1, <2>3, <3>1, <3>2 DEF IdInv, NothingYet
    <2> QED
      BY <2>2, <2>3
  <1> QED
    BY <1>3, <1>4

LEMMA MakeIdKeeps ==
    ASSUME TypeInv, IdInv, NEW t \in Threads, MakeId(t)
    PROVE  IdInv'
  <1>1. /\ pc[t] \in Making /\ Maker(t)
        /\ UNCHANGED <<file, client, first, excused>>
        /\ pc' = [pc EXCEPT ![t] = "open"]
    BY DEF MakeId, Goto, Making, Maker, Busy, TypeInv, CallOf
  <1>2. first = None
    BY <1>1 DEF IdInv, KeepsFirst
  <1>3. CASE excused
    BY <1>1, <1>2, <1>3 DEF IdInv
  <1>4. CASE ~excused
    <2>1. \A u \in Threads : u # t => pc'[u] = "idle"
      BY <1>1, <1>2, <1>4 DEF IdInv, NothingYet, TypeInv, TypeOK
    <2>2. job'[t].op = "start"
      BY DEF MakeId, TypeInv, TypeOK, NewJob
    <2>3. Maker(t)'
      BY <1>1, <2>2 DEF Maker, Busy, TypeInv, TypeOK
    <2> QED
      BY <1>1, <1>2, <1>4, <2>1, <2>3 DEF IdInv, NothingYet
  <1> QED
    BY <1>3, <1>4

\* The other steps of a start, and those of a check up to the saving of what the
\* server answered.
LEMMA CheckKeeps ==
    ASSUME TypeInv, IdInv, NEW t \in Threads,
           \/ LoadSnapshot(t) \/ LightHeartbeat(t) \/ EnsureDeviceInfo(t)
           \/ ReceiveFacts(t) \/ CollectFacts(t) \/ FullHeartbeat(t) \/ Deadline(t)
    PROVE  IdInv'
  <1> DEFINE p == program[t]
  <1>1. /\ pc[t] \in Checking \cup {"snapshot"}
        /\ UNCHANGED <<program, file, first, excused>>
    BY DEF LoadSnapshot, LightHeartbeat, EnsureDeviceInfo, ReceiveFacts, CollectFacts,
       FullHeartbeat, FullFails, Answered, Deadline, setting, history, Checking
  <1>2. /\ p \in Programs /\ job[t] \in Job
        /\ client[p] \in Client /\ client[p] # None
    BY <1>1, CallFacts DEF TypeInv, CallOf, TypeOK, Mine, Checking
  <1>3. /\ \A u \in Threads : u # t => pc'[u] = pc[u] /\ job'[u] = job[u]
        /\ pc'[t] # "idle" => job'[t].id = job[t].id
    <2>1. ASSUME Finish(t)
          PROVE  /\ \A u \in Threads : u # t => pc'[u] = pc[u] /\ job'[u] = job[u]
                 /\ pc'[t] = "idle"
      BY <2>1 DEF Finish, Goto, TypeInv, TypeOK
    <2>2. ASSUME Answered(t)
          PROVE  /\ \A u \in Threads : u # t => pc'[u] = pc[u] /\ job'[u] = job[u]
                 /\ job'[t].id = job[t].id
      BY <2>2, <1>2 DEF Answered, Goto, TypeInv, TypeOK, Job
    <2>3. CASE LoadSnapshot(t) \/ FullFails(t) \/ Deadline(t)
      BY <2>1, <2>3 DEF LoadSnapshot, FullFails, Deadline
    <2>4. CASE LightHeartbeat(t) /\ ~Answered(t)
      BY <2>4, <1>2 DEF LightHeartbeat, Goto, TypeInv, TypeOK, Job
    <2>5. CASE EnsureDeviceInfo(t) \/ ReceiveFacts(t) \/ CollectFacts(t)
      <3>1. /\ job' = job
            /\ \E l \in PC : Goto(t, l)
        BY <2>5 DEF EnsureDeviceInfo, ReceiveFacts, CollectFacts, PC, Checking
      <3> QED
        BY <3>1 DEF Goto, TypeInv, TypeOK
    <2> QED
      BY <2>2, <2>3, <2>4, <2>5 DEF FullHeartbeat
  <1>4. ASSUME NEW q \in Programs, client'[q] # None
        PROVE  client[q] # None /\ client'[q].id = client[q].id
    <2>1. \/ client' = client
          \/ \E c \in Client : c.id = client[p].id /\ client' = [client EXCEPT ![p] = c]
      <3> DEFINE c0 == client[p]
      <3> HIDE DEF c0
      <3>1. c0 = client[p] /\ c0 \in Client
        BY <1>2 DEF c0
      <3>2. CASE LoadSnapshot(t)
        <4> DEFINE found == file # None /\ file.info # None
                   c == IF found THEN [c0 EXCEPT !.info = file.info, !.deferred = FALSE]
                                 ELSE [c0 EXCEPT !.facts = sdk # "typescript"]
        <4>1. client' = [client EXCEPT ![p] = c]
          BY <1>2, <3>1, <3>2 DEF LoadSnapshot, TypeInv, TypeOK
        <4>2. found => file.info \in {"stub", "full"}
          BY DEF TypeInv, TypeOK, Row
        <4>3. c \in Client /\ c.id = c0.id
          BY <3>1, <4>2 DEF Client
        <4> HIDE DEF c
        <4> QED
          BY <3>1, <4>1, <4>3
      <3>3. CASE EnsureDeviceInfo(t)
        <4>1. /\ [c0 EXCEPT !.facts = FALSE] \in Client
              /\ [c0 EXCEPT !.facts = FALSE].id = c0.id
              /\ Completed(c0) \in Client /\ Completed(c0).id = c0.id
          BY <3>1 DEF Client, Completed
        <4>2. \/ client' = client
              \/ client' = [client EXCEPT ![p] = [c0 EXCEPT !.facts = FALSE]]
              \/ client' = [client EXCEPT ![p] = Completed(c0)]
          BY <1>2, <3>1, <3>3 DEF EnsureDeviceInfo, TypeInv, TypeOK
        <4> QED
          BY <3>1, <4>1, <4>2
      <3>4. CASE ReceiveFacts(t)
        <4> DEFINE c == Completed([c0 EXCEPT !.facts = FALSE])
        <4>1. client' = [client EXCEPT ![p] = c]
          BY <1>2, <3>1, <3>4 DEF ReceiveFacts, TypeInv, TypeOK
        <4>2. c \in Client /\ c.id = c0.id
          BY <3>1 DEF Client, Completed
        <4> HIDE DEF c
        <4> QED
          BY <3>1, <4>1, <4>2
      <3>5. CASE CollectFacts(t)
        <4>1. client' = [client EXCEPT ![p] = Completed(c0)]
          BY <1>2, <3>1, <3>5 DEF CollectFacts, TypeInv, TypeOK
        <4>2. Completed(c0) \in Client /\ Completed(c0).id = c0.id
          BY <3>1 DEF Client, Completed
        <4> QED
          BY <3>1, <4>1, <4>2
      <3>6. CASE LightHeartbeat(t) \/ FullHeartbeat(t) \/ Deadline(t)
        BY <3>6 DEF LightHeartbeat, FullHeartbeat, Deadline, Answered, FullFails
      <3> QED
        BY <3>2, <3>3, <3>4, <3>5, <3>6
    <2> QED
      BY <1>2, <1>4, <2>1 DEF TypeInv, TypeOK
  <1>5. pc'[t] # "idle" => ~Maker(t) /\ ~Maker(t)'
    <2>1. pc'[t] # "idle" => pc[t] \in Checking
      BY <1>1 DEF LoadSnapshot, Finish, Goto, LightHeartbeat, EnsureDeviceInfo, ReceiveFacts,
         CollectFacts, FullHeartbeat, Deadline, Checking, TypeInv, TypeOK
    <2>2. pc'[t] # "idle" => job[t].op # "start"
      BY <2>1, CheckFacts
    <2>3. pc'[t] # "idle" => job'[t].op # "start"
      <3>1. ASSUME Answered(t) PROVE job'[t].op = job[t].op
        BY <3>1, <1>2 DEF Answered, TypeInv, TypeOK, Job
      <3>2. CASE LightHeartbeat(t) /\ ~Answered(t)
        BY <3>2, <1>2 DEF LightHeartbeat, TypeInv, TypeOK, Job
      <3>3. CASE EnsureDeviceInfo(t) \/ ReceiveFacts(t) \/ CollectFacts(t)
        BY <2>2, <3>3 DEF EnsureDeviceInfo, ReceiveFacts, CollectFacts
      <3>4. CASE LoadSnapshot(t) \/ FullFails(t) \/ Deadline(t)
        BY <3>4 DEF LoadSnapshot, FullFails, Deadline, Finish, Goto, TypeInv, TypeOK
      <3> QED
        BY <2>2, <3>1, <3>2, <3>3, <3>4 DEF FullHeartbeat
    <2> QED
      BY <2>2, <2>3 DEF Maker, Busy
  <1>6. pc[t] # "idle" /\ pc[t] # "fill"
    BY <1>1 DEF Checking
  <1> QED
    BY <1>1, <1>3, <1>4, <1>5, <1>6, IdKept

LEMMA StartCheckKeeps ==
    ASSUME TypeInv, IdInv, NEW t \in Threads, NEW o \in {"check", "progressive"},
           StartCheck(t, o)
    PROVE  IdInv'
  <1> DEFINE p == program[t]
             l == IF o = "progressive" THEN "light" ELSE "ensure"
  <1>1. /\ p \in Programs /\ client[p] # None
        /\ pc' = [pc EXCEPT ![t] = l]
        /\ job' = [job EXCEPT ![t] = NewJob(o, client[p].id)]
        /\ UNCHANGED <<file, client, first, excused>>
    BY CallFacts DEF StartCheck, Goto, history
  <1>2. pc[t] = "idle"
    BY DEF StartCheck
  <1>3. CASE first # None
    <2>1. ~Maker(t)' /\ job'[t].id = first
      BY <1>1, <1>3 DEF Maker, Busy, NewJob, TypeInv, TypeOK, IdInv, KeepsFirst
    <2>2. \A u \in Threads : pc'[u] # "idle" => job'[u].id = first /\ ~Maker(u)'
      BY <1>1, <1>3, <2>1 DEF IdInv, KeepsFirst, Maker, Busy, TypeInv, TypeOK
    <2>3. file' = None => \E u \in Threads : pc'[u] = "fill"
      BY <1>1, <1>2, <1>3 DEF IdInv, KeepsFirst, TypeInv, TypeOK
    <2> QED
      BY <1>1, <1>3, <2>2, <2>3 DEF IdInv, KeepsFirst
  <1>4. CASE first = None /\ ~excused
    BY <1>1, <1>4 DEF IdInv, NothingYet
  <1>5. CASE first = None /\ excused
    BY <1>1, <1>5 DEF IdInv
  <1> QED
    BY <1>3, <1>4, <1>5

\* What follows a save: the client, if one is constructed, and the call, if it
\* goes on, have the id that was to be saved, and no call is making one.
LEMMA AfterSaveKeeps ==
    ASSUME TypeInv, NEW t \in Threads, pc[t] \in Saving, NEW saved \in BOOLEAN,
           AfterSave(t, saved)
    PROVE  /\ \A u \in Threads : u # t => pc'[u] = pc[u] /\ job'[u] = job[u]
           /\ pc'[t] # "idle" => job'[t].id = job[t].id /\ pc'[t] \in {"snapshot", "ensure"}
           /\ \A q \in Programs : \/ client'[q] = client[q]
                                  \/ client'[q].id = job[t].id /\ job[t].op = "start"
  <1>1. pc[t] # "idle" /\ job[t] \in Job
    BY CallFacts DEF Saving
  <1>2. CASE Finish(t)
    <2>1. \/ client' = client
          \/ /\ job[t].op = "start"
             /\ client' = [client EXCEPT ![program[t]] = Completed(Deferred(job[t].id))]
      BY <1>2 DEF AfterSave, Constructed, Finish, Goto, TypeInv, TypeOK
    <2>2. Completed(Deferred(job[t].id)).id = job[t].id
      BY DEF Completed, Deferred
    <2> QED
      BY <1>2, <2>1, <2>2 DEF Finish, Goto, TypeInv, TypeOK
  <1>3. CASE /\ job[t].op = "start"
             /\ client' = [client EXCEPT ![program[t]] = Deferred(job[t].id)]
             /\ Goto(t, "snapshot")
             /\ job' = [job EXCEPT ![t] = NewJob("start", job[t].id)]
    BY <1>3 DEF Goto, Deferred, NewJob, TypeInv, TypeOK
  <1>4. CASE GoesOn(t) /\ client' = client
    BY <1>1, <1>4 DEF GoesOn, Goto, TypeInv, TypeOK, Job
  <1> QED
    BY <1>2, <1>3, <1>4 DEF AfterSave, Constructed

LEMMA OpenFileKeeps ==
    ASSUME TypeInv, IdInv, NEW t \in Threads, OpenFile(t)
    PROVE  IdInv'
  <1>1. pc[t] = "open" /\ pc[t] \in Saving /\ program' = program
    BY DEF OpenFile, Saving, setting
  <1>2. CASE /\ file' = None /\ Goto(t, "fill")
             /\ UNCHANGED <<client, job, first, excused>>
    <2>1. Maker(t)' <=> Maker(t)
      BY <1>1, <1>2 DEF Maker, Busy, Goto, TypeInv, TypeOK
    <2> QED
      BY <1>1, <1>2, <2>1, IdKept DEF Goto, TypeInv, TypeOK
  <1>3. CASE AfterSave(t, FALSE) /\ ExcuseIf(job[t].op = "start") /\ UNCHANGED file
    <2>1. CASE job[t].op = "start"
      BY <1>3, <2>1 DEF ExcuseIf, IdInv
    <2>2. CASE job[t].op # "start"
      <3>1. first' = first /\ (excused' <=> excused) /\ excused' \in BOOLEAN
        BY <1>3, <2>2 DEF ExcuseIf
      <3>2. client' = client
        BY <1>3, <2>2 DEF AfterSave
      <3>3. excused' = excused
        BY <3>1 DEF TypeInv, TypeOK
      <3>4. ~Maker(t) /\ (pc'[t] # "idle" => ~Maker(t)')
        BY <1>1, <1>3, <2>2, AfterSaveKeeps DEF Maker, Busy
      <3> QED
        BY <1>1, <1>3, <3>1, <3>2, <3>3, <3>4, AfterSaveKeeps, IdKept
    <2> QED
      BY <2>1, <2>2
  <1> QED
    BY <1>2, <1>3 DEF OpenFile

LEMMA FillFileKeeps ==
    ASSUME TypeInv, IdInv, NEW t \in Threads, FillFile(t)
    PROVE  IdInv'
  <1>1. /\ pc[t] = "fill" /\ pc[t] \in Saving /\ program' = program
        /\ job[t].id # None /\ NewRow(t).id = job[t].id /\ NewRow(t) # None
    <2>1. pc[t] = "fill" /\ pc[t] \in Saving /\ program' = program
      BY DEF FillFile, Saving, setting
    <2>2. job[t] \in Job /\ job[t].id # None
      BY <2>1, CallFacts DEF TypeInv, CallOf, Saving
    <2>3. NewRow(t) \in Row
      BY <2>2 DEF NewRow, Row, Job
    <2> QED
      BY <2>1, <2>2, <2>3, NoneAssumption DEF NewRow
  <1>2. CASE ExcuseIf(TRUE)
    BY <1>2 DEF ExcuseIf, IdInv
  <1>3. CASE /\ file' = NewRow(t) /\ AfterSave(t, TRUE) /\ Remember(job[t].id)
    <2>1. excused' = excused
      BY <1>3 DEF Remember
    <2>2. ASSUME first # None \/ ~excused
          PROVE  /\ first' = job[t].id
                 /\ \A q \in Programs : client[q] # None => client[q].id = job[t].id
                 /\ \A u \in Threads : u # t /\ pc[u] # "idle" =>
                       job[u].id = job[t].id /\ ~Maker(u)
      <3>1. CASE first # None
        BY <1>1, <1>3, <3>1 DEF Remember, IdInv, KeepsFirst
      <3>2. CASE first = None /\ ~excused
        BY <1>1, <1>3, <3>2 DEF Remember, IdInv, NothingYet
      <3> QED
        BY <2>2, <3>1, <3>2
    <2>3. CASE first # None \/ ~excused
      <3>1. \A q \in Programs : client'[q] # None => client'[q].id = job[t].id
        BY <1>1, <1>3, <2>2, <2>3, AfterSaveKeeps
      <3>2. \A u \in Threads : pc'[u] # "idle" => job'[u].id = job[t].id /\ ~Maker(u)'
        BY <1>1, <1>3, <2>2, <2>3, AfterSaveKeeps DEF Maker, Busy
      <3> QED
        BY <1>1, <1>3, <2>1, <2>2, <2>3, <3>1, <3>2 DEF IdInv, KeepsFirst
    <2>4. CASE first = None /\ excused
      BY <1>3, <2>1, <2>4 DEF Remember, IdInv
    <2> QED
      BY <2>3, <2>4
  <1> QED
    BY <1>2, <1>3 DEF FillFile

LEMMA EnvironmentKeeps ==
    ASSUME TypeInv, IdInv,
           FileLost \/ \E p \in Programs : LateCollects(p) \/ Ends(p)
    PROVE  IdInv'
  <1>1. CASE FileLost
    BY <1>1 DEF FileLost, ExcuseIf, IdInv
  <1>2. ASSUME NEW p \in Programs, LateCollects(p) PROVE IdInv'
    <2>1. /\ client[p] \in Client /\ client[p] # None
          /\ client' = [client EXCEPT ![p] = Completed(client[p])]
          /\ UNCHANGED <<file, pc, job, first, excused>>
      BY <1>2 DEF LateCollects, TypeInv, TypeOK, FactsOf, history
    <2>2. Completed(client[p]).id = client[p].id
      BY <2>1 DEF Completed, Client
    <2>3. CASE first # None
      <3>1. \A q \in Programs : client'[q] # None => client'[q].id = first
        BY <2>1, <2>2, <2>3 DEF IdInv, KeepsFirst, TypeInv, TypeOK
      <3> QED
        BY <2>1, <2>3, <3>1 DEF IdInv, KeepsFirst, Maker, Busy
    <2>4. CASE first = None
      BY <2>1, <2>4 DEF IdInv, NothingYet
    <2> QED
      BY <2>3, <2>4
  <1>3. ASSUME NEW p \in Programs, Ends(p) PROVE IdInv'
    <2> DEFINE cut == \E t \in ThreadsOf(p) : pc[t] = "fill"
    <2>1. /\ client' = [client EXCEPT ![p] = None]
          /\ pc' = [t \in Threads |-> IF program[t] = p THEN "idle" ELSE pc[t]]
          /\ job' = [t \in Threads |-> IF program[t] = p THEN None ELSE job[t]]
          /\ file' = file
          /\ first' = IF cut THEN None ELSE first
          /\ excused' = (excused \/ cut)
      BY <1>3 DEF Ends, ExcuseIf
    <2>2. CASE cut \/ excused
      BY <2>1, <2>2 DEF IdInv
    <2>3. CASE ~cut /\ first # None
      <3>1. \A u \in Threads : pc[u] = "fill" => pc'[u] = "fill"
        BY <2>1, <2>3 DEF ThreadsOf
      <3>2. \A u \in Threads : pc'[u] # "idle" => pc'[u] = pc[u] /\ job'[u] = job[u]
        BY <2>1
      <3>3. \A q \in Programs : client'[q] # None => client'[q] = client[q]
        BY <2>1 DEF TypeInv, TypeOK
      <3> QED
        BY <2>1, <2>3, <3>1, <3>2, <3>3 DEF IdInv, KeepsFirst, Maker, Busy
    <2>4. CASE ~cut /\ ~excused /\ first = None
      <3>1. \A u \in Threads : pc'[u] # "idle" => pc'[u] = pc[u] /\ job'[u] = job[u]
        BY <2>1
      <3>2. \A q \in Programs : client'[q] = None
        BY <2>1, <2>4 DEF IdInv, NothingYet, TypeInv, TypeOK
      <3> QED
        BY <2>1, <2>4, <3>1, <3>2 DEF IdInv, NothingYet, Maker, Busy
    <2> QED
      BY <2>2, <2>3, <2>4
  <1> QED
    BY <1>1, <1>2, <1>3

LEMMA IdInit ==
    ASSUME Init
    PROVE  IdInv
  BY DEF Init, IdInv, NothingYet

LEMMA IdStep ==
    ASSUME TypeInv, IdInv, [Next]_vars
    PROVE  IdInv'
  <1>1. ASSUME NEW t \in Threads, Step(t) PROVE IdInv'
    BY <1>1, FindIdKeeps, MakeIdKeeps, OpenFileKeeps, FillFileKeeps, CheckKeeps DEF Step
  <1>2. CASE UNCHANGED vars
    BY <1>2 DEF vars, IdInv, KeepsFirst, NothingYet, Maker, Busy
  <1> QED
    BY <1>1, <1>2, LoadIdKeeps, StartCheckKeeps, EnvironmentKeeps DEF Next

\* A product keeps its first id until a start could not find it, for any number
\* of programs and threads.
THEOREM FirstIdKept == Spec => []IdentitySurvives
  <1>1. IdInv => IdentitySurvives
    BY DEF IdInv, KeepsFirst, IdentitySurvives, Saving
  <1>2. Init => TypeInv /\ IdInv
    BY TypeInit, IdInit
  <1>3. TypeInv /\ IdInv /\ [Next]_vars => (TypeInv /\ IdInv)'
    BY TypeStep, IdStep
  <1> QED
    BY <1>1, <1>2, <1>3, PTL DEF Spec

(***************************************************************************)
(* The snapshot without facts is made up.  Inductive: as long as no        *)
(* completion was interrupted, only a client whose collection is put off   *)
(* is without facts, a full heartbeat has them, only a light heartbeat is  *)
(* saved without, and while the file shows none a call is completing it.   *)
(***************************************************************************)
Whole(p) == client[p] # None /\ ~client[p].deferred => client[p].info = "full"

StubCall(t) ==
    /\ pc[t] = "full" => ~Mine(t).deferred
    /\ pc[t] # "idle" /\ job[t].info = "stub" =>
          pc[t] \in Saving /\ job[t].op = "progressive" /\ ~job[t].light

Completing(t) == Busy(t, "progressive") /\ job[t].light

StubInv == ~interrupted =>
    /\ \A p \in Programs : Whole(p)
    /\ \A t \in Threads : StubCall(t)
    /\ file # None /\ file.info = "stub" => \E t \in Threads : Completing(t)

LEMMA StubKept ==
    ASSUME TypeInv, TypeInv', StubInv, NEW t \in Threads, ~interrupted,
           program' = program,
           \A u \in Threads : u # t => pc'[u] = pc[u] /\ job'[u] = job[u],
           \A q \in Programs :
               \/ client'[q] = client[q]
               \/ /\ client'[q] # None /\ Whole(q)'
                  /\ client[q] # None /\ ~client[q].deferred => ~client'[q].deferred,
           StubCall(t)',
           file' # None /\ file'.info = "stub" =>
               Completing(t)' \/ (file' = file /\ ~Completing(t))
    PROVE  StubInv'
  <1>1. ASSUME NEW q \in Programs PROVE Whole(q)'
    <2>1. CASE client'[q] = client[q]
      BY <2>1 DEF StubInv, Whole
    <2> QED
      BY <2>1
  <1>2. ASSUME NEW u \in Threads, u # t PROVE StubCall(u)'
    <2>1. pc'[u] = pc[u] /\ job'[u] = job[u] /\ program[u] \in Programs
      BY <1>2, CallFacts
    <2>2. CASE pc[u] = "full"
      <3>1. client[program[u]] # None /\ ~client[program[u]].deferred
        BY <2>2 DEF StubInv, StubCall, TypeInv, TypeOK, Checking, Mine
      <3>2. ~client'[program[u]].deferred
        BY <2>1, <3>1
      <3> QED
        BY <2>1, <2>2, <3>2 DEF StubInv, StubCall, Mine
    <2>3. CASE pc[u] # "full"
      BY <2>1, <2>3 DEF StubInv, StubCall
    <2> QED
      BY <2>2, <2>3
  <1>3. ASSUME file' # None, file'.info = "stub"
        PROVE  \E u \in Threads : Completing(u)'
    <2>1. CASE file' = file /\ ~Completing(t)
      <3>1. PICK u \in Threads : Completing(u)
        BY <1>3, <2>1 DEF StubInv
      <3>2. u # t
        BY <2>1, <3>1
      <3> QED
        BY <3>1, <3>2 DEF Completing, Busy
    <2> QED
      BY <1>3, <2>1
  <1> QED
    BY <1>1, <1>2, <1>3 DEF StubInv

LEMMA LoadIdStub ==
    ASSUME TypeInv, StubInv, NEW t \in Threads, LoadId(t)
    PROVE  StubInv'
  <1> DEFINE p == program[t]
  <1> USE NoneAssumption
  <1>1. /\ p \in Programs /\ pc[t] = "idle" /\ program' = program /\ file' = file
        /\ interrupted' = interrupted /\ client[p] = None
    BY CallFacts DEF LoadId, ThreadsOf, setting
  <1>2. TypeInv'
    BY LoadIdTyped
  <1>3. ~Completing(t)
    BY <1>1 DEF Completing, Busy
  <1>4. CASE file # None
    <2>1. /\ client' = [client EXCEPT ![p] = Deferred(file.id)]
          /\ pc' = [pc EXCEPT ![t] = "snapshot"]
          /\ job' = [job EXCEPT ![t] = NewJob("start", file.id)]
      BY <1>4 DEF LoadId, Constructed, Goto
    <2>2. StubCall(t)'
      BY <2>1 DEF StubCall, NewJob, TypeInv, TypeOK
    <2>3. Deferred(file.id) # None /\ Deferred(file.id).deferred
      <3>1. file.id \in Mac
        BY <1>4 DEF TypeInv, TypeOK, Row
      <3> QED
        BY <3>1, JobTyped DEF Deferred
    <2>4. \A q \in Programs :
             \/ client'[q] = client[q]
             \/ /\ client'[q] # None /\ Whole(q)'
                /\ client[q] # None /\ ~client[q].deferred => ~client'[q].deferred
      BY <1>1, <2>1, <2>3 DEF Whole, TypeInv, TypeOK
    <2>5. \A u \in Threads : u # t => pc'[u] = pc[u] /\ job'[u] = job[u]
      BY <2>1 DEF TypeInv, TypeOK
    <2>6. CASE ~interrupted
      BY <1>1, <1>2, <1>3, <2>2, <2>4, <2>5, <2>6, StubKept
    <2> QED
      BY <1>1, <2>6 DEF StubInv
  <1>5. CASE file = None
    <2>1. PICK n \in Networks :
             job' = [job EXCEPT ![t] = [NewJob("start", None) EXCEPT !.network = n]]
      BY <1>5 DEF LoadId
    <2>2. pc' = [pc EXCEPT ![t] = "make"] /\ client' = client
      BY <1>5 DEF LoadId, Goto
    <2>3. job'[t].info = None
      BY <2>1 DEF NewJob, TypeInv, TypeOK
    <2>4. StubCall(t)'
      BY <2>2, <2>3 DEF StubCall, TypeInv, TypeOK
    <2>5. \A u \in Threads : u # t => pc'[u] = pc[u] /\ job'[u] = job[u]
      BY <2>1, <2>2 DEF TypeInv, TypeOK
    <2>6. CASE ~interrupted
      BY <1>1, <1>2, <1>3, <2>2, <2>4, <2>5, <2>6, StubKept
    <2> QED
      BY <1>1, <2>6 DEF StubInv
  <1> QED
    BY <1>4, <1>5

LEMMA FindIdStub ==
    ASSUME TypeInv, StubInv, NEW t \in Threads, FindId(t)
    PROVE  StubInv'
  <1> DEFINE p == program[t]
  <1>1. /\ pc[t] = "make" /\ job[t].op = "start" /\ p \in Programs
        /\ program' = program /\ file' = file /\ interrupted' = interrupted
    BY CallFacts DEF FindId, Making, setting, TypeInv, CallOf
  <1>2. TypeInv'
    BY FindIdTyped
  <1>3. ~Completing(t)
    BY <1>1 DEF Completing, Busy
  <1>4. CASE file # None
    <2>1. sdk = "go" /\ Constructed(t, file.id, FALSE)
      BY <1>4 DEF FindId
    <2>2. /\ client' = [client EXCEPT ![p] = Completed(Deferred(file.id))]
          /\ pc' = [pc EXCEPT ![t] = "idle"]
          /\ job' = [job EXCEPT ![t] = None]
      BY <2>1 DEF Constructed, Finish, Goto
    <2>3. StubCall(t)'
      BY <2>2 DEF StubCall, TypeInv, TypeOK
    <2>4. /\ Completed(Deferred(file.id)).info = "full"
          /\ ~Completed(Deferred(file.id)).deferred
          /\ Completed(Deferred(file.id)) # None
      <3>1. file.id \in Mac
        BY <1>4 DEF TypeInv, TypeOK, Row
      <3>2. Completed(Deferred(file.id)) # None
        BY <3>1, JobTyped, NoneAssumption
      <3> QED
        BY <3>2 DEF Completed, Deferred
    <2>5. \A q \in Programs :
             \/ client'[q] = client[q]
             \/ /\ client'[q] # None /\ Whole(q)'
                /\ client[q] # None /\ ~client[q].deferred => ~client'[q].deferred
      BY <1>1, <2>2, <2>4 DEF Whole, TypeInv, TypeOK
    <2>6. \A u \in Threads : u # t => pc'[u] = pc[u] /\ job'[u] = job[u]
      BY <2>2 DEF TypeInv, TypeOK
    <2>7. CASE ~interrupted
      BY <1>1, <1>2, <1>3, <2>3, <2>5, <2>6, <2>7, StubKept
    <2> QED
      BY <1>1, <2>7 DEF StubInv
  <1>5. CASE file = None
    <2>1. pc' = [pc EXCEPT ![t] = "hash"] /\ UNCHANGED <<client, job>>
      BY <1>5 DEF FindId, Goto
    <2>2. CASE ~interrupted
      <3>1. StubCall(t)'
        BY <1>1, <2>1, <2>2 DEF StubInv, StubCall, Saving, TypeInv, TypeOK
      <3>2. \A u \in Threads : u # t => pc'[u] = pc[u] /\ job'[u] = job[u]
        BY <2>1 DEF TypeInv, TypeOK
      <3> QED
        BY <1>1, <1>2, <1>3, <2>1, <2>2, <3>1, <3>2, StubKept
    <2> QED
      BY <1>1, <2>2 DEF StubInv
  <1> QED
    BY <1>4, <1>5

LEMMA MakeIdStub ==
    ASSUME TypeInv, StubInv, NEW t \in Threads, MakeId(t)
    PROVE  StubInv'
  <1> DEFINE kept == IF file = None THEN None ELSE file.info
  <1>1. /\ pc[t] \in Making /\ program' = program
        /\ UNCHANGED <<file, client>>
        /\ pc' = [pc EXCEPT ![t] = "open"]
        /\ job' = [job EXCEPT ![t] =
                      [NewJob("start", BuildId(job[t].network)) EXCEPT !.info = kept]]
        /\ interrupted' = (interrupted \/ kept = "stub")
    BY DEF MakeId, Making, Goto, setting
  <1>2. job'[t].info = kept
    BY <1>1 DEF NewJob, TypeInv, TypeOK
  <1>3. CASE ~interrupted /\ kept # "stub"
    <2>1. StubCall(t)'
      BY <1>1, <1>2, <1>3 DEF StubCall, TypeInv, TypeOK
    <2>2. \A u \in Threads : u # t => pc'[u] = pc[u] /\ job'[u] = job[u]
      BY <1>1 DEF TypeInv, TypeOK
    <2>3. file' # None => file'.info # "stub"
      BY <1>1, <1>3
    <2> QED
      BY <1>1, <1>3, <2>1, <2>2, <2>3, MakeIdTyped, StubKept
  <1> QED
    BY <1>1, <1>3 DEF StubInv

LEMMA LoadSnapshotStub ==
    ASSUME TypeInv, StubInv, NEW t \in Threads, LoadSnapshot(t)
    PROVE  StubInv'
  <1> DEFINE p == program[t]
             found == file # None /\ file.info # None
             c == IF found THEN [client[p] EXCEPT !.info = file.info, !.deferred = FALSE]
                           ELSE [client[p] EXCEPT !.facts = sdk # "typescript"]
  <1>1. /\ p \in Programs /\ client[p] \in Client /\ client[p] # None /\ client[p].deferred
        /\ pc[t] = "snapshot" /\ job[t].op = "start"
    BY CallFacts DEF LoadSnapshot, TypeInv, TypeOK, CallOf, Mine
  <1>2. /\ client' = [client EXCEPT ![p] = c]
        /\ Finish(t) /\ program' = program /\ file' = file
        /\ interrupted' = (interrupted \/ \E u \in Threads : Busy(u, "progressive"))
    BY <1>1 DEF LoadSnapshot, setting, TypeInv, TypeOK
  <1>3. SUFFICES ASSUME ~interrupted, ~\E u \in Threads : Busy(u, "progressive")
                 PROVE  StubInv'
    BY <1>2 DEF StubInv
  <1>4. file # None => file.info \in {None, "full"}
    BY <1>3 DEF StubInv, Completing, TypeInv, TypeOK, Row
  <1>5. c # None /\ (~c.deferred => c.info = "full")
    <2> DEFINE c0 == client[p]
    <2>1. c0 \in Client /\ c0.deferred
      BY <1>1
    <2> HIDE DEF c0
    <2>2. CASE found
      <3>1. [c0 EXCEPT !.info = file.info, !.deferred = FALSE].info = "full"
        BY <1>4, <2>1, <2>2 DEF Client
      <3>2. [c0 EXCEPT !.info = file.info, !.deferred = FALSE] \in Client
        BY <1>4, <2>1, <2>2 DEF Client
      <3> QED
        BY <2>2, <3>1, <3>2, NoneAssumption DEF c0
    <2>3. CASE ~found
      <3>1. [c0 EXCEPT !.facts = sdk # "typescript"].deferred
        BY <2>1 DEF Client
      <3>2. [c0 EXCEPT !.facts = sdk # "typescript"] \in Client
        BY <2>1 DEF Client
      <3> QED
        BY <2>3, <3>1, <3>2, NoneAssumption DEF c0
    <2> QED
      BY <2>2, <2>3
  <1> HIDE DEF c
  <1>6. \A q \in Programs :
           \/ client'[q] = client[q]
           \/ /\ client'[q] # None /\ Whole(q)'
              /\ client[q] # None /\ ~client[q].deferred => ~client'[q].deferred
    BY <1>1, <1>2, <1>5 DEF Whole, TypeInv, TypeOK
  <1>7. /\ \A u \in Threads : u # t => pc'[u] = pc[u] /\ job'[u] = job[u]
        /\ pc'[t] = "idle"
    BY <1>2 DEF Finish, Goto, TypeInv, TypeOK
  <1>8. StubCall(t)' /\ ~Completing(t)
    BY <1>1, <1>7 DEF StubCall, Completing, Busy
  <1> QED
    BY <1>2, <1>3, <1>6, <1>7, <1>8, LoadSnapshotTyped, StubKept

LEMMA StartCheckStub ==
    ASSUME TypeInv, StubInv, NEW t \in Threads, NEW o \in {"check", "progressive"},
           StartCheck(t, o)
    PROVE  StubInv'
  <1>1. /\ pc[t] = "idle" /\ UNCHANGED <<program, file, client, interrupted>>
        /\ pc' = [pc EXCEPT ![t] = IF o = "progressive" THEN "light" ELSE "ensure"]
        /\ job' = [job EXCEPT ![t] = NewJob(o, Mine(t).id)]
    BY DEF StartCheck, Goto, setting, history, Mine
  <1>2. job'[t].info = None
    BY <1>1 DEF NewJob, TypeInv, TypeOK
  <1>3. pc'[t] # "full"
    BY <1>1 DEF TypeInv, TypeOK
  <1>4. StubCall(t)' /\ ~Completing(t)
    BY <1>1, <1>2, <1>3, NoneAssumption DEF StubCall, Completing, Busy
  <1>5. \A u \in Threads : u # t => pc'[u] = pc[u] /\ job'[u] = job[u]
    BY <1>1 DEF TypeInv, TypeOK
  <1> QED
    BY <1>1, <1>4, <1>5, StartCheckTyped, StubKept DEF StubInv

\* What the server answers is saved without facts only after a light heartbeat.
LEMMA AnsweredStub ==
    ASSUME TypeInv, TypeInv', StubInv, NEW t \in Threads, pc[t] \in {"light", "full"},
           Answered(t)
    PROVE  StubInv'
  <1>1. /\ pc[t] \in Checking /\ UNCHANGED <<program, file, client, interrupted>>
        /\ pc' = [pc EXCEPT ![t] = "open"]
    BY DEF Answered, Goto, setting, history, Checking
  <1>2. /\ Mine(t) \in Client /\ Mine(t) # None /\ job[t] \in Job /\ program[t] \in Programs
    BY <1>1, CheckFacts, CallFacts
  <1>3. /\ \A u \in Threads : u # t => job'[u] = job[u]
        /\ job'[t].info \in {Mine(t).info, None}
        /\ job'[t].op = job[t].op /\ job'[t].light = job[t].light
    BY <1>2 DEF Answered, TypeInv, TypeOK, Job
  <1>4. SUFFICES ASSUME ~interrupted PROVE StubInv'
    BY <1>1 DEF StubInv
  <1>5. job'[t].info = "stub" => job[t].op = "progressive" /\ ~job[t].light
    <2>1. CASE pc[t] = "full"
      <3>1. Mine(t).info = "full"
        BY <1>2, <1>4, <2>1 DEF StubInv, StubCall, Whole, Mine
      <3> QED
        BY <1>3, <3>1, NoneAssumption
    <2>2. CASE pc[t] = "light"
      BY <2>2 DEF TypeInv, CallOf
    <2> QED
      BY <2>1, <2>2
  <1>6. pc'[t] = "open" /\ \A u \in Threads : u # t => pc'[u] = pc[u]
    BY <1>1 DEF TypeInv, TypeOK
  <1>7. StubCall(t)'
    BY <1>3, <1>5, <1>6 DEF StubCall, Saving
  <1>8. Completing(t)' <=> Completing(t)
    BY <1>1, <1>3, <1>6 DEF Completing, Busy, Checking
  <1> QED
    BY <1>1, <1>3, <1>4, <1>6, <1>7, <1>8, StubKept

\* A heartbeat that is cut off or fails: if it was to complete, it was
\* interrupted.
LEMMA CutOffStub ==
    ASSUME TypeInv, TypeInv', StubInv, NEW t \in Threads, FullFails(t)
    PROVE  StubInv'
  <1>1. /\ UNCHANGED <<program, file, client>>
        /\ interrupted' = (interrupted \/ job[t].light)
        /\ \A u \in Threads : u # t => pc'[u] = pc[u] /\ job'[u] = job[u]
        /\ pc'[t] = "idle"
    BY DEF FullFails, Finish, Goto, setting, TypeInv, TypeOK
  <1>2. SUFFICES ASSUME ~interrupted, ~job[t].light PROVE StubInv'
    BY <1>1 DEF StubInv
  <1>3. StubCall(t)' /\ ~Completing(t)
    BY <1>1, <1>2 DEF StubCall, Completing
  <1> QED
    BY <1>1, <1>2, <1>3, StubKept

LEMMA LightHeartbeatStub ==
    ASSUME TypeInv, StubInv, NEW t \in Threads, LightHeartbeat(t)
    PROVE  StubInv'
  <1>1. pc[t] = "light" /\ pc[t] \in Checking
    BY DEF LightHeartbeat, Checking
  <1>2. CASE Answered(t)
    BY <1>1, <1>2, LightHeartbeatTyped, AnsweredStub
  <1>3. CASE ~Answered(t)
    <2>1. /\ UNCHANGED <<program, file, client, interrupted>>
          /\ pc' = [pc EXCEPT ![t] = "ensure"] /\ job' = [job EXCEPT ![t].op = "check"]
      BY <1>3 DEF LightHeartbeat, Goto, setting, history
    <2>2. job[t] \in Job /\ ~job[t].light
      BY <1>1, CheckFacts DEF TypeInv, CallOf
    <2>3. job'[t].info = job[t].info
      BY <2>1, <2>2 DEF TypeInv, TypeOK, Job
    <2>4. SUFFICES ASSUME ~interrupted PROVE StubInv'
      BY <2>1 DEF StubInv
    <2>5. job[t].info # "stub"
      BY <1>1, <2>4 DEF StubInv, StubCall, Saving
    <2>6. /\ pc'[t] = "ensure"
          /\ \A u \in Threads : u # t => pc'[u] = pc[u] /\ job'[u] = job[u]
      BY <2>1 DEF TypeInv, TypeOK
    <2>7. StubCall(t)' /\ ~Completing(t)
      BY <2>2, <2>3, <2>5, <2>6 DEF StubCall, Completing
    <2> QED
      BY <2>1, <2>4, <2>6, <2>7, LightHeartbeatTyped, StubKept
  <1> QED
    BY <1>2, <1>3

\* A client that is completed has the facts.
LEMMA CompletedWhole ==
    ASSUME NEW c \in Client
    PROVE  /\ Completed(c) \in Client /\ Completed(c) # None
           /\ Completed(c).info = "full" /\ ~Completed(c).deferred
           /\ [c EXCEPT !.facts = FALSE] \in Client
           /\ [c EXCEPT !.facts = FALSE] # None
           /\ [c EXCEPT !.facts = FALSE].info = c.info
           /\ [c EXCEPT !.facts = FALSE].deferred = c.deferred
  <1>1. Completed(c) \in Client /\ [c EXCEPT !.facts = FALSE] \in Client
    BY DEF Completed, Client
  <1>2. /\ Completed(c).info = "full" /\ ~Completed(c).deferred
        /\ [c EXCEPT !.facts = FALSE].info = c.info
        /\ [c EXCEPT !.facts = FALSE].deferred = c.deferred
    BY DEF Completed, Client
  <1> QED
    BY <1>1, <1>2, NoneAssumption

LEMMA FactsStub ==
    ASSUME TypeInv, StubInv, NEW t \in Threads,
           EnsureDeviceInfo(t) \/ ReceiveFacts(t) \/ CollectFacts(t)
    PROVE  StubInv'
  <1> DEFINE p == program[t]
             c == client[p]
             e == [c EXCEPT !.facts = FALSE]
  <1>1. /\ pc[t] \in Checking \ {"full"} /\ UNCHANGED <<program, file, job, interrupted>>
        /\ p \in Programs
    BY CallFacts
       DEF EnsureDeviceInfo, ReceiveFacts, CollectFacts, setting, history, Checking
  <1>2. c \in Client /\ c # None
    BY <1>1, CheckFacts DEF Mine, Checking
  <1>3. PICK l \in {"receive", "collect", "full"} :
           /\ pc' = [pc EXCEPT ![t] = l]
           /\ \/ client' = client /\ (l = "full" => ~c.deferred)
              \/ client' = [client EXCEPT ![p] = e] /\ l # "full"
              \/ client' = [client EXCEPT ![p] = Completed(c)]
              \/ client' = [client EXCEPT ![p] = Completed(e)]
    <2>1. CASE EnsureDeviceInfo(t)
      <3>1. CASE ~c.deferred
        BY <2>1, <3>1 DEF EnsureDeviceInfo, Goto
      <3>2. CASE c.deferred /\ sdk = "typescript"
        BY <1>1, <2>1, <3>2 DEF EnsureDeviceInfo, Goto, TypeInv, TypeOK
      <3>3. CASE c.deferred /\ (sdk = "python" \/ (sdk = "go" /\ ~c.facts))
        <4>1. client' = [client EXCEPT ![p] = e] /\ Goto(t, "collect")
          BY <1>1, <2>1, <3>3 DEF EnsureDeviceInfo, TypeInv, TypeOK
        <4> QED
          BY <4>1 DEF Goto
      <3>4. CASE c.deferred /\ sdk = "go" /\ c.facts
        BY <2>1, <3>4 DEF EnsureDeviceInfo, Goto
      <3> QED
        BY <2>1, <3>1, <3>2, <3>3, <3>4 DEF EnsureDeviceInfo
    <2>2. CASE ReceiveFacts(t)
      BY <1>1, <2>2 DEF ReceiveFacts, Goto, TypeInv, TypeOK
    <2>3. CASE CollectFacts(t)
      BY <1>1, <2>3 DEF CollectFacts, Goto, TypeInv, TypeOK
    <2> QED
      BY <2>1, <2>2, <2>3
  <1>4. /\ Completed(c) # None /\ Completed(c).info = "full" /\ ~Completed(c).deferred
        /\ Completed(e) # None /\ Completed(e).info = "full" /\ ~Completed(e).deferred
        /\ e # None /\ e.info = c.info /\ e.deferred = c.deferred
    <2>1. e \in Client
      BY <1>2, CompletedWhole
    <2> QED
      BY <1>2, <2>1, CompletedWhole
  <1> HIDE DEF e
  <1>5. SUFFICES ASSUME ~interrupted PROVE StubInv'
    BY <1>1 DEF StubInv
  <1>6. Whole(p)
    BY <1>1, <1>5 DEF StubInv
  <1>7. ASSUME NEW q \in Programs
        PROVE  \/ client'[q] = client[q]
               \/ /\ client'[q] # None /\ Whole(q)'
                  /\ client[q] # None /\ ~client[q].deferred => ~client'[q].deferred
    <2>1. client' = client \/ \E d : client' = [client EXCEPT ![p] = d] /\ d \in {e, Completed(c), Completed(e)}
      BY <1>3
    <2>2. CASE q # p
      BY <2>1, <2>2 DEF TypeInv, TypeOK
    <2>3. CASE q = p /\ client' # client
      <3>1. client'[p] \in {e, Completed(c), Completed(e)}
        BY <1>1, <2>1, <2>3 DEF TypeInv, TypeOK
      <3>2. client'[p] # None /\ (~client'[p].deferred => client'[p].info = "full")
        BY <1>2, <1>4, <1>6, <3>1 DEF Whole
      <3>3. ~c.deferred => ~client'[p].deferred
        BY <1>4, <3>1
      <3> QED
        BY <2>3, <3>2, <3>3 DEF Whole
    <2> QED
      BY <2>2, <2>3
  <1>8. pc'[t] = l /\ \A u \in Threads : u # t => pc'[u] = pc[u]
    BY <1>3 DEF TypeInv, TypeOK
  <1>9. l = "full" => ~client'[p].deferred
    BY <1>1, <1>3, <1>4 DEF TypeInv, TypeOK
  <1>10. job[t].info # "stub"
    BY <1>1, <1>5 DEF StubInv, StubCall, Saving, Checking
  <1>11. StubCall(t)' /\ (Completing(t)' <=> Completing(t))
    BY <1>1, <1>8, <1>9, <1>10 DEF StubCall, Completing, Busy, Mine, Checking
  <1> QED
    BY <1>1, <1>5, <1>7, <1>8, <1>11, EnsureTyped, FactsArriveTyped, StubKept

\* A save that is followed by nothing completed what there was to complete, or
\* was interrupted; a save without facts is followed by the completion.
LEMMA AfterSaveStub ==
    ASSUME TypeInv, NEW t \in Threads, pc[t] \in Saving, NEW saved \in BOOLEAN,
           AfterSave(t, saved)
    PROVE  /\ \A u \in Threads : u # t => pc'[u] = pc[u] /\ job'[u] = job[u]
           /\ pc'[t] \in {"idle", "snapshot", "ensure"}
           /\ pc'[t] # "idle" => job'[t].info = None
           /\ \A q \in Programs :
                 \/ client'[q] = client[q]
                 \/ /\ client'[q] # None /\ Whole(q)'
                    /\ client[q] # None /\ ~client[q].deferred => ~client'[q].deferred
           /\ interrupted => interrupted'
           /\ ~saved /\ Completing(t) => interrupted'
           /\ job[t].op = "progressive" /\ ~job[t].light /\ job[t].info # None
                 => Completing(t)'
  <1>1. pc[t] # "idle" /\ job[t] \in Job /\ job[t].id \in Mac
    BY CallFacts DEF Saving, TypeInv, CallOf, Job
  <1>2. CASE job[t].op # "start"
    <2>1. client' = client /\ interrupted' = (interrupted \/ (job[t].light /\ ~saved))
      BY <1>2 DEF AfterSave
    <2>2. CASE Finish(t) /\ ~(job[t].op = "progressive" /\ ~job[t].light /\ job[t].info # None)
      BY <1>2, <2>1, <2>2 DEF Finish, Goto, TypeInv, TypeOK, Completing
    <2>3. CASE /\ GoesOn(t) /\ job[t].op = "progressive" /\ ~job[t].light
               /\ job[t].info # None
      <3> DEFINE j == [job[t] EXCEPT !.light = TRUE, !.info = None]
      <3>1. j.light /\ j.info = None /\ j.op = "progressive"
        BY <1>1, <2>3 DEF Job
      <3>2. /\ pc' = [pc EXCEPT ![t] = "ensure"] /\ job' = [job EXCEPT ![t] = j]
        BY <2>3 DEF GoesOn, Goto, TypeInv, TypeOK
      <3> HIDE DEF j
      <3>3. pc'[t] = "ensure" /\ job'[t] = j
        BY <3>2 DEF TypeInv, TypeOK
      <3>4. Completing(t)'
        BY <3>1, <3>3 DEF Completing, Busy
      <3>5. \A u \in Threads : u # t => pc'[u] = pc[u] /\ job'[u] = job[u]
        BY <3>2 DEF TypeInv, TypeOK
      <3> QED
        BY <2>1, <2>3, <3>1, <3>3, <3>4, <3>5 DEF Completing
    <2> QED
      BY <1>2, <2>2, <2>3 DEF AfterSave
  <1>3. CASE job[t].op = "start"
    <2> DEFINE d == Deferred(job[t].id)
    <2>1. /\ d \in Client /\ d # None /\ d.deferred
          /\ Completed(d) # None /\ Completed(d).info = "full" /\ ~Completed(d).deferred
      <3>1. d \in Client /\ d.deferred
        BY <1>1, JobTyped DEF Deferred
      <3> HIDE DEF d
      <3> QED
        BY <3>1, CompletedWhole, NoneAssumption
    <2>2. ASSUME NEW c, c \in {d, Completed(d)},
                 client' = [client EXCEPT ![program[t]] = c],
                 client[program[t]] # None => client[program[t]].deferred \/ c # d
          PROVE  \A q \in Programs :
                    \/ client'[q] = client[q]
                    \/ /\ client'[q] # None /\ Whole(q)'
                       /\ client[q] # None /\ ~client[q].deferred => ~client'[q].deferred
      <3>1. \A q \in Programs : client'[q] = client[q] \/ (q = program[t] /\ client'[q] = c)
        BY <2>2 DEF TypeInv, TypeOK
      <3> HIDE DEF d
      <3> QED
        BY <2>1, <2>2, <3>1 DEF Whole
    <2>3. interrupted' = interrupted /\ ~Completing(t)
      BY <1>1, <1>3 DEF AfterSave, TypeInv, CallOf, Completing, Busy
    <2>4. CASE Finish(t)
      <3>1. client' = client \/ client' = [client EXCEPT ![program[t]] = Completed(d)]
        BY <1>3, <2>4 DEF AfterSave, Constructed, Finish, Goto, TypeInv, TypeOK
      <3>2. Completed(d) # d
        BY <2>1
      <3> HIDE DEF d
      <3> QED
        BY <1>3, <2>2, <2>3, <2>4, <3>1, <3>2 DEF Finish, Goto, TypeInv, TypeOK
    <2>5. CASE /\ client' = [client EXCEPT ![program[t]] = d]
               /\ pc' = [pc EXCEPT ![t] = "snapshot"]
               /\ job' = [job EXCEPT ![t] = NewJob("start", job[t].id)]
      <3>1. job'[t].info = None /\ pc'[t] = "snapshot"
        BY <2>5 DEF NewJob, TypeInv, TypeOK
      <3>2. client[program[t]] = None
        BY <1>1, <1>3 DEF TypeInv, CallOf, Busy, Mine, Saving
      <3>3. \A u \in Threads : u # t => pc'[u] = pc[u] /\ job'[u] = job[u]
        BY <2>5 DEF TypeInv, TypeOK
      <3> HIDE DEF d
      <3> QED
        BY <1>3, <2>2, <2>3, <2>5, <3>1, <3>2, <3>3
    <2> QED
      BY <1>3, <2>4, <2>5 DEF AfterSave, Constructed, Goto
  <1> QED
    BY <1>2, <1>3

LEMMA SavingStub ==
    ASSUME TypeInv, StubInv, NEW t \in Threads, OpenFile(t) \/ FillFile(t)
    PROVE  StubInv'
  <1>1. pc[t] \in Saving /\ pc[t] # "idle" /\ program' = program
    BY DEF OpenFile, FillFile, Saving, setting
  <1>2. TypeInv'
    BY SavingTyped
  <1>3. CASE /\ pc[t] = "open" /\ file' = None /\ Goto(t, "fill")
             /\ UNCHANGED <<client, job, interrupted>>
    <2>1. SUFFICES ASSUME ~interrupted PROVE StubInv'
      BY <1>3 DEF StubInv
    <2>2. /\ pc'[t] = "fill" /\ job' = job
          /\ \A u \in Threads : u # t => pc'[u] = pc[u]
      BY <1>3 DEF Goto, TypeInv, TypeOK
    <2>3. StubCall(t)'
      BY <1>1, <2>1, <2>2 DEF StubInv, StubCall, Saving
    <2> QED
      BY <1>1, <1>2, <1>3, <2>1, <2>2, <2>3, StubKept
  <1>4. ASSUME NEW saved \in BOOLEAN, AfterSave(t, saved),
               (file' = file /\ ~saved) \/ file' = None \/ file' = NewRow(t)
        PROVE  StubInv'
    <2>1. SUFFICES ASSUME ~interrupted' PROVE StubInv'
      BY DEF StubInv
    <2>2. ~interrupted
      BY <1>1, <1>4, <2>1, AfterSaveStub
    <2>3. StubCall(t)'
      <3>1. pc'[t] # "full" /\ (pc'[t] # "idle" => job'[t].info = None)
        BY <1>1, <1>4, AfterSaveStub
      <3> QED
        BY <3>1, NoneAssumption DEF StubCall
    <2>4. ASSUME file' # None, file'.info = "stub"
          PROVE  Completing(t)' \/ (file' = file /\ ~Completing(t))
      <3>1. CASE file' = NewRow(t)
        <4>1. job[t].info = "stub"
          BY <2>4, <3>1 DEF NewRow
        <4>2. job[t].op = "progressive" /\ ~job[t].light /\ job[t].info # None
          BY <1>1, <2>2, <4>1, NoneAssumption DEF StubInv, StubCall
        <4> QED
          BY <1>1, <1>4, <4>2, AfterSaveStub
      <3>2. CASE file' = file /\ ~saved
        BY <1>1, <1>4, <2>1, <3>2, AfterSaveStub
      <3> QED
        BY <1>4, <2>4, <3>1, <3>2
    <2>5. /\ \A u \in Threads : u # t => pc'[u] = pc[u] /\ job'[u] = job[u]
          /\ \A q \in Programs :
                 \/ client'[q] = client[q]
                 \/ /\ client'[q] # None /\ Whole(q)'
                    /\ client[q] # None /\ ~client[q].deferred => ~client'[q].deferred
      BY <1>1, <1>4, AfterSaveStub
    <2> QED
      BY <1>1, <1>2, <2>2, <2>3, <2>4, <2>5, StubKept
  <1>5. CASE OpenFile(t)
    BY <1>3, <1>4, <1>5 DEF OpenFile
  <1>6. CASE FillFile(t)
    BY <1>4, <1>6 DEF FillFile
  <1> QED
    BY <1>5, <1>6

LEMMA EnvironmentStub ==
    ASSUME TypeInv, StubInv,
           FileLost \/ \E p \in Programs : LateCollects(p) \/ Ends(p)
    PROVE  StubInv'
  <1>1. CASE FileLost
    BY <1>1 DEF FileLost, setting, StubInv, Whole, StubCall, Mine
  <1>2. ASSUME NEW p \in Programs, LateCollects(p) PROVE StubInv'
    <2>1. /\ client[p] \in Client /\ client[p] # None
          /\ client' = [client EXCEPT ![p] = Completed(client[p])]
          /\ UNCHANGED <<program, file, pc, job, interrupted>>
      BY <1>2 DEF LateCollects, TypeInv, TypeOK, FactsOf, setting, history
    <2>2. /\ client'[p].info = "full" /\ ~client'[p].deferred
          /\ \A q \in Programs : q # p => client'[q] = client[q]
      <3>1. client \in [Programs -> Client \cup {None}]
        BY DEF TypeInv, TypeOK
      <3>2. /\ client'[p] = Completed(client[p])
            /\ \A q \in Programs : q # p => client'[q] = client[q]
        BY <2>1, <3>1
      <3>3. client[p] \in Client
        BY <2>1
      <3>4. Completed(client[p]).info = "full" /\ ~Completed(client[p]).deferred
        BY <3>3, CompletedWhole
      <3> QED
        BY <3>2, <3>4
    <2>3. SUFFICES ASSUME ~interrupted PROVE StubInv'
      BY <2>1 DEF StubInv
    <2>4. \A q \in Programs : Whole(q)'
      BY <2>2, <2>3 DEF StubInv, Whole
    <2>5. ASSUME NEW u \in Threads PROVE StubCall(u)'
      <3>1. Mine(u)' = Mine(u) \/ ~Mine(u)'.deferred
        BY <2>1, <2>2, CallFacts DEF Mine
      <3> QED
        BY <2>1, <2>3, <3>1 DEF StubInv, StubCall
    <2> QED
      BY <2>1, <2>3, <2>4, <2>5 DEF StubInv, Completing, Busy
  <1>3. ASSUME NEW p \in Programs, Ends(p) PROVE StubInv'
    <2>1. /\ client' = [client EXCEPT ![p] = None]
          /\ pc' = [t \in Threads |-> IF program[t] = p THEN "idle" ELSE pc[t]]
          /\ job' = [t \in Threads |-> IF program[t] = p THEN None ELSE job[t]]
          /\ file' = file /\ program' = program
          /\ interrupted' = (interrupted \/ \E t \in ThreadsOf(p) : Busy(t, "progressive"))
      BY <1>3 DEF Ends, setting
    <2>2. SUFFICES ASSUME ~interrupted, \A t \in ThreadsOf(p) : ~Busy(t, "progressive")
                   PROVE  StubInv'
      BY <2>1 DEF StubInv
    <2>3. \A q \in Programs : Whole(q)'
      BY <2>1, <2>2 DEF StubInv, Whole, TypeInv, TypeOK
    <2>4. ASSUME NEW u \in Threads PROVE StubCall(u)'
      <3>1. CASE program[u] = p
        BY <2>1, <3>1 DEF StubCall
      <3>2. CASE program[u] # p
        <4>1. pc'[u] = pc[u] /\ job'[u] = job[u] /\ Mine(u)' = Mine(u)
          BY <2>1, <3>2 DEF TypeInv, TypeOK, Mine
        <4> QED
          BY <2>2, <4>1 DEF StubInv, StubCall
      <3> QED
        BY <3>1, <3>2
    <2>5. ASSUME NEW u \in Threads, Completing(u) PROVE Completing(u)'
      <3>1. program[u] # p
        BY <2>2, <2>5 DEF Completing, ThreadsOf
      <3> QED
        BY <2>1, <2>5, <3>1 DEF Completing, Busy
    <2> QED
      BY <2>1, <2>2, <2>3, <2>4, <2>5 DEF StubInv
  <1> QED
    BY <1>1, <1>2, <1>3

LEMMA StubInit ==
    ASSUME Init
    PROVE  StubInv
  BY DEF Init, StubInv, Whole, StubCall

LEMMA StubStep ==
    ASSUME TypeInv, StubInv, [Next]_vars
    PROVE  StubInv'
  <1>1. ASSUME NEW t \in Threads, FullHeartbeat(t) \/ Deadline(t) PROVE StubInv'
    <2>1. TypeInv'
      BY <1>1, FullHeartbeatTyped, DeadlineTyped
    <2> QED
      BY <1>1, <2>1, AnsweredStub, CutOffStub DEF FullHeartbeat, Deadline
  <1>2. ASSUME NEW t \in Threads, Step(t) PROVE StubInv'
    BY <1>1, <1>2, FindIdStub, MakeIdStub, LoadSnapshotStub, SavingStub, LightHeartbeatStub, FactsStub
       DEF Step
  <1>3. CASE UNCHANGED vars
    BY <1>3 DEF vars, StubInv, Whole, StubCall, Completing, Busy, Mine
  <1> QED
    BY <1>2, <1>3, LoadIdStub, StartCheckStub, EnvironmentStub DEF Next

\* A snapshot without facts is only left behind by an interruption, for any
\* number of programs and threads.
THEOREM StubIsMadeUp == Spec => []StubMadeUp
  <1>1. TypeInv /\ StubInv => StubMadeUp
    BY DEF StubInv, StubMadeUp, Completing, Busy, TypeInv, TypeOK
  <1>2. Init => TypeInv /\ StubInv
    BY TypeInit, StubInit
  <1>3. TypeInv /\ StubInv /\ [Next]_vars => (TypeInv /\ StubInv)'
    BY TypeStep, StubStep
  <1> QED
    BY <1>1, <1>2, <1>3, PTL DEF Spec

=============================================================================
