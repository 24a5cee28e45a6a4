---------------------------- MODULE AdminPanelProof ----------------------------
(***************************************************************************)
(* Theorems about AdminPanel, for any number of devices, pages, requests   *)
(* under way, changes by others and broken connections.                    *)
(***************************************************************************)
EXTENDS AdminPanel, SequenceTheorems, TLAPS

Entry == [id : Ids, ask : Ask]

Promises == [Ids -> Promise \cup {None}]

-----------------------------------------------------------------------------
(***************************************************************************)
(* Queues.                                                                 *)
(***************************************************************************)
LEMMA TailFacts ==
    ASSUME NEW S, NEW s \in Seq(S), s # <<>>
    PROVE  /\ Len(s) \in Nat \ {0} /\ Head(s) = s[1] /\ Head(s) \in S
           /\ Tail(s) \in Seq(S) /\ Len(Tail(s)) = Len(s) - 1
           /\ \A k \in 1..Len(s) - 1 : Tail(s)[k] = s[k + 1]
  BY HeadTailProperties, EmptySeq

LEMMA AppendFacts ==
    ASSUME NEW S, NEW s \in Seq(S), NEW x \in S
    PROVE  /\ Len(s) \in Nat
           /\ Append(s, x) \in Seq(S) /\ Len(Append(s, x)) = Len(s) + 1
           /\ \A k \in 1..Len(s) : Append(s, x)[k] = s[k]
           /\ Append(s, x)[Len(s) + 1] = x
  BY AppendProperties, LenProperties

LEMMA QueueFacts ==
    ASSUME TypeOK
    PROVE  /\ inbox \in Seq(Entry) /\ outbox \in Seq(Message)
           /\ Len(inbox) \in Nat /\ Len(outbox) \in Nat
           /\ \A k \in 1..Len(inbox) : inbox[k] \in Entry
           /\ \A k \in 1..Len(outbox) : outbox[k] \in Message
  <1>1. inbox \in Seq(Entry) /\ outbox \in Seq(Message)
    BY DEF TypeOK, Entry
  <1> QED
    BY <1>1, LenProperties, ElementOfSeq

LEMMA MessageFields ==
    ASSUME NEW m \in Message
    PROVE  /\ m.kind \in {"list", "done", "error", "changed"}
           /\ m.kind = "list" => m.id \in Ids \cup {None} /\ m.list \in List
           /\ m.kind = "done" => m.id \in Ids /\ m.row \in BOOLEAN \cup {None}
           /\ m.kind = "error" => m.id \in Ids
  BY DEF Message

LEMMA AskFields ==
    ASSUME NEW ask \in Ask
    PROVE  /\ ask.kind \in {"get", "update", "delete", "bulk"}
           /\ ask.kind = "get" => ask.page \in Pages
           /\ ask.kind = "update" => ask.device \in Devices /\ ask.on \in BOOLEAN
           /\ ask.kind = "delete" => ask.device \in Devices
  BY DEF Ask

LEMMA PromiseFields ==
    ASSUME NEW p \in Promise
    PROVE  p # None /\ p.ask \in Ask /\ p.live \in BOOLEAN /\ p.ends_bulk \in BOOLEAN
  BY NoneAssumption DEF Promise

-----------------------------------------------------------------------------
(***************************************************************************)
(* Requests.                                                               *)
(***************************************************************************)
\* A request is sent under an id that nothing on its way carries.
SentAs(w, ask, e, i) ==
    /\ w[i] = None
    /\ handler # "absent" => \A k \in 1..Len(inbox) : inbox[k].id # i
    /\ \A k \in 1..Len(outbox) : outbox[k].kind # "changed" => outbox[k].id # i
    /\ waiting' = [w EXCEPT ![i] = [ask |-> ask, live |-> TRUE, ends_bulk |-> e]]
    /\ waiting' \in Promises
    /\ waiting'[i] # None /\ waiting'[i].ask = ask
    /\ \A j \in Ids \ {i} : waiting'[j] = w[j]
    /\ inbox' \in Seq(Entry) /\ Len(inbox') = Len(inbox) + 1
    /\ \A k \in 1..Len(inbox) : inbox'[k] = inbox[k]
    /\ inbox'[Len(inbox) + 1] = [id |-> i, ask |-> ask]

LEMMA SendsFacts ==
    ASSUME TypeOK, NEW w \in Promises, NEW ask \in Ask, NEW e \in BOOLEAN,
           Sends(w, ask, e)
    PROVE  \E i \in Ids : SentAs(w, ask, e, i)
  <1>1. PICK i \in Free(w) :
          /\ waiting' = [w EXCEPT ![i] = [ask |-> ask, live |-> TRUE,
                                          ends_bulk |-> e]]
          /\ inbox' = Append(inbox, [id |-> i, ask |-> ask])
    BY DEF Sends
  <1>2. /\ i \in Ids /\ w[i] = None
        /\ handler # "absent" => \A k \in 1..Len(inbox) : inbox[k].id # i
        /\ \A k \in 1..Len(outbox) :
              outbox[k].kind # "changed" => outbox[k].id # i
    BY DEF Free
  <1> DEFINE p == [ask |-> ask, live |-> TRUE, ends_bulk |-> e]
             x == [id |-> i, ask |-> ask]
  <1>3. p \in Promise /\ p.ask = ask /\ x \in Entry
    BY <1>2 DEF Promise, Entry
  <1>4. p # None
    BY <1>3, NoneAssumption
  <1>5. waiting' = [w EXCEPT ![i] = p] /\ inbox' = Append(inbox, x)
    BY <1>1
  <1> HIDE DEF p, x
  <1>6. /\ waiting' \in Promises /\ waiting'[i] = p
        /\ \A j \in Ids \ {i} : waiting'[j] = w[j]
    BY <1>2, <1>3, <1>5 DEF Promises
  <1>7. /\ inbox' \in Seq(Entry) /\ Len(inbox') = Len(inbox) + 1
        /\ \A k \in 1..Len(inbox) : inbox'[k] = inbox[k]
        /\ inbox'[Len(inbox) + 1] = x
    BY <1>3, <1>5, QueueFacts, AppendFacts
  <1> QED
    BY <1>1, <1>2, <1>3, <1>4, <1>6, <1>7 DEF SentAs, x

\* What is left of the pending requests when some are settled.
Settling(w) ==
    /\ w \in Promises
    /\ \A i \in Ids : w[i] # None => /\ waiting[i] # None
                                     /\ w[i].ask = waiting[i].ask

\* The step settles requests so that w is left, and sends one or none.
Outcome(w) ==
    \/ waiting' = w /\ UNCHANGED inbox
    \/ \E ask \in Ask, e \in BOOLEAN : Sends(w, ask, e)

GetAsk(p) == [kind |-> "get", page |-> p]

LEMMA SettlingFacts ==
    ASSUME TypeOK
    PROVE  /\ Settling(waiting)
           /\ \A i \in Ids : Settling(Settled(i))
           /\ Settling([i \in Ids |-> None])
  <1>1. waiting \in Promises
    BY DEF TypeOK, Promises
  <1> QED
    BY <1>1 DEF Settling, Settled, Promises

LEMMA DetachedSettles ==
    ASSUME TypeOK, NEW w, Settling(w)
    PROVE  /\ Settling(Detached(w))
           /\ \A i \in Ids : Detached(w)[i] = None <=> w[i] = None
  <1>1. ASSUME NEW i \in Ids, w[i] # None
        PROVE  LET p == [w[i] EXCEPT !.live = FALSE]
               IN  p \in Promise /\ p # None /\ p.ask = w[i].ask
    <2>1. w[i] \in Promise
      BY <1>1 DEF Settling, Promises
    <2> QED
      BY <2>1, NoneAssumption DEF Promise
  <1> QED
    BY <1>1 DEF Settling, Promises, Detached

LEMMA LoadsFacts ==
    ASSUME NEW w, NEW p \in Pages, NEW e \in BOOLEAN, Loads(w, p, e)
    PROVE  GetAsk(p) \in Ask /\ Sends(w, GetAsk(p), e) /\ Outcome(w)
           /\ loading' = TRUE
  BY DEF Loads, GetAsk, Ask, Outcome

LEMMA OutcomeTyped ==
    ASSUME TypeOK, NEW w, Settling(w), Outcome(w)
    PROVE  waiting' \in Promises /\ inbox' \in Seq(Entry)
  <1>1. CASE waiting' = w /\ UNCHANGED inbox
    BY <1>1, QueueFacts DEF Settling
  <1>2. ASSUME NEW ask \in Ask, NEW e \in BOOLEAN, Sends(w, ask, e)
        PROVE  waiting' \in Promises /\ inbox' \in Seq(Entry)
    BY <1>2, SendsFacts DEF Settling, SentAs
  <1> QED
    BY <1>1, <1>2 DEF Outcome

-----------------------------------------------------------------------------
(***************************************************************************)
(* Types.  An answer is given to the request of its id: requests on their  *)
(* way to a handler are those that are pending under their ids, and what   *)
(* is done was not a list.                                                 *)
(***************************************************************************)
Lost == inbox = <<>> /\ outbox = <<>> /\ handler = "absent"

Asks(k) ==
    waiting[inbox[k].id] # None => waiting[inbox[k].id].ask = inbox[k].ask

Answers(k) ==
    (outbox[k].kind = "done" /\ waiting[outbox[k].id] # None)
        => waiting[outbox[k].id].ask.kind # "get"

WireInv ==
    /\ socket # "open" => Lost
    /\ handler # "absent" => \A k \in 1..Len(inbox) : Asks(k)
    /\ \A k \in 1..Len(outbox) : Answers(k)

TypeInv == TypeOK /\ WireInv

LEMMA InitTypeInv == Init => TypeInv
  <1> SUFFICES ASSUME Init PROVE TypeInv
    OBVIOUS
  <1>1. TypeOK
    <2>1. page \in Pages /\ [d \in Devices |-> None] \in Rows
      BY PanelAssumption DEF Init, Rows
    <2>2. shown \in List
      BY <2>1 DEF Init, List
    <2>3. budget \in [changes : 0..MaxChanges, acts : 0..MaxActs,
                      drops : 0..MaxDrops]
      BY PanelAssumption DEF Init
    <2>4. inbox \in Seq([id : Ids, ask : Ask]) /\ outbox \in Seq(Message)
      BY EmptySeq DEF Init
    <2> QED
      BY <2>1, <2>2, <2>3, <2>4 DEF Init, TypeOK
  <1>2. WireInv
    BY EmptySeq DEF Init, WireInv, Lost
  <1> QED
    BY <1>1, <1>2 DEF TypeInv

\* The variables of the page after a step.
PageTyped ==
    /\ loading \in BOOLEAN /\ reload \in BOOLEAN /\ bulk \in BOOLEAN
    /\ page \in Pages /\ shown \in List
    /\ waiting \in Promises /\ inbox \in Seq(Entry)

LEMMA PageIsTyped == TypeOK => PageTyped
  BY QueueFacts DEF TypeOK, PageTyped, Promises

\* A step in which the page settles requests and sends one or none.
LEMMA PageStep ==
    ASSUME TypeInv, NEW w, Settling(w), Outcome(w), PageTyped',
           socket' = "open", handler' # "absent" => handler # "absent" \/ Lost,
           \A k \in 1..Len(outbox') : \E l \in 1..Len(outbox) :
               outbox'[k] = outbox[l]
    PROVE  WireInv'
  <1>t. TypeOK /\ WireInv
    BY DEF TypeInv
  <1>w. w \in Promises
    BY DEF Settling
  <1>1. ASSUME NEW k \in 1..Len(outbox')
        PROVE  Answers(k)'
    <2>1. PICK l \in 1..Len(outbox) : outbox'[k] = outbox[l]
      OBVIOUS
    <2> DEFINE m == outbox[l]
    <2>2. SUFFICES ASSUME m.kind = "done", waiting'[m.id] # None
                   PROVE  waiting'[m.id].ask.kind # "get"
      BY <2>1 DEF Answers
    <2>3. m.id \in Ids
      BY <1>t, <2>2, QueueFacts, MessageFields
    <2>4. w[m.id] # None => waiting[m.id] # None /\ w[m.id].ask = waiting[m.id].ask
      BY <2>3 DEF Settling
    <2>5. waiting'[m.id] = w[m.id]
      <3>1. CASE waiting' = w
        BY <3>1
      <3>2. ASSUME NEW ask \in Ask, NEW e \in BOOLEAN, Sends(w, ask, e)
            PROVE  waiting'[m.id] = w[m.id]
        <4>1. PICK i \in Ids : SentAs(w, ask, e, i)
          BY <1>t, <1>w, <3>2, SendsFacts
        <4> QED
          BY <2>2, <2>3, <4>1 DEF SentAs
      <3> QED
        BY <3>1, <3>2 DEF Outcome
    <2> QED
      BY <1>t, <2>2, <2>4, <2>5 DEF WireInv, Answers
  <1>2. ASSUME handler' # "absent", NEW k \in 1..Len(inbox')
        PROVE  Asks(k)'
    <2>1. ASSUME NEW l \in 1..Len(inbox)
          PROVE  /\ inbox[l].id \in Ids /\ handler # "absent"
                 /\ w[inbox[l].id] # None => w[inbox[l].id].ask = inbox[l].ask
      <3>1. inbox[l].id \in Ids /\ handler # "absent"
        BY <1>t, <1>2, QueueFacts, EmptySeq DEF Entry, Lost
      <3> QED
        BY <1>t, <3>1 DEF Settling, WireInv, Asks
    <2>2. CASE waiting' = w /\ UNCHANGED inbox
      BY <2>1, <2>2 DEF Asks
    <2>3. ASSUME NEW ask \in Ask, NEW e \in BOOLEAN, Sends(w, ask, e)
          PROVE  Asks(k)'
      <3>i. PICK i \in Ids : SentAs(w, ask, e, i)
        BY <1>t, <1>w, <2>3, SendsFacts
      <3>1. /\ handler # "absent" => \A l \in 1..Len(inbox) : inbox[l].id # i
            /\ waiting'[i].ask = ask
            /\ \A j \in Ids \ {i} : waiting'[j] = w[j]
            /\ Len(inbox') = Len(inbox) + 1
            /\ \A l \in 1..Len(inbox) : inbox'[l] = inbox[l]
            /\ inbox'[Len(inbox) + 1] = [id |-> i, ask |-> ask]
        BY <3>i DEF SentAs
      <3>2. Len(inbox) \in Nat
        BY <1>t, QueueFacts
      <3>3. CASE k = Len(inbox) + 1
        BY <3>1, <3>3 DEF Asks
      <3>4. CASE k \in 1..Len(inbox)
        <4>1. inbox'[k] = inbox[k] /\ waiting'[inbox[k].id] = w[inbox[k].id]
          BY <2>1, <3>1, <3>4
        <4> QED
          BY <2>1, <3>4, <4>1 DEF Asks
      <3> QED
        BY <1>2, <3>1, <3>2, <3>3, <3>4
    <2> QED
      BY <2>2, <2>3 DEF Outcome
  <1> QED
    BY <1>1, <1>2 DEF WireInv

(***************************************************************************)
(* What the parts of a step of the page do.                                *)
(***************************************************************************)
LEMMA LoadEndsFacts ==
    ASSUME TypeOK, NEW w, LoadEnds(w)
    PROVE  Outcome(w) /\ loading' \in BOOLEAN /\ reload' \in BOOLEAN
  <1>1. page \in Pages
    BY DEF TypeOK
  <1> QED
    BY <1>1, LoadsFacts DEF LoadEnds, Outcome, TypeOK

LEMMA RequestReloadFacts ==
    ASSUME TypeOK, NEW w, RequestReload(w)
    PROVE  Outcome(w) /\ loading' \in BOOLEAN /\ reload' \in BOOLEAN
  <1>1. page \in Pages
    BY DEF TypeOK
  <1> QED
    BY <1>1, LoadsFacts DEF RequestReload, Outcome, TypeOK

LEMMA RejectedFacts ==
    ASSUME TypeOK, NEW i \in Ids, Rejected(i)
    PROVE  /\ Settling(Settled(i)) /\ Outcome(Settled(i))
           /\ PageTyped' /\ UNCHANGED <<page, shown>>
  <1>1. Settling(Settled(i))
    BY SettlingFacts
  <1>2. Outcome(Settled(i)) /\ loading' \in BOOLEAN /\ reload' \in BOOLEAN
    <2>1. CASE LoadEnds(Settled(i))
      BY <2>1, LoadEndsFacts
    <2>2. CASE waiting' = Settled(i) /\ UNCHANGED <<loading, reload, inbox>>
      BY <2>2 DEF Outcome, TypeOK
    <2> QED
      BY <2>1, <2>2 DEF Rejected
  <1>3. bulk' \in BOOLEAN /\ UNCHANGED <<page, shown>>
    BY DEF Rejected
  <1>4. waiting' \in Promises /\ inbox' \in Seq(Entry)
    BY <1>1, <1>2, OutcomeTyped
  <1>5. page' \in Pages /\ shown' \in List
    BY <1>3 DEF TypeOK
  <1> QED
    BY <1>1, <1>2, <1>3, <1>4, <1>5 DEF PageTyped

\* The connection breaks, and with it everything under way.
LEMMA BreaksFacts ==
    ASSUME TypeOK, NEW b \in BOOLEAN, RejectsAll(b), Breaks
    PROVE  /\ PageTyped' /\ Lost' /\ waiting' = [i \in Ids |-> None]
           /\ socket' \in {"none", "connecting"} /\ UNCHANGED <<page, shown>>
           /\ outbox' \in Seq(Message)
  <1>1. /\ waiting' = [i \in Ids |-> None] /\ UNCHANGED <<page, shown>>
        /\ loading' \in BOOLEAN /\ reload' \in BOOLEAN /\ bulk' \in BOOLEAN
        /\ socket' \in {"none", "connecting"}
    BY DEF RejectsAll
  <1>2. inbox' = <<>> /\ outbox' = <<>> /\ handler' = "absent"
    BY DEF Breaks
  <1>3. waiting' \in Promises
    BY <1>1 DEF Promises
  <1>4. inbox' \in Seq(Entry) /\ outbox' \in Seq(Message)
    BY <1>2, EmptySeq
  <1>5. page' \in Pages /\ shown' \in List
    BY <1>1 DEF TypeOK
  <1> QED
    BY <1>1, <1>2, <1>3, <1>4, <1>5 DEF PageTyped, Lost

\* A broadcast: the messages given and the announcement, or the messages only.
LEMMA AnnouncesFacts ==
    ASSUME TypeOK, NEW msgs \in Seq(Message), Announces(msgs)
    PROVE  /\ outbox' \in Seq(Message) /\ missed' \in BOOLEAN
           /\ missed' \/ \E k \in 1..Len(outbox') : outbox'[k].kind = "changed"
           /\ \A k \in 1..Len(outbox') :
                 \/ outbox'[k].kind = "changed"
                 \/ \E l \in 1..Len(outbox) : outbox'[k] = outbox[l]
                 \/ \E l \in 1..Len(msgs) : outbox'[k] = msgs[l]
  <1> DEFINE c == [kind |-> "changed"]
             s == outbox \o msgs
  <1>1. c \in Message /\ c.kind = "changed"
    BY DEF Message
  <1>2. outbox \in Seq(Message) /\ Len(outbox) \in Nat /\ Len(msgs) \in Nat
    BY QueueFacts, LenProperties
  <1>3. /\ s \in Seq(Message) /\ Len(s) = Len(outbox) + Len(msgs)
        /\ \A k \in 1..Len(outbox) + Len(msgs) :
              s[k] = IF k <= Len(outbox) THEN outbox[k] ELSE msgs[k - Len(outbox)]
    BY <1>2, ConcatProperties
  <1>4. ASSUME NEW k \in 1..Len(s)
        PROVE  \/ \E l \in 1..Len(outbox) : s[k] = outbox[l]
               \/ \E l \in 1..Len(msgs) : s[k] = msgs[l]
    <2>1. CASE k <= Len(outbox)
      BY <1>2, <1>3, <2>1
    <2>2. CASE ~(k <= Len(outbox))
      <3>1. k - Len(outbox) \in 1..Len(msgs) /\ s[k] = msgs[k - Len(outbox)]
        BY <1>2, <1>3, <2>2
      <3> QED
        BY <3>1
    <2> QED
      BY <2>1, <2>2
  <1>5. CASE outbox' = outbox \o msgs /\ missed' = TRUE
    BY <1>3, <1>4, <1>5
  <1>6. CASE outbox' = outbox \o msgs \o <<c>> /\ UNCHANGED missed
    <2>1. outbox' = Append(s, c)
      BY <1>1, <1>3, <1>6, AppendIsConcat
    <2> HIDE DEF s, c
    <2>2. /\ outbox' \in Seq(Message) /\ Len(outbox') = Len(s) + 1
          /\ Len(s) \in Nat
          /\ \A k \in 1..Len(s) : outbox'[k] = s[k]
          /\ outbox'[Len(s) + 1] = c
      BY <1>1, <1>3, <2>1, AppendFacts
    <2>3. missed' \in BOOLEAN
      BY <1>6 DEF TypeOK
    <2>4. Len(s) + 1 \in 1..Len(outbox')
      BY <2>2
    <2>5. \A k \in 1..Len(outbox') : k \in 1..Len(s) \/ k = Len(s) + 1
      BY <2>2
    <2> QED
      BY <1>1, <1>4, <2>2, <2>3, <2>4, <2>5
  <1> QED
    BY <1>5, <1>6 DEF Announces

LEMMA AppliedTyped ==
    ASSUME TypeOK, NEW ask \in Ask
    PROVE  Applied(ask) \in Rows
  BY AskFields DEF TypeOK, Applied, Rows

\* A step of the handler or of others: what is on its way to the page.
LEMMA ServerStep ==
    ASSUME TypeInv, UNCHANGED <<socket, waiting>>,
           socket' # "open" => Lost',
           handler' # "absent" => handler # "absent",
           \A k \in 1..Len(inbox') : \E l \in 1..Len(inbox) : inbox'[k] = inbox[l],
           \A k \in 1..Len(outbox') :
               \/ outbox'[k].kind \in {"list", "error", "changed"}
               \/ \E l \in 1..Len(outbox) : outbox'[k] = outbox[l]
               \/ waiting[outbox'[k].id] # None =>
                     waiting[outbox'[k].id].ask.kind # "get"
    PROVE  WireInv'
  <1>1. ASSUME handler' # "absent", NEW k \in 1..Len(inbox')
        PROVE  Asks(k)'
    <2>1. PICK l \in 1..Len(inbox) : inbox'[k] = inbox[l]
      OBVIOUS
    <2>2. Asks(l)
      BY <1>1 DEF TypeInv, WireInv
    <2> QED
      BY <2>1, <2>2 DEF Asks
  <1>2. ASSUME NEW k \in 1..Len(outbox')
        PROVE  Answers(k)'
    <2>1. CASE \E l \in 1..Len(outbox) : outbox'[k] = outbox[l]
      <3>1. PICK l \in 1..Len(outbox) : outbox'[k] = outbox[l]
        BY <2>1
      <3>2. Answers(l)
        BY DEF TypeInv, WireInv
      <3> QED
        BY <3>1, <3>2 DEF Answers
    <2>2. CASE outbox'[k].kind \in {"list", "error", "changed"}
      BY <2>2 DEF Answers
    <2>3. CASE waiting[outbox'[k].id] # None =>
                  waiting[outbox'[k].id].ask.kind # "get"
      BY <2>3 DEF Answers
    <2> QED
      BY <2>1, <2>2, <2>3
  <1> QED
    BY <1>1, <1>2 DEF WireInv

(***************************************************************************)
(* The steps keep the types.                                               *)
(***************************************************************************)
LinkTyped ==
    /\ {mounted, session, timer, missed, strayed} \subseteq BOOLEAN
    /\ socket \in {"none", "connecting", "open"} /\ strays \in Nat
    /\ socket # "open" => waiting = [i \in Ids |-> None]

ServerTyped ==
    /\ table \in Rows /\ handler \in {"absent", "list", "loop"}
    /\ outbox \in Seq(Message)

BudgetTyped ==
    budget \in [changes : 0..MaxChanges, acts : 0..MaxActs, drops : 0..MaxDrops]

LEMMA TypeParts ==
    /\ TypeOK => PageTyped /\ LinkTyped /\ ServerTyped /\ BudgetTyped
    /\ PageTyped' /\ LinkTyped' /\ ServerTyped' /\ BudgetTyped' => TypeOK'
  <1>1. TypeOK => PageTyped /\ LinkTyped /\ ServerTyped /\ BudgetTyped
    BY PageIsTyped DEF TypeOK, LinkTyped, ServerTyped, BudgetTyped
  <1>2. PageTyped' /\ LinkTyped' /\ ServerTyped' /\ BudgetTyped' => TypeOK'
    BY DEF TypeOK, PageTyped, LinkTyped, ServerTyped, BudgetTyped, Promises, Entry
  <1> QED
    BY <1>1, <1>2

\* A bound goes down by one.
LEMMA BudgetFacts ==
    ASSUME TypeOK,
           \/ UNCHANGED budget
           \/ budget.drops > 0 /\ budget' = [budget EXCEPT !.drops = @ - 1]
           \/ budget.acts > 0 /\ budget' = [budget EXCEPT !.acts = @ - 1]
           \/ budget.changes > 0 /\ budget' = [budget EXCEPT !.changes = @ - 1]
    PROVE  BudgetTyped'
  <1>1. \A n \in Nat : \A b \in 0..n : b > 0 => b - 1 \in 0..n
    OBVIOUS
  <1>2. {MaxChanges, MaxActs, MaxDrops} \subseteq Nat
    BY PanelAssumption
  <1>3. BudgetTyped
    BY TypeParts
  <1> QED
    BY <1>1, <1>2, <1>3 DEF BudgetTyped

LEMMA BreakTyped ==
    ASSUME TypeInv, Drop \/ Unauthorized \/ Leave
    PROVE  TypeInv'
  <1>t. TypeOK /\ PageTyped /\ LinkTyped /\ ServerTyped /\ BudgetTyped
    BY TypeParts DEF TypeInv
  <1>1. PICK b \in BOOLEAN : RejectsAll(b) /\ Breaks
    BY DEF Drop, Unauthorized, Leave
  <1>2. /\ PageTyped' /\ Lost' /\ waiting' = [i \in Ids |-> None]
        /\ socket' \in {"none", "connecting"} /\ outbox' \in Seq(Message)
    BY <1>t, <1>1, BreaksFacts
  <1>3. BudgetTyped'
    BY <1>t, BudgetFacts DEF Drop, Unauthorized, Leave
  <1>4. ServerTyped'
    BY <1>t, <1>2 DEF ServerTyped, Lost, Drop, Unauthorized, Leave
  <1>5. {mounted', session', missed'} \subseteq BOOLEAN
    BY <1>t DEF LinkTyped, Drop, Unauthorized, Leave
  <1>6. timer' \in BOOLEAN /\ strayed' \in BOOLEAN /\ strays' \in Nat
    <2>1. timer \in BOOLEAN /\ strayed \in BOOLEAN /\ strays \in Nat
      BY <1>t DEF LinkTyped
    <2>2. timer' \in {timer, TRUE, FALSE}
      BY DEF Drop, Unauthorized, Leave
    <2>3. strayed' \in {strayed, strayed \/ timer \/ strays > 0}
      BY DEF Drop, Unauthorized, Leave
    <2>4. strays' \in {strays, strays + 1, strays + 0}
      BY DEF Drop, Unauthorized, Leave
    <2>5. (strayed \/ timer \/ strays > 0) \in BOOLEAN
      OBVIOUS
    <2>6. timer' \in BOOLEAN
      BY <2>1, <2>2
    <2>7. strayed' \in BOOLEAN
      BY <2>1, <2>3, <2>5, Zenon
    <2>8. strays' \in Nat
      BY <2>1, <2>4
    <2> QED
      BY <2>6, <2>7, <2>8
  <1>7. LinkTyped'
    BY <1>2, <1>5, <1>6 DEF LinkTyped
  <1>8. WireInv'
    BY <1>2, EmptySeq DEF WireInv, Lost
  <1> QED
    BY <1>2, <1>3, <1>4, <1>7, <1>8, TypeParts DEF TypeInv

LEMMA AcceptTyped ==
    ASSUME TypeInv, Accept
    PROVE  TypeInv'
  <1>t. TypeOK /\ PageTyped /\ LinkTyped /\ ServerTyped /\ BudgetTyped
    BY TypeParts DEF TypeInv
  <1>1. Settling(waiting) /\ Outcome(waiting) /\ loading' \in BOOLEAN
        /\ reload' \in BOOLEAN
    BY <1>t, SettlingFacts, RequestReloadFacts DEF Accept
  <1>2. waiting' \in Promises /\ inbox' \in Seq(Entry)
    BY <1>t, <1>1, OutcomeTyped
  <1>3. socket' = "open" /\ handler' = "list"
        /\ UNCHANGED <<mounted, session, timer, strays, strayed, page, shown,
                       bulk, table, outbox, missed, budget>>
    BY DEF Accept
  <1>4. PageTyped'
    BY <1>t, <1>1, <1>2, <1>3 DEF PageTyped
  <1>5. LinkTyped' /\ ServerTyped' /\ BudgetTyped'
    BY <1>t, <1>3 DEF LinkTyped, ServerTyped, BudgetTyped
  <1>6. Lost
    BY DEF Accept, TypeInv, WireInv
  <1>7. WireInv'
    BY <1>1, <1>3, <1>4, <1>6, PageStep
  <1> QED
    BY <1>4, <1>5, <1>7, TypeParts DEF TypeInv

LEMMA ServerTypedStep ==
    ASSUME TypeInv, FirstList \/ Answer \/ OthersChange \/ Vanish
    PROVE  TypeInv'
  <1>t. /\ TypeOK /\ PageTyped /\ LinkTyped /\ ServerTyped /\ BudgetTyped
        /\ WireInv
    BY TypeParts DEF TypeInv
  <1>q. /\ inbox \in Seq(Entry) /\ outbox \in Seq(Message)
        /\ Len(inbox) \in Nat /\ Len(outbox) \in Nat
    BY <1>t, QueueFacts
  <1>u. UNCHANGED <<mounted, session, link, local>>
    BY DEF FirstList, Answer, OthersChange, Vanish
  <1>b. BudgetTyped'
    BY <1>t, BudgetFacts DEF FirstList, Answer, OthersChange, Vanish
  <1>l. ASSUME NEW i \in Ids \cup {None}, NEW p \in Pages
        PROVE  ListFor(i, p) \in Message /\ ListFor(i, p).kind = "list"
    BY <1>t DEF ListFor, Message, List, ServerTyped
  <1>s. \* What the four steps have in common.
        ASSUME ServerTyped', missed' \in BOOLEAN, inbox' \in Seq(Entry),
               socket' # "open" => Lost',
               handler' # "absent" => handler # "absent",
               \A k \in 1..Len(inbox') :
                   \E l \in 1..Len(inbox) : inbox'[k] = inbox[l],
               \A k \in 1..Len(outbox') :
                   \/ outbox'[k].kind \in {"list", "error", "changed"}
                   \/ \E l \in 1..Len(outbox) : outbox'[k] = outbox[l]
                   \/ waiting[outbox'[k].id] # None =>
                         waiting[outbox'[k].id].ask.kind # "get"
        PROVE  TypeInv'
    <2>1. UNCHANGED <<socket, waiting>>
      BY <1>u DEF link, local
    <2>2. WireInv'
      BY <1>s, <2>1, ServerStep
    <2>3. LinkTyped'
      BY <1>s, <1>t, <1>u DEF LinkTyped, link, local
    <2>4. PageTyped'
      BY <1>s, <1>t, <1>u DEF PageTyped, local
    <2> QED
      BY <1>b, <1>s, <2>2, <2>3, <2>4, TypeParts DEF TypeInv
  <1>1. CASE FirstList
    <2> DEFINE m == ListFor(None, 1)
    <2>1. m \in Message /\ m.kind = "list"
      BY <1>l, PanelAssumption
    <2>2. outbox' = Append(outbox, m) /\ UNCHANGED <<table, inbox>>
          /\ handler' = "loop" /\ missed' = FALSE /\ handler = "list"
      BY <1>1 DEF FirstList
    <2> HIDE DEF m
    <2>3. /\ outbox' \in Seq(Message) /\ Len(outbox') = Len(outbox) + 1
          /\ \A k \in 1..Len(outbox) : outbox'[k] = outbox[k]
          /\ outbox'[Len(outbox) + 1] = m
      BY <1>q, <2>1, <2>2, AppendFacts
    <2>4. \A k \in 1..Len(outbox') :
             \/ outbox'[k].kind = "list"
             \/ \E l \in 1..Len(outbox) : outbox'[k] = outbox[l]
      <3>1. \A k \in 1..Len(outbox') : k \in 1..Len(outbox) \/ k = Len(outbox) + 1
        BY <1>q, <2>3
      <3> QED
        BY <2>1, <2>3, <3>1
    <2>5. ServerTyped'
      BY <1>t, <2>2, <2>3 DEF ServerTyped
    <2>6. socket' = "open"
      BY <1>t, <1>u, <2>2 DEF WireInv, Lost, link
    <2> QED
      BY <1>q, <1>s, <2>2, <2>4, <2>5, <2>6
  <1>2. CASE Answer
    <2> DEFINE i == Head(inbox).id
               ask == Head(inbox).ask
    <2>1. /\ handler = "loop" /\ inbox # <<>> /\ inbox' = Tail(inbox)
          /\ UNCHANGED handler
      BY <1>2 DEF Answer
    <2>2. /\ Head(inbox) = inbox[1] /\ Head(inbox) \in Entry
          /\ inbox' \in Seq(Entry) /\ Len(inbox') = Len(inbox) - 1
          /\ \A k \in 1..Len(inbox) - 1 : inbox'[k] = inbox[k + 1]
          /\ Len(inbox) \in Nat \ {0}
      BY <1>q, <2>1, TailFacts
    <2>3. i \in Ids /\ ask \in Ask /\ i = inbox[1].id /\ ask = inbox[1].ask
      BY <2>2 DEF Entry
    <2>4. waiting[i] # None => waiting[i].ask = ask
      BY <1>t, <2>1, <2>2, <2>3 DEF WireInv, Asks
    <2>5. \A k \in 1..Len(inbox') : \E l \in 1..Len(inbox) : inbox'[k] = inbox[l]
      <3>1. \A k \in 1..Len(inbox') : k + 1 \in 1..Len(inbox) /\ k \in 1..Len(inbox) - 1
        BY <2>2
      <3> QED
        BY <2>2, <3>1
    <2>6. socket' = "open"
      BY <1>t, <1>u, <2>1 DEF WireInv, Lost, link
    <2>a. ASSUME NEW m \in Message, outbox' = Append(outbox, m),
                 m.kind \in {"list", "error"}
          PROVE  /\ outbox' \in Seq(Message)
                 /\ \A k \in 1..Len(outbox') :
                       \/ outbox'[k].kind \in {"list", "error", "changed"}
                       \/ \E l \in 1..Len(outbox) : outbox'[k] = outbox[l]
      <3>1. /\ outbox' \in Seq(Message) /\ Len(outbox') = Len(outbox) + 1
            /\ \A k \in 1..Len(outbox) : outbox'[k] = outbox[k]
            /\ outbox'[Len(outbox) + 1] = m
        BY <1>q, <2>a, AppendFacts
      <3>2. \A k \in 1..Len(outbox') : k \in 1..Len(outbox) \/ k = Len(outbox) + 1
        BY <1>q, <3>1
      <3> QED
        BY <2>a, <3>1, <3>2
    <2> HIDE DEF i, ask
    <2>7. CASE /\ ask.kind = "get"
               /\ outbox' = Append(outbox, ListFor(i, ask.page))
               /\ missed' = FALSE
               /\ UNCHANGED table
      <3>1. ListFor(i, ask.page) \in Message /\ ListFor(i, ask.page).kind = "list"
        BY <1>l, <2>3, <2>7, AskFields
      <3>2. outbox' \in Seq(Message)
            /\ \A k \in 1..Len(outbox') :
                       \/ outbox'[k].kind \in {"list", "error", "changed"}
                       \/ \E l \in 1..Len(outbox) : outbox'[k] = outbox[l]
        BY <2>7, <2>a, <3>1
      <3>3. ServerTyped'
        BY <1>t, <2>1, <2>7, <3>2 DEF ServerTyped
      <3> QED
        BY <1>s, <2>1, <2>2, <2>5, <2>6, <2>7, <3>2, <3>3
    <2>8. CASE /\ ask.kind # "get"
               /\ table' = Applied(ask)
               /\ Announces(<<[kind |-> "done", id |-> i,
                               row |-> IF ask.kind = "update" THEN ask.on
                                       ELSE None]>>)
      <3> DEFINE m == [kind |-> "done", id |-> i,
                       row |-> IF ask.kind = "update" THEN ask.on ELSE None]
      <3>1. m \in Message /\ m.id = i
        BY <2>3, AskFields DEF Message
      <3>2. Announces(<<m>>)
        BY <2>8
      <3> HIDE DEF m
      <3>3. <<m>> \in Seq(Message) /\ Len(<<m>>) = 1 /\ <<m>>[1] = m
        BY <3>1
      <3>4. /\ outbox' \in Seq(Message) /\ missed' \in BOOLEAN
            /\ \A k \in 1..Len(outbox') :
                  \/ outbox'[k].kind = "changed"
                  \/ \E l \in 1..Len(outbox) : outbox'[k] = outbox[l]
                  \/ \E l \in 1..Len(<<m>>) : outbox'[k] = <<m>>[l]
        BY <1>t, <3>2, <3>3, AnnouncesFacts
      <3>5. \A k \in 1..Len(outbox') :
                  \/ outbox'[k].kind = "changed"
                  \/ \E l \in 1..Len(outbox) : outbox'[k] = outbox[l]
                  \/ waiting[outbox'[k].id] # None =>
                        waiting[outbox'[k].id].ask.kind # "get"
        BY <2>4, <2>8, <3>1, <3>3, <3>4
      <3>6. ServerTyped'
        BY <1>t, <2>1, <2>3, <2>8, <3>4, AppliedTyped DEF ServerTyped
      <3> QED
        BY <1>s, <2>1, <2>2, <2>5, <2>6, <3>4, <3>5, <3>6
    <2>9. CASE /\ outbox' = Append(outbox, [kind |-> "error", id |-> i])
               /\ UNCHANGED <<table, missed>>
      <3> DEFINE m == [kind |-> "error", id |-> i]
      <3>1. m \in Message /\ m.kind = "error" /\ missed' \in BOOLEAN
        BY <1>t, <2>3, <2>9 DEF Message, LinkTyped
      <3>2. outbox' = Append(outbox, m)
        BY <2>9
      <3> HIDE DEF m
      <3>3. outbox' \in Seq(Message)
            /\ \A k \in 1..Len(outbox') :
                       \/ outbox'[k].kind \in {"list", "error", "changed"}
                       \/ \E l \in 1..Len(outbox) : outbox'[k] = outbox[l]
        BY <2>a, <3>1, <3>2
      <3>4. ServerTyped'
        BY <1>t, <2>1, <2>9, <3>3 DEF ServerTyped
      <3> QED
        BY <1>s, <2>1, <2>2, <2>5, <2>6, <3>1, <3>3, <3>4
    <2> QED
      BY <1>2, <2>7, <2>8, <2>9 DEF Answer, i, ask
  <1>3. CASE OthersChange
    <2>1. /\ UNCHANGED <<handler, inbox>> /\ table' \in Rows
      BY <1>3, <1>t DEF OthersChange, ServerTyped, Rows
    <2>2. CASE handler = "absent" /\ UNCHANGED <<outbox, missed>>
      <3>1. ServerTyped' /\ missed' \in BOOLEAN
        BY <1>t, <2>1, <2>2 DEF ServerTyped, LinkTyped
      <3>2. socket' # "open" => Lost'
        BY <1>t, <1>u, <2>1, <2>2 DEF WireInv, Lost, link
      <3> QED
        BY <1>q, <1>s, <2>1, <2>2, <3>1, <3>2
    <2>3. CASE handler # "absent" /\ Announces(<<>>)
      <3>1. <<>> \in Seq(Message) /\ Len(<<>>) = 0
        BY EmptySeq
      <3>2. /\ outbox' \in Seq(Message) /\ missed' \in BOOLEAN
            /\ \A k \in 1..Len(outbox') :
                  \/ outbox'[k].kind = "changed"
                  \/ \E l \in 1..Len(outbox) : outbox'[k] = outbox[l]
                  \/ \E l \in 1..Len(<<>>) : outbox'[k] = <<>>[l]
        BY <1>t, <2>3, <3>1, AnnouncesFacts
      <3>3. \A k \in 1..Len(outbox') :
                  \/ outbox'[k].kind = "changed"
                  \/ \E l \in 1..Len(outbox) : outbox'[k] = outbox[l]
        BY <3>1, <3>2
      <3>4. ServerTyped'
        BY <1>t, <2>1, <3>2 DEF ServerTyped
      <3>5. socket' = "open"
        BY <1>t, <1>u, <2>3 DEF WireInv, Lost, link
      <3> QED
        BY <1>q, <1>s, <2>1, <3>2, <3>3, <3>4, <3>5
    <2> QED
      BY <1>3, <2>2, <2>3 DEF OthersChange
  <1>4. CASE Vanish
    <2>1. handler # "absent" /\ handler' = "absent"
          /\ UNCHANGED <<table, inbox, outbox, missed>>
      BY <1>4 DEF Vanish
    <2>2. ServerTyped' /\ missed' \in BOOLEAN
      BY <1>t, <2>1 DEF ServerTyped, LinkTyped
    <2>3. socket' = "open"
      BY <1>t, <1>u, <2>1 DEF WireInv, Lost, link
    <2> QED
      BY <1>q, <1>s, <2>1, <2>2, <2>3
  <1> QED
    BY <1>1, <1>2, <1>3, <1>4

\* A step of a page with an open socket.
LEMMA OpenStepTyped ==
    ASSUME TypeInv, socket = "open", NEW w, Settling(w), Outcome(w),
           loading' \in BOOLEAN, reload' \in BOOLEAN, bulk' \in BOOLEAN,
           page' \in Pages, shown' \in List, BudgetTyped',
           UNCHANGED <<mounted, session, link, table, handler, missed>>,
           outbox' = outbox \/ (outbox # <<>> /\ outbox' = Tail(outbox))
    PROVE  TypeInv'
  <1>t. /\ TypeOK /\ PageTyped /\ LinkTyped /\ ServerTyped /\ WireInv
    BY TypeParts DEF TypeInv
  <1>q. outbox \in Seq(Message) /\ Len(outbox) \in Nat
    BY <1>t, QueueFacts
  <1>1. PageTyped'
    BY <1>t, OutcomeTyped DEF PageTyped
  <1>2. /\ outbox' \in Seq(Message)
        /\ \A k \in 1..Len(outbox') : \E l \in 1..Len(outbox) :
              outbox'[k] = outbox[l]
    <2>1. CASE outbox' = outbox
      BY <1>q, <2>1
    <2>2. CASE outbox # <<>> /\ outbox' = Tail(outbox)
      <3>1. /\ outbox' \in Seq(Message) /\ Len(outbox') = Len(outbox) - 1
            /\ \A k \in 1..Len(outbox) - 1 : outbox'[k] = outbox[k + 1]
        BY <1>q, <2>2, TailFacts
      <3>2. \A k \in 1..Len(outbox') : /\ k + 1 \in 1..Len(outbox)
                                       /\ k \in 1..Len(outbox) - 1
        BY <1>q, <3>1
      <3> QED
        BY <3>1, <3>2
    <2> QED
      BY <2>1, <2>2
  <1>3. LinkTyped'
    BY <1>t DEF LinkTyped, link
  <1>4. ServerTyped'
    BY <1>t, <1>2 DEF ServerTyped
  <1>5. WireInv'
    BY <1>1, <1>2, PageStep DEF link
  <1> QED
    BY <1>1, <1>3, <1>4, <1>5, TypeParts DEF TypeInv

\* A step that sends and settles nothing; it may connect.
LEMMA IdleStepTyped ==
    ASSUME TypeInv, socket' \in {socket, Connects},
           UNCHANGED <<waiting, inbox, server, loading, reload, shown, mounted>>,
           page' \in Pages, bulk' \in BOOLEAN, session' \in BOOLEAN,
           timer' \in BOOLEAN, strayed' \in BOOLEAN, strays' \in Nat, BudgetTyped'
    PROVE  TypeInv'
  <1>t. /\ TypeOK /\ PageTyped /\ LinkTyped /\ ServerTyped /\ WireInv
    BY TypeParts DEF TypeInv
  <1>1. socket' # "open" => socket # "open"
    BY DEF Connects
  <1>2. PageTyped' /\ ServerTyped'
    BY <1>t DEF PageTyped, ServerTyped, server
  <1>3. LinkTyped'
    BY <1>t, <1>1 DEF LinkTyped, Connects, server
  <1>4. WireInv'
    BY <1>t, <1>1 DEF WireInv, Lost, Asks, Answers, server
  <1> QED
    BY <1>2, <1>3, <1>4, TypeParts DEF TypeInv

LEMMA PendingFacts ==
    ASSUME TypeInv, NEW m \in Message, Pending(m)
    PROVE  /\ m.id \in Ids /\ waiting[m.id] \in Promise
           /\ Settling(Settled(m.id))
           /\ Settling(Detached(Settled(m.id)))
  <1>t. TypeOK /\ waiting \in Promises
    BY PageIsTyped DEF TypeInv, PageTyped
  <1>1. m.id \in Ids
    BY MessageFields DEF Pending
  <1> QED
    BY <1>t, <1>1, SettlingFacts, DetachedSettles DEF Promises, Pending

\* What is done was no list.
LEMMA DoneFacts ==
    ASSUME TypeInv, outbox # <<>>, Head(outbox).kind = "done",
           Pending(Head(outbox))
    PROVE  waiting[Head(outbox).id].ask.kind \in {"update", "delete", "bulk"}
  <1>1. /\ Head(outbox) = outbox[1] /\ Head(outbox) \in Message
        /\ 1 \in 1..Len(outbox)
    BY QueueFacts, TailFacts DEF TypeInv
  <1>2. waiting[Head(outbox).id] \in Promise
    BY <1>1, PendingFacts
  <1>3. waiting[Head(outbox).id].ask \in Ask
    BY <1>2, PromiseFields
  <1>4. Answers(1)
    BY <1>1 DEF TypeInv, WireInv
  <1> QED
    BY <1>1, <1>3, <1>4, AskFields DEF Answers, Pending

LEMMA ReceiveTyped ==
    ASSUME TypeInv, Receive
    PROVE  TypeInv'
  <1> DEFINE m == Head(outbox)
  <1>t. /\ TypeOK /\ PageTyped /\ LinkTyped /\ ServerTyped /\ BudgetTyped
    BY TypeParts DEF TypeInv
  <1>1. /\ socket = "open" /\ outbox # <<>> /\ outbox' = Tail(outbox)
        /\ UNCHANGED <<mounted, session, link, page, table, handler, missed,
                       budget>>
    BY DEF Receive
  <1>2. m \in Message
    BY <1>t, <1>1, QueueFacts, TailFacts
  <1>3. page' \in Pages /\ BudgetTyped'
    BY <1>t, <1>1 DEF PageTyped, BudgetTyped
  <1>w. Settling(waiting)
    BY <1>t, SettlingFacts
  <1>s. ASSUME NEW w, Settling(w), Outcome(w), loading' \in BOOLEAN,
               reload' \in BOOLEAN, bulk' \in BOOLEAN, shown' \in List
        PROVE  TypeInv'
    BY <1>s, <1>1, <1>3, OpenStepTyped
  <1>4. CASE m.kind = "list" /\ TakeList(m)
    <2>1. shown' \in List
      BY <1>2, <1>4, MessageFields DEF TakeList
    <2>2. CASE Pending(m)
      <3>1. Settling(Detached(Settled(m.id)))
        BY <1>2, <2>2, PendingFacts
      <3>2. LoadEnds(Detached(Settled(m.id))) /\ bulk' \in BOOLEAN
        BY <1>4, <2>2 DEF TakeList
      <3> QED
        BY <1>s, <1>t, <2>1, <3>1, <3>2, LoadEndsFacts
    <2>3. CASE ~Pending(m)
      <3>1. Settling(Detached(waiting))
        BY <1>t, <1>w, DetachedSettles
      <3>2. waiting' = Detached(waiting) /\ UNCHANGED <<loading, reload, bulk, inbox>>
        BY <1>4, <2>3 DEF TakeList
      <3>3. Outcome(Detached(waiting))
        BY <3>2 DEF Outcome
      <3> QED
        BY <1>s, <1>t, <2>1, <3>1, <3>2, <3>3 DEF PageTyped
    <2> QED
      BY <2>2, <2>3
  <1>5. CASE m.kind = "done" /\ TakeDone(m)
    <2> DEFINE p == waiting[m.id]
    <2>1. Pending(m) /\ UNCHANGED bulk
      BY <1>5 DEF TakeDone
    <2>2. /\ m.id \in Ids /\ p \in Promise /\ Settling(Settled(m.id))
          /\ p.ask.kind \in {"update", "delete", "bulk"}
      BY <1>1, <1>2, <1>5, <2>1, PendingFacts, DoneFacts
    <2>3. \A d \in Devices, v \in BOOLEAN \cup {None} :
             [shown EXCEPT !.rows[d] = v] \in List
      BY <1>t DEF PageTyped, List, Rows
    <2>4. p.ask.kind # "bulk" => p.ask.device \in Devices
      BY <2>2, PromiseFields, AskFields
    <2>5. m.row \in BOOLEAN \cup {None} /\ None \in BOOLEAN \cup {None}
      BY <1>2, <1>5, MessageFields
    <2>6. shown' \in List
      <3>1. CASE p.ask.kind = "update"
        BY <1>5, <1>t, <2>3, <2>4, <2>5, <3>1 DEF TakeDone, PageTyped
      <3>2. CASE p.ask.kind = "delete"
        BY <1>5, <2>3, <2>4, <2>5, <3>2 DEF TakeDone
      <3>3. CASE p.ask.kind = "bulk"
        BY <1>5, <1>t, <3>3 DEF TakeDone, PageTyped
      <3> QED
        BY <2>2, <3>1, <3>2, <3>3
    <2>7. Outcome(Settled(m.id)) /\ loading' \in BOOLEAN /\ reload' \in BOOLEAN
      <3>1. CASE Loads(Settled(m.id), page, TRUE) /\ UNCHANGED reload
        BY <1>t, <3>1, LoadsFacts DEF PageTyped
      <3>2. CASE waiting' = Settled(m.id) /\ UNCHANGED <<loading, reload, inbox>>
        BY <1>t, <3>2 DEF PageTyped, Outcome
      <3> QED
        BY <1>5, <3>1, <3>2 DEF TakeDone
    <2>8. bulk' \in BOOLEAN
      BY <1>t, <2>1 DEF PageTyped
    <2> QED
      BY <1>s, <2>2, <2>6, <2>7, <2>8
  <1>6. CASE m.kind = "error" /\ Pending(m) /\ Rejected(m.id)
    <2>1. m.id \in Ids
      BY <1>2, <1>6, PendingFacts
    <2>2. Settling(Settled(m.id)) /\ Outcome(Settled(m.id)) /\ PageTyped'
      BY <1>6, <1>t, <2>1, RejectedFacts
    <2> QED
      BY <1>s, <2>2 DEF PageTyped
  <1>7. CASE RequestReload(waiting) /\ UNCHANGED <<shown, bulk>>
    <2>1. Outcome(waiting) /\ loading' \in BOOLEAN /\ reload' \in BOOLEAN
      BY <1>7, <1>t, RequestReloadFacts
    <2>2. bulk' \in BOOLEAN /\ shown' \in List
      BY <1>7, <1>t DEF PageTyped
    <2> QED
      BY <1>s, <1>w, <2>1, <2>2
  <1>8. CASE UNCHANGED <<shown, loading, reload, waiting, bulk, inbox>>
    <2>1. Outcome(waiting)
      BY <1>8 DEF Outcome
    <2> QED
      BY <1>8, <1>s, <1>t, <1>w, <2>1 DEF PageTyped
  <1> QED
    BY <1>4, <1>5, <1>6, <1>7, <1>8 DEF Receive

LEMMA TimeoutTyped ==
    ASSUME TypeInv, NEW i \in Ids, Timeout(i)
    PROVE  TypeInv'
  <1>t. /\ TypeOK /\ LinkTyped /\ BudgetTyped
    BY TypeParts DEF TypeInv
  <1>1. /\ waiting[i] # None /\ Rejected(i)
        /\ UNCHANGED <<mounted, session, link, server, budget>>
    BY DEF Timeout
  <1>2. socket = "open"
    BY <1>t, <1>1 DEF LinkTyped
  <1>3. Settling(Settled(i)) /\ Outcome(Settled(i)) /\ PageTyped'
    BY <1>t, <1>1, RejectedFacts
  <1>4. BudgetTyped'
    BY <1>t, <1>1 DEF BudgetTyped
  <1>5. UNCHANGED <<table, handler, missed, outbox>>
    BY <1>1 DEF server
  <1> QED
    BY <1>1, <1>2, <1>3, <1>4, <1>5, OpenStepTyped DEF PageTyped

\* What the administrator does on the page.
LEMMA ActTyped ==
    ASSUME TypeInv,
           \/ \E p \in Pages : ChangePage(p)
           \/ Return
           \/ \E d \in Devices : ToggleAuth(d) \/ DeleteDevice(d)
           \/ \E ds \in SUBSET Devices \ {{}} : DeleteSelected(ds)
    PROVE  TypeInv'
  <1>t. /\ TypeOK /\ PageTyped /\ LinkTyped /\ ServerTyped /\ BudgetTyped
    BY TypeParts DEF TypeInv
  <1>w. Settling(waiting)
    BY <1>t, SettlingFacts
  <1>1. Acts
    BY DEF ChangePage, Return, ToggleAuth, DeleteDevice, DeleteSelected, Click
  <1>2. /\ UNCHANGED <<mounted, session, timer, strays, strayed, server>>
        /\ BudgetTyped'
    BY <1>1, <1>t, BudgetFacts DEF Acts
  <1>3. UNCHANGED <<table, handler, missed, outbox>>
    BY <1>2 DEF server
  <1>o. ASSUME socket = "open", UNCHANGED socket, Outcome(waiting),
               loading' \in BOOLEAN, reload' \in BOOLEAN, bulk' \in BOOLEAN,
               page' \in Pages, shown' \in List
        PROVE  TypeInv'
    BY <1>o, <1>w, <1>2, <1>3, OpenStepTyped DEF link
  <1>i. ASSUME socket' \in {socket, Connects},
               UNCHANGED <<waiting, inbox, loading, reload, shown>>,
               page' \in Pages, bulk' \in BOOLEAN
        PROVE  TypeInv'
    <2>1. /\ mounted' = mounted /\ session' \in BOOLEAN /\ timer' \in BOOLEAN
          /\ strayed' \in BOOLEAN /\ strays' \in Nat
      BY <1>t, <1>2 DEF LinkTyped
    <2> QED
      BY <1>i, <1>2, <2>1, IdleStepTyped
  <1>4. ASSUME NEW p \in Pages, ChangePage(p)
        PROVE  TypeInv'
    <2>1. page' \in Pages /\ bulk' \in BOOLEAN /\ shown' \in List
          /\ UNCHANGED shown
      BY <1>4, <1>t DEF ChangePage, PageTyped
    <2>2. CASE socket = "open"
      <3>1. Loads(waiting, p, FALSE) /\ UNCHANGED <<socket, reload>>
        BY <1>4, <2>2 DEF ChangePage
      <3>2. Outcome(waiting) /\ loading' \in BOOLEAN /\ reload' \in BOOLEAN
        BY <1>t, <3>1, LoadsFacts DEF PageTyped
      <3> QED
        BY <1>o, <2>1, <2>2, <3>1, <3>2
    <2>3. CASE socket # "open"
      BY <1>4, <1>i, <2>1, <2>3 DEF ChangePage
    <2> QED
      BY <2>2, <2>3
  <1>5. CASE Return
    <2>1. page' \in Pages /\ bulk' \in BOOLEAN /\ shown' \in List
          /\ UNCHANGED shown
      BY <1>5, <1>t DEF Return, PageTyped
    <2>2. CASE socket = "open"
      <3>1. RequestReload(waiting) /\ UNCHANGED socket
        BY <1>5, <2>2 DEF Return
      <3> QED
        BY <1>o, <1>t, <2>1, <2>2, <3>1, RequestReloadFacts
    <2>3. CASE socket # "open"
      BY <1>5, <1>i, <2>1, <2>3 DEF Return
    <2> QED
      BY <2>2, <2>3
  <1>6. ASSUME NEW ask \in Ask, Click(ask), bulk' \in BOOLEAN
        PROVE  TypeInv'
    <2>1. /\ UNCHANGED <<socket, page, shown, loading, reload>>
          /\ page' \in Pages /\ shown' \in List /\ loading' \in BOOLEAN
          /\ reload' \in BOOLEAN
      BY <1>6, <1>t DEF Click, PageTyped
    <2>2. CASE socket = "open"
      <3>1. Sends(waiting, ask, FALSE)
        BY <1>6, <2>2 DEF Click
      <3>2. Outcome(waiting)
        BY <3>1 DEF Outcome
      <3> QED
        BY <1>6, <1>o, <2>1, <2>2, <3>2
    <2>3. CASE socket # "open"
      BY <1>6, <1>i, <2>1, <2>3 DEF Click
    <2> QED
      BY <2>2, <2>3
  <1>7. ASSUME NEW d \in Devices, ToggleAuth(d)
        PROVE  TypeInv'
    <2>1. [kind |-> "update", device |-> d, on |-> ~shown.rows[d]] \in Ask
      BY DEF Ask
    <2>2. bulk' \in BOOLEAN
      BY <1>7, <1>t DEF ToggleAuth, PageTyped
    <2> QED
      BY <1>6, <1>7, <2>1, <2>2 DEF ToggleAuth
  <1>8. ASSUME NEW d \in Devices, DeleteDevice(d)
        PROVE  TypeInv'
    <2>1. [kind |-> "delete", device |-> d] \in Ask
      BY DEF Ask
    <2>2. bulk' \in BOOLEAN
      BY <1>8, <1>t DEF DeleteDevice, PageTyped
    <2> QED
      BY <1>6, <1>8, <2>1, <2>2 DEF DeleteDevice
  <1>9. ASSUME NEW ds \in SUBSET Devices, DeleteSelected(ds)
        PROVE  TypeInv'
    <2>1. [kind |-> "bulk", devices |-> ds] \in Ask
      BY DEF Ask
    <2>2. bulk' \in BOOLEAN
      BY <1>9 DEF DeleteSelected
    <2> QED
      BY <1>6, <1>9, <2>1, <2>2 DEF DeleteSelected
  <1> QED
    BY <1>4, <1>5, <1>7, <1>8, <1>9

LEMMA NextTypeInv == TypeInv /\ [Next]_vars => TypeInv'
  <1> SUFFICES ASSUME TypeInv, [Next]_vars
               PROVE  TypeInv'
    OBVIOUS
  <1>t. /\ TypeOK /\ PageTyped /\ LinkTyped /\ ServerTyped /\ BudgetTyped
    BY TypeParts DEF TypeInv
  <1>l. /\ timer \in BOOLEAN /\ strayed \in BOOLEAN /\ strays \in Nat
        /\ session \in BOOLEAN /\ page \in Pages /\ bulk \in BOOLEAN
    BY <1>t DEF LinkTyped, PageTyped
  <1>1. CASE Reconnect
    <2>1. /\ UNCHANGED <<mounted, session, strayed, local, server, inbox, budget>>
          /\ timer' = FALSE /\ socket' = Connects
      BY <1>1 DEF Reconnect
    <2>2. strays' \in Nat
      BY <1>1, <1>l DEF Reconnect
    <2>3. BudgetTyped'
      BY <1>t, <2>1 DEF BudgetTyped
    <2>4. UNCHANGED <<waiting, loading, reload, shown>> /\ page' \in Pages
          /\ bulk' \in BOOLEAN
      BY <1>l, <2>1 DEF local
    <2> QED
      BY <1>l, <2>1, <2>2, <2>3, <2>4, IdleStepTyped
  <1>2. CASE SessionExpires
    <2>1. UNCHANGED <<mounted, link, local, server, inbox, budget>>
          /\ session' = FALSE
      BY <1>2 DEF SessionExpires
    <2>2. BudgetTyped'
      BY <1>t, <2>1 DEF BudgetTyped
    <2>3. UNCHANGED <<waiting, loading, reload, shown>> /\ page' \in Pages
          /\ bulk' \in BOOLEAN
      BY <1>l, <2>1 DEF local
    <2>4. UNCHANGED <<socket, timer, strays, strayed>>
      BY <2>1 DEF link
    <2> QED
      BY <1>l, <2>1, <2>2, <2>3, <2>4, IdleStepTyped
  <1>3. CASE UNCHANGED vars
    <2>1. UNCHANGED <<mounted, session, link, local, server, inbox, budget>>
      BY <1>3 DEF vars
    <2>2. BudgetTyped'
      BY <1>t, <2>1 DEF BudgetTyped
    <2>3. UNCHANGED <<waiting, loading, reload, shown>> /\ page' \in Pages
          /\ bulk' \in BOOLEAN
      BY <1>l, <2>1 DEF local
    <2>4. UNCHANGED <<socket, timer, strays, strayed>>
      BY <2>1 DEF link
    <2> QED
      BY <1>l, <2>1, <2>2, <2>3, <2>4, IdleStepTyped
  <1> QED
    BY <1>1, <1>2, <1>3, BreakTyped, AcceptTyped, ServerTypedStep, ReceiveTyped,
       TimeoutTyped, ActTyped DEF Next

(***************************************************************************)
(* The types hold in every state of the page, the connection and the       *)
(* handler: what is done is never the answer to a list, and no request is  *)
(* pending without an open socket.                                         *)
(***************************************************************************)
THEOREM PanelTypeCorrect == Spec => []TypeOK
  <1>1. TypeInv => TypeOK
    BY DEF TypeInv
  <1> QED
    BY InitTypeInv, NextTypeInv, <1>1, PTL DEF Spec

-----------------------------------------------------------------------------
(***************************************************************************)
(* Reconnections.  A timer that reconnectTimer does not hold is one that   *)
(* was pending besides another.                                            *)
(***************************************************************************)
TimerInv ==
    /\ ReconnectArmed
    /\ strays > 0 => strayed
    /\ LeavingIsFinal

LEMMA InitTimerInv == Init => TimerInv
  BY DEF Init, TimerInv, ReconnectArmed, LeavingIsFinal

\* The steps that do not deal with the connection.
Aside ==
    /\ UNCHANGED <<mounted, session, timer, strays, strayed>>
    /\ socket' = socket \/ (mounted /\ socket' = Connects)

LEMMA OtherSteps ==
    ASSUME [Next]_vars
    PROVE  Drop \/ Unauthorized \/ Accept \/ Reconnect \/ SessionExpires \/ Leave
           \/ Aside
  <1>1. CASE FirstList \/ Answer \/ OthersChange \/ Vanish \/ Receive
    BY <1>1 DEF FirstList, Answer, OthersChange, Vanish, Receive, link, Aside
  <1>2. ASSUME NEW i \in Ids, Timeout(i) PROVE Aside
    BY <1>2 DEF Timeout, link, Aside
  <1>3. ASSUME NEW p \in Pages, ChangePage(p) PROVE Aside
    BY <1>3 DEF ChangePage, Acts, Aside
  <1>4. CASE Return
    BY <1>4 DEF Return, Acts, Aside
  <1>5. ASSUME NEW ask, Click(ask) PROVE Aside
    BY <1>5 DEF Click, Acts, Aside
  <1>6. ASSUME NEW d \in Devices, ToggleAuth(d) \/ DeleteDevice(d) PROVE Aside
    BY <1>5, <1>6 DEF ToggleAuth, DeleteDevice
  <1>7. ASSUME NEW ds \in SUBSET Devices \ {{}}, DeleteSelected(ds) PROVE Aside
    BY <1>5, <1>7 DEF DeleteSelected
  <1>8. CASE UNCHANGED vars
    BY <1>8 DEF vars, link, Aside
  <1> QED
    BY <1>1, <1>2, <1>3, <1>4, <1>6, <1>7, <1>8 DEF Next

LEMMA NextTimerInv == TypeInv /\ TimerInv /\ [Next]_vars => TimerInv'
  <1> SUFFICES ASSUME TypeInv, TimerInv, [Next]_vars
               PROVE  TimerInv'
    OBVIOUS
  <1>t. /\ strays \in Nat /\ timer \in BOOLEAN /\ strayed \in BOOLEAN
        /\ mounted \in BOOLEAN /\ session \in BOOLEAN
    BY TypeParts DEF TypeInv, LinkTyped
  <1>i. /\ (mounted /\ session /\ socket = "none") => (timer \/ strays > 0)
        /\ strays > 0 => strayed
        /\ (~mounted /\ ~strayed) => (socket = "none" /\ ~timer /\ strays = 0)
    BY DEF TimerInv, ReconnectArmed, LeavingIsFinal
  <1>1. CASE Drop
    <2>1. CASE mounted
      <3>1. /\ mounted' /\ timer' /\ strayed' = (strayed \/ timer \/ strays > 0)
            /\ strays' = strays + (IF timer THEN 1 ELSE 0)
        BY <1>1, <2>1 DEF Drop
      <3>2. strays' > 0 => strayed'
        <4>1. CASE timer
          BY <3>1, <4>1
        <4>2. CASE ~timer
          <5>1. strays' = strays
            BY <1>t, <3>1, <4>2
          <5> QED
            BY <3>1, <5>1
        <4> QED
          BY <4>1, <4>2
      <3> QED
        BY <3>1, <3>2 DEF TimerInv, ReconnectArmed, LeavingIsFinal
    <2>2. CASE ~mounted
      <3>1. UNCHANGED <<mounted, timer, strays, strayed>> /\ socket # "none"
        BY <1>1, <2>2 DEF Drop
      <3> QED
        BY <1>i, <2>2, <3>1 DEF TimerInv, ReconnectArmed, LeavingIsFinal
    <2> QED
      BY <2>1, <2>2
  <1>2. CASE Unauthorized
    <2>1. /\ UNCHANGED <<mounted, timer, strays, strayed>> /\ session' = FALSE
          /\ socket = "connecting"
      BY <1>2 DEF Unauthorized
    <2> QED
      BY <1>i, <2>1 DEF TimerInv, ReconnectArmed, LeavingIsFinal
  <1>3. CASE Accept
    <2>1. /\ UNCHANGED <<mounted, session, timer, strays, strayed>>
          /\ socket = "connecting" /\ socket' = "open"
      BY <1>3 DEF Accept
    <2> QED
      BY <1>i, <2>1 DEF TimerInv, ReconnectArmed, LeavingIsFinal
  <1>4. CASE Reconnect
    <2>1. /\ UNCHANGED <<mounted, session, strayed>> /\ timer' = FALSE
          /\ socket' = Connects /\ (timer \/ strays > 0)
      BY <1>4 DEF Reconnect
    <2>2. strays' > 0 => strayed
      <3>1. CASE timer /\ UNCHANGED strays
        BY <1>i, <3>1
      <3>2. CASE strays > 0
        BY <1>i, <3>2
      <3> QED
        BY <1>4, <3>1, <3>2 DEF Reconnect
    <2>3. session => socket' # "none"
      BY <2>1 DEF Connects
    <2>4. mounted \/ strayed
      BY <1>i, <1>t, <2>1
    <2> QED
      BY <2>1, <2>2, <2>3, <2>4 DEF TimerInv, ReconnectArmed, LeavingIsFinal
  <1>5. CASE SessionExpires
    <2>1. UNCHANGED <<mounted, socket, timer, strays, strayed>> /\ session' = FALSE
      BY <1>5 DEF SessionExpires, link
    <2> QED
      BY <1>i, <2>1 DEF TimerInv, ReconnectArmed, LeavingIsFinal
  <1>6. CASE Leave
    <2>1. /\ mounted' = FALSE /\ timer' = FALSE /\ UNCHANGED <<strays, strayed>>
          /\ socket' = "none"
      BY <1>6 DEF Leave, RejectsAll
    <2>2. ~strayed => strays = 0
      BY <1>i, <1>t
    <2> QED
      BY <1>i, <2>1, <2>2 DEF TimerInv, ReconnectArmed, LeavingIsFinal
  <1>7. CASE Aside
    <2>1. /\ UNCHANGED <<mounted, session, timer, strays, strayed>>
          /\ socket' = socket \/ (mounted /\ socket' = Connects)
      BY <1>7 DEF Aside
    <2>2. Connects = "none" => socket = "none"
      BY DEF Connects
    <2>3. ReconnectArmed'
      BY <1>i, <2>1, <2>2 DEF ReconnectArmed
    <2>4. LeavingIsFinal'
      BY <1>i, <2>1 DEF LeavingIsFinal
    <2> QED
      BY <1>i, <2>1, <2>3, <2>4 DEF TimerInv
  <1> QED
    BY <1>1, <1>2, <1>3, <1>4, <1>5, <1>6, <1>7, OtherSteps

(***************************************************************************)
(* A page that is shown and has lost its connection has a reconnection     *)
(* pending as long as the session lasts, however often the connection      *)
(* breaks and whatever asks for one in between.                            *)
(***************************************************************************)
THEOREM ReconnectionPending == Spec => []ReconnectArmed
  <1>1. TimerInv => ReconnectArmed
    BY DEF TimerInv
  <1> QED
    BY InitTypeInv, NextTypeInv, InitTimerInv, NextTimerInv, <1>1, PTL DEF Spec

(***************************************************************************)
(* Unless two reconnections were pending at once, nothing connects again   *)
(* after the page was left.                                                *)
(***************************************************************************)
THEOREM LeftForGood == Spec => []LeavingIsFinal
  <1>1. TimerInv => LeavingIsFinal
    BY DEF TimerInv
  <1> QED
    BY InitTypeInv, NextTypeInv, InitTimerInv, NextTimerInv, <1>1, PTL DEF Spec

-----------------------------------------------------------------------------
(***************************************************************************)
(* Loading.  Lists are asked for, and the last of them clears loading.     *)
(***************************************************************************)
HasGet(w) == \E i \in Ids : w[i] # None /\ w[i].ask.kind = "get"

LEMMA GetsFacts ==
    /\ LoadingHasRequest <=> ((loading \/ reload) => HasGet(waiting))
    /\ LoadingHasRequest' <=> ((loading' \/ reload') => HasGet(waiting'))
  BY DEF LoadingHasRequest, Gets, HasGet

\* Asking for a list leaves one under way.
LEMMA LoadsHasGet ==
    ASSUME TypeOK, NEW w, Settling(w), NEW p \in Pages, NEW e \in BOOLEAN,
           Loads(w, p, e)
    PROVE  HasGet(waiting')
  <1>1. GetAsk(p) \in Ask /\ Sends(w, GetAsk(p), e) /\ w \in Promises
    BY LoadsFacts DEF Settling
  <1>2. PICK i \in Ids : SentAs(w, GetAsk(p), e, i)
    BY <1>1, SendsFacts
  <1>3. waiting'[i] # None /\ waiting'[i].ask.kind = "get"
    BY <1>2 DEF SentAs, GetAsk
  <1> QED
    BY <1>3 DEF HasGet

\* Settling another request, or marking some, does not settle a list.
LEMMA HasGetKept ==
    ASSUME TypeOK
    PROVE  /\ \A i \in Ids : (HasGet(waiting) /\ waiting[i].ask.kind # "get")
                               => HasGet(Settled(i))
           /\ HasGet(waiting) => HasGet(Detached(waiting))
  <1>1. waiting \in Promises
    BY PageIsTyped DEF PageTyped
  <1>2. ASSUME NEW i \in Ids, HasGet(waiting), waiting[i].ask.kind # "get"
        PROVE  HasGet(Settled(i))
    <2>1. PICK j \in Ids : waiting[j] # None /\ waiting[j].ask.kind = "get"
      BY <1>2 DEF HasGet
    <2>2. j # i /\ Settled(i)[j] = waiting[j]
      BY <1>1, <1>2, <2>1 DEF Settled, Promises
    <2> QED
      BY <2>1, <2>2 DEF HasGet
  <1>3. ASSUME HasGet(waiting)
        PROVE  HasGet(Detached(waiting))
    <2>1. PICK j \in Ids : waiting[j] # None /\ waiting[j].ask.kind = "get"
      BY <1>3 DEF HasGet
    <2>2. Settling(Detached(waiting)) /\ Detached(waiting)[j] # None
      BY <2>1, SettlingFacts, DetachedSettles
    <2>3. Detached(waiting)[j].ask = waiting[j].ask
      BY <2>2 DEF Settling
    <2> QED
      BY <2>1, <2>2, <2>3 DEF HasGet
  <1> QED
    BY <1>2, <1>3

\* Sending another request does not settle a list.
LEMMA SendsKeepsGet ==
    ASSUME TypeOK, NEW ask \in Ask, Sends(waiting, ask, FALSE), HasGet(waiting)
    PROVE  HasGet(waiting')
  <1>1. waiting \in Promises
    BY PageIsTyped DEF PageTyped
  <1>2. PICK i \in Ids : SentAs(waiting, ask, FALSE, i)
    BY <1>1, SendsFacts
  <1>3. PICK j \in Ids : waiting[j] # None /\ waiting[j].ask.kind = "get"
    BY DEF HasGet
  <1>4. waiting'[j] = waiting[j]
    BY <1>2, <1>3 DEF SentAs
  <1> QED
    BY <1>3, <1>4 DEF HasGet

LEMMA LoadEndsLoading ==
    ASSUME TypeOK, NEW w, Settling(w), LoadEnds(w)
    PROVE  (loading' \/ reload') => HasGet(waiting')
  <1>1. page \in Pages
    BY DEF TypeOK
  <1> QED
    BY <1>1, LoadsHasGet DEF LoadEnds

LEMMA RequestReloadLoading ==
    ASSUME TypeOK, LoadingHasRequest, RequestReload(waiting)
    PROVE  (loading' \/ reload') => HasGet(waiting')
  <1>1. page \in Pages /\ Settling(waiting)
    BY SettlingFacts DEF TypeOK
  <1>2. loading => HasGet(waiting)
    BY GetsFacts
  <1> QED
    BY <1>1, <1>2, LoadsHasGet DEF RequestReload

LEMMA RejectedLoading ==
    ASSUME TypeOK, LoadingHasRequest, NEW i \in Ids, waiting[i] # None, Rejected(i)
    PROVE  (loading' \/ reload') => HasGet(waiting')
  <1>1. CASE LoadEnds(Settled(i))
    BY <1>1, SettlingFacts, LoadEndsLoading
  <1>2. CASE /\ waiting[i].ask.kind # "get"
             /\ waiting' = Settled(i) /\ UNCHANGED <<loading, reload, inbox>>
    BY <1>2, GetsFacts, HasGetKept
  <1> QED
    BY <1>1, <1>2 DEF Rejected

LEMMA NextLoading == TypeInv /\ LoadingHasRequest /\ [Next]_vars => LoadingHasRequest'
  <1> SUFFICES ASSUME TypeInv, LoadingHasRequest, [Next]_vars
               PROVE  (loading' \/ reload') => HasGet(waiting')
    BY GetsFacts
  <1>t. TypeOK /\ page \in Pages /\ loading \in BOOLEAN /\ reload \in BOOLEAN
    BY DEF TypeInv, TypeOK
  <1>h. (loading \/ reload) => HasGet(waiting)
    BY GetsFacts
  <1>u. ASSUME UNCHANGED <<loading, reload, waiting>>
        PROVE  (loading' \/ reload') => HasGet(waiting')
    BY <1>h, <1>u
  <1>1. CASE Drop \/ Unauthorized \/ Leave
    <2>1. PICK b \in BOOLEAN : RejectsAll(b)
      BY <1>1 DEF Drop, Unauthorized, Leave
    <2>2. loading \/ reload => Gets # {}
      BY DEF LoadingHasRequest
    <2> QED
      BY <2>1, <2>2 DEF RejectsAll
  <1>2. CASE Accept
    BY <1>2, <1>t, RequestReloadLoading DEF Accept
  <1>3. CASE Reconnect \/ FirstList \/ Answer \/ OthersChange \/ Vanish
             \/ SessionExpires
    BY <1>3, <1>u DEF Reconnect, FirstList, Answer, OthersChange, Vanish,
                      SessionExpires, local
  <1>4. CASE Receive
    <2> DEFINE m == Head(outbox)
    <2>1. m \in Message /\ outbox # <<>>
      BY <1>4, <1>t, QueueFacts, TailFacts DEF Receive
    <2>2. CASE m.kind = "list" /\ TakeList(m)
      <3>1. CASE Pending(m)
        <4>1. Settling(Detached(Settled(m.id))) /\ LoadEnds(Detached(Settled(m.id)))
          BY <2>1, <2>2, <3>1, PendingFacts DEF TakeList
        <4> QED
          BY <1>t, <4>1, LoadEndsLoading
      <3>2. CASE ~Pending(m)
        BY <1>h, <1>t, <2>2, <3>2, HasGetKept DEF TakeList
      <3> QED
        BY <3>1, <3>2
    <2>3. CASE m.kind = "done" /\ TakeDone(m)
      <3>1. Pending(m)
        BY <2>3 DEF TakeDone
      <3>2. /\ m.id \in Ids /\ Settling(Settled(m.id))
            /\ waiting[m.id].ask.kind # "get" /\ waiting[m.id] # None
        BY <2>1, <2>3, <3>1, PendingFacts, DoneFacts, NoneAssumption
      <3>3. CASE Loads(Settled(m.id), page, TRUE)
        BY <1>t, <3>2, <3>3, LoadsHasGet
      <3>4. CASE waiting' = Settled(m.id) /\ UNCHANGED <<loading, reload, inbox>>
        BY <1>h, <1>t, <3>2, <3>4, HasGetKept
      <3> QED
        BY <2>3, <3>3, <3>4 DEF TakeDone
    <2>4. CASE m.kind = "error" /\ Pending(m) /\ Rejected(m.id)
      <3>1. m.id \in Ids /\ waiting[m.id] # None
        BY <2>1, <2>4, PendingFacts, NoneAssumption
      <3> QED
        BY <1>t, <2>4, <3>1, RejectedLoading
    <2>5. CASE RequestReload(waiting)
      BY <1>t, <2>5, RequestReloadLoading
    <2>6. CASE UNCHANGED <<shown, loading, reload, waiting, bulk, inbox>>
      BY <1>u, <2>6
    <2> QED
      BY <1>4, <2>2, <2>3, <2>4, <2>5, <2>6 DEF Receive
  <1>5. ASSUME NEW i \in Ids, Timeout(i)
        PROVE  (loading' \/ reload') => HasGet(waiting')
    BY <1>5, <1>t, RejectedLoading DEF Timeout
  <1>6. ASSUME NEW p \in Pages, ChangePage(p)
        PROVE  (loading' \/ reload') => HasGet(waiting')
    <2>1. CASE Loads(waiting, p, FALSE)
      BY <1>t, <2>1, SettlingFacts, LoadsHasGet
    <2>2. CASE UNCHANGED <<loading, reload, waiting, inbox>>
      BY <1>u, <2>2
    <2> QED
      BY <1>6, <2>1, <2>2 DEF ChangePage
  <1>7. CASE Return
    <2>1. CASE RequestReload(waiting)
      BY <1>t, <2>1, RequestReloadLoading
    <2>2. CASE UNCHANGED <<loading, reload, waiting, inbox>>
      BY <1>u, <2>2
    <2> QED
      BY <1>7, <2>1, <2>2 DEF Return
  <1>8. ASSUME NEW ask \in Ask, Click(ask)
        PROVE  (loading' \/ reload') => HasGet(waiting')
    <2>1. UNCHANGED <<loading, reload>>
      BY <1>8 DEF Click
    <2>2. CASE Sends(waiting, ask, FALSE)
      BY <1>h, <1>t, <2>1, <2>2, SendsKeepsGet
    <2>3. CASE UNCHANGED waiting
      BY <1>u, <2>1, <2>3
    <2> QED
      BY <1>8, <2>2, <2>3 DEF Click
  <1>9. ASSUME NEW d \in Devices, ToggleAuth(d) \/ DeleteDevice(d)
        PROVE  (loading' \/ reload') => HasGet(waiting')
    <2>1. /\ [kind |-> "update", device |-> d, on |-> ~shown.rows[d]] \in Ask
          /\ [kind |-> "delete", device |-> d] \in Ask
      BY DEF Ask
    <2> QED
      BY <1>8, <1>9, <2>1 DEF ToggleAuth, DeleteDevice
  <1>10. ASSUME NEW ds \in SUBSET Devices \ {{}}, DeleteSelected(ds)
         PROVE  (loading' \/ reload') => HasGet(waiting')
    <2>1. [kind |-> "bulk", devices |-> ds] \in Ask
      BY DEF Ask
    <2> QED
      BY <1>8, <1>10, <2>1 DEF DeleteSelected
  <1>11. CASE UNCHANGED vars
    BY <1>11, <1>u DEF vars, local
  <1> QED
    BY <1>1, <1>2, <1>3, <1>4, <1>5, <1>6, <1>7, <1>9, <1>10, <1>11 DEF Next

(***************************************************************************)
(* The page says that it is loading, or has put a reload off, only while a *)
(* list is asked for: the answer or the timeout of that request ends it.   *)
(***************************************************************************)
THEOREM LoadingAsksForList == Spec => []LoadingHasRequest
  <1>1. Init => LoadingHasRequest
    BY DEF Init, LoadingHasRequest
  <1> QED
    BY InitTypeInv, NextTypeInv, <1>1, NextLoading, PTL DEF Spec

-----------------------------------------------------------------------------
(***************************************************************************)
(* What the page shows.  As long as the handler runs, a list of the        *)
(* current page is asked for, on its way or shown, or a message that makes *)
(* the page ask for one is on its way.                                     *)
(***************************************************************************)
Current == [page |-> page, rows |-> table]
IsGet(k) == inbox[k].ask.kind = "get"
LastGet(k) == IsGet(k) /\ \A l \in k + 1..Len(inbox) : ~IsGet(l)
IsError(k) == outbox[k].kind = "error"

Asked == \E k \in 1..Len(inbox) : IsGet(k)
\* The list asked for last is of the page that is selected.
RightPage == \A k \in 1..Len(inbox) : LastGet(k) => inbox[k].ask.page = page
News == \E k \in 1..Len(outbox) : outbox[k].kind = "changed"
OnItsWay(k) ==
    /\ outbox[k].kind = "list" /\ outbox[k].list = Current
    /\ \A l \in k + 1..Len(outbox) : IsError(l)
Coming == \E k \in 1..Len(outbox) : OnItsWay(k)
There ==
    /\ shown = Current
    /\ \A k \in 1..Len(outbox) : IsError(k)

Fresh == missed \/ reload \/ Asked \/ News \/ Coming \/ There

FreshInv ==
    handler # "absent" => RightPage /\ (handler = "list" => Asked) /\ Fresh

LEMMA InitFreshInv == Init => FreshInv
  BY DEF Init, FreshInv

\* A list is asked for: it is the last one, and of the page selected.
LEMMA AskFresh ==
    ASSUME TypeOK, NEW w, Settling(w), NEW p \in Pages, NEW e \in BOOLEAN,
           Loads(w, p, e), page' = p
    PROVE  Asked' /\ FreshInv'
  <1>1. GetAsk(p) \in Ask /\ Sends(w, GetAsk(p), e) /\ w \in Promises
    BY LoadsFacts DEF Settling
  <1>2. PICK i \in Ids : SentAs(w, GetAsk(p), e, i)
    BY <1>1, SendsFacts
  <1>n. PICK n \in Nat : n = Len(inbox) + 1
    BY QueueFacts
  <1>3. Len(inbox') = n /\ inbox'[n] = [id |-> i, ask |-> GetAsk(p)]
        /\ n \in 1..Len(inbox')
    BY <1>2, <1>n, QueueFacts DEF SentAs
  <1>4. IsGet(n)' /\ inbox'[n].ask.page = page'
    BY <1>3 DEF IsGet, GetAsk
  <1>5. Asked'
    BY <1>3, <1>4 DEF Asked
  <1>6. ASSUME NEW k \in 1..Len(inbox'), LastGet(k)'
        PROVE  inbox'[k].ask.page = page'
    <2>1. k = n
      <3>1. SUFFICES ASSUME k # n PROVE FALSE
        OBVIOUS
      <3>2. n \in k + 1..Len(inbox')
        BY <1>3, <1>n, <3>1, QueueFacts
      <3> QED
        BY <1>4, <1>6, <3>2 DEF LastGet
    <2> QED
      BY <1>4, <2>1
  <1> QED
    BY <1>5, <1>6 DEF FreshInv, Fresh, RightPage

\* No list is asked for, and none is answered.
SameGets == (Asked => Asked') /\ (RightPage => RightPage')

LEMMA SameInbox ==
    ASSUME UNCHANGED <<inbox, page>>
    PROVE  SameGets
  BY DEF SameGets, Asked, RightPage, LastGet, IsGet

LEMMA OtherRequest ==
    ASSUME TypeOK, NEW w \in Promises, NEW ask \in Ask, NEW e \in BOOLEAN,
           Sends(w, ask, e), ask.kind # "get", UNCHANGED page
    PROVE  SameGets
  <1>1. PICK i \in Ids : SentAs(w, ask, e, i)
    BY SendsFacts
  <1>n. PICK n \in Nat : n = Len(inbox)
    BY QueueFacts
  <1>2. /\ Len(inbox') = n + 1 /\ n \in Nat
        /\ \A k \in 1..n : inbox'[k] = inbox[k]
        /\ inbox'[n + 1] = [id |-> i, ask |-> ask]
    BY <1>1, <1>n, QueueFacts DEF SentAs
  <1>3. ~IsGet(n + 1)'
    BY <1>2 DEF IsGet
  <1>4. \A k \in 1..n : k \in 1..Len(inbox') /\ (IsGet(k)' <=> IsGet(k))
    BY <1>2 DEF IsGet
  <1>5. Asked => Asked'
    BY <1>n, <1>4 DEF Asked
  <1>6. ASSUME RightPage, NEW k \in 1..Len(inbox'), LastGet(k)'
        PROVE  inbox'[k].ask.page = page'
    <2>1. k \in 1..n
      <3>1. k # n + 1
        BY <1>3, <1>6 DEF LastGet
      <3> QED
        BY <1>2, <3>1
    <2>2. \A l \in k + 1..n : l \in k + 1..Len(inbox') /\ l \in 1..n
      BY <1>2, <2>1
    <2>3. LastGet(k)
      BY <1>4, <1>6, <2>1, <2>2, <1>n DEF LastGet
    <2> QED
      BY <1>2, <1>6, <1>n, <2>1, <2>3 DEF RightPage
  <1> QED
    BY <1>5, <1>6 DEF SameGets, RightPage

\* The handler takes the first request.
LEMMA TakenRequest ==
    ASSUME TypeOK, inbox # <<>>, inbox' = Tail(inbox), UNCHANGED page
    PROVE  /\ RightPage => RightPage'
           /\ ~IsGet(1) => (Asked => Asked')
           /\ IsGet(1) /\ RightPage /\ ~Asked' => inbox[1].ask.page = page
  <1> DEFINE n == Len(inbox)
  <1>1. /\ n \in Nat \ {0} /\ Len(inbox') = n - 1
        /\ \A k \in 1..n - 1 : inbox'[k] = inbox[k + 1]
    BY QueueFacts, TailFacts
  <1>2. \A k \in 1..n - 1 : k + 1 \in 1..n /\ (IsGet(k)' <=> IsGet(k + 1))
    BY <1>1 DEF IsGet
  <1>3. \A l \in 2..n : l - 1 \in 1..n - 1 /\ (l - 1) + 1 = l
    BY <1>1
  <1>4. \A l \in 2..n : IsGet(l - 1)' <=> IsGet(l)
    <2> SUFFICES ASSUME NEW l \in 2..n PROVE IsGet(l - 1)' <=> IsGet(l)
      OBVIOUS
    <2>1. inbox'[l - 1] = inbox[l]
      BY <1>1, <1>3
    <2> QED
      BY <2>1 DEF IsGet
  <1>5. ASSUME RightPage, NEW k \in 1..Len(inbox'), LastGet(k)'
        PROVE  inbox'[k].ask.page = page'
    <2>1. k \in 1..n - 1 /\ k + 1 \in 1..n /\ IsGet(k + 1)
      BY <1>1, <1>2, <1>5 DEF LastGet
    <2>2. ASSUME NEW l \in (k + 1) + 1..n PROVE ~IsGet(l)
      <3>1. l \in 2..n /\ l - 1 \in k + 1..n - 1
        BY <1>1, <2>1
      <3> QED
        BY <1>1, <1>4, <1>5, <3>1 DEF LastGet
    <2>3. LastGet(k + 1)
      BY <2>1, <2>2 DEF LastGet
    <2> QED
      BY <1>1, <1>5, <2>1, <2>3 DEF RightPage
  <1>6. ASSUME NEW k \in 1..n, IsGet(k), k # 1
        PROVE  Asked'
    <2>1. k \in 2..n
      BY <1>1, <1>6
    <2>2. k - 1 \in 1..Len(inbox') /\ IsGet(k - 1)'
      BY <1>1, <1>3, <1>4, <1>6, <2>1
    <2> QED
      BY <2>2 DEF Asked
  <1>7. ASSUME IsGet(1), RightPage, ~Asked'
        PROVE  inbox[1].ask.page = page
    <2>1. \A l \in 1 + 1..n : l \in 1..n /\ l # 1
      BY <1>1
    <2>2. LastGet(1) /\ 1 \in 1..n
      BY <1>1, <1>6, <1>7, <2>1 DEF LastGet
    <2> QED
      BY <1>7, <2>2 DEF RightPage
  <1> QED
    BY <1>5, <1>6, <1>7 DEF RightPage, Asked

\* The page takes the first message.
LEMMA TakenMessage ==
    ASSUME TypeOK, outbox # <<>>, outbox' = Tail(outbox), UNCHANGED <<page, table>>
    PROVE  LET m == Head(outbox) IN
           /\ News => News' \/ m.kind = "changed"
           /\ Coming => \/ Coming'
                        \/ /\ m.kind = "list" /\ m.list = Current'
                           /\ \A k \in 1..Len(outbox') : IsError(k)'
           /\ There => m.kind = "error" /\ \A k \in 1..Len(outbox') : IsError(k)'
  <1> DEFINE n == Len(outbox)
             m == Head(outbox)
  <1>1. /\ n \in Nat \ {0} /\ Len(outbox') = n - 1 /\ m = outbox[1]
        /\ \A k \in 1..n - 1 : outbox'[k] = outbox[k + 1]
    BY QueueFacts, TailFacts
  <1>2. Current' = Current
    BY DEF Current
  <1>3. \A k \in 1..n - 1 : k + 1 \in 1..n
    BY <1>1
  <1>4. ASSUME NEW l \in 1..n, l # 1
        PROVE  l - 1 \in 1..Len(outbox') /\ outbox'[l - 1] = outbox[l]
    <2>1. l - 1 \in 1..n - 1 /\ (l - 1) + 1 = l
      BY <1>1, <1>4
    <2> QED
      BY <1>1, <2>1
  <1>5. News => News' \/ m.kind = "changed"
    <2>1. ASSUME NEW l \in 1..n, outbox[l].kind = "changed", l # 1
          PROVE  News'
      BY <1>4, <2>1 DEF News
    <2> QED
      BY <1>1, <2>1 DEF News
  <1>6. ASSUME NEW k \in 1..n, \A l \in k + 1..n : IsError(l)
        PROVE  \A l \in 1..n - 1 : l >= k => IsError(l)'
    <2>1. \A l \in 1..n - 1 : l >= k => l + 1 \in k + 1..n
      BY <1>1
    <2> QED
      BY <1>1, <1>6, <2>1 DEF IsError
  <1>7. Coming => \/ Coming'
                  \/ /\ m.kind = "list" /\ m.list = Current'
                     /\ \A k \in 1..Len(outbox') : IsError(k)'
    <2> SUFFICES ASSUME NEW k \in 1..n, OnItsWay(k)
                 PROVE  \/ Coming'
                        \/ /\ m.kind = "list" /\ m.list = Current'
                           /\ \A l \in 1..Len(outbox') : IsError(l)'
      BY DEF Coming
    <2>1. /\ outbox[k].kind = "list" /\ outbox[k].list = Current
          /\ \A l \in 1..n - 1 : l >= k => IsError(l)'
      BY <1>6 DEF OnItsWay
    <2>2. CASE k = 1
      BY <1>1, <1>2, <2>1, <2>2
    <2>3. CASE k # 1
      <3>1. k - 1 \in 1..Len(outbox') /\ outbox'[k - 1] = outbox[k]
        BY <1>4, <2>3
      <3>2. \A l \in (k - 1) + 1..Len(outbox') : l \in 1..n - 1 /\ l >= k
        BY <1>1, <2>3
      <3>3. OnItsWay(k - 1)'
        BY <1>2, <2>1, <3>1, <3>2 DEF OnItsWay
      <3> QED
        BY <3>1, <3>3 DEF Coming
    <2> QED
      BY <2>2, <2>3
  <1>8. There => m.kind = "error" /\ \A k \in 1..Len(outbox') : IsError(k)'
    BY <1>1, <1>3 DEF There, IsError
  <1> QED
    BY <1>5, <1>7, <1>8

\* A message is put in the queue to the page.
LEMMA AddedMessage ==
    ASSUME TypeOK, NEW x \in Message, outbox' = Append(outbox, x)
    PROVE  /\ x.kind = "list" /\ x.list = Current' => Coming'
           /\ x.kind = "error" /\ UNCHANGED <<page, table, shown>> =>
                 /\ News => News'
                 /\ Coming => Coming'
                 /\ There => There'
  <1>n. PICK n \in Nat : n = Len(outbox)
    BY QueueFacts
  <1>1. /\ n \in Nat /\ Len(outbox') = n + 1 /\ outbox'[n + 1] = x
        /\ \A k \in 1..n : outbox'[k] = outbox[k]
    BY <1>n, QueueFacts, AppendFacts
  <1>2. n + 1 \in 1..Len(outbox')
        /\ \A k \in 1..Len(outbox') : k \in 1..n \/ k = n + 1
    BY <1>1
  <1>3. ASSUME x.kind = "list", x.list = Current'
        PROVE  Coming'
    <2>1. OnItsWay(n + 1)'
      BY <1>1, <1>3 DEF OnItsWay
    <2> QED
      BY <1>2, <2>1 DEF Coming
  <1>4. ASSUME x.kind = "error", UNCHANGED <<page, table, shown>>
        PROVE  (News => News') /\ (Coming => Coming') /\ (There => There')
    <2>1. Current' = Current
      BY <1>4 DEF Current
    <2>2. \A k \in 1..n : k \in 1..Len(outbox')
      BY <1>1
    <2>3. News => News'
      BY <1>1, <2>2, <1>n DEF News
    <2>4. Coming => Coming'
      <3> SUFFICES ASSUME NEW k \in 1..n, OnItsWay(k) PROVE Coming'
        BY <1>n DEF Coming
      <3>1. \A l \in k + 1..Len(outbox') : (l \in k + 1..n /\ l \in 1..n) \/ l = n + 1
        BY <1>1
      <3>2. OnItsWay(k)'
        BY <1>1, <1>4, <2>1, <3>1, <1>n DEF OnItsWay, IsError
      <3> QED
        BY <2>2, <3>2 DEF Coming
    <2>5. There => There'
      BY <1>1, <1>2, <1>4, <2>1, <1>n DEF There, IsError
    <2> QED
      BY <2>3, <2>4, <2>5
  <1> QED
    BY <1>3, <1>4

\* The end of a step: the list asked for keeps the page up to date, or the
\* step asks for none.
LEMMA KeepsFresh ==
    ASSUME FreshInv, UNCHANGED handler, SameGets, Fresh => Fresh'
    PROVE  FreshInv'
  BY DEF FreshInv, SameGets

LEMMA IdleFresh ==
    ASSUME FreshInv, UNCHANGED <<server, page, shown>>, SameGets, reload => reload'
    PROVE  FreshInv'
  <1>1. UNCHANGED <<table, handler, outbox, missed>>
    BY DEF server
  <1>2. Fresh => Fresh'
    <2>1. Current' = Current
      BY <1>1 DEF Current
    <2>2. (News => News') /\ (Coming => Coming') /\ (There => There')
      BY <1>1, <2>1 DEF News, Coming, There, OnItsWay, IsError
    <2>3. (missed => missed') /\ (Asked => Asked')
      BY <1>1 DEF SameGets
    <2> QED
      BY <2>2, <2>3 DEF Fresh
  <1> QED
    BY <1>1, <1>2, KeepsFresh

LEMMA LoadEndsFresh ==
    ASSUME TypeOK, NEW w, Settling(w), LoadEnds(w), UNCHANGED page
    PROVE  FreshInv' \/ UNCHANGED <<inbox, reload>>
  <1>1. page \in Pages
    BY DEF TypeOK
  <1> QED
    BY <1>1, AskFresh DEF LoadEnds

\* A reload is put off, or a list is asked for.
LEMMA RequestReloadFresh ==
    ASSUME TypeOK, RequestReload(waiting), UNCHANGED <<page, handler>>, FreshInv
    PROVE  FreshInv'
  <1>1. CASE Loads(waiting, page, FALSE)
    <2>1. page \in Pages
      BY DEF TypeOK
    <2> QED
      BY <1>1, <2>1, SettlingFacts, AskFresh
  <1>2. CASE reload' = TRUE /\ UNCHANGED inbox
    <2>1. SameGets
      BY <1>2, SameInbox
    <2> QED
      BY <1>2, <2>1, KeepsFresh DEF Fresh
  <1> QED
    BY <1>1, <1>2 DEF RequestReload

LEMMA RejectedFresh ==
    ASSUME TypeOK, NEW i \in Ids, Rejected(i)
    PROVE  FreshInv' \/ UNCHANGED <<inbox, reload>>
  <1>1. CASE LoadEnds(Settled(i))
    <2>1. UNCHANGED page
      BY DEF Rejected
    <2> QED
      BY <1>1, <2>1, SettlingFacts, LoadEndsFresh
  <1>2. CASE UNCHANGED <<loading, reload, inbox>>
    BY <1>2
  <1> QED
    BY <1>1, <1>2 DEF Rejected

LEMMA ReceiveFresh ==
    ASSUME TypeInv, FreshInv, Receive
    PROVE  FreshInv'
  <1> DEFINE m == Head(outbox)
  <1>t. TypeOK
    BY DEF TypeInv
  <1>1. /\ outbox # <<>> /\ outbox' = Tail(outbox)
        /\ UNCHANGED <<page, table, handler, missed>>
    BY DEF Receive
  <1>2. m \in Message
    BY <1>t, <1>1, QueueFacts, TailFacts
  <1>s. ASSUME UNCHANGED <<inbox, reload>>, m.kind # "changed",
               m.kind = "list" => shown' = m.list,
               m.kind = "error" => UNCHANGED shown
        PROVE  FreshInv'
    <2>1. SameGets
      BY <1>s, <1>1, SameInbox
    <2>2. /\ News => News' \/ m.kind = "changed"
          /\ Coming => \/ Coming'
                       \/ /\ m.kind = "list" /\ m.list = Current'
                          /\ \A k \in 1..Len(outbox') : IsError(k)'
          /\ There => m.kind = "error" /\ \A k \in 1..Len(outbox') : IsError(k)'
      BY <1>t, <1>1, TakenMessage
    <2>3. Current' = Current
      BY <1>1 DEF Current
    <2>4. Coming => Coming' \/ There'
      BY <1>s, <2>2 DEF There
    <2>5. There => There'
      BY <1>s, <2>2, <2>3 DEF There
    <2>6. Fresh => Fresh'
      BY <1>s, <1>1, <2>1, <2>2, <2>4, <2>5 DEF Fresh, SameGets
    <2> QED
      BY <1>1, <2>1, <2>6, KeepsFresh
  <1>3. CASE m.kind = "list" /\ TakeList(m)
    <2>1. shown' = m.list
      BY <1>3 DEF TakeList
    <2>2. FreshInv' \/ UNCHANGED <<inbox, reload>>
      <3>1. CASE Pending(m)
        <4>1. /\ Settling(Detached(Settled(m.id)))
              /\ LoadEnds(Detached(Settled(m.id)))
          BY <1>2, <1>3, <3>1, PendingFacts DEF TakeList
        <4> QED
          BY <1>t, <1>1, <4>1, LoadEndsFresh
      <3>2. CASE ~Pending(m)
        BY <1>3, <3>2 DEF TakeList
      <3> QED
        BY <3>1, <3>2
    <2> QED
      BY <1>s, <1>3, <2>1, <2>2
  <1>4. CASE m.kind = "done" /\ TakeDone(m)
    <2>1. Pending(m)
      BY <1>4 DEF TakeDone
    <2>2. CASE Loads(Settled(m.id), page, TRUE)
      <3>1. page \in Pages /\ Settling(Settled(m.id))
        BY <1>2, <2>1, PendingFacts DEF TypeInv, TypeOK
      <3> QED
        BY <1>t, <1>1, <2>2, <3>1, AskFresh
    <2>3. CASE UNCHANGED <<inbox, reload>>
      BY <1>s, <1>4, <2>3
    <2> QED
      BY <1>4, <2>2, <2>3 DEF TakeDone
  <1>5. CASE m.kind = "error" /\ Pending(m) /\ Rejected(m.id)
    <2>1. m.id \in Ids /\ UNCHANGED shown
      BY <1>2, <1>5, PendingFacts DEF Rejected
    <2>2. FreshInv' \/ UNCHANGED <<inbox, reload>>
      BY <1>t, <1>5, <2>1, RejectedFresh
    <2> QED
      BY <1>s, <1>5, <2>1, <2>2
  <1>6. CASE m.kind = "changed" /\ RequestReload(waiting)
    BY <1>t, <1>1, <1>6, RequestReloadFresh
  <1>7. CASE Ignored(m) /\ UNCHANGED <<shown, loading, reload, waiting, bulk, inbox>>
    <2>1. m.kind \in {"done", "error"}
      BY <1>7 DEF Ignored
    <2> QED
      BY <1>s, <1>7, <2>1
  <1> QED
    BY <1>3, <1>4, <1>5, <1>6, <1>7 DEF Receive

LEMMA ServerFresh ==
    ASSUME TypeInv, FreshInv, FirstList \/ Answer \/ OthersChange \/ Vanish
    PROVE  FreshInv'
  <1>t. TypeOK
    BY DEF TypeInv
  <1>u. UNCHANGED <<page, shown, reload>>
    BY DEF FirstList, Answer, OthersChange, Vanish, local
  <1>1. CASE FirstList
    <2>1. /\ handler = "list" /\ handler' = "loop" /\ UNCHANGED inbox
      BY <1>1 DEF FirstList
    <2>2. RightPage /\ Asked
      BY <2>1 DEF FreshInv
    <2>3. SameGets
      BY <1>u, <2>1, SameInbox
    <2> QED
      BY <2>1, <2>2, <2>3 DEF FreshInv, Fresh, SameGets
  <1>2. CASE Answer
    <2> DEFINE i == Head(inbox).id
               ask == Head(inbox).ask
    <2>1. /\ handler = "loop" /\ handler' = "loop" /\ inbox # <<>>
          /\ inbox' = Tail(inbox)
      BY <1>2 DEF Answer
    <2>2. /\ RightPage /\ Fresh
          /\ RightPage => RightPage'
          /\ ~IsGet(1) => (Asked => Asked')
          /\ IsGet(1) /\ RightPage /\ ~Asked' => inbox[1].ask.page = page
      BY <1>t, <1>u, <2>1, TakenRequest DEF FreshInv
    <2>3. /\ Head(inbox) = inbox[1] /\ Head(inbox) \in Entry
      BY <1>t, <2>1, QueueFacts, TailFacts
    <2>4. i \in Ids /\ ask \in Ask /\ (IsGet(1) <=> ask.kind = "get")
          /\ ask.page = inbox[1].ask.page
      BY <2>3 DEF Entry, IsGet
    <2> HIDE DEF i, ask
    <2>5. SUFFICES Fresh'
      BY <2>1, <2>2 DEF FreshInv
    <2>6. CASE /\ ask.kind = "get"
               /\ outbox' = Append(outbox, ListFor(i, ask.page))
               /\ UNCHANGED table
      <3> DEFINE x == ListFor(i, ask.page)
      <3>1. SUFFICES ASSUME ~Asked' PROVE Coming'
        BY DEF Fresh
      <3>2. ask.page = page
        BY <2>2, <2>4, <2>6, <3>1
      <3>3. x.kind = "list" /\ x.list = Current'
        BY <1>u, <2>6, <3>2 DEF ListFor, Current
      <3>4. x \in Message
        <4>1. table \in Rows /\ page \in Pages
          BY <1>t DEF TypeOK
        <4> QED
          BY <2>4, <3>2, <4>1 DEF ListFor, Message, List
      <3> QED
        BY <1>t, <2>6, <3>3, <3>4, AddedMessage
    <2>7. CASE Announces(<<[kind |-> "done", id |-> i,
                            row |-> IF ask.kind = "update" THEN ask.on
                                    ELSE None]>>)
      <3> DEFINE x == [kind |-> "done", id |-> i,
                       row |-> IF ask.kind = "update" THEN ask.on ELSE None]
      <3>1. x \in Message
        BY <2>4, AskFields DEF Message
      <3>2. Announces(<<x>>)
        BY <2>7
      <3> HIDE DEF x
      <3>3. <<x>> \in Seq(Message)
        BY <3>1
      <3>4. missed' \/ News'
        BY <1>t, <3>2, <3>3, AnnouncesFacts DEF News
      <3> QED
        BY <3>4 DEF Fresh
    <2>8. CASE /\ ask.kind # "get"
               /\ outbox' = Append(outbox, [kind |-> "error", id |-> i])
               /\ UNCHANGED <<table, missed>>
      <3> DEFINE x == [kind |-> "error", id |-> i]
      <3>1. x \in Message /\ x.kind = "error"
        BY <2>4 DEF Message
      <3>2. (News => News') /\ (Coming => Coming') /\ (There => There')
        BY <1>t, <1>u, <2>8, <3>1, AddedMessage
      <3> QED
        BY <1>u, <2>2, <2>4, <2>8, <3>2 DEF Fresh
    <2> QED
      BY <1>2, <2>6, <2>7, <2>8 DEF Answer, i, ask
  <1>3. CASE OthersChange
    <2>1. UNCHANGED <<handler, inbox>>
      BY <1>3 DEF OthersChange
    <2>2. CASE handler = "absent"
      BY <2>1, <2>2 DEF FreshInv
    <2>3. CASE handler # "absent"
      <3>1. Announces(<<>>) /\ <<>> \in Seq(Message)
        BY <1>3, <2>3, EmptySeq DEF OthersChange
      <3>2. missed' \/ News'
        BY <1>t, <3>1, AnnouncesFacts DEF News
      <3>3. SameGets
        BY <1>u, <2>1, SameInbox
      <3>4. Fresh'
        BY <3>2 DEF Fresh
      <3> QED
        BY <2>1, <3>3, <3>4, KeepsFresh
    <2> QED
      BY <2>2, <2>3
  <1>4. CASE Vanish
    BY <1>4 DEF Vanish, FreshInv
  <1> QED
    BY <1>1, <1>2, <1>3, <1>4

LEMMA NextFreshInv ==
    TypeInv /\ LoadingHasRequest /\ FreshInv /\ [Next]_vars => FreshInv'
  <1> SUFFICES ASSUME TypeInv, LoadingHasRequest, FreshInv, [Next]_vars
               PROVE  FreshInv'
    OBVIOUS
  <1>t. TypeOK /\ page \in Pages /\ Settling(waiting) /\ waiting \in Promises
    BY SettlingFacts DEF TypeInv, TypeOK, Settling
  <1>i. ASSUME UNCHANGED <<server, page, shown, inbox, reload>>
        PROVE  FreshInv'
    BY <1>i, SameInbox, IdleFresh
  <1>1. CASE Drop \/ Unauthorized \/ Leave
    BY <1>1 DEF Drop, Unauthorized, Leave, Breaks, FreshInv
  <1>2. CASE Accept
    <2>1. RequestReload(waiting) /\ UNCHANGED page /\ socket = "connecting"
      BY <1>2 DEF Accept
    <2>2. waiting = [i \in Ids |-> None]
      BY <1>t, <2>1 DEF TypeOK
    <2>3. Gets = {}
      BY <2>2 DEF Gets
    <2>4. ~loading
      BY <2>3 DEF LoadingHasRequest
    <2>5. Loads(waiting, page, FALSE)
      BY <2>1, <2>4 DEF RequestReload
    <2> QED
      BY <1>t, <2>1, <2>5, AskFresh
  <1>3. CASE Reconnect \/ SessionExpires
    BY <1>3, <1>i DEF Reconnect, SessionExpires, local
  <1>4. ASSUME NEW i \in Ids, Timeout(i)
        PROVE  FreshInv'
    <2>1. Rejected(i) /\ UNCHANGED server /\ UNCHANGED <<page, shown>>
      BY <1>4 DEF Timeout, Rejected
    <2> QED
      BY <1>i, <1>t, <2>1, RejectedFresh
  <1>5. ASSUME NEW p \in Pages, ChangePage(p)
        PROVE  FreshInv'
    <2>1. CASE socket = "open"
      <3>1. Loads(waiting, p, FALSE) /\ page' = p
        BY <1>5, <2>1 DEF ChangePage
      <3> QED
        BY <1>t, <3>1, AskFresh
    <2>2. CASE socket # "open"
      <3>1. handler = "absent"
        BY <2>2 DEF TypeInv, WireInv, Lost
      <3>2. UNCHANGED handler
        BY <1>5 DEF ChangePage, Acts, server
      <3> QED
        BY <3>1, <3>2 DEF FreshInv
    <2> QED
      BY <2>1, <2>2
  <1>6. CASE Return
    <2>1. UNCHANGED <<server, page, shown>>
      BY <1>6 DEF Return, Acts
    <2>2. CASE RequestReload(waiting)
      BY <1>t, <2>1, <2>2, RequestReloadFresh DEF server
    <2>3. CASE UNCHANGED <<loading, reload, waiting, inbox>>
      BY <1>i, <2>1, <2>3
    <2> QED
      BY <1>6, <2>2, <2>3 DEF Return
  <1>7. ASSUME NEW ask \in Ask, ask.kind # "get", Click(ask)
        PROVE  FreshInv'
    <2>1. UNCHANGED <<server, page, shown, reload>>
      BY <1>7 DEF Click, Acts
    <2>2. CASE Sends(waiting, ask, FALSE)
      <3>1. SameGets
        BY <1>7, <1>t, <2>1, <2>2, OtherRequest
      <3> QED
        BY <2>1, <3>1, IdleFresh
    <2>3. CASE UNCHANGED <<waiting, inbox>>
      BY <1>i, <2>1, <2>3
    <2> QED
      BY <1>7, <2>2, <2>3 DEF Click
  <1>8. ASSUME NEW d \in Devices, ToggleAuth(d) \/ DeleteDevice(d)
        PROVE  FreshInv'
    <2>1. /\ [kind |-> "update", device |-> d, on |-> ~shown.rows[d]] \in Ask
          /\ [kind |-> "delete", device |-> d] \in Ask
      BY DEF Ask
    <2> QED
      BY <1>7, <1>8, <2>1 DEF ToggleAuth, DeleteDevice
  <1>9. ASSUME NEW ds \in SUBSET Devices \ {{}}, DeleteSelected(ds)
        PROVE  FreshInv'
    <2>1. [kind |-> "bulk", devices |-> ds] \in Ask
      BY DEF Ask
    <2> QED
      BY <1>7, <1>9, <2>1 DEF DeleteSelected
  <1>10. CASE UNCHANGED vars
    BY <1>10, <1>i DEF vars, local
  <1> QED
    BY <1>1, <1>2, <1>3, <1>4, <1>5, <1>6, <1>8, <1>9, <1>10, ReceiveFresh,
       ServerFresh DEF Next

(***************************************************************************)
(* The page does not stay behind the table: when no message is under way   *)
(* and no list asked for, it shows the rows of the selected page as the    *)
(* table holds them, unless an announcement was lost.  No announcement is  *)
(* forgotten between lists under way, timeouts, late answers, rows changed *)
(* in place, pages selected and new connections.                           *)
(***************************************************************************)
THEOREM NothingIsForgotten == Spec => []QuietIsFresh
  <1>1. Init => LoadingHasRequest
    BY DEF Init, LoadingHasRequest
  <1>2. TypeInv /\ LoadingHasRequest /\ FreshInv => QuietIsFresh
    <2> SUFFICES ASSUME TypeInv, LoadingHasRequest, FreshInv, Quiet, ~missed
                 PROVE  shown = Current
      BY DEF QuietIsFresh, Current
    <2>1. /\ handler = "loop" /\ inbox = <<>> /\ outbox = <<>> /\ Gets = {}
      BY DEF Quiet
    <2>2. Fresh /\ ~reload
      BY <2>1 DEF FreshInv, LoadingHasRequest
    <2>3. ~Asked /\ ~News /\ ~Coming
      BY <2>1, EmptySeq DEF Asked, News, Coming
    <2> QED
      BY <2>2, <2>3 DEF Fresh, There
  <1> QED
    BY InitTypeInv, NextTypeInv, InitFreshInv, NextLoading, NextFreshInv,
       <1>1, <1>2, PTL DEF Spec
=============================================================================
