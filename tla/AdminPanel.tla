------------------------------ MODULE AdminPanel ------------------------------
(***************************************************************************)
(* The device page of the web panel (web/src/components/AdminPanel.vue)    *)
(* and the /ws handler it talks to (app/routers/ws.py), over a connection  *)
(* that delivers in order until it breaks.                                 *)
(*                                                                         *)
(* The page runs one task of the browser's event loop at a time: an event  *)
(* of the socket, a timer, a click.  The continuations of the promises     *)
(* that a task settles run before the next task, so they are part of its   *)
(* step.                                                                   *)
(***************************************************************************)
EXTENDS Naturals, Sequences

CONSTANTS
    Devices,    \* devices the table may hold
    Pages,      \* pages of the list, the first one is 1
    Ids,        \* bound: request ids in use at the same time (an interval)
    MaxChanges, \* bound: changes others make
    MaxActs,    \* bound: what the administrator does on the page
    MaxDrops,   \* bound: connections that break
    None        \* no value

ASSUME PanelAssumption ==
    /\ Ids \subseteq Nat /\ Pages \subseteq Nat /\ 1 \in Pages
    /\ {MaxChanges, MaxActs, MaxDrops} \subseteq Nat
    /\ None \notin Ids \cup Pages /\ None \notin Devices \cup BOOLEAN

VARIABLES
    mounted,    \* the page is shown; it is the same as reconnectEnabled
    session,    \* api.getToken() is not null
    socket,     \* deviceSocket: none, connecting, open
    timer,      \* reconnectTimer is pending
    strays,     \* pending reconnections that reconnectTimer does not hold
    page,       \* currentPage
    shown,      \* devices: the list on the screen
    loading,    \* loading
    reload,     \* pendingDevicesReload
    waiting,    \* pendingWsRequests, None for an id that is free
    bulk,       \* bulkDeleting
    table,      \* the devices table: device -> is_authorized, None without one
    handler,    \* the /ws handler: absent, list (the first one), loop
    inbox,      \* what is on its way to the server
    outbox,     \* what is on its way to the page
    missed,     \* history: a change was not announced and no list read since
    strayed,    \* history: two reconnections were pending at once
    budget      \* bounds the model: what may still happen

local == <<page, shown, loading, reload, waiting, bulk>>
link == <<socket, timer, strays, strayed>>
server == <<table, handler, outbox, missed>>
vars == <<mounted, session, link, local, server, inbox, budget>>

Rows == [Devices -> BOOLEAN \cup {None}]
List == [page : Pages, rows : Rows]

\* What the page asks: a list, to set a row, to delete a row or several.
Ask == [kind : {"get"}, page : Pages]
       \cup [kind : {"update"}, device : Devices, on : BOOLEAN]
       \cup [kind : {"delete"}, device : Devices]
       \cup [kind : {"bulk"}, devices : SUBSET Devices]
\* The promise of a request.  live: the row object that was clicked is still
\* in the list; ends_bulk: the deletion of several waits for this list.
Promise == [ask : Ask, live : BOOLEAN, ends_bulk : BOOLEAN]

ASSUME NoneAssumption == None \notin Promise

Message == [kind : {"list"}, id : Ids \cup {None}, list : List]
           \cup [kind : {"done"}, id : Ids, row : BOOLEAN \cup {None}]
           \cup [kind : {"error"}, id : Ids]
           \cup [kind : {"changed"}]

TypeOK ==
    /\ {mounted, session, timer, loading, reload, bulk, missed, strayed}
          \subseteq BOOLEAN
    /\ socket \in {"none", "connecting", "open"}
    /\ strays \in Nat
    /\ page \in Pages
    /\ shown \in List
    /\ waiting \in [Ids -> Promise \cup {None}]
    /\ socket # "open" => waiting = [i \in Ids |-> None]
    /\ table \in Rows
    /\ handler \in {"absent", "list", "loop"}
    /\ inbox \in Seq([id : Ids, ask : Ask])
    /\ outbox \in Seq(Message)
    /\ budget \in [changes : 0..MaxChanges, acts : 0..MaxActs,
                   drops : 0..MaxDrops]

Init ==
    /\ mounted = TRUE /\ session = TRUE
    /\ socket = "connecting"
    /\ timer = FALSE /\ strays = 0 /\ strayed = FALSE
    /\ page = 1
    /\ shown = [page |-> 1, rows |-> [d \in Devices |-> None]]
    /\ loading = FALSE /\ reload = FALSE /\ bulk = FALSE
    /\ waiting = [i \in Ids |-> None]
    /\ table \in Rows
    /\ handler = "absent"
    /\ inbox = <<>> /\ outbox = <<>>
    /\ missed = FALSE
    /\ budget = [changes |-> MaxChanges, acts |-> MaxActs, drops |-> MaxDrops]

-----------------------------------------------------------------------------
(* Requests of the page.  w stands for pendingWsRequests after what the     *)
(* step has settled.                                                       *)

\* An id that no pending request carries, and no message that matters yet.
Free(w) ==
    {i \in Ids : /\ w[i] = None
                 /\ handler # "absent" =>
                       \A k \in 1..Len(inbox) : inbox[k].id # i
                 /\ \A k \in 1..Len(outbox) :
                       outbox[k].kind # "changed" => outbox[k].id # i}

\* sendWsRequest on an open socket.
Sends(w, ask, ends_bulk) ==
    \E i \in Free(w) :
        /\ \A j \in Free(w) : i <= j
        /\ waiting' = [w EXCEPT ![i] = [ask |-> ask, live |-> TRUE,
                                        ends_bulk |-> ends_bulk]]
        /\ inbox' = Append(inbox, [id |-> i, ask |-> ask])

Loads(w, p, ends_bulk) ==
    Sends(w, [kind |-> "get", page |-> p], ends_bulk) /\ loading' = TRUE

\* loadDevices after its request was settled.
LoadEnds_Mutant(w) ==
    IF reload
    THEN Loads(w, page, FALSE) /\ reload' = FALSE
    ELSE waiting' = w /\ UNCHANGED <<loading, reload, inbox>>
LoadEnds(w) ==
    IF reload
    THEN Loads(w, page, FALSE) /\ reload' = FALSE
    ELSE loading' = FALSE /\ waiting' = w /\ UNCHANGED <<reload, inbox>>

\* requestDevicesReload on an open socket.
RequestReload(w) ==
    IF loading
    THEN reload' = TRUE /\ waiting' = w /\ UNCHANGED <<loading, inbox>>
    ELSE Loads(w, page, FALSE) /\ UNCHANGED reload

\* applyDevicesPayload: new row objects, those of requests under way are not
\* in the list any more.
Detached(w) ==
    [i \in Ids |-> IF w[i] = None THEN None ELSE [w[i] EXCEPT !.live = FALSE]]

Settled(i) == [waiting EXCEPT ![i] = None]

\* A request failed: rejected by the server or by its timeout.
Rejected_Mutant(i) ==
    /\ IF waiting[i].ask.kind = "get"
       THEN LoadEnds(Settled(i))
       ELSE waiting' = Settled(i) /\ UNCHANGED <<loading, reload, inbox>>
    /\ UNCHANGED <<page, shown, bulk>>
Rejected(i) ==
    /\ IF waiting[i].ask.kind = "get"
       THEN LoadEnds(Settled(i))
       ELSE waiting' = Settled(i) /\ UNCHANGED <<loading, reload, inbox>>
    /\ bulk' = (bulk /\ waiting[i].ask.kind # "bulk" /\ ~waiting[i].ends_bulk)
    /\ UNCHANGED <<page, shown>>

-----------------------------------------------------------------------------
(* The socket *)

\* connectWebSocket.
Connects == IF socket = "none" /\ session THEN "connecting" ELSE socket

Gets == {i \in Ids : waiting[i] # None /\ waiting[i].ask.kind = "get"}

\* All pending requests are rejected.  The continuation of a list may ask for
\* the list again, at once: that connects.
RejectsAll(reloads) ==
    /\ waiting' = [i \in Ids |-> None]
    /\ loading' = (loading /\ Gets = {})
    /\ reload' = (reload /\ reloads /\ Gets = {})
    /\ bulk' = (bulk /\ \A i \in Ids : waiting[i] # None =>
                  waiting[i].ask.kind # "bulk" /\ ~waiting[i].ends_bulk)
    /\ socket' = IF reload /\ reloads /\ Gets # {} /\ session'
                 THEN "connecting" ELSE "none"
    /\ UNCHANGED <<page, shown>>

\* What was on its way is lost, and the handler ends.
Breaks == inbox' = <<>> /\ outbox' = <<>> /\ handler' = "absent"

\* onclose with a code other than 4401: once more in 3 seconds.
Drop_KeepsRequests ==
    /\ socket # "none"
    /\ budget.drops > 0
    /\ budget' = [budget EXCEPT !.drops = @ - 1]
    /\ UNCHANGED <<session, local>>
    /\ socket' = "none"
    /\ IF mounted
       THEN /\ timer' = TRUE
            /\ strays' = strays + (IF timer THEN 1 ELSE 0)
            /\ strayed' = (strayed \/ timer \/ strays > 0)
       ELSE UNCHANGED <<timer, strays, strayed>>
    /\ Breaks
    /\ UNCHANGED <<mounted, table, missed>>
Drop_Mutant ==
    /\ socket # "none"
    /\ budget.drops > 0
    /\ budget' = [budget EXCEPT !.drops = @ - 1]
    /\ UNCHANGED session
    /\ RejectsAll(TRUE)
    /\ IF mounted /\ socket = "open"
       THEN /\ timer' = TRUE
            /\ strays' = strays + (IF timer THEN 1 ELSE 0)
            /\ strayed' = (strayed \/ timer \/ strays > 0)
       ELSE UNCHANGED <<timer, strays, strayed>>
    /\ Breaks
    /\ UNCHANGED <<mounted, table, missed>>
Drop ==
    /\ socket # "none"
    /\ budget.drops > 0
    /\ budget' = [budget EXCEPT !.drops = @ - 1]
    /\ UNCHANGED session
    /\ RejectsAll(TRUE)
    /\ IF mounted
       THEN /\ timer' = TRUE
            /\ strays' = strays + (IF timer THEN 1 ELSE 0)
            /\ strayed' = (strayed \/ timer \/ strays > 0)
       ELSE UNCHANGED <<timer, strays, strayed>>
    /\ Breaks
    /\ UNCHANGED <<mounted, table, missed>>

\* 4401: the token is not accepted (any more), notifySessionExpired.  A server
\* that answers a close before accept with status 403 makes it a Drop.
Unauthorized ==
    /\ socket = "connecting"
    /\ session' = FALSE
    /\ RejectsAll(TRUE)
    /\ Breaks
    /\ UNCHANGED <<mounted, timer, strays, strayed, table, missed, budget>>

\* The handler accepts and joins the pool; onopen.
Accept ==
    /\ socket = "connecting"
    /\ socket' = "open"
    /\ handler' = "list"
    /\ RequestReload(waiting)
    /\ UNCHANGED <<mounted, session, timer, strays, strayed, page, shown, bulk,
                   table, outbox, missed, budget>>

\* A timer of onclose fires; one that reconnectTimer does not hold resets it
\* all the same.
Reconnect ==
    /\ timer \/ strays > 0
    /\ \/ timer /\ UNCHANGED strays
       \/ strays > 0 /\ strays' = strays - 1 + (IF timer THEN 1 ELSE 0)
    /\ timer' = FALSE
    /\ socket' = Connects
    /\ UNCHANGED <<mounted, session, strayed, local, server, inbox, budget>>

-----------------------------------------------------------------------------
(* The handler of /ws, and the changes of others *)

ListFor(i, p) ==
    [kind |-> "list", id |-> i, list |-> [page |-> p, rows |-> table]]

\* The first list: page 1, whatever the page shows.
FirstList ==
    /\ handler = "list"
    /\ handler' = "loop"
    /\ outbox' = Append(outbox, ListFor(None, 1))
    /\ missed' = FALSE
    /\ UNCHANGED <<mounted, session, link, local, table, inbox, budget>>

\* The table after a request; an unchanged one means that there was nothing
\* to change.
Applied(ask) ==
    [d \in Devices |->
        IF ask.kind = "update" /\ d = ask.device /\ table[d] # None THEN ask.on
        ELSE IF \/ ask.kind = "delete" /\ d = ask.device
                \/ ask.kind = "bulk" /\ d \in ask.devices
        THEN None ELSE table[d]]

Exists(ask) ==
    IF ask.kind = "bulk" THEN \E d \in ask.devices : table[d] # None
    ELSE table[ask.device] # None

\* A broadcast reaches the page, or breaks before it does (see WsHub).
Announces(msgs) ==
    \/ outbox' = outbox \o msgs \o <<[kind |-> "changed"]>> /\ UNCHANGED missed
    \/ outbox' = outbox \o msgs /\ missed' = TRUE

Answer ==
    LET i == Head(inbox).id
        ask == Head(inbox).ask
        refused == outbox' = Append(outbox, [kind |-> "error", id |-> i])
    IN  /\ handler = "loop"
        /\ inbox # <<>>
        /\ inbox' = Tail(inbox)
        /\ \/ /\ ask.kind = "get"
              /\ outbox' = Append(outbox, ListFor(i, ask.page))
              /\ missed' = FALSE
              /\ UNCHANGED table
           \/ /\ ask.kind # "get" /\ Exists(ask)
              /\ table' = Applied(ask)
              /\ Announces(<<[kind |-> "done", id |-> i,
                              row |-> IF ask.kind = "update" THEN ask.on
                                      ELSE None]>>)
           \/ /\ ask.kind # "get"
              /\ refused
              /\ UNCHANGED <<table, missed>>
        /\ UNCHANGED <<mounted, session, link, local, handler, budget>>

\* A heartbeat or another administrator changes the table.
OthersChange ==
    /\ budget.changes > 0
    /\ budget' = [budget EXCEPT !.changes = @ - 1]
    /\ \E d \in Devices, v \in BOOLEAN \cup {None} :
          table[d] # v /\ table' = [table EXCEPT ![d] = v]
    /\ IF handler = "absent" THEN UNCHANGED <<outbox, missed>>
       ELSE Announces(<<>>)
    /\ UNCHANGED <<mounted, session, link, local, handler, inbox>>

\* The server is gone, and the page does not notice yet.
Vanish ==
    /\ handler # "absent"
    /\ budget.drops > 0
    /\ handler' = "absent"
    /\ UNCHANGED <<mounted, session, link, local, table, inbox, outbox, missed,
                   budget>>

-----------------------------------------------------------------------------
(* The page: onmessage, timeouts and clicks *)

Pending(m) == m.kind # "changed" /\ m.id # None /\ waiting[m.id] # None

\* A list for a request that is not pending (any more) is shown as well.
TakeList_Mutant(m) ==
    /\ shown' = IF Pending(m) \/ m.id = None THEN m.list ELSE shown
    /\ IF Pending(m)
       THEN /\ LoadEnds(Detached(Settled(m.id)))
            /\ bulk' = (bulk /\ ~waiting[m.id].ends_bulk)
       ELSE /\ waiting' = Detached(waiting)
            /\ UNCHANGED <<loading, reload, bulk, inbox>>
TakeList(m) ==
    /\ shown' = m.list
    /\ IF Pending(m)
       THEN /\ LoadEnds(Detached(Settled(m.id)))
            /\ bulk' = (bulk /\ ~waiting[m.id].ends_bulk)
       ELSE /\ waiting' = Detached(waiting)
            /\ UNCHANGED <<loading, reload, bulk, inbox>>

\* toggleAuth, deleteDevice and deleteSelectedDevices after a success.
TakeDone(m) ==
    LET p == waiting[m.id] IN
    /\ Pending(m)
    /\ CASE p.ask.kind = "update" ->
              shown' = IF p.live THEN [shown EXCEPT !.rows[p.ask.device] = m.row]
                       ELSE shown
         [] p.ask.kind = "delete" ->
              shown' = [shown EXCEPT !.rows[p.ask.device] = None]
         [] p.ask.kind = "bulk" -> UNCHANGED shown
    /\ IF p.ask.kind = "bulk"
       THEN Loads(Settled(m.id), page, TRUE) /\ UNCHANGED reload
       ELSE waiting' = Settled(m.id) /\ UNCHANGED <<loading, reload, inbox>>
    /\ UNCHANGED bulk

Ignored(m) == m.kind \in {"done", "error"} /\ ~Pending(m)

Receive ==
    LET m == Head(outbox) IN
    /\ socket = "open"
    /\ outbox # <<>>
    /\ outbox' = Tail(outbox)
    /\ \/ m.kind = "list" /\ TakeList(m)
       \/ m.kind = "done" /\ TakeDone(m)
       \/ m.kind = "error" /\ Pending(m) /\ Rejected(m.id)
       \/ m.kind = "changed" /\ RequestReload(waiting) /\ UNCHANGED <<shown, bulk>>
       \/ Ignored(m) /\ UNCHANGED <<shown, loading, reload, waiting, bulk, inbox>>
    /\ UNCHANGED <<mounted, session, link, page, table, handler, missed, budget>>

\* After 8 seconds.
Timeout(i) ==
    /\ waiting[i] # None
    /\ Rejected(i)
    /\ UNCHANGED <<mounted, session, link, server, budget>>

Acts ==
    /\ mounted
    /\ budget.acts > 0
    /\ budget' = [budget EXCEPT !.acts = @ - 1]
    /\ UNCHANGED <<mounted, session, timer, strays, strayed, server>>

\* The pagination, or a sort order: loadDevices, whatever is loading.
ChangePage(p) ==
    /\ Acts
    /\ page' = p
    /\ IF socket = "open"
       THEN Loads(waiting, p, FALSE) /\ UNCHANGED <<socket, reload>>
       ELSE socket' = Connects /\ UNCHANGED <<loading, reload, waiting, inbox>>
    /\ UNCHANGED <<shown, bulk>>

\* The buttons of a row are disabled while one of its requests is under way.
Busy(d) ==
    \E i \in Ids : /\ waiting[i] # None
                   /\ waiting[i].live
                   /\ waiting[i].ask.kind \in {"update", "delete"}
                   /\ waiting[i].ask.device = d

\* A click of a button sends a request, or fails without an open socket.
Click(ask) ==
    /\ Acts
    /\ IF socket = "open"
       THEN Sends(waiting, ask, FALSE) ELSE UNCHANGED <<waiting, inbox>>
    /\ UNCHANGED <<socket, page, shown, loading, reload>>

ToggleAuth(d) ==
    /\ shown.rows[d] # None /\ ~Busy(d)
    /\ Click([kind |-> "update", device |-> d, on |-> ~shown.rows[d]])
    /\ UNCHANGED bulk

DeleteDevice(d) ==
    /\ shown.rows[d] # None /\ ~Busy(d)
    /\ Click([kind |-> "delete", device |-> d])
    /\ UNCHANGED bulk

\* The devices were selected some time ago, and the dialog was open since.
DeleteSelected(ds) ==
    /\ ~bulk
    /\ Click([kind |-> "bulk", devices |-> ds])
    /\ bulk' = (socket = "open")

\* The page is visible again, after 3 seconds or more.
Return ==
    /\ Acts
    /\ IF socket = "open"
       THEN RequestReload(waiting) /\ UNCHANGED socket
       ELSE socket' = Connects /\ UNCHANGED <<loading, reload, waiting, inbox>>
    /\ UNCHANGED <<page, shown, bulk>>

\* A request of another view was answered with 401.
SessionExpires ==
    /\ session
    /\ session' = FALSE
    /\ UNCHANGED <<mounted, link, local, server, inbox, budget>>

\* onUnmounted: requests are rejected, the socket closed and the timer that
\* reconnectTimer holds cleared.
Leave_Mutant ==
    /\ mounted
    /\ mounted' = FALSE
    /\ UNCHANGED session
    /\ RejectsAll(FALSE)
    /\ Breaks
    /\ UNCHANGED <<timer, strays, strayed, table, missed, budget>>
Leave ==
    /\ mounted
    /\ mounted' = FALSE
    /\ UNCHANGED session
    /\ RejectsAll(FALSE)
    /\ timer' = FALSE
    /\ Breaks
    /\ UNCHANGED <<strays, strayed, table, missed, budget>>

-----------------------------------------------------------------------------

Next ==
    \/ Drop \/ Unauthorized \/ Accept \/ Reconnect
    \/ FirstList \/ Answer \/ OthersChange \/ Vanish
    \/ Receive \/ (\E i \in Ids : Timeout(i))
    \/ (\E p \in Pages : ChangePage(p)) \/ Return
    \/ (\E d \in Devices : ToggleAuth(d) \/ DeleteDevice(d))
    \/ (\E ds \in SUBSET Devices \ {{}} : DeleteSelected(ds))
    \/ SessionExpires \/ Leave

\* The browser fires its timers.
Fairness == \A i \in Ids : WF_vars(Timeout(i))

Spec == Init /\ [][Next]_vars /\ Fairness

-----------------------------------------------------------------------------
(* Properties *)

\* Nothing under way: no message, no list asked for.
Quiet ==
    /\ socket = "open" /\ handler = "loop"
    /\ inbox = <<>> /\ outbox = <<>> /\ Gets = {}

\* When nothing is under way the page shows what the table holds, of the page
\* that is selected: no announcement is lost between lists under way,
\* timeouts, late answers, rows changed in place and new connections.
QuietIsFresh == (Quiet /\ ~missed) => shown = [page |-> page, rows |-> table]

\* The page says that it is loading only while it waits for a list, and a
\* reload that was put off has a list under way that will trigger it.
LoadingHasRequest == (loading \/ reload) => Gets # {}

\* A page without a connection has a reconnection pending, as long as the
\* session lasts.
ReconnectArmed ==
    (mounted /\ session /\ socket = "none") => (timer \/ strays > 0)

\* Leaving the page ends its connection and reconnections for good, unless
\* two reconnections were pending at once.
LeavingIsFinal ==
    (~mounted /\ ~strayed) => (socket = "none" /\ ~timer /\ strays = 0)

\* The deletion of several devices ends, whatever becomes of its requests,
\* the list it asks for, the connection and the page.
BulkEnds == bulk ~> ~bulk
===============================================================================
