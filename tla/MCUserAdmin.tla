----------------------------- MODULE MCUserAdmin -----------------------------
(* Instances of UserAdmin for TLC. *)
EXTENDS UserAdmin, TLC

CONSTANTS n1, n2, p1, p2, w1, w2

\* One worker process on SQLite, or two on MySQL.
AllDeployments ==
    [workers : {{w1}, {w2}}, reuse_ids : {TRUE}]
    \cup [workers : {{w1, w2}}, reuse_ids : {FALSE}]

Admin(n) == [name |-> n, password |-> p1, active |-> TRUE, admin |-> TRUE]

\* Two administrators, and an administrator and a user.
TwoUsers ==
    {<<Admin(n1), [Admin(n2) EXCEPT !.admin = b]>> : b \in BOOLEAN}

\* What the handlers distinguish about two accounts, one field per update.
\* Administrator n1 and user n2 meet on the account n2, on its id and on the
\* log; n2 may try to demote or to stop n1.
AllRequests ==
    {l \in LoginRequest : l.name = n2 /\ l.password = p1}
    \cup {c \in ChangePasswordRequest : c.actor = n2 /\ c.new = p2}
    \cup DeleteRequest
    \cup {c \in CleanupRequest : c.actor = n1}
    \cup {c \in CreateRequest : c.actor = n1 /\ c.row.name = n2
                                /\ c.row.password = p2 /\ c.row.active}
    \cup {u \in UpdateRequest :
            \/ /\ u.actor = n1 /\ u.id = 2
               /\ \/ u.password = None /\ u.active # TRUE /\ u.admin = None
                  \/ u.password = None /\ u.active = None /\ u.admin = FALSE
                  \/ u.password = p2 /\ u.active = None /\ u.admin = None
            \/ /\ u.id = 1 /\ u.password = None
               /\ \/ u.active = FALSE /\ u.admin = None
                  \/ u.active = None /\ u.admin = FALSE /\ u.actor = n2}

Symmetry == Permutations(Reqs) \cup Permutations(Workers)
=============================================================================
