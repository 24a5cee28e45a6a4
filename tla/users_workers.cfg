\* One worker process, and two on both databases.
CONSTANTS
    n1 = n1
    n2 = n2
    p1 = p1
    p2 = p2
    w1 = w1
    w2 = w2
    Names = {n1, n2}
    Passwords = {p1, p2}
    Ids = {1, 2}
    Reqs = {r1, r2, r3}
    Workers = {w1, w2}
    None = None
    Accounts <- TwoUsers
    Deployments <- AllDeployments
    Requests <- AllRequests
SYMMETRY Symmetry
SPECIFICATION Spec
INVARIANTS
    TypeOK
    LogTellsTargets
    LogAndRepliesTrue
PROPERTIES
    AccountsKept
    ActorsInForce
    DeletionLeavesAdmin
    PasswordHandedOver
CHECK_DEADLOCK FALSE
