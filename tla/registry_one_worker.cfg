\* One worker process on SQLite.
CONSTANTS
    Devices = {d1, d2}
    Infos = {i1}
    Remarks = {k1}
    Reqs = {r1, r2, r3}
    Workers = {w1}
    ReuseIds = TRUE
    None = None
    Requests <- AllRequests
SYMMETRY Symmetry
SPECIFICATION Spec
INVARIANTS
    TypeOK
    LogExact
    RepliesTellEffect
PROPERTY ImplementsPromise
CHECK_DEADLOCK FALSE
