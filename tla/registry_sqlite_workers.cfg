\* Two worker processes on SQLite, where the id of a deleted row is reused.
CONSTANTS
    Devices = {d1, d2}
    Infos = {i1}
    Remarks = {k1}
    Reqs = {r1, r2, r3, r4}
    Workers = {w1, w2}
    ReuseIds = TRUE
    None = None
    Requests <- ConflictingRequests
SYMMETRY Symmetry
SPECIFICATION Spec
INVARIANT StampsOwn
CHECK_DEADLOCK FALSE
