\* Two worker processes on MySQL.
CONSTANTS
    Devices = {d1, d2}
    Infos = {i1}
    Remarks = {k1}
    Reqs = {r1, r2, r3, r4}
    Workers = {w1, w2}
    ReuseIds = FALSE
    None = None
    Requests <- ConflictingRequests
SYMMETRY Symmetry
SPECIFICATION Spec
INVARIANTS
    StampsOwn
    AnswerOwn
    RemovalsLogged
PROPERTIES
    DecisionsHold
CHECK_DEADLOCK FALSE
