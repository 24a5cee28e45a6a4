\* One process.
CONSTANTS
    Workers = {w1}
    Sockets = {s1, s2}
    Calls = {c1, c2}
    MaxChanges = 1
    None = None
SPECIFICATION Spec
SYMMETRY Symmetry
INVARIANT LastCheckMeansSuccess
CHECK_DEADLOCK FALSE
