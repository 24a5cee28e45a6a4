\* Two products at the same time.
CONSTANTS
    Apps = {a1, a2}
    Tasks = {t1, t2}
    Validity = 2
    MaxTime = 3
    MaxBeats = 3
    None = None
SPECIFICATION Spec
SYMMETRY Symmetry
INVARIANT RowsAreOwn
