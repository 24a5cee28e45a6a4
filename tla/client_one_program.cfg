\* Two products, one call at a time.
CONSTANTS
    Apps = {a1, a2}
    Tasks = {t1}
    Validity = 2
    MaxTime = 3
    MaxBeats = 4
    None = None
SPECIFICATION Spec
INVARIANTS
    TypeOK
    OfflineWithinValidity
    RowsAreOwn
    LightAnswerCounts
PROPERTY DenialSticks
