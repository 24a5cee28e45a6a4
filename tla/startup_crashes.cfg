\* Three worker processes that may die.
CONSTANTS
    Workers = {w1, w2, w3}
    MaxStarts = 2
    None = None
SPECIFICATION Spec
INVARIANTS
    TypeOK
    OneInitialiser
    ReadyWhenAllServe
PROPERTY EveryoneServes
CHECK_DEADLOCK FALSE
