\* One process, two panels with one change each, one heartbeat, fairness.
CONSTANTS
    Workers = {w1}
    Sockets = {s1, s2}
    Calls = {c1}
    MaxChanges = 1
    None = None
SPECIFICATION FairSpec
INVARIANTS
    TypeOK
    LivePanelsListen
    OnlySetupLeaks
    ToldUnlessBroken
PROPERTY AnnouncementsEnd
CHECK_DEADLOCK FALSE
