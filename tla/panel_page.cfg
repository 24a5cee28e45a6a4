\* One device, two pages, four requests at a time.
CONSTANTS
    Devices = {d1}
    Pages = {1, 2}
    Ids = {1, 2, 3, 4}
    MaxChanges = 2
    MaxActs = 1
    MaxDrops = 2
    None = None
SPECIFICATION Spec
INVARIANTS
    TypeOK
    QuietIsFresh
    LoadingHasRequest
    ReconnectArmed
    LeavingIsFinal
PROPERTY BulkEnds
CHECK_DEADLOCK FALSE
