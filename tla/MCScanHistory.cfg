SPECIFICATION FairSpec
CONSTANTS
    Threads = {t1, t2}
    MaxScans = 3
    None = None
    Retention = 0
    MaxTime = 2
CHECK_DEADLOCK FALSE
INVARIANTS
    TypeOK
    AuditComplete
PROPERTIES
    JudgedRowsStay
    CallsReturn
