CONSTANTS
    maint = maint
    svc1 = svc1
    Callers = {maint, svc1}
    Owned = {maint}
    Conn = Conn
    Stop = Stop
    Refresh = Refresh
    NoProc = NoProc
    Readings = {r1, r2}
    NoReading = NoReading
    r1 = r1
    r2 = r2
    Packets <- OutputPackets
    MayCall <- AllCalls
    Faults = {"drop", "write", "notify"}
    MaxSessions = 2
    MaxVersion <- NoVersions
SPECIFICATION Spec
PROPERTIES
    OldSessionsIsolated
