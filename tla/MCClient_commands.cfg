CONSTANTS
    maint = maint
    svc1 = svc1
    Callers = {maint, svc1}
    Owned = {maint}
    Conn = Conn
    Stop = Stop
    Refresh = Refresh
    NoProc = NoProc
    Readings = {r1, r2}
    NoReading = NoReading
    r1 = r1
    r2 = r2
    Packets <- OutputPackets
    MayCall <- CommandCalls
    Faults = {"drop", "write", "cancel"}
    MaxSessions = 2
    MaxVersion <- OutputVersions
SPECIFICATION Spec
CONSTRAINT OneAtATime
INVARIANTS
    LockDiscipline
    NoLostWakeup
    WriteSessionStable
    SessionEvidence
    NoStrandedTransaction
    StopQuiet
PROPERTIES
    ImplementsCommandGate
