CONSTANTS
    Configs = {c1, c2}
    Options = {o1, o2}
    Nothing = Nothing
    Flows = {f1}
    Faults <- AllFaults
    MaxReloads = 2
SPECIFICATION FairSpec
INVARIANTS
    ClientOwned
    RuntimeCurrent
    RestartReported
    IdentityOfDevice
PROPERTIES
    ChangeUsed
    CleanStart
    ReportKept
