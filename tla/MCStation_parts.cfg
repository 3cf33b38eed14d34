CONSTANTS
    Byte = {0, 1, 2, 3}
    H1 = 2
    H2 = 3
    LenAt = 3
    Peek = 3
    Overhead = 4
    MaxPayload = 1
    ChunkMax = 2
    BufMax = 6
    Accepts <- ChecksumOK
    MaxCallback = 3
    MaxStream = 8
    Bits = {0, 1, 2, 4, 5}
    Hours = {2, 3, 6}
    MaxCommands = 2
    MaxPresses = 1
    NoReading = NoReading
    NoFrame = NoFrame
    Reserved = Reserved
    Writable = {"R600", "VOLIX"}
    ReadOnly = {"S300"}
    Rejected = {"S500"}
    NoModel = ""
    MaxSessions = 3
    Addresses = {A, B, C}
    Keys = {k1, k2}
    Stray = Stray
    Retired = Retired
    NoAddress = NoAddress
    MaxIds = 4
    Flows = {f1, f2}
    Places = {p1, p2}
    Entries = {e1, e2}
    Nowhere = Nowhere
    NoEntry = NoEntry
SPECIFICATION PartsSpec
SYMMETRY Symmetry
INVARIANTS
    NoFrameLost
    RetainedBounded
    CutsDoNotShow
    WritesVerified
    ConflictStored
    RecordsOfStation
    OvertakenOnly
    ProbeLinkReturned
PROPERTIES
    OnlyAsked
    ResolvedInSession
    IdentityKept
    SameDeviceKeeps
