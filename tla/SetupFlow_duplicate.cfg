CONSTANTS
    Flows = {f1, f2}
    Places = {p1, p2}
    Entries = {e1, e2}
    Nowhere = Nowhere
    NoEntry = NoEntry
SPECIFICATION Spec
INVARIANT OneEntryPerPlace
