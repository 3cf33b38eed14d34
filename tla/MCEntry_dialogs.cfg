CONSTANTS
    Configs = {c1, c2}
    Options = {o1, o2}
    Nothing = Nothing
    Flows = {f1, f2}
    Faults <- RegistryFault
    MaxReloads = 1
SPECIFICATION Spec
INVARIANTS
    IdentityOfDevice
