SPECIFICATION Spec
CONSTANTS
    IDs <- MCIDs
    CustomAddress <- AllAcquired
    Sums = {1}
    MaxIndex = 3
    Faults = {"save", "factory", "publish", "crash"}
    MaxFaults = 2
    None = None
INVARIANTS UniqueAddresses
PROPERTIES AddressOwnership EnsureSettles
CHECK_DEADLOCK FALSE
