SPECIFICATION FairSpec
CONSTANTS
    IDs <- MCIDs
    CustomAddress <- MeterCustom
    Sums = {1, 2}
    MaxIndex = 1
    Faults = {"factory", "publish", "crash"}
    MaxFaults = 2
    None = None
INVARIANT RegisteredIncluded
PROPERTIES InitializeRegistersAll EventuallyInitialized OperationsReturn
