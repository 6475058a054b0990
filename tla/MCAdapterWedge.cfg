SPECIFICATION FairSpec
CONSTANTS
    IDs <- MCIDs
    CustomAddress <- MeterCustom
    Sums = {1}
    MaxIndex = 1
    Faults = {"save"}
    MaxFaults = 1
    None = None
PROPERTY OperationsReturn
CHECK_DEADLOCK FALSE
