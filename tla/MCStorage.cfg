SPECIFICATION Spec
CONSTANTS
    Fields <- MCFields
    DefaultFields <- MCDefaultFields
    Vals <- MCVals
    Zero <- MCZero
    Defaults <- MCDefaults
    HasDefaults = TRUE
    FaultsAnywhere = FALSE
    Absent = Absent
    Torn = Torn
INVARIANTS TypeOK CrashSafe SaveAcknowledged
PROPERTY ImplementsDurableStore
