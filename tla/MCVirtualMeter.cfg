SPECIFICATION FairSpec
CONSTANTS
    Handlers <- MCHandlers
    Modes <- MCModes
    Levels <- MCLevels
    Buffer = 1
    RecalculationPeriod = 1
    GarbagePeriod = 2
    MaxTime = 3
    MaxChanges = 1
    MaxFaults = 1
    NoModes = NoModes
    None = None
INVARIANTS MeterMatchesStore EnergyExact NoTimeTwice ReadingsKept
PROPERTY MeterFollowsSwitch
