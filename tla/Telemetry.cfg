SPECIFICATION Spec
CONSTANTS
    Validities = {1, 3}
    DefaultValidity = 2
    MaxTime = 6
    MaxLate = 2
    MaxFaults = 2
    None = None
INVARIANTS WindowBounded
PROPERTIES NotCutShort ResumeKeepsEnd
