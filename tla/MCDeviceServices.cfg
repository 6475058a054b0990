SPECIFICATION Spec
CONSTANTS
    Workers = {w1, w2}
    Task = task
    MaxFaults = 1
    None = None
    Cases = {"listed"}
INVARIANTS
    CacheIsHub
    CommandConfirmed
    Agreement
    EventFollowsHub
PROPERTIES
    SpecificationRespected
SYMMETRY WorkerSymmetry
