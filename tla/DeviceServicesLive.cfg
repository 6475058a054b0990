SPECIFICATION Spec
CONSTANTS
    Workers = {w1}
    Task = task
    MaxFaults = 2
    None = None
    Cases = {"listed"}
PROPERTIES
    HubCatchesUp
