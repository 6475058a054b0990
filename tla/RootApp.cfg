SPECIFICATION FairAppSpec
CONSTANTS
    Services = 2
    Resetters = 2
    Faults = {"start", "stop", "reset"}
    MaxFaults = 2
INVARIANTS Layered RunningIsUp
PROPERTIES WokenWhenDown WaiterWoken
