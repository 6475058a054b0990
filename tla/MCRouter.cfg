SPECIFICATION FairSpec
CONSTANTS
    Workers = {1, 2}
    Buffer = 2
    Messages <- MCMessages
    RouteCount = 3
    Accepts <- MCAccepts
    Locker <- MCLocker
    Silent = {2, 3}
    Confirm = {1}
    Resets = {3}
    Unreachable = {"other"}
    Lockers = {"app"}
    None = None
INVARIANTS OneAtATime NoStuckLocker QuietWhenStopped
PROPERTIES StopReturns Taken
