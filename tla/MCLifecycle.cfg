SPECIFICATION FairSpec
CONSTANTS
    Types = {"auth", "health"}
    States = {"na", "ok", "lost"}
    Initial <- MCInitial
    Setters = {1, 2}
    Waiters = {1, 2, 3}
    Want <- MCWant
    Watcher = 0
    SubID <- SharedID
    Buffer = 1
    MaxChanges = 2
    None = None
INVARIANTS NoSendOnClosed EventsFollowState WaitNotEarly
PROPERTY LossReported
