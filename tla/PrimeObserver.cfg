SPECIFICATION FairSpec
CONSTANTS
    IDs = {1}
    Values = {a, b}
    Workers = {w1, w2}
    MaxChanges = 4
    MaxFaults = 2
    None = None
INVARIANTS CopyFaithful
PROPERTY CopyRecovers
