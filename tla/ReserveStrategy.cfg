SPECIFICATION Spec
CONSTANTS
    c1 = c1
    c2 = c2
    c3 = c3
    Client = {c1, c2, c3}
    NameRank <- Rank
    Dataset <- PageDataset
CHECK_DEADLOCK FALSE
INVARIANTS
    AskedStrategyIsUsed
