\* Three threads in two processes, three applies or calculations, one midnight.
SPECIFICATION Spec
CONSTANTS
    a1 = a1
    a2 = a2
    w1 = w1
    Request = {a1, a2, w1}
    Process = {"api", "workers"}
    ProcessOf <- MCProcessOf
    Batch = {"b1", "b2", "b3"}
    StockBatch = {"s1"}
    Key = {1, 2}
    Files <- MCFiles
    Refused <- MCRefused
    Window = 2
    MaxBegun = 3
    MaxDay = 1
SYMMETRY Symmetry
CHECK_DEADLOCK FALSE
INVARIANTS
    FactsAreOfTheirFile
    QuantitiesAreOfTheirFile
    PortfolioIsFreshest
PROPERTIES
    CommitsAreWhole
    ConflictsOnlyWhenCrossed
    FactsVanishOnlyByTheirOwner
    LoneWorkIsCurrent
