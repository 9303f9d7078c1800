SPECIFICATION Spec
CONSTANTS
    w1 = w1
    w2 = w2
    k1 = k1
    k2 = k2
    r1 = r1
    r2 = r2
    r3 = r3
    Web = {w1, w2}
    Worker = {k1}
    Run = {r1, r2}
    NoRun = NoRun
    NoProcess = NoProcess
    AsyncChoice = {TRUE, FALSE}
    Mortal = {k1}
    MaxCrashes = 1
    MaxDownloads = 1
SYMMETRY Symmetry
CHECK_DEADLOCK FALSE
INVARIANTS
    NoRunIsLost
PROPERTIES
    KeepsPromise
