SPECIFICATION FairSpec
CONSTANTS
    w1 = w1
    w2 = w2
    k1 = k1
    k2 = k2
    r1 = r1
    r2 = r2
    r3 = r3
    Web = {w1}
    Worker = {k1, k2}
    Run = {r1, r2}
    NoRun = NoRun
    NoProcess = NoProcess
    AsyncChoice = {TRUE}
    Mortal = {k1, k2}
    MaxCrashes = 2
    MaxDownloads = 0
CHECK_DEADLOCK FALSE
INVARIANTS
    QuietArtifactIsWhole
PROPERTIES
    ExportEnds
