SPECIFICATION Spec
CONSTANTS
    s1 = s1
    s2 = s2
    Session = {s1, s2}
    SourceType = {"stock", "raw_report"}
    MappingQuality = {"empty", "flawed", "clean"}
    NoHint = NoHint
    NoSession = NoSession
    CanCrash = TRUE
SYMMETRY Symmetry
INVARIANTS
    VerdictMatchesIssues
    OneApplyOfFacts
    QualityMirrorsIssues
    LockHeldOnlyAtWork
PROPERTIES
    FactsVanishOnlyOnFailure
