SPECIFICATION FairSpec
CONSTANTS
    s1 = s1
    s2 = s2
    Session = {s1}
    SourceType = {"management_report", "raw_report"}
    MappingQuality = {"empty", "clean"}
    NoHint = NoHint
    NoSession = NoSession
    CanCrash = FALSE
PROPERTIES
    ValidatingSettles
