SPECIFICATION FairSpec
CONSTANTS
    s1 = s1
    s2 = s2
    Session = {s1}
    SourceType = {"sales", "stock", "sku_costs", "management_report", "raw_report"}
    MappingQuality = {"empty", "partial", "flawed", "warned", "clean"}
    NoHint = NoHint
    NoSession = NoSession
    CanCrash = FALSE
INVARIANTS
    StatusIsTrue
PROPERTIES
    MappedBatchSettles
