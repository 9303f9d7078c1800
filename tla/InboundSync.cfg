\* Three runs of the sync, by users and by the broker, over four contents of the sheet.
SPECIFICATION Spec
CONSTANTS
    v1 = v1
    v2 = v2
    v3 = v3
    v4 = v4
    r1 = r1
    r2 = r2
    r3 = r3
    Attempt = {a1, a2, a3}
    Version = {v1, v2, v3, v4}
    Ref = {r1, r2, r3}
    Content <- Rows
    MaxMessages = 1
SYMMETRY Symmetry
CHECK_DEADLOCK FALSE
INVARIANTS
    SheetsAreWhole
    SheetsMixOnlyWhenOvertaken
    JobTellsTruth
