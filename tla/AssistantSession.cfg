\* Turns, an edit and a deletion that overlap in every order.
CONSTANTS
    Turn = {t1, t2}
    Edit = {e1}
    NoRequest = NoRequest
    Context = {c1, c2}
    Unpinned = Unpinned
    Intent = {i1, i2}
    NoIntent = NoIntent
SYMMETRY TurnSymmetry
SPECIFICATION Spec
INVARIANTS
    TurnsStayTogether
    SessionRowIsCurrent
    NothingSurvivesDeletion
    CallerIsToldTheTruth
PROPERTY
    UnfinishedTurnsLeaveNoAnswer
CHECK_DEADLOCK FALSE
