SPECIFICATION Spec
CONSTANTS
    full = full
    empty = empty
    all = all
    some = some
    few = few
    NoReport = NoReport
    NoProxy = NoProxy
    NoResult = NoResult
    NoFilterer = NoFilterer
    Reports = {full, empty}
    Filters = {all, some, few}
    EmptyFilter = all
    Workers = {w1, w2}
    NumRows <- MCNumRows
    Key <- MCKey
    Accepts <- MCAccepts
    BatchMin = 2
    RowWidth <- MCRowWidth
    HeaderWidth = 1
    ViewSizes <- MCViewSizes
INVARIANTS
    SelectionNavigates
    CrashHasCause
PROPERTIES
    ListSpec
    SelectionFollows
CHECK_DEADLOCK FALSE
