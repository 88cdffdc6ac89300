SPECIFICATION Spec
CONSTANTS
    a = a
    b = b
    cr = cr
    lf = lf
    none = none
    as = as
    ab = ab
    bs = bs
    CR = cr
    LF = lf
    EmptyRegex = none
    InvalidText = {invalid}
    NoFile = NULL
    NoItem = NULL
    Heights = {2, 3}
    YMargin = 1
    ProjectRoot <- MCProjectRoot
    IndexPaths <- MCIndexPaths
    TitleOrder <- MCTitleOrder
    RawContent <- MCRawContent
    Language <- MCLanguage
INVARIANTS
    SearchAgrees
    MatchesFound
    FolderFollows
PROPERTIES
    TypingFinds
    ClearReturns
