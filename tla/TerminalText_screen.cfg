SPECIFICATION Spec
CONSTANTS
    Rows = 2
    Cols = 3
    MaxRows = 4
    MaxFeeds = 1
    Chars = {"a", "A", "wide", "tail", "dot", "blank", "space", "newline"}
    Lines <- MCLines
    Starts <- MCStarts
    Queries <- MCQueries
    Schemes = {"a", "A"}
INVARIANTS
    SelectionIsSound
    WholeScreenIsCopied
    SearchFindsItself

PROPERTIES
    MatchIsShown
