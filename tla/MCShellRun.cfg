SPECIFICATION Spec
CONSTANTS
    Names <- MCNames
    Values <- MCValues
    Dirs <- MCDirs
    Targets <- MCTargets
    Plain <- MCPlain
    Join <- MCJoin
    Real <- MCReal
    Probe <- MCProbe
    PathList <- MCPathList
    Splitting <- MCSplitting
    Text <- MCText
    Scripts <- MCScripts
    Home = "/r"
    Changing = {"/r/b"}
    Jobs = {0, 1}
    MaxDepth = 2
    MaxRounds = 2
    Known <- MCKnown
INVARIANTS CommandIsNamed GitDirIsKnown PipedInputIsMarked
CHECK_DEADLOCK FALSE
