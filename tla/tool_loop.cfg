SPECIFICATION FairSpec
CONSTANTS
    Managed = {"t"}
    Handmade = {"h"}
    Turns = {"calls", "paused", "final", "cut"}
    MaxIterations = 3
    Careful = TRUE
    MaxActs = 3
    MaxPasses = 2
INVARIANT TypeOK CallsAreAnswered CompactionIsWhole PausedGoesBackLast ToolsAreAsAsked NothingIsLost
PROPERTY DoneSettles
CHECK_DEADLOCK FALSE
