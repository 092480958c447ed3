SPECIFICATION FairSpec
CONSTANTS
    N = 3
    Reader = {1}
    MaxRemovals = 1
    Replies <- SomeReplies
INVARIANT TypeOK OnceEach QuietOnceOver
PROPERTY MembersInOrder EarlyIsSeen CallsAreAnswered
CHECK_DEADLOCK FALSE
