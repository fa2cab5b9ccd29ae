\* One run of the branch-sync pipeline, one commit to rebase onto, one push by somebody else.
SPECIFICATION BranchSpec
CONSTANTS
    MaxBehind = 0
    MergeLimit = 1
    PushLimit = 1
PROPERTY
    PushesIncludeRemote
CHECK_DEADLOCK FALSE
