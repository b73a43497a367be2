SPECIFICATION Spec
CONSTANTS
    Repos <- MCRepos
    Overrides <- MCOverrides
    Diffs <- MCDiffs
    Denied <- MCDenied
    Unset = Unset
INVARIANTS
    ApprovalIsEarned
PROPERTIES
    SuitesEnd
CHECK_DEADLOCK FALSE
