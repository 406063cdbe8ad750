SPECIFICATION Spec
CONSTANTS
    Feeds = {f1, f2}
    MaxCalls = 5
    MaxChanges = 2
SYMMETRY Symmetry
INVARIANTS TypeOK FeedsFollowed FollowedOnce LeftBehind ListCounts
CHECK_DEADLOCK FALSE
