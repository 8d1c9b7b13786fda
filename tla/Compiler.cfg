SPECIFICATION MCSpec
CONSTANTS
    Frame = {f1, f2, f3}
    Evidence = {e1, e2, e3}
    MaxDepth = 6
    BreakThrough = FALSE
    N = 4
INVARIANTS FramesAreBodies
PROPERTIES EvidenceFollowsBody CatchesInnermost SccCorrect
CHECK_DEADLOCK FALSE
