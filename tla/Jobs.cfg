SPECIFICATION MCSpec
CONSTANTS
    Root = r0
    Descendant = {d1, d2}
    ActiveLimit = 2
    MaxInterrupts = 1
    MaxRounds = 1
    MaxWall = 2
    InterruptAt = {"list", "open", "check"}
INVARIANTS JobSuccessIsClean NothingIsSilent
PROPERTIES KeptUnderControl AllComesToAnEnd
CHECK_DEADLOCK FALSE
