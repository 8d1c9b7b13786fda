SPECIFICATION MCSpec
CONSTANTS
    ListId = {l1, l2}
    Elem = {v1, v2}
    Null = null
    Walks = {"each", "filter", "map"}
    Changing = {"each"}
    MaxLen = 5
    SharedLen = 3
    MaxHeld = 1
SYMMETRY Symmetry
INVARIANTS CountsExact NoFault
PROPERTIES IsSequence
CHECK_DEADLOCK FALSE
