SPECIFICATION Spec
CONSTANTS
    Frame = {f1, f2}
    Evidence = {e1}
    MaxDepth = 5
    BreakThrough = TRUE
SYMMETRY Symmetry
INVARIANTS RaiseLandsInBody
CHECK_DEADLOCK FALSE
