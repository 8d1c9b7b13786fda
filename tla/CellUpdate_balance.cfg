\* The dup that ring_Cell_update makes for its callback.
SPECIFICATION UpdSpec
CONSTANTS
    a1 = a1
    a2 = a2
    a3 = a3
    x = x
    y = y
    Addr = {a1, a2, a3}
    Local = {x, y}
    OldVal = OldVal
    NewVal = NewVal
    Temp = {OldVal, NewVal}
    NSlots = 1
    MaxRC = 3
    Kinds = {"res", "cell"}
    Null = Null
SYMMETRY Symmetry
INVARIANTS UpdateBalanced
CHECK_DEADLOCK FALSE
