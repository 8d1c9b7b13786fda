\* Updates around pure callbacks and Drop bodies that use the same cell.
SPECIFICATION UpdSpec
CONSTANTS
    a1 = a1
    a2 = a2
    a3 = a3
    x = x
    y = y
    Addr = {a1, a2, a3}
    Local = {x, y}
    OldVal = OldVal
    NewVal = NewVal
    Temp = {OldVal, NewVal}
    NSlots = 1
    MaxRC = 3
    Kinds = {"res", "cell"}
    Null = Null
SYMMETRY Symmetry
INVARIANTS CountsCover MemorySafe
CHECK_DEADLOCK FALSE
