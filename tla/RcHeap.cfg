\* Sharing, chains, cycles, immortal blocks, cells and two-field blocks.
SPECIFICATION MCSpec
CONSTANTS
    Addr = {a1, a2, a3}
    Local = {x, y}
    Temp = {}
    NSlots = 2
    MaxRC = 2
    Kinds = {"data", "res", "cell"}
    Null = Null
INVARIANTS TypeOK RcExact MemorySafe OnlyCyclesLeak
PROPERTIES ImmortalStays DropEnds
CHECK_DEADLOCK FALSE
