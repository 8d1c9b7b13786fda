\* Five keys for four slots at first: collisions, tombstones, growth.
SPECIFICATION MCSpec
CONSTANTS
    k1 = k1
    k2 = k2
    k3 = k3
    k4 = k4
    k5 = k5
    v1 = v1
    v2 = v2
    Key = {k1, k2, k3, k4, k5}
    Value = {v1, v2}
    Null = Null
    Hash <- HashValues
    InitCap = 4
INVARIANTS TableOK Findable
PROPERTIES InsertEnds Dictionary
CHECK_DEADLOCK FALSE
