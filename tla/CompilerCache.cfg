\* Two runners, more keys than entries of room, objects that may diverge.
SPECIFICATION FairSpec
CONSTANTS
    Runner = {r1, r2}
    Key = {k1, k2, k3}
    Obj = {o1, o2}
    None = None
    Torn = Torn
    Mark = Mark
    MaxEntries = 1
    MaxBytes = 1
INVARIANTS TypeOK EntriesBacked
PROPERTIES SharedCache BoundedOnReturn PoisonKept LockReleased
