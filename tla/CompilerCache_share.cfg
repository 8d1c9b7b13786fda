\* One key, one object: nothing diverges.
SPECIFICATION Spec
CONSTANTS
    Runner = {r1, r2}
    Key = {k1}
    Obj = {o1}
    None = None
    Torn = Torn
    Mark = Mark
    MaxEntries = 1
    MaxBytes = 1
PROPERTY SharedWinner
