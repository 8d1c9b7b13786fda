SPECIFICATION MCSpec
CONSTANTS
    c1 = c1
    c2 = c2
    Runs = {r1, r2}
    Lanes = {c1, c2}
    PolicyOf <- MCPolicyOf
    CacheOf <- MCCacheOf
    Machines = {1, 2}
    DefectSets <- MCDefectSets
    DirectTarget = 1
    Warmups = 1
    ShortTarget = 3
    LongTarget = 2
    FullTarget = 1
    MaxExtra = 1
    MaxRows = 8
    MaxSamples = 2
    MaxFaults = 2
    MaxCrashes = 1
INVARIANTS ZeroIsFull CombinerAgrees OriginalKept
PROPERTIES IsolationIsTrue
CHECK_DEADLOCK FALSE
