------------------------------ MODULE MC_Bench -------------------------------
(* The bench harness: harness runs and the combination of their directories   *)
(* (BenchRun), the rows a combined directory may hold (RetainedRows), and the *)
(* isolation of the runtime object around one invocation (RunnerRuntime).  A  *)
(* behaviour is about one of them; the variables of the others keep their     *)
(* first values.  Sample counts are scaled down, for RetainedRows less.       *)
EXTENDS BenchRun, TLC

CONSTANTS c1, c2,                             \* the lanes
          MaxRows, MaxSamples, MaxFaults, MaxCrashes

VARIABLES subject,  \* "runs", "rows" or "runtime"
          policy, keptRows,
          root, backup, staging, mode, original, sample, runtimePhase, moved,
          rec, faults, crashes

rowVars     == <<policy, keptRows>>
runtimeVars == <<root, backup, staging, mode, original, sample, runtimePhase,
                 moved, rec, faults, crashes>>
allVars     == <<vars, rowVars, runtimeVars, subject>>

MCPolicyOf == (c1 :> "adaptive") @@ (c2 :> "full_gate")
MCCacheOf  == [l \in Lanes |-> "cold"]
\* Nothing wrong, a lower-bound measurement (replaceable), a fatal outcome.
MCDefectSets == {{}, {"rss_incomplete"}, {"timeout"}}

Retained == INSTANCE RetainedRows WITH
    rows <- keptRows, DirectTarget <- 4, Warmups <- 1, ShortTarget <- 5,
    LongTarget <- 3, FullTarget <- 3, MaxExtra <- 2
Runtime == INSTANCE RunnerRuntime WITH phase <- runtimePhase

ASSUME RuntimeAssumption == Runtime!BoundsAssumption

\* Bound: the runs, which are interchangeable, begin in a fixed order, the first
\* one on the first machine, and one of them at most is killed or fails; and only
\* the first valid row of a lane is slow, the others decide nothing.
Leader == CHOOSE r \in Runs : TRUE
SlowFirst(rs) == \A i \in DOMAIN rs :
    rs[i].slow => i \in Valid(rs) /\ \A j \in Valid(rs) : i <= j
Failed(r) == phase[r] = "dead" \/ \E l \in DOMAIN lanes[r] : ~lanes[r][l]
Small ==
    /\ (\E r \in Runs : phase[r] # "fresh") => phase[Leader] # "fresh"
    /\ (\E r \in Runs : runtimePhase[r] # "idle") => runtimePhase[Leader] # "idle"
    /\ \A r \in Runs, l \in Lanes : SlowFirst(rows[r][l])
    /\ SlowFirst(keptRows)
    /\ Cardinality({r \in Runs : Failed(r)}) <= 1

MCInit ==
    /\ Init /\ Runtime!Init /\ Retained!Init
    /\ subject \in {"runs", "rows", "runtime"}
    /\ \A r \in Runs : r = Leader \/ subject # "runs" => machine[r] = Min(Machines)
    /\ subject # "rows" => policy = "adaptive"
    /\ subject # "runtime" => root = Runtime!NoFile

MCNext ==
    \/ subject = "runs" /\ Next /\ UNCHANGED <<rowVars, runtimeVars, subject>> /\ Small'
    \/ subject = "rows" /\ Retained!Next /\ UNCHANGED <<vars, runtimeVars, subject>> /\ Small'
    \/ subject = "runtime" /\ Runtime!Next /\ UNCHANGED <<vars, rowVars, subject>> /\ Small'

MCSpec == MCInit /\ [][MCNext]_allVars

-----------------------------------------------------------------------------
\* The state of harness runs and of the isolation is well formed, and no lane
\* is measured more often than its budget allows.
BenchTypeOK == TypeOK /\ Runtime!TypeOK

\* combine.py accepts exactly the rows run.py would have written, refuses no
\* honest set of runs, and what it makes of any set is whole.
CombinerAgrees ==
    BenchTypeOK /\ Retained!SameJudgement /\ HonestRunsCombine /\ BaselineIsWhole

\* The developer's object is never lost.
OriginalKept == Runtime!OriginalKept

\* What the isolation says of an invocation is so: a row it calls clean is, and
\* a rollback that reports no error has left nothing behind.
IsolationIsTrue == [][Runtime!CleanRowIsClean']_allVars /\ Runtime!SafelyRolledBack
=============================================================================
