---------------------------- MODULE RetainedRows ----------------------------
(***************************************************************************)
(* The rows of one lane as combine.py may find them in a run directory:    *)
(* any rows at all, put there in any order, with gaps, with rows too many  *)
(* and with rows missing.  combine.py has recomputed the reason of each    *)
(* row from the row itself, and judges what remains: the schedule.         *)
(***************************************************************************)
EXTENDS LaneSchedule

CONSTANTS MaxRows,     \* bound: indices 0 .. MaxRows - 1
          DefectSets   \* bound: what may be wrong with one invocation

VARIABLES policy, rows
vars == <<policy, rows>>

Init == policy \in Policies /\ rows = [i \in {} |-> None]

PutRow ==
  \E i \in (0 .. MaxRows - 1) \ DOMAIN rows, defects \in DefectSets,
     slow \in BOOLEAN :
    /\ slow => defects = {}   \* the wall time of other rows decides nothing
    /\ rows' = [j \in DOMAIN rows \cup {i} |->
                  IF j = i THEN Row(policy, i, defects, slow) ELSE rows[j]]
    /\ UNCHANGED policy

Next == PutRow
Spec == Init /\ [][Next]_vars

----------------------------------------------------------------------------
\* run.py and combine.py decide the sample policy with different code, the
\* one row by row, the other over the whole lane.  They agree: the combiner
\* accepts the rows of a lane exactly when they are the rows of a complete
\* run_lane, so neither a shortened nor a padded set of samples gets through
\* and no honest lane is refused.
SameJudgement == ScheduleOK(policy, rows) <=> Produced(policy, rows)
=============================================================================
