---------------------------- MODULE LaneSchedule ----------------------------
(***************************************************************************)
(* How many times bench/check invokes a lane, twice: as run.py decides     *)
(* after each row whether to go on, and as combine.py judges the rows it   *)
(* finds in a retained run directory.  The rows of a lane are a function   *)
(* from sample index to row; a row keeps why it is excluded (None when it  *)
(* is included) and whether its wall time reached the long-lane threshold. *)
(***************************************************************************)
EXTENDS Naturals, FiniteSets, FiniteSetsExt

CONSTANTS DirectTarget,  \* DIRECT_VALID_SAMPLES
          Warmups,       \* DIRECT_WARMUPS
          ShortTarget,   \* SHORT_VALID_SAMPLES
          LongTarget,    \* LONG_VALID_SAMPLES
          FullTarget,    \* FULL_GATE_VALID_SAMPLES
          MaxExtra       \* MAX_EXTRA_ATTEMPTS

\* A long lane needs at least two rows: with one, an adaptive lane whose first
\* valid row comes late, beyond LongTarget + MaxExtra rows but within
\* ShortTarget + MaxExtra, is complete to run.py and over budget to combine.py.
ASSUME ScheduleAssumption ==
  /\ {DirectTarget, ShortTarget, FullTarget} \subseteq Nat \ {0}
  /\ LongTarget \in Nat \ {0, 1}
  /\ {Warmups, MaxExtra} \subseteq Nat

Policies == {"direct_short", "adaptive", "full_gate"}
WarmupsOf(policy) == IF policy = "direct_short" THEN Warmups ELSE 0

\* derive_invalid_reason: the order in which the defects of an invocation are
\* looked for.  A warm-up that ran well is excluded as a warm-up before its
\* measurements are looked at.
Order == <<"invocation_error", "timeout", "unexpected_exit",
           "runner_runtime_invalid", "runner_summary_missing",
           "artifact_missing", "phase_trace_invalid", "warmup",
           "missing_exact_metrics", "measurement_errors", "rss_incomplete">>
None == "none"

Reason(policy, index, defects) ==
  LET all == defects \cup IF index < WarmupsOf(policy) THEN {"warmup"} ELSE {}
      hits == {i \in DOMAIN Order : Order[i] \in all}
  IN  IF hits = {} THEN None ELSE Order[Min(hits)]

\* _is_replaceable_measurement_invalid
Replaceable(reason) ==
  reason \in {"missing_exact_metrics", "measurement_errors", "rss_incomplete"}

Row(policy, index, defects, slow) ==
  [index |-> index, reason |-> Reason(policy, index, defects), slow |-> slow]
Included(row) == row.reason = None
Valid(rows) == {i \in DOMAIN rows : Included(rows[i])}

----------------------------------------------------------------------------
(* run.py *)

\* run_lane's target; an adaptive lane assumes the short one until its first
\* valid row.
Target(policy, rows) ==
  CASE policy = "direct_short" -> DirectTarget
    [] policy = "full_gate" -> FullTarget
    [] policy = "adaptive" ->
         IF Valid(rows) # {} /\ rows[Min(Valid(rows))].slow
         THEN LongTarget ELSE ShortTarget

\* The rows 0 .. n-1.
Before(rows, n) == [i \in DOMAIN rows \cap 0 .. (n - 1) |-> rows[i]]

\* run_lane: does it invoke the lane once more after these rows?
Continues(policy, rows) ==
  LET n == Cardinality(DOMAIN rows)
      last == rows[n - 1].reason
  IN  /\ n > 0 => last \in {None, "warmup"} \/ Replaceable(last)
      /\ n >= WarmupsOf(policy) =>
           /\ Cardinality(Valid(rows)) < Target(policy, rows)
           /\ n - WarmupsOf(policy) < Target(policy, rows) + MaxExtra

\* summarize_lane's complete
Complete(policy, rows) == Cardinality(Valid(rows)) = Target(policy, rows)

\* A complete lane: rows run_lane writes, up to the one it stops behind.
Contiguous(rows) == DOMAIN rows = 0 .. (Cardinality(DOMAIN rows) - 1)
Produced(policy, rows) ==
  /\ Contiguous(rows)
  /\ \A n \in DOMAIN rows : Continues(policy, Before(rows, n))
  /\ ~Continues(policy, rows)
  /\ Complete(policy, rows)

----------------------------------------------------------------------------
(* combine.py *)

\* _expected_target raises for an adaptive lane with no included row.
HasTarget(policy, rows) == policy = "adaptive" => Valid(rows) # {}

\* _validate_lane_schedule
ScheduleOK(policy, rows) ==
  LET n == Cardinality(DOMAIN rows)
      measured == {i \in DOMAIN rows : i >= WarmupsOf(policy)}
      warm == {i \in DOMAIN rows : rows[i].reason = "warmup"}
  IN  /\ HasTarget(policy, rows)
      /\ Contiguous(rows)
      /\ Cardinality(warm) = WarmupsOf(policy)
      /\ \A i \in measured : Included(rows[i]) \/ Replaceable(rows[i].reason)
      /\ Cardinality(Valid(rows) \cap measured) = Target(policy, rows)
      /\ measured # {} /\ Included(rows[Max(measured)])
      /\ n <= Target(policy, rows) + MaxExtra + WarmupsOf(policy)
=============================================================================
