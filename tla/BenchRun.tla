------------------------------ MODULE BenchRun ------------------------------
(***************************************************************************)
(* bench/check end to end: harness runs measure lanes into run directories *)
(* (run.py main and run_lane), any of them may abort or die, and           *)
(* combine.py makes one baseline of a set of run directories.  What one    *)
(* invocation yields (RunnerRuntime and BenchJob model how) is chosen from *)
(* DefectSets; a hard validation error raises instead of yielding a row.   *)
(***************************************************************************)
EXTENDS LaneSchedule

CONSTANTS Runs,        \* run directories
          Lanes,       \* case ids of the expanded manifest
          PolicyOf,    \* lane -> policy
          CacheOf,     \* lane -> "cold" or "warm"
          Machines,    \* identities (tools, power, ...) a run may capture
          DefectSets   \* bound: what may be wrong with one invocation

VARIABLES phase,     \* run -> "fresh", "running", "stopping", "done", "dead"
          todo,      \* run -> selected lanes not yet begun
          lane,      \* run -> the lane being measured, or NoLane
          rows,      \* run -> lane -> its rows in samples.jsonl
          made,      \* run -> lane -> invocations carried out
          lanes,     \* run -> lane -> summary written: complete or not
          machine,   \* run -> identity in environment.json
          exit,      \* run -> exit status, or NoExit while there is none
          combined   \* the sets of run directories combine.py accepted

vars == <<phase, todo, lane, rows, made, lanes, machine, exit, combined>>

NoLane == "no lane"
NoExit == 99
NoRows == [i \in {} |-> None]
NoSummaries == [l \in {} |-> FALSE]

\* Every case has a policy, and a lane is none of the marks above.  Only its
\* index makes a row a warm-up: an invocation does not come back as one.
ASSUME RunAssumption == /\ PolicyOf \in [Lanes -> Policies] /\ NoLane \notin Lanes
                        /\ IsFiniteSet(Runs)
ASSUME DefectAssumption == \A d \in DefectSets : "warmup" \notin d

Init ==
  /\ phase = [r \in Runs |-> "fresh"]
  /\ todo = [r \in Runs |-> {}]
  /\ lane = [r \in Runs |-> NoLane]
  /\ rows = [r \in Runs |-> [l \in Lanes |-> NoRows]]
  /\ made = [r \in Runs |-> [l \in Lanes |-> 0]]
  /\ lanes = [r \in Runs |-> NoSummaries]
  /\ machine \in [Runs -> Machines]
  /\ exit = [r \in Runs |-> NoExit]
  /\ combined = {}

\* main up to the first lane: lanes of one cache state, a fresh directory.
Start(r) ==
  /\ phase[r] = "fresh"
  /\ \A q \in Runs : phase[q] \notin {"running", "stopping"}
  /\ \E S \in SUBSET Lanes :
     /\ S # {} /\ \A k, l \in S : CacheOf[k] = CacheOf[l]
     /\ todo' = [todo EXCEPT ![r] = S]
  /\ phase' = [phase EXCEPT ![r] = "running"]
  /\ UNCHANGED <<lane, rows, made, lanes, machine, exit, combined>>

BeginLane(r) ==
  /\ phase[r] = "running" /\ lane[r] = NoLane
  /\ \E l \in todo[r] :
     /\ lane' = [lane EXCEPT ![r] = l]
     /\ todo' = [todo EXCEPT ![r] = @ \ {l}]
  /\ UNCHANGED <<phase, rows, made, lanes, machine, exit, combined>>

Measures(r) == /\ phase[r] = "running" /\ lane[r] # NoLane
               /\ Continues(PolicyOf[lane[r]], rows[r][lane[r]])

\* execute_invocation yields a row, which is flushed to samples.jsonl.
Attempt(r) ==
  /\ Measures(r)
  /\ LET l == lane[r]
         n == Cardinality(DOMAIN rows[r][l])
     IN  \E defects \in DefectSets, slow \in BOOLEAN :
         /\ slow => defects = {}
         /\ rows' = [rows EXCEPT ![r][l] =
              [i \in 0 .. n |-> IF i = n THEN Row(PolicyOf[l], n, defects, slow)
                                ELSE @[i]]]
         /\ made' = [made EXCEPT ![r][l] = @ + 1]
  /\ UNCHANGED <<phase, todo, lane, lanes, machine, exit, combined>>

\* execute_invocation raises behind the measurement: a hard trace error, a
\* provenance mismatch, a failed isolation transaction.  main ends with it.
HardError(r) ==
  /\ Measures(r)
  /\ made' = [made EXCEPT ![r][lane[r]] = @ + 1]
  /\ phase' = [phase EXCEPT ![r] = "dead"]
  /\ exit' = [exit EXCEPT ![r] = 2]
  /\ UNCHANGED <<todo, lane, rows, lanes, machine, combined>>

\* summarize_lane, and main's break behind an incomplete lane.
EndLane(r) ==
  /\ phase[r] = "running" /\ lane[r] # NoLane
  /\ ~Continues(PolicyOf[lane[r]], rows[r][lane[r]])
  /\ LET l == lane[r]
         complete == Complete(PolicyOf[l], rows[r][l])
     IN  /\ lanes' = [lanes EXCEPT ![r] =
              [k \in DOMAIN @ \cup {l} |-> IF k = l THEN complete ELSE @[k]]]
         /\ phase' = [phase EXCEPT ![r] =
              IF complete /\ todo[r] # {} THEN "running"
              ELSE "stopping"]
  /\ lane' = [lane EXCEPT ![r] = NoLane]
  /\ UNCHANGED <<todo, rows, made, machine, exit, combined>>

\* Mutant: one complete lane is enough.
Completion_Mutant(summaries) == \E l \in DOMAIN summaries : summaries[l]

\* _formal_completion
Completion(summaries) ==
  DOMAIN summaries # {} /\ \A l \in DOMAIN summaries : summaries[l]

\* summary.json and the exit status.
Finish(r) ==
  /\ phase[r] = "stopping"
  /\ phase' = [phase EXCEPT ![r] = "done"]
  /\ exit' = [exit EXCEPT ![r] = IF Completion(lanes[r]) THEN 0 ELSE 1]
  /\ UNCHANGED <<todo, lane, rows, made, lanes, machine, combined>>

\* The harness dies: samples.jsonl stays as it is, without a summary.json.
Die(r) ==
  /\ phase[r] \in {"running", "stopping"}
  /\ phase' = [phase EXCEPT ![r] = "dead"]
  /\ UNCHANGED <<todo, lane, rows, made, lanes, machine, exit, combined>>

----------------------------------------------------------------------------
(* combine.py *)

\* _load_run: a summary that says complete, every lane of it complete and
\* its rows on schedule, no rows of a lane the summary does not name.
Loads(r) ==
  /\ phase[r] = "done" /\ Completion(lanes[r])
  /\ \A l \in DOMAIN lanes[r] : /\ lanes[r][l]
                                /\ ScheduleOK(PolicyOf[l], rows[r][l])
  /\ \A l \in Lanes : rows[r][l] # NoRows => l \in DOMAIN lanes[r]

\* Mutant: lanes measured twice are taken from either run.
Accepts_Mutant(S) ==
  /\ S # {} /\ \A r \in S : Loads(r)
  /\ \A q, r \in S : machine[q] = machine[r]
  /\ UNION {DOMAIN lanes[r] : r \in S} = Lanes

\* combine_runs: one identity, no lane twice, the whole coverage matrix.
Accepts(S) ==
  /\ S # {} /\ \A r \in S : Loads(r)
  /\ \A q, r \in S : machine[q] = machine[r]
  /\ \A q, r \in S : q # r => DOMAIN lanes[q] \cap DOMAIN lanes[r] = {}
  /\ UNION {DOMAIN lanes[r] : r \in S} = Lanes

Combine ==
  /\ \E S \in SUBSET Runs : Accepts(S) /\ combined' = combined \cup {S}
  /\ UNCHANGED <<phase, todo, lane, rows, made, lanes, machine, exit>>

Next == \/ \E r \in Runs : \/ Start(r) \/ BeginLane(r) \/ Attempt(r)
                           \/ HardError(r) \/ EndLane(r) \/ Finish(r)
                           \/ Die(r)
        \/ Combine

Spec == Init /\ [][Next]_vars

----------------------------------------------------------------------------
TypeOK ==
  /\ phase \in [Runs -> {"fresh", "running", "stopping", "done", "dead"}]
  /\ todo \in [Runs -> SUBSET Lanes]
  /\ lane \in [Runs -> Lanes \cup {NoLane}]
  /\ machine \in [Runs -> Machines]
  /\ exit \in [Runs -> {NoExit, 0, 1, 2}]
  /\ combined \subseteq SUBSET Runs
  /\ \A r \in Runs :
     /\ DOMAIN lanes[r] \subseteq Lanes
     /\ \A l \in Lanes :
        /\ Cardinality(DOMAIN rows[r][l]) <= made[r][l]
        /\ made[r][l] <= WarmupsOf(PolicyOf[l]) + MaxExtra
             + Max({DirectTarget, ShortTarget, LongTarget, FullTarget})

\* The sample policy of bench/check/README.md, said without the code: the
\* number of included rows is exactly the number the policy asks for.
Sampled(policy, rs) ==
  LET n == Cardinality(Valid(rs))
  IN  CASE policy = "direct_short" -> n = DirectTarget
        [] policy = "full_gate" -> n = FullTarget
        [] policy = "adaptive" ->
             \E i \in Valid(rs) :
               /\ \A j \in Valid(rs) : i <= j
               /\ n = IF rs[i].slow THEN LongTarget ELSE ShortTarget

\* "Failing to obtain the target is a failed run, never a silently reduced
\* sample set": a run that exits with 0 has sampled every lane it was asked
\* for in full, however its invocations failed on the way.
ZeroIsFull ==
  \A r \in Runs :
    exit[r] = 0 =>
      /\ todo[r] = {} /\ DOMAIN lanes[r] # {}
      /\ \A l \in DOMAIN lanes[r] : Sampled(PolicyOf[l], rows[r][l])

\* A combined baseline has each lane of the manifest from exactly one run,
\* all from one machine, each with its full sample: rows of an aborted, dead,
\* incomplete or second run are not in it.
BaselineIsWhole ==
  \A S \in combined :
    /\ \A l \in Lanes : \E r \in S :
         /\ Sampled(PolicyOf[l], rows[r][l])
         /\ \A q \in S \ {r} : rows[q][l] = NoRows
    /\ \A q, r \in S : machine[q] = machine[r]

\* Honest work is not refused: runs of one machine that each exited with 0
\* and that share the lanes of the manifest between them can be combined.
HonestRunsCombine ==
  \A S \in SUBSET Runs :
    (/\ S # {} /\ \A r \in S : exit[r] = 0
     /\ \A q, r \in S : machine[q] = machine[r]
     /\ \A l \in Lanes : Cardinality({r \in S : rows[r][l] # NoRows}) = 1)
      => Accepts(S)
=============================================================================
