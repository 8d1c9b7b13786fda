------------------------------ MODULE JobObject ------------------------------
(* A Windows Job Object as bench/check/windows_job.py uses it: created with   *)
(* kill-on-close, it owns the processes assigned to it and every descendant   *)
(* of theirs, posts a message when one of its limits is hit, and ends all of  *)
(* them when it is terminated or its last handle is closed.                   *)
EXTENDS GateOutcome

CONSTANTS
    Root,         \* the process the adapter creates
    Descendant,   \* the processes it may start, directly or not
    ActiveLimit   \* ActiveProcessLimit of the job

ASSUME JobObjectAssumption == /\ Root \notin Descendant /\ IsFiniteSet(Descendant)
                              /\ ActiveLimit \in Nat \ {0}

Proc == {Root} \cup Descendant

VARIABLES
    held,     \* kernel handles the adapter holds: "job", "port", "process",
              \* "thread"
    proc,     \* "none", "suspended", "running", "ok" or "bad"
    inJob,    \* processes that were ever in the job
    doomed,   \* the job was terminated
    posted    \* limit messages that were ever posted: "process", "memory"

kernel == <<proc, inJob, doomed, posted>>

KernelInit ==
    /\ held = {} /\ proc = [p \in Proc |-> "none"] /\ inJob = {} /\ doomed = FALSE
    /\ posted = {}

Live   == {p \in Proc : proc[p] \in {"suspended", "running"}}
Active == inJob \cap Live

\* Handles are closed; closing the one of the job terminates it.
Close(H)  == held' = held \ H /\ doomed' = (doomed \/ "job" \in held \cap H)

\* A running process starts another, which is in the job from the start, unless
\* the job is full; it hits the memory limit of the job, or ends by itself.
Start ==
    /\ ~doomed
    /\ \E p \in Proc, q \in Descendant :
         /\ proc[p] = "running" /\ proc[q] = "none"
         /\ IF p \notin inJob \/ Cardinality(Active) < ActiveLimit
            THEN /\ proc' = [proc EXCEPT ![q] = "running"]
                 /\ inJob' = IF p \in inJob THEN inJob \cup {q} ELSE inJob
                 /\ UNCHANGED posted
            ELSE posted' = posted \cup {"process"} /\ UNCHANGED <<proc, inJob>>
    /\ UNCHANGED <<held, doomed>>

HitMemory ==
    /\ ~doomed
    /\ \E p \in inJob : proc[p] = "running"
    /\ posted' = posted \cup {"memory"}
    /\ UNCHANGED <<held, proc, inJob, doomed>>

Exit ==
    /\ \E p \in Proc, e \in {"ok", "bad"} :
         /\ proc[p] = "running"
         /\ proc' = [proc EXCEPT ![p] = e]
    /\ UNCHANGED <<held, inJob, doomed, posted>>

\* The end of a process of a terminated job, some time later.
Killed ==
    /\ doomed
    /\ \E p \in Active : proc' = [proc EXCEPT ![p] = "bad"]
    /\ UNCHANGED <<held, inJob, doomed, posted>>

ProcessStep == Start \/ HitMemory \/ Exit \/ Killed

KernelOK ==
    /\ held \subseteq {"job", "port", "process", "thread"}
    /\ proc \in [Proc -> {"none", "suspended", "running", "ok", "bad"}]
    /\ inJob \subseteq Proc /\ doomed \in BOOLEAN
    /\ posted \subseteq {"process", "memory"}
==============================================================================
