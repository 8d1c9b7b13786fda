------------------------------ MODULE BenchJob -------------------------------
(* run_in_job of bench/check/windows_job.py: one measured command in a job of *)
(* its own.  Every poll the processes of the job are listed, their working    *)
(* sets read through handles that are kept, and the accounting of the job     *)
(* decides whether the run is over.  Times are counted in polls, and only the *)
(* observation of the processes is kept of the measurements.                  *)
EXTENDS JobObject

CONSTANTS
    MaxWall,       \* bound: polls before the timeout, and again before the
                   \* five seconds of grace have passed
    InterruptAt    \* where an interrupt can hit

Body == {"list", "open", "check"}
BenchJobAssumption == /\ MaxWall \in Nat
                      /\ InterruptAt \subseteq Body \cup {"assign", "resume"}

VARIABLES
    pc,
    retained,    \* retained_handles
    measured,    \* processes whose working set was ever read
    listed,      \* processes of this sample that are still to be read
    sample,      \* this sample: "empty", "whole" so far, or "missed" a process
    errors,      \* sampling_errors is not empty
    timedOut,
    wall,        \* polls since the start
    covered,     \* polls covered by complete samples
    left,        \* polls until the next deadline
    result       \* [rssComplete, exit, active]

adapter == <<pc, retained, measured, listed, sample, errors, timedOut, wall, covered,
             left, result>>
vars == <<held, proc, inJob, doomed, posted, adapter>>
sampling == <<measured, listed, sample, errors>>
clock    == <<timedOut, wall, covered, left>>

Init ==
    /\ KernelInit
    /\ pc = "job" /\ retained = {} /\ measured = {} /\ listed = {} /\ sample = "empty"
    /\ errors = FALSE /\ timedOut = FALSE /\ wall = 0 /\ covered = 0 /\ left = MaxWall
    /\ result = [rssComplete |-> FALSE, exit |-> "none", active |-> 0]

Goto(l) == pc' = l

\* release_handles
Release == Close(held) /\ retained' = {}
------------------------------------------------------------------------------
(* _new_job, CreateProcess, AssignProcessToJobObject, ResumeThread            *)

NewJob ==
    /\ pc = "job"
    /\ \/ held' = {"job"} /\ Goto("create")
       \/ held' = held /\ Goto("raised")
    /\ UNCHANGED <<kernel, retained, sampling, clock, result>>

Create ==
    /\ pc = "create"
    /\ \/ /\ proc' = [proc EXCEPT ![Root] = "suspended"]
          /\ held' = held \cup {"process", "thread"} /\ retained' = {Root}
          /\ Goto("assign") /\ UNCHANGED doomed
       \/ Release /\ Goto("raised") /\ UNCHANGED proc
    /\ UNCHANGED <<inJob, posted, sampling, clock, result>>

Assign ==
    /\ pc = "assign"
    /\ \/ /\ inJob' = inJob \cup {Root} /\ Goto("resume")
          /\ UNCHANGED <<proc, held, doomed, retained>>
       \/ /\ proc' = [proc EXCEPT ![Root] = "bad"]
          /\ Release /\ Goto("raised") /\ UNCHANGED inJob
    /\ UNCHANGED <<posted, sampling, clock, result>>

Resume ==
    /\ pc = "resume"
    /\ \/ /\ proc' = [proc EXCEPT ![Root] = "running"]
          /\ held' = held \ {"thread"} /\ Goto("list") /\ UNCHANGED <<doomed, retained>>
       \/ Release /\ Goto("raised") /\ UNCHANGED proc
    /\ UNCHANGED <<inJob, posted, sampling, clock, result>>
------------------------------------------------------------------------------
(* The loop.                                                                  *)

\* _job_pids, and then process by process.
List ==
    /\ pc = "list"
    /\ \/ listed' = Active /\ UNCHANGED errors
       \/ listed' = {} /\ errors' = TRUE
    /\ sample' = (IF listed' = {} THEN "empty" ELSE "whole") /\ Goto("open")
    /\ UNCHANGED <<held, kernel, retained, measured, clock, result>>

\* A process without a handle is opened, which can fail when it has gone; through
\* a handle the working set of an ended process can still be read.
Read(p) ==
    \/ /\ retained' = retained \cup {p}
       /\ \/ measured' = measured \cup {p} /\ UNCHANGED sample
          \/ sample' = "missed" /\ UNCHANGED measured
    \/ p \notin retained /\ sample' = "missed" /\ UNCHANGED <<retained, measured>>

Open ==
    /\ pc = "open" /\ listed # {}
    /\ \E p \in listed : Read(p) /\ listed' = listed \ {p}
    /\ UNCHANGED <<held, kernel, pc, errors, clock, result>>

\* Only a sample of every process counts, one that missed a process is an error.
EndSample ==
    /\ pc = "open" /\ listed = {}
    /\ covered' = IF sample = "whole" THEN covered + 1 ELSE covered
    /\ errors' = (errors \/ sample = "missed")
    /\ Goto("check")
    /\ UNCHANGED <<held, kernel, retained, measured, listed, sample, timedOut, wall, left,
                   result>>

\* The loop ends when the root is gone and the job is empty; the timeout
\* terminates the job, and five seconds later the loop gives up.  A round takes
\* one poll, or two when it is late.
Check ==
    /\ pc = "check"
    /\ \E d \in {1, 2} :
         /\ wall' = wall + d
         /\ IF Active = {}
            THEN Goto("query") /\ UNCHANGED <<doomed, timedOut, left, errors>>
            ELSE IF d < left
            THEN left' = left - d /\ Goto("list") /\ UNCHANGED <<doomed, timedOut, errors>>
            ELSE IF ~timedOut
            THEN /\ timedOut' = TRUE /\ left' = MaxWall /\ Goto("list")
                 /\ \/ doomed' = TRUE /\ UNCHANGED errors
                    \/ errors' = TRUE /\ UNCHANGED doomed
            ELSE errors' = TRUE /\ Goto("query") /\ UNCHANGED <<doomed, timedOut, left>>
    /\ UNCHANGED <<held, proc, inJob, posted, retained, measured, listed, sample, covered,
                   result>>

\* Any exception of the loop terminates the job and releases the handles; one
\* before it leaves them.
LoopRaises ==
    /\ pc \in InterruptAt \cup {"check"}
    /\ IF pc \in Body THEN doomed' = TRUE /\ held' = {} /\ retained' = {}
                      ELSE UNCHANGED <<doomed, held, retained>>
    /\ Goto("raised")
    /\ UNCHANGED <<proc, inJob, posted, sampling, clock, result>>
------------------------------------------------------------------------------
(* After the loop.                                                            *)

\* rss_complete: as many processes seen as the job ever had, 95 percent of the
\* time covered, no sampling error.
RssComplete ==
    /\ Cardinality(retained) >= Cardinality(inJob)
    /\ 100 * covered >= 95 * wall
    /\ ~errors

\* The exit code, the accounting, the working sets; whatever of it fails, the
\* handles are released.
Query ==
    /\ pc = "query"
    /\ \/ /\ result' = [rssComplete |-> RssComplete,
                        exit |-> IF proc[Root] = "ok" THEN "ok" ELSE "bad",
                        active |-> Cardinality(Active)]
          /\ Goto("returned")
       \/ Goto("raised") /\ UNCHANGED result
    /\ Release
    /\ UNCHANGED <<proc, inJob, posted, sampling, clock>>

ProcessEnds ==
    /\ pc # "dead"
    /\ Goto("dead") /\ Release
    /\ UNCHANGED <<proc, inJob, posted, sampling, clock, result>>

AdapterStep == NewJob \/ Create \/ Assign \/ Resume \/ List \/ Open \/ EndSample \/ Check \/ Query
Next == \/ AdapterStep \/ LoopRaises \/ ProcessEnds
        \/ ((Start \/ Exit \/ Killed) /\ UNCHANGED adapter)

Spec     == Init /\ [][Next]_vars /\ WF_vars(AdapterStep)
FairSpec == Spec /\ WF_vars(Killed /\ UNCHANGED adapter)

TypeOK ==
    /\ KernelOK
    /\ pc \in {"job", "create", "assign", "resume", "query", "returned", "raised", "dead"}
             \cup Body
    /\ retained \subseteq Proc /\ measured \subseteq inJob /\ listed \subseteq inJob
    /\ sample \in {"empty", "whole", "missed"} /\ errors \in BOOLEAN
    /\ timedOut \in BOOLEAN /\ wall \in 0..(2 * MaxWall + 4) /\ covered \in 0..wall + 1
    /\ left \in 0..MaxWall
    /\ result \in [rssComplete : BOOLEAN, exit : ExitCode, active : 0..Cardinality(Proc)]

\* A tree peak that is offered as complete covers every descendant the job ever
\* had, with its working set read at least once, and leaves out one poll in
\* twenty at most.
RssCompleteIsTrue ==
    (pc = "returned" /\ result.rssComplete) =>
        /\ inJob \ {Root} \subseteq measured
        /\ 20 * covered >= 19 * wall
        /\ result.active = 0

\* A run that is returned without a timeout and without an error ended by itself,
\* with its whole tree, and the exit code is that of the root.
ReturnedIsOver ==
    (pc = "returned" /\ ~timedOut /\ ~errors) =>
        /\ Live = {} /\ result.active = 0 /\ result.exit = proc[Root]

\* Whatever call fails, no kernel handle is kept, and with the last one the job
\* takes its processes along.
HandlesReleased ==
    pc \in {"returned", "raised"} => held = {} /\ retained = {}

\* Once the command has been answered for or given up, or the measuring process
\* has died, nothing of it goes on running.
NothingOutlives ==
    (pc \in {"returned", "raised", "dead"}) ~> (\A p \in inJob : proc[p] # "running")

\* The measurement ends, although the command and the kernel need not.
BenchEnds == <>(pc \in {"returned", "raised", "dead"})
==============================================================================
