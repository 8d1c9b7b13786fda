----------------------------- MODULE WindowsJob ------------------------------
(* run_one_shot_job of bench/check/windows_job.py, the Windows adapter of the *)
(* one-shot gate: the target is created suspended, assigned to a job with     *)
(* hard limits, announced to the caller and only then resumed; a loop watches *)
(* limits, streams and deadline; the clean-up runs on every path.  The two    *)
(* streams are one here.                                                      *)
EXTENDS JobObject

CONSTANTS
    MaxInterrupts,   \* bound: interrupts of the adapter's thread
    MaxRounds        \* bound: rounds of the loop before a deadline has passed

ASSUME WindowsJobAssumption == MaxInterrupts \in Nat /\ MaxRounds \in Nat

VARIABLES
    pc,
    assigned, called, finished,   \* process_assigned, the callback, process_finished
    killed,                       \* the loop has terminated the job
    stop,                         \* stop_event
    seen,                         \* messages taken from the completion port
    reader,                       \* the reader thread: "none", "reading", "done"
    sink,                         \* [over, error, sealed]
    rep,                          \* [exit, faults]: what is going to be reported
    rounds,                       \* rounds until the next deadline has passed
    interrupts

adapter == <<pc, assigned, called, finished, killed, stop, seen, reader, sink, rep,
             rounds, interrupts>>
vars == <<held, proc, inJob, doomed, posted, adapter>>

Init ==
    /\ KernelInit
    /\ pc = "sinks" /\ assigned = FALSE /\ called = FALSE /\ finished = FALSE
    /\ killed = FALSE /\ stop = FALSE /\ seen = {} /\ reader = "none"
    /\ sink = [over |-> FALSE, error |-> FALSE, sealed |-> FALSE]
    /\ rep = [exit |-> "none", faults |-> {}]
    /\ rounds = MaxRounds /\ interrupts = 0

Goto(l)   == pc' = l
Report(F) == rep' = [rep EXCEPT !.faults = @ \cup F]

\* The exception handler: anything but a launch error is an infrastructure
\* error, and a job that owns the target is terminated.
Except(F) ==
    /\ rep' = [rep EXCEPT !.faults =
                  @ \cup (IF "launch" \in @ \cup F THEN F ELSE {"infrastructure"})]
    /\ doomed' = (doomed \/ assigned)
    /\ Goto("finally")
------------------------------------------------------------------------------
(* Start-up.                                                                  *)

\* The raw files are created before anything else.
OpenSinks ==
    /\ pc = "sinks"
    /\ pc' \in {"job", "raised"}
    /\ UNCHANGED <<held, kernel, assigned, called, finished, killed, stop, seen, reader,
                   sink, rep, rounds, interrupts>>

\* _new_bounded_job: the job and its port, or neither.
NewJob ==
    /\ pc = "job"
    /\ \/ held' = {"job", "port"} /\ Goto("create") /\ UNCHANGED <<doomed, rep>>
       \/ Except({}) /\ UNCHANGED held
    /\ UNCHANGED <<proc, inJob, posted, assigned, called, finished, killed, stop, seen,
                   reader, sink, rounds, interrupts>>

\* The target is created suspended.
Create ==
    /\ pc = "create"
    /\ \/ /\ proc' = [proc EXCEPT ![Root] = "suspended"]
          /\ held' = held \cup {"process", "thread"}
          /\ Goto("assign") /\ UNCHANGED <<doomed, rep>>
       \/ Except({"launch"}) /\ UNCHANGED <<proc, held>>
    /\ UNCHANGED <<inJob, posted, assigned, called, finished, killed, stop, seen, reader,
                   sink, rounds, interrupts>>

\* A target that cannot be assigned is ended while it is still suspended.
Assign ==
    /\ pc = "assign"
    /\ \/ /\ inJob' = inJob \cup {Root} /\ assigned' = TRUE /\ Goto("readers")
          /\ UNCHANGED <<proc, doomed, rep>>
       \/ /\ proc' = [proc EXCEPT ![Root] = "bad"]
          /\ Except({"launch"}) /\ UNCHANGED <<inJob, assigned>>
    /\ UNCHANGED <<held, posted, called, finished, killed, stop, seen, reader, sink,
                   rounds, interrupts>>

StartReaders ==
    /\ pc = "readers"
    /\ \/ reader' = "reading" /\ Goto("callback") /\ UNCHANGED <<doomed, rep>>
       \/ Except({}) /\ UNCHANGED reader
    /\ UNCHANGED <<held, proc, inJob, posted, assigned, called, finished, killed, stop,
                   seen, sink, rounds, interrupts>>

\* cleanup_armed_callback: the caller hears that closing the job cleans up, and
\* may object.
Callback ==
    /\ pc = "callback"
    /\ \/ called' = TRUE /\ Goto("resume") /\ UNCHANGED <<doomed, rep>>
       \/ Except({}) /\ UNCHANGED called
    /\ UNCHANGED <<held, proc, inJob, posted, assigned, finished, killed, stop, seen,
                   reader, sink, rounds, interrupts>>

\* The target runs; its thread handle is not needed any more.
Resume ==
    /\ pc = "resume"
    /\ held' = held \ {"thread"}
    /\ \/ /\ proc' = [proc EXCEPT ![Root] = IF @ = "suspended" THEN "running" ELSE @]
          /\ Goto("drain") /\ UNCHANGED <<doomed, rep>>
       \/ Except({"launch"}) /\ UNCHANGED proc
    /\ UNCHANGED <<inJob, posted, assigned, called, finished, killed, stop, seen, reader,
                   sink, rounds, interrupts>>
------------------------------------------------------------------------------
(* The loop: limit messages, working sets, then the accounting of the job.    *)

\* _drain_job_messages takes what was posted since the last time.
Drain ==
    /\ pc = "drain"
    /\ \/ /\ seen' = posted
          /\ Report(posted) /\ stop' = (stop \/ posted \ seen # {})
       \/ Report({"infrastructure"}) /\ stop' = TRUE /\ UNCHANGED seen
    /\ Goto("sample")
    /\ UNCHANGED <<held, kernel, assigned, called, finished, killed, reader, sink,
                   rounds, interrupts>>

\* A working set that cannot be had is not an error, a process list is.
Sample ==
    /\ pc = "sample"
    /\ \/ UNCHANGED <<rep, stop>>
       \/ Report({"infrastructure"}) /\ stop' = TRUE
    /\ Goto("check")
    /\ UNCHANGED <<held, kernel, assigned, called, finished, killed, seen, reader, sink,
                   rounds, interrupts>>

\* The loop ends when the root is gone and the job is empty.  Otherwise the
\* deadline, or the stop event, terminates the job once, and five seconds later
\* it is given up.
Check ==
    /\ pc = "check"
    /\ \/ /\ Active = {} /\ proc[Root] \in {"ok", "bad"}
          /\ finished' = TRUE /\ Goto("finally")
          /\ UNCHANGED <<doomed, killed, stop, rep, rounds>>
       \/ /\ Active # {} /\ UNCHANGED finished
          /\ \E late, over \in BOOLEAN :
               /\ late => "timeout" \notin rep.faults
               /\ over => killed
               /\ rounds = 0 => (IF killed THEN over ELSE late)
               /\ stop' = (stop \/ late) /\ killed' = (killed \/ stop')
               /\ doomed' = (doomed \/ killed')
               /\ rounds' = IF killed' # killed THEN MaxRounds
                            ELSE IF rounds = 0 THEN 0 ELSE rounds - 1
               /\ Report((IF late THEN {"timeout"} ELSE {})
                         \cup (IF over THEN {"infrastructure"} ELSE {}))
               /\ Goto(IF over THEN "finally" ELSE "drain")
       \/ Except({}) /\ UNCHANGED <<finished, killed, stop, rounds>>   \* no accounting
    /\ UNCHANGED <<held, proc, inJob, posted, assigned, called, seen, reader, sink,
                   interrupts>>
------------------------------------------------------------------------------
(* The clean-up.                                                              *)

\* An unfinished job is terminated.
FinalTerminate ==
    /\ pc = "finally"
    /\ doomed' = (doomed \/ (assigned /\ ~finished))
    /\ held' = held \ {"thread"}
    /\ Goto("join")
    /\ UNCHANGED <<proc, inJob, posted, assigned, called, finished, killed, stop, seen,
                   reader, sink, rep, rounds, interrupts>>

\* The readers are joined, five seconds, and the sinks sealed.
Join ==
    /\ pc = "join"
    /\ sink' = [sink EXCEPT !.sealed = TRUE]
    /\ Report((IF sink.error \/ reader = "reading" THEN {"thread"} ELSE {})
              \cup (IF sink.error THEN {"pipe"} ELSE {}))
    /\ Goto("query")
    /\ UNCHANGED <<held, kernel, assigned, called, finished, killed, stop, seen, reader,
                   rounds, interrupts>>

\* Mutant: the port is not looked at again after the loop.
FinalQuery_NoDrain ==
    /\ pc = "query"
    /\ Goto("exit code")
    /\ UNCHANGED <<held, kernel, assigned, called, finished, killed, stop, seen, reader,
                   sink, rep, rounds, interrupts>>
\* The messages and counters of the job, for the last time.
FinalQuery ==
    /\ pc = "query"
    /\ \/ "job" \in held /\ seen' = posted /\ Report(posted)
       \/ "job" \in held /\ Report({"infrastructure"}) /\ UNCHANGED seen
       \/ "job" \notin held /\ UNCHANGED <<seen, rep>>
    /\ Goto("exit code")
    /\ UNCHANGED <<held, kernel, assigned, called, finished, killed, stop, reader, sink,
                   rounds, interrupts>>

\* The exit code of the root (of a live one it is STILL_ACTIVE), then every
\* handle is closed.
CloseAll ==
    /\ pc = "exit code"
    /\ \/ /\ "process" \in held
          /\ rep' = [rep EXCEPT !.exit = IF proc[Root] = "ok" THEN "ok" ELSE "bad"]
       \/ "process" \in held /\ Report({"infrastructure"})
       \/ "process" \notin held /\ UNCHANGED rep
    /\ Close(held) /\ Goto("returned")
    /\ UNCHANGED <<proc, inJob, posted, assigned, called, finished, killed, stop, seen,
                   reader, sink, rounds, interrupts>>

AdapterStep ==
    \/ OpenSinks \/ NewJob \/ Create \/ Assign \/ StartReaders \/ Callback \/ Resume
    \/ Drain \/ Sample \/ Check \/ FinalTerminate \/ Join \/ FinalQuery \/ CloseAll

\* An interrupt is an exception of the body, or escapes from the clean-up.
Interrupt ==
    /\ interrupts < MaxInterrupts
    /\ interrupts' = interrupts + 1
    /\ \/ /\ pc \in {"job", "create", "assign", "readers", "callback", "resume", "drain",
                     "sample", "check"}
          /\ Except({})
       \/ /\ pc \in {"finally", "join", "query"}
          /\ Goto("raised") /\ UNCHANGED <<doomed, rep>>
    /\ UNCHANGED <<held, proc, inJob, posted, assigned, called, finished, killed, stop,
                   seen, reader, sink, rounds>>

\* The process of the adapter ends, and the kernel closes its handles.
ProcessEnds ==
    /\ pc # "dead"
    /\ Goto("dead") /\ Close(held)
    /\ reader' = IF reader = "reading" THEN "done" ELSE reader
    /\ UNCHANGED <<proc, inJob, posted, assigned, called, finished, killed, stop, seen,
                   sink, rep, rounds, interrupts>>

\* The reader meets the end of the output, which the target may close early, or
\* the cap, or an error: a sink that was sealed under it is one.
ReaderStep ==
    /\ reader = "reading"
    /\ reader' = "done"
    /\ \/ (called \/ Live = {}) /\ UNCHANGED <<sink, stop>>
       \/ /\ Live # {} /\ ~sink.sealed /\ stop' = TRUE
          /\ sink' = [sink EXCEPT !.over = TRUE]
       \/ stop' = TRUE /\ sink' = [sink EXCEPT !.error = TRUE]
    /\ UNCHANGED <<held, kernel, pc, assigned, called, finished, killed, seen, rep,
                   rounds, interrupts>>

Next == \/ AdapterStep \/ Interrupt \/ ProcessEnds \/ ReaderStep
        \/ (ProcessStep /\ UNCHANGED adapter)

\* Every wait of the adapter has a timeout.
Spec == Init /\ [][Next]_vars /\ WF_vars(AdapterStep)

\* The kernel ends the processes of a terminated job.
FairSpec == Spec /\ WF_vars(Killed /\ UNCHANGED adapter)

TypeOK ==
    /\ KernelOK
    /\ pc \in {"sinks", "job", "create", "assign", "readers", "callback", "resume",
               "drain", "sample", "check", "finally", "join", "query", "exit code",
               "returned", "raised", "dead"}
    /\ assigned = (Root \in inJob) /\ called \in BOOLEAN /\ finished \in BOOLEAN
    /\ killed \in BOOLEAN /\ (killed => stop) /\ stop \in BOOLEAN /\ seen \subseteq posted
    /\ reader \in {"none", "reading", "done"}
    /\ sink \in [over : BOOLEAN, error : BOOLEAN, sealed : BOOLEAN]
    /\ rep \in [exit : ExitCode, faults : SUBSET Fault]
    /\ rounds \in 0..MaxRounds /\ interrupts \in 0..MaxInterrupts

Verdict == Classify([exit |-> rep.exit, faults |-> rep.faults, output |-> sink.over])

\* A run that counts as a success ended by itself, the whole tree of it: the job
\* was never terminated while something was in it, it is empty, no limit was hit,
\* and the reader saw the end of the output.
SuccessIsClean ==
    (pc = "returned" /\ Verdict = "success") =>
        /\ proc[Root] = "ok" /\ Live = {} /\ finished /\ ~killed /\ posted = {}
        /\ reader = "done"

\* A limit message posted at any time before the result is in the result, unless
\* the result says that the job could not be asked.
LimitReported ==
    pc = "returned" => posted \subseteq rep.faults \/ "infrastructure" \in rep.faults

\* Nothing of the target ever runs outside the job, or before the caller has
\* heard that the clean-up is armed.
RunsInJob == \A p \in Proc : proc[p] = "running" => p \in inJob /\ called

\* When the adapter has returned or its process is gone, everything that ever ran
\* for it ends, by the closing of the job alone.
NothingOutlives ==
    (pc \in {"returned", "dead"}) ~> (\A p \in Proc : proc[p] # "running")

\* The adapter ends, although the target, the kernel and the readers may not.
AdapterEnds == <>(pc \in {"returned", "raised", "dead"})
==============================================================================
