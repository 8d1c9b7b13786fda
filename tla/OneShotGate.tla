---------------------------- MODULE OneShotGate ------------------------------
(* One attempt of a reviewed command in an evidence directory                 *)
(* (.agents/scripts/one_shot_gate.py): prepare_attempt, PreparedAttempt.      *)
(* execute and audit_attempt, for several callers that are given the same     *)
(* directory, any of which can die or be interrupted between two steps.       *)
(* The adapter that runs the child is only what it may return or raise here;  *)
(* its inside is the subject of PosixJob and WindowsJob.                      *)
EXTENDS GateOutcome

CONSTANTS
    Caller,      \* invocations of run_one_shot on the directory
    Cap,         \* bytes kept of each stream
    MaxOut,      \* bound: bytes the child writes to each stream
    MaxFaults,   \* bound: error and limit facts of one adapter outcome
    MaxDamage    \* bound: files altered from outside after the verdict

\* Fewer alterations than there are files in a complete inventory: whoever
\* removes all four has made a new directory.
ASSUME GateAssumption == /\ Cap \in Nat /\ MaxOut \in Nat
                         /\ MaxFaults \in Nat /\ MaxDamage \in 0..3

\* The names of a complete inventory, and one file that does not belong.
Complete == {"attempt", "verdict"} \cup Stream
Names    == Complete \cup {"stray"}

Absent  == [is |-> "absent"]
Torn    == [is |-> "torn"]      \* created, not completely written

VARIABLES
    file,      \* the evidence directory: name -> content
    pc,        \* per caller
    outcome,   \* per caller: what it believes about its child
    wrapped,   \* per caller: an adapter exception or a bad outcome happened
    reading,   \* are the reader threads of the adapter still alive
    launched,  \* how often a target was started in this directory
    emitted,   \* bytes the child wrote to each stream
    exited,    \* how the child really ended, and what happened to it
    toolBad,   \* the executed tool was replaced while an attempt was running
    late,      \* bytes reached a raw file after its identity was recorded
    damage     \* files altered from outside

gateVars == <<file, pc, outcome, wrapped, reading, launched, emitted, exited,
              toolBad, late, damage>>

NoRecord == [captured |-> 0, sha |-> [size |-> 0, altered |-> FALSE], seen |-> 0,
             truncated |-> FALSE, fsynced |-> FALSE]
NoOutcome == [exit |-> "none", faults |-> {}, output |-> FALSE,
              streams |-> [s \in Stream |-> NoRecord]]

RawFile(n)   == [is |-> "raw", size |-> n, altered |-> FALSE]
Attempt(p)   == [is |-> "attempt", id |-> p, altered |-> FALSE]
Digest(f)    == [size |-> file[f].size, altered |-> file[f].altered]

Init ==
    /\ file \in {[n \in Names |-> Absent],
                 [n \in Names |-> IF n = "stray" THEN RawFile(0) ELSE Absent]}
    /\ pc = [p \in Caller |-> "start"]
    /\ outcome = [p \in Caller |-> NoOutcome]
    /\ wrapped = [p \in Caller |-> FALSE]
    /\ reading = [p \in Caller |-> FALSE]
    /\ launched = 0
    /\ emitted = [s \in Stream |-> 0]
    /\ exited = [code |-> "none", faults |-> {}]
    /\ toolBad = FALSE
    /\ late = FALSE
    /\ damage = 0
------------------------------------------------------------------------------
(* Files are only ever created with O_EXCL, and written once.                 *)

\* Mutant: O_CREAT without O_EXCL.
CanCreate_Overwrites(f) == TRUE
\* exclusive_write_bytes and _PrefixSink.open: O_EXCL refuses an existing name.
CanCreate(f) == file[f] = Absent

Goto(p, l) == pc' = [pc EXCEPT ![p] = l]

\* _validate_spec: the directory must be empty; everything else that is
\* reviewed (command, environment, limits, tool) is right or is not.
Validate(p) ==
    /\ pc[p] = "start"
    /\ \/ (\A f \in Names : file[f] = Absent) /\ Goto(p, "checked")
       \/ Goto(p, "refused")
    /\ UNCHANGED <<file, outcome, wrapped, reading, launched, emitted, exited,
                   toolBad, late, damage>>

\* prepare_attempt: the marker is created first and completed in a second step;
\* another caller may have created it since the directory was seen empty.
CreateAttempt(p) ==
    /\ pc[p] = "checked"
    /\ IF CanCreate("attempt")
       THEN file' = [file EXCEPT !["attempt"] = Torn] /\ Goto(p, "marking")
       ELSE UNCHANGED file /\ Goto(p, "refused")
    /\ UNCHANGED <<outcome, wrapped, reading, launched, emitted, exited, toolBad,
                   late, damage>>

\* The write and its fsync succeed, or the marker stays torn and the caller
\* gives up.
WriteAttempt(p) ==
    /\ pc[p] = "marking"
    /\ \/ file' = [file EXCEPT !["attempt"] = Attempt(p)] /\ Goto(p, "prepared")
       \/ UNCHANGED file /\ Goto(p, "escaped")
    /\ UNCHANGED <<outcome, wrapped, reading, launched, emitted, exited, toolBad,
                   late, damage>>

\* execute refuses a directory that already holds raw output or a verdict.
Execute(p) ==
    /\ pc[p] = "prepared"
    /\ IF \E f \in Stream \cup {"verdict"} : file[f] # Absent
       THEN Goto(p, "escaped") ELSE Goto(p, "opening")
    /\ UNCHANGED <<file, outcome, wrapped, reading, launched, emitted, exited,
                   toolBad, late, damage>>
------------------------------------------------------------------------------
(* The adapter, seen from outside.                                            *)

\* The two raw files are created; when the second fails the first one stays and
\* the adapter raises.
OpenRaw(p) ==
    /\ pc[p] = "opening"
    /\ \E opened \in {{}, {"stdout"}, Stream} :
         /\ \A s \in opened : CanCreate(s)
         /\ file' = [f \in Names |-> IF f \in opened THEN RawFile(0) ELSE file[f]]
         /\ Goto(p, IF opened = Stream THEN "opened" ELSE "raised")
    /\ UNCHANGED <<outcome, wrapped, reading, launched, emitted, exited, toolBad,
                   late, damage>>

\* The target is started, its output is read by two threads.
Launch(p) ==
    /\ pc[p] = "opened"
    /\ launched' = launched + 1
    /\ reading' = [reading EXCEPT ![p] = TRUE]
    /\ Goto(p, "running")
    /\ UNCHANGED <<file, outcome, wrapped, emitted, exited, toolBad, late, damage>>

\* One byte goes from the child through the pipe into the raw file; what is past
\* the cap is seen and dropped.  The readers live on when the adapter was
\* interrupted during its clean-up, so this can happen at any later time.
Emit(p, s) ==
    /\ reading[p]
    /\ emitted[s] < MaxOut
    /\ emitted' = [emitted EXCEPT ![s] = @ + 1]
    /\ file' = IF file[s].is = "raw" /\ file[s].size < Cap
               THEN [file EXCEPT ![s].size = @ + 1] ELSE file
    /\ late' = (late \/ (pc[p] # "running" /\ file' # file))
    /\ UNCHANGED <<pc, outcome, wrapped, reading, launched, exited, toolBad, damage>>

\* A record of a stream as its sink kept it.
SinkRecord(s, sealed) ==
    [captured |-> file[s].size, sha |-> Digest(s), seen |-> emitted[s],
     truncated |-> emitted[s] > file[s].size, fsynced |-> sealed]

FewFaults == {F \in SUBSET (Fault \ {"launch"}) : Cardinality(F) <= MaxFaults}

\* What the adapter says of a child it has waited for.
ChildOutcome(exit, F, sealed) ==
    [exit |-> exit, faults |-> F,
     output |-> \E s \in Stream : emitted[s] > file[s].size,
     streams |-> [s \in Stream |-> SinkRecord(s, sealed)]]

\* The adapter returns: the readers are joined and the sinks sealed (or sealing
\* fails), and the outcome says what happened.
AdapterReturns(p) ==
    /\ pc[p] = "running"
    /\ \E exit \in ExitCode, F \in FewFaults, sealed \in BOOLEAN :
         /\ exit = "none" => F # {}
         /\ exited' = [code |-> exit, faults |-> F]
         /\ outcome' = [outcome EXCEPT ![p] = ChildOutcome(exit, F, sealed)]
    /\ reading' = [reading EXCEPT ![p] = FALSE]
    /\ Goto(p, "returned")
    /\ UNCHANGED <<file, wrapped, launched, emitted, toolBad, late, damage>>

\* The target could not be started; both raw files stay empty.
LaunchFails(p) ==
    /\ pc[p] = "opened"
    /\ outcome' = [outcome EXCEPT ![p] =
          [exit |-> "none", faults |-> {"launch"}, output |-> FALSE,
           streams |-> [s \in Stream |-> SinkRecord(s, TRUE)]]]
    /\ Goto(p, "returned")
    /\ UNCHANGED <<file, wrapped, reading, launched, emitted, exited, toolBad,
                   late, damage>>

\* An exception leaves the adapter; interrupted in its clean-up, it leaves the
\* child and the readers behind.
AdapterRaises(p) ==
    /\ pc[p] \in {"opened", "running"}
    /\ Goto(p, "raised")
    /\ \/ UNCHANGED reading
       \/ reading' = [reading EXCEPT ![p] = FALSE]
    /\ UNCHANGED <<file, outcome, wrapped, launched, emitted, exited, toolBad,
                   late, damage>>

\* The child is gone and its pipes are drained.
ReadersEnd(p) ==
    /\ reading[p] /\ pc[p] # "running"
    /\ reading' = [reading EXCEPT ![p] = FALSE]
    /\ UNCHANGED <<file, pc, outcome, wrapped, launched, emitted, exited, toolBad,
                   late, damage>>
------------------------------------------------------------------------------
(* Back in execute.                                                           *)

\* _outcome_from_existing_raw begins: an outcome with nothing but an
\* infrastructure error, its streams to be filled in.  It is also the answer to
\* an outcome that fails validation, but only once.
BeginFallback(p) ==
    /\ pc[p] = "raised"
    /\ outcome' = [outcome EXCEPT ![p] =
                     [NoOutcome EXCEPT !.faults = {"infrastructure"}]]
    /\ Goto(p, "sizing stdout")
    /\ UNCHANGED <<file, wrapped, reading, launched, emitted, exited, toolBad,
                   late, damage>>

Sizing  == [stdout |-> "sizing stdout", stderr |-> "sizing stderr"]
Hashing == [stdout |-> "hashing stdout", stderr |-> "hashing stderr"]

\* The size of a raw file is taken first, after which it is synced; a missing
\* file is created empty.
TakeSize(p, s) ==
    /\ pc[p] = Sizing[s]
    /\ LET n == IF file[s].is = "raw" THEN file[s].size ELSE 0
       IN outcome' = [outcome EXCEPT ![p].streams[s] =
            [NoRecord EXCEPT !.captured = n, !.seen = n, !.fsynced = TRUE,
                             !.truncated = (n = Cap /\ Cap > 0)]]
    /\ file' = IF file[s] = Absent THEN [file EXCEPT ![s] = RawFile(0)] ELSE file
    /\ Goto(p, Hashing[s])
    /\ UNCHANGED <<wrapped, reading, launched, emitted, exited, toolBad, late, damage>>

\* Its digest is computed from a second read.
TakeHash(p, s) ==
    /\ pc[p] = Hashing[s]
    /\ LET rec == [outcome[p] EXCEPT !.streams[s].sha = Digest(s)]
       IN outcome' = [outcome EXCEPT ![p] =
            IF s = "stderr"
            THEN [rec EXCEPT !.output = \E t \in Stream : rec.streams[t].truncated]
            ELSE rec]
    /\ Goto(p, IF s = "stdout" THEN "sizing stderr" ELSE "returned")
    /\ UNCHANGED <<file, wrapped, reading, launched, emitted, exited, toolBad,
                   late, damage>>

\* _verify_raw_identity: the files on disk still are what the records say.
RawAsRecorded(p) ==
    \A s \in Stream : LET rec == outcome[p].streams[s] IN
        /\ file[s].is = "raw"
        /\ file[s].size = rec.captured
        /\ Digest(s) = rec.sha

\* Mutant: a malformed outcome of the adapter is believed.
CheckOutcome_Believes(p) ==
    /\ pc[p] = "returned"
    /\ Goto(p, "checked outcome")
    /\ UNCHANGED <<file, outcome, wrapped, reading, launched, emitted, exited,
                   toolBad, late, damage>>
\* An outcome that is malformed or that the files contradict is replaced by one
\* built from the files; if that one is contradicted too, execute raises and
\* there is no verdict.
CheckOutcome(p) ==
    /\ pc[p] = "returned"
    /\ IF ValidOutcome(outcome[p], Cap) /\ RawAsRecorded(p)
       THEN Goto(p, "checked outcome") /\ UNCHANGED wrapped
       ELSE /\ Goto(p, IF wrapped[p] THEN "escaped" ELSE "raised")
            /\ wrapped' = [wrapped EXCEPT ![p] = TRUE]
    /\ UNCHANGED <<file, outcome, reading, launched, emitted, exited, toolBad,
                   late, damage>>

\* _verify_tool_identity: a tool that changed is an infrastructure error.
CheckTool(p) ==
    /\ pc[p] = "checked outcome"
    /\ outcome' = IF toolBad
                  THEN [outcome EXCEPT ![p].faults = @ \cup {"infrastructure"}]
                  ELSE outcome
    /\ Goto(p, "classified")
    /\ UNCHANGED <<file, wrapped, reading, launched, emitted, exited, toolBad,
                   late, damage>>

\* The verdict file is created exclusively.
CreateVerdict(p) ==
    /\ pc[p] = "classified"
    /\ IF CanCreate("verdict")
       THEN file' = [file EXCEPT !["verdict"] = Torn] /\ Goto(p, "judging")
       ELSE UNCHANGED file /\ Goto(p, "escaped")
    /\ UNCHANGED <<outcome, wrapped, reading, launched, emitted, exited, toolBad,
                   late, damage>>

Verdict(p, class, stage) ==
    [is |-> "verdict", id |-> p, attempt |-> file["attempt"], class |-> class,
     stage |-> stage, status |-> IF class = "success" THEN "success" ELSE "failure",
     child |-> outcome[p]]

\* The classification of the outcome is written; a result validator, when there
\* is one, is asked about successes only and can turn them into a schema error.
\* A failing write leaves the verdict torn.
WriteVerdict(p) ==
    /\ pc[p] = "judging"
    /\ LET class == Classify(outcome[p]) IN
       \/ /\ \E v \in IF class = "success" THEN {"none", "accepts", "rejects"}
                                           ELSE {"none"} :
               file' = [file EXCEPT !["verdict"] =
                   Verdict(p, IF v = "rejects" THEN "schema_error" ELSE class,
                           IF v = "none" THEN "child" ELSE "result-schema")]
          /\ Goto(p, "done")
       \/ UNCHANGED file /\ Goto(p, "escaped")
    /\ UNCHANGED <<outcome, wrapped, reading, launched, emitted, exited, toolBad,
                   late, damage>>
------------------------------------------------------------------------------
(* The rest of the world.                                                     *)

Over == {"refused", "escaped", "done", "dead"}

\* A process dies between two steps, and its reader threads with it.
Die(p) ==
    /\ pc[p] \notin {"refused", "dead"}
    /\ Goto(p, "dead")
    /\ reading' = [reading EXCEPT ![p] = FALSE]
    /\ UNCHANGED <<file, outcome, wrapped, launched, emitted, exited, toolBad,
                   late, damage>>

\* Somebody rebuilds the tool while an attempt is between its two looks at it.
ReplaceTool ==
    /\ ~toolBad
    /\ \E p \in Caller : pc[p] \in {"prepared", "opening", "opened", "running",
                                    "raised", "returned", "checked outcome"}
    /\ toolBad' = TRUE
    /\ UNCHANGED <<file, pc, outcome, wrapped, reading, launched, emitted, exited,
                   late, damage>>

\* The child leaves a file of its own in the directory.
LeaveFile ==
    /\ \E p \in Caller : pc[p] = "running"
    /\ file["stray"] = Absent
    /\ file' = [file EXCEPT !["stray"] = RawFile(0)]
    /\ UNCHANGED <<pc, outcome, wrapped, reading, launched, emitted, exited,
                   toolBad, late, damage>>

\* After the verdict a file is lost, cut short, or altered in place.
Damage(f) ==
    /\ damage < MaxDamage
    /\ file["verdict"].is = "verdict"
    /\ \/ file' = [file EXCEPT ![f] = Absent]
       \/ f \in {"attempt", "verdict"} /\ file' = [file EXCEPT ![f] = Torn]
       \/ /\ file[f].is \in {"raw", "attempt"}
          /\ file' = [file EXCEPT ![f].altered = TRUE]
       \/ /\ file[f].is = "raw" /\ file[f].size > 0
          /\ file' = [file EXCEPT ![f].size = @ - 1]
    /\ damage' = damage + 1
    /\ UNCHANGED <<pc, outcome, wrapped, reading, launched, emitted, exited,
                   toolBad, late>>

CallerStep(p) ==
    \/ Validate(p) \/ CreateAttempt(p) \/ WriteAttempt(p) \/ Execute(p)
    \/ OpenRaw(p) \/ Launch(p) \/ LaunchFails(p)
    \/ AdapterReturns(p) \/ AdapterRaises(p) \/ BeginFallback(p)
    \/ (\E s \in Stream : TakeSize(p, s) \/ TakeHash(p, s))
    \/ CheckOutcome(p) \/ CheckTool(p) \/ CreateVerdict(p) \/ WriteVerdict(p)

Next ==
    \/ \E p \in Caller : CallerStep(p) \/ Die(p) \/ ReadersEnd(p)
                         \/ \E s \in Stream : Emit(p, s)
    \/ ReplaceTool \/ LeaveFile
    \/ \E f \in Complete : Damage(f)

\* Every caller that lives takes its next step: the limits of the adapter bound
\* the time it waits for the child.
Spec == Init /\ [][Next]_gateVars
             /\ \A p \in Caller : WF_gateVars(CallerStep(p))
------------------------------------------------------------------------------
(* audit_attempt: what a later reader of the directory concludes.             *)

Answered(state, status) == [state |-> state, status |-> status]
Incomplete == Answered("incomplete", "unknown")

\* _validate_attempt: the marker can be read back as an attempt.
WholeAttempt == file["attempt"].is = "attempt"

\* _validate_verdict: so can the verdict, whose streams are consistent and were
\* sealed before it.
WholeVerdict ==
    /\ file["verdict"].is = "verdict"
    /\ \A s \in Stream : LET rec == file["verdict"].child.streams[s] IN
         ValidStream(rec, Cap) /\ rec.fsynced

\* The checks of a whole verdict against its own facts and the other files.
VerdictHolds(v) ==
    /\ v.attempt = file["attempt"] /\ v.id = file["attempt"].id
    /\ CASE v.class = "schema_error" ->
              Classify(v.child) = "success" /\ v.stage = "result-schema"
         [] v.class = "success" /\ v.stage = "result-schema" ->
              Classify(v.child) = "success"
         [] OTHER -> v.class = Classify(v.child) /\ v.stage = "child"
    /\ v.status = IF v.class = "success" THEN "success" ELSE "failure"
    /\ file["stray"] = Absent
    /\ \A s \in Stream : LET rec == v.child.streams[s] IN
         file[s].is = "raw" /\ file[s].size = rec.captured /\ Digest(s) = rec.sha
    /\ v.child.output = (\E s \in Stream : v.child.streams[s].truncated)

Consumed == file["attempt"] # Absent

Audit ==
    IF ~Consumed
    THEN Answered(IF \A f \in Names : file[f] = Absent THEN "absent" ELSE "incomplete",
                  "unknown")
    ELSE IF WholeAttempt /\ WholeVerdict /\ VerdictHolds(file["verdict"])
         THEN Answered("complete", file["verdict"].status)
         ELSE Incomplete
------------------------------------------------------------------------------
(* Properties.                                                                *)

PCs == Over \cup {"start", "checked", "marking", "prepared", "opening", "opened",
                  "running", "raised", "sizing stdout", "hashing stdout",
                  "sizing stderr", "hashing stderr", "returned",
                  "checked outcome", "classified", "judging"}

\* Shapes of the variables: the marker and the verdict are what their names say,
\* and what execute believes has the shape of an outcome.
TypeOK ==
    /\ file["attempt"] \in {Absent, Torn} \cup
           [is : {"attempt"}, id : Caller, altered : BOOLEAN]
    /\ \A s \in Stream : file[s] = Absent \/
           file[s] \in [is : {"raw"}, size : 0..Cap, altered : BOOLEAN]
    /\ file["verdict"].is \in {"absent", "torn", "verdict"}
    /\ pc \in [Caller -> PCs]
    /\ \A p \in Caller : outcome[p] \in Outcomes(Cap)
    /\ wrapped \in [Caller -> BOOLEAN] /\ reading \in [Caller -> BOOLEAN]
    /\ launched \in Nat /\ emitted \in [Stream -> 0..MaxOut]
    /\ exited \in [code : ExitCode, faults : SUBSET Fault]
    /\ toolBad \in BOOLEAN /\ late \in BOOLEAN /\ damage \in 0..MaxDamage

\* The reviewed command is started at most once in an evidence directory,
\* whoever retries and whoever dies (execute behind prepare_attempt).
OneLaunch == launched <= 1

\* When the audit answers success, the command did run, once, ended with a
\* success code, met no limit and no error, its whole output is in the raw
\* files, and the tool was the reviewed one to the end - although files were
\* lost, cut short or (the verdict excepted) altered in place since
\* (audit_attempt against execute).
SuccessIsTrue ==
    Audit = Answered("complete", "success") =>
        /\ launched = 1 /\ exited = [code |-> "ok", faults |-> {}]
        /\ \A s \in Stream : file[s] = RawFile(emitted[s])
        /\ ~toolBad

\* A verdict that execute wrote is accepted by the audit with the same status,
\* as long as nobody touched the directory: the writer and the auditor agree on
\* every combination of facts, the fallbacks included.
VerdictAudits ==
    /\ file["verdict"].is = "verdict"
    /\ damage = 0 /\ ~late /\ file["stray"] = Absent
    => Audit = Answered("complete", file["verdict"].status)

\* The audit tells the truth of the run, and the whole truth.
AuditIsTrue == TypeOK /\ SuccessIsTrue /\ VerdictAudits

\* Does a caller still work on the attempt of this directory?
Owned == \E p \in Caller : pc[p] \notin Over \cup {"start", "checked"}

Orphaned == Consumed /\ ~Owned /\ file["verdict"].is # "verdict"

\* A directory whose attempt lost its process before the verdict stays without
\* an answer for ever: no later caller adopts or restarts it.
NoAdoption == [][Orphaned => Orphaned']_gateVars

\* Whoever prepared an attempt ends it: with a verdict, by raising, or by dying.
Settles == \A p \in Caller : pc[p] = "prepared" ~> pc[p] \in Over

\* The promise of OneShotSpec: the directory is consumed by its marker and
\* answered by its verdict, until somebody alters it from outside; and one that
\* has lost its answer never gets one.
Promise == INSTANCE OneShotSpec WITH
    answer <- IF file["verdict"].is = "verdict" THEN file["verdict"].status
              ELSE IF Consumed THEN "consumed" ELSE "unused",
    ran    <- launched > 0
PromiseKept == Promise!Init /\ [][damage' = 0 => Promise!Next]_(Promise!vars)
               /\ NoAdoption
==============================================================================
