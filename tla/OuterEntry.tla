----------------------------- MODULE OuterEntry ------------------------------
(* The outer transaction around a one-shot gate: the trust-root bootstrap     *)
(* (.agents/scripts/one_shot_entry.py), the launcher it compiles              *)
(* (run_outer_entry, run_chained_plan) and the auditor (audit_outer), with    *)
(* the monitor thread that interrupts the main thread when the wall bound or  *)
(* the output bound is reached.  The inner gate is what OneShotSpec promises. *)
EXTENDS Naturals

CONSTANT OutCap     \* bytes kept of the outer output

OutCapAssumption == OutCap \in Nat

Absent == [is |-> "absent"]
Torn   == [is |-> "torn"]

\* A whole attempt has no flaw; or what it says of the interpreter, the entry and
\* the delivery fails a check of _validate_outer_attempt, which is noticed by
\* the stage it names: the identity and the plan by the bootstrap, what only the
\* launcher looks at (the implementation, the spelling of a path) by the latter.
Flaws    == {"none", "identity", "plan", "outer-launcher"}
Whole(w) == [is |-> "attempt", flaw |-> w]

VARIABLES
    pc,         \* the main thread
    attempt,    \* outer-attempt.json
    verdict,    \* outer-verdict.json
    raw,        \* bytes of the outer raw output, or none before it is opened
    inner,      \* the inner evidence directory, as OneShotSpec sees it, "none"
                \* before it is made
    armed,      \* cleanup handshakes received
    ran,        \* the target was released
    draft,      \* status and classification so far
    record,     \* what the verdict will say of the output and the inner gate
    monitor,    \* "off", "watching", "fired" or "stopped"
    bound,      \* bound_reason
    pending,    \* an interrupt of the main thread is on its way
    code        \* exit code, or "none" while the process runs

outerVars == <<pc, attempt, verdict, raw, inner, armed, ran, draft, record, monitor,
               bound, pending, code>>

NoRaw == OutCap + 2     \* no file: a number that no output reaches

Failure(class) == [status |-> "failure", class |-> class]

Init ==
    /\ pc = "start" /\ attempt = Absent /\ verdict = Absent /\ raw = NoRaw
    /\ inner = "none" /\ armed = 0 /\ ran = FALSE
    /\ draft = Failure("infrastructure_error")
    /\ record = [seen |-> 0, size |-> 0, inner |-> "none"]
    /\ monitor = "off" /\ bound = "none" /\ pending = FALSE /\ code = "none"

Goto(l) == pc' = l
Running == code = "none"

\* The process ends with a code, and its threads with it.
Exit(c) == code' = c /\ Goto("over")
------------------------------------------------------------------------------
(* The bootstrap: evidence first.                                             *)

\* The delivery on the command line is well formed, its bounds finite and
\* positive, or the process ends before it touches anything.
ParseDelivery ==
    /\ pc = "start"
    /\ \/ Goto("delivered") /\ UNCHANGED code
       \/ Exit("1")
    /\ UNCHANGED <<attempt, verdict, raw, inner, armed, ran, draft, record, monitor, bound,
                   pending>>

\* _run: a fresh root, then the attempt is created.
CreateOuterAttempt ==
    /\ pc = "delivered"
    /\ \/ attempt' = Torn /\ Goto("marking") /\ UNCHANGED code
       \/ UNCHANGED attempt /\ Exit("1")       \* not fresh, or a wrong environment
    /\ UNCHANGED <<verdict, raw, inner, armed, ran, draft, record, monitor, bound,
                   pending>>

WriteOuterAttempt ==
    /\ pc = "marking"
    /\ \E w \in Flaws : attempt' = Whole(w)
    /\ Goto("opening")
    /\ UNCHANGED <<verdict, raw, inner, armed, ran, draft, record, monitor, bound,
                   pending, code>>

\* The raw files are opened and become the process's own output, and the
\* monitor thread starts.
OpenOuterRaw ==
    /\ pc = "opening"
    /\ raw' = 0 /\ monitor' = "watching" /\ Goto("identity")
    /\ UNCHANGED <<attempt, verdict, inner, armed, ran, draft, record, bound, pending,
                   code>>

Stages == {"identity", "plan", "compile", "outer-launcher"}

\* A stage is left for the next one, or fails; it does when the flaw is its own.
Stage(here, next) ==
    /\ pc = here
    /\ \/ attempt.flaw # here /\ Goto(next) /\ UNCHANGED draft
       \/ Goto("failing") /\ draft' = Failure(here)
    /\ UNCHANGED <<attempt, verdict, raw, inner, armed, ran, record, monitor, bound,
                   pending, code>>

CheckIdentity   == Stage("identity", "plan")     \* interpreter, entry and flags
ReadPlan        == Stage("plan", "compile")      \* the plan and what it pins
\* the launcher's own code runs
CompileLauncher == Stage("compile", "outer-launcher")

\* The try of run_outer_entry.
InnerTry == {"chain", "authority", "inner", "adapter", "adapted", "answered"}

\* Whatever the main thread prints before its streams are detached, and the
\* traceback of the handler.
Output ==
    /\ \/ pc \in Stages \cup InnerTry
       \/ pc = "fail record" /\ verdict = Absent
    /\ raw <= OutCap
    /\ raw' = raw + 1
    /\ UNCHANGED <<pc, attempt, verdict, inner, armed, ran, draft, record, monitor,
                   bound, pending, code>>
------------------------------------------------------------------------------
(* run_outer_entry and run_chained_plan.                                      *)

Gate == INSTANCE OneShotSpec WITH answer <- inner, ran <- ran

\* _validate_outer_attempt
WholeOuterAttempt == attempt.is = "attempt" /\ attempt.flaw = "none"

\* run_outer_entry checks the attempt before its try: what it refuses is a
\* failure that the bootstrap records.
CheckOuterAttempt ==
    /\ pc = "outer-launcher"
    /\ IF WholeOuterAttempt
       THEN Goto("chain") /\ UNCHANGED draft
       ELSE Goto("failing") /\ draft' = Failure("outer-launcher")
    /\ UNCHANGED <<attempt, verdict, raw, inner, armed, ran, record, monitor, bound,
                   pending, code>>

\* An exception inside the try of run_outer_entry is a failure of its stage.
InnerRaises == Goto("detach") /\ draft' = Failure("inner_failure")

\* _validate_entry_plan
CheckPlan ==
    /\ pc = "chain"
    /\ \/ Goto("authority") /\ UNCHANGED draft
       \/ InnerRaises
    /\ UNCHANGED <<attempt, verdict, raw, inner, armed, ran, record, monitor, bound,
                   pending, code>>

\* run_chained_plan checks the outer attempt that authorises it and makes the
\* inner directory.
MakeInner ==
    /\ pc = "authority"
    /\ \/ attempt.is = "attempt" /\ inner' = "unused" /\ Goto("inner") /\ UNCHANGED draft
       \/ InnerRaises /\ UNCHANGED inner
    /\ UNCHANGED <<attempt, verdict, raw, armed, ran, record, monitor, bound, pending,
                   code>>

\* prepare_attempt in the inner directory.
PrepareInner ==
    /\ pc = "inner"
    /\ \/ Gate!Consume /\ Goto("adapter") /\ UNCHANGED draft
       \/ InnerRaises /\ UNCHANGED <<inner, ran>>
    /\ UNCHANGED <<attempt, verdict, raw, armed, record, monitor, bound, pending, code>>

\* cleanup_armed: exactly one handshake, before the target is released.
Arm ==
    /\ pc = "adapter"
    /\ armed = 0
    /\ armed' = 1
    /\ UNCHANGED <<pc, attempt, verdict, raw, inner, ran, draft, record, monitor, bound,
                   pending, code>>

Release ==
    /\ pc = "adapter"
    /\ armed = 1
    /\ Gate!Start
    /\ UNCHANGED <<pc, attempt, verdict, raw, armed, draft, record, monitor, bound,
                   pending, code>>

\* The adapter comes to an end and execute writes the inner verdict; a success
\* needs a target that ran.
AnswerInner ==
    /\ pc = "adapter"
    /\ Gate!Answer
    /\ Goto("answered")
    /\ UNCHANGED <<attempt, verdict, raw, armed, draft, record, monitor, bound, pending,
                   code>>

\* An interrupt is caught by the adapter, which cleans up and lets execute
\* record a failure.
AdapterCatches ==
    /\ pc = "adapter" /\ pending
    /\ pending' = FALSE
    /\ inner' = "failure"
    /\ Goto("answered")
    /\ UNCHANGED <<attempt, verdict, raw, armed, ran, draft, record, monitor, bound, code>>

\* Mutant: the handshake is not asked for, and the answer of the gate not used.
TakeAnswer_Assumes ==
    /\ pc = "answered"
    /\ draft' = [status |-> "success", class |-> "success"]
    /\ Goto("detach")
    /\ UNCHANGED <<attempt, verdict, raw, inner, armed, ran, record, monitor, bound,
                   pending, code>>
\* The answer of the inner gate becomes the status of the outer one.
TakeAnswer ==
    /\ pc = "answered"
    /\ draft' = IF armed = 1 /\ inner = "success"
                THEN [status |-> "success", class |-> "success"]
                ELSE Failure("inner_failure")
    /\ Goto("detach")
    /\ UNCHANGED <<attempt, verdict, raw, inner, armed, ran, record, monitor, bound,
                   pending, code>>

Kept(n) == IF n > OutCap THEN OutCap ELSE n

\* _outer_raw_record: the streams are detached, the output is cut at its cap.
RecordRaw ==
    /\ pc \in {"detach", "fail record"}
    /\ record' = [record EXCEPT !.seen = raw, !.size = Kept(raw)]
    /\ raw' = Kept(raw)
    /\ Goto(IF pc = "detach" THEN "bound" ELSE "fail create")
    /\ UNCHANGED <<attempt, verdict, inner, armed, ran, draft, monitor, bound, pending,
                   code>>

Cut == record.seen > OutCap

\* The streams cannot be sealed, the inner evidence not be read or the verdict
\* not be created: an exception that the handler of _run records as a failure of
\* the launcher, and that nothing records when it is raised there.  A stream may
\* have been cut before.
SealingFails ==
    /\ \/ /\ pc \in {"detach", "summary", "create"}
          /\ Goto("failing") /\ draft' = Failure("outer-launcher") /\ UNCHANGED code
       \/ /\ pc \in {"fail record", "fail create"}
          /\ Exit("1") /\ UNCHANGED draft
    /\ raw' \in {raw, Kept(raw)}
    /\ UNCHANGED <<attempt, verdict, inner, armed, ran, record, monitor, bound, pending>>

\* A bound that was reached turns every result into its own failure.
SampleBound ==
    /\ pc = "bound"
    /\ draft' = IF bound = "timeout" THEN Failure("outer_timeout")
                ELSE IF bound = "output" \/ Cut THEN Failure("outer_output_limit")
                ELSE draft
    /\ Goto("summary")
    /\ UNCHANGED <<attempt, verdict, raw, inner, armed, ran, record, monitor, bound,
                   pending, code>>

\* _outer_inner_summary: the inner evidence as it is now.
Summarise ==
    /\ pc = "summary"
    /\ record' = [record EXCEPT !.inner = inner]
    /\ Goto("create")
    /\ UNCHANGED <<attempt, verdict, raw, inner, armed, ran, draft, monitor, bound,
                   pending, code>>

OuterVerdict(d, rec) == [is |-> "verdict", status |-> d.status, class |-> d.class,
                         armed |-> IF rec.inner = "none" THEN 0 ELSE armed, rec |-> rec]

\* Mutant: an existing verdict is replaced.
CreateOuterVerdict_Replaces ==
    /\ pc \in {"create", "fail create"}
    /\ verdict' = Torn
    /\ Goto(IF pc = "create" THEN "writing" ELSE "fail writing")
    /\ UNCHANGED <<attempt, raw, inner, armed, ran, draft, record, monitor, bound,
                   pending, code>>
\* The outer verdict is created exclusively and then written.  Both the launcher
\* and the bootstrap's failure path do it; the latter leaves an existing verdict
\* alone and says nothing of the inner gate.
CreateOuterVerdict ==
    /\ pc \in {"create", "fail create"}
    /\ IF verdict = Absent
       THEN /\ verdict' = Torn
            /\ Goto(IF pc = "create" THEN "writing" ELSE "fail writing")
            /\ UNCHANGED code
       ELSE UNCHANGED verdict /\ Exit("1")
    /\ UNCHANGED <<attempt, raw, inner, armed, ran, draft, record, monitor, bound, pending>>

WriteOuterVerdict ==
    /\ pc = "writing"
    /\ \/ verdict' = OuterVerdict(draft, record) /\ Goto("returned")
       \/ UNCHANGED verdict /\ Goto("failing")         \* the write fails
    /\ UNCHANGED <<attempt, raw, inner, armed, ran, draft, record, monitor, bound,
                   pending, code>>

\* Back in _run: the monitor is stopped and the process exits with the status.
ReturnOuter ==
    /\ pc = "returned"
    /\ monitor' = "stopped"
    /\ Exit(IF draft.status = "success" THEN "0" ELSE "1")
    /\ UNCHANGED <<attempt, verdict, raw, inner, armed, ran, draft, record, bound, pending>>
------------------------------------------------------------------------------
(* The failure path of _run.                                                  *)

\* The handler stops the monitor and takes the bound it saw.
BeginFailure ==
    /\ pc = "failing"
    /\ monitor' = "stopped"
    /\ record' = [record EXCEPT !.inner = "none"]
    /\ Goto("fail record")
    /\ UNCHANGED <<attempt, verdict, raw, inner, armed, ran, draft, bound, pending, code>>

\* _failure_verdict
WriteFailure ==
    /\ pc = "fail writing"
    /\ verdict' = OuterVerdict(IF bound = "timeout" THEN Failure("outer_timeout")
                               ELSE IF bound = "output" \/ Cut
                                    THEN Failure("outer_output_limit")
                               ELSE draft, record)
    /\ Exit("1")
    /\ UNCHANGED <<attempt, raw, inner, armed, ran, draft, record, monitor, bound, pending>>
------------------------------------------------------------------------------
(* The monitor thread and what it does to the main thread.                    *)

\* The wall bound or the output bound is reached: the reason is recorded and the
\* main thread is interrupted.
Fire ==
    /\ Running /\ monitor = "watching"
    /\ \/ bound' = "timeout"
       \/ raw > OutCap /\ bound' = "output"
    /\ monitor' = "fired" /\ pending' = TRUE
    /\ UNCHANGED <<pc, attempt, verdict, raw, inner, armed, ran, draft, record, code>>

\* Mutant: the monitor only interrupts.
HardExit_Never ==
    /\ Running /\ monitor = "fired" /\ pc = "over"
    /\ Exit("124")
    /\ UNCHANGED <<attempt, verdict, raw, inner, armed, ran, draft, record, monitor, bound,
                   pending>>
\* A main thread that has not stopped the monitor two seconds later takes the
\* whole process with it.
HardExit ==
    /\ Running /\ monitor = "fired"
    /\ Exit("124")
    /\ UNCHANGED <<attempt, verdict, raw, inner, armed, ran, draft, record, monitor, bound,
                   pending>>

RunTry   == Stages \cup {"detach", "bound", "summary", "create", "writing", "returned"}

\* The interrupt arrives: inside the try of run_outer_entry it is one more
\* failure of the inner stage, elsewhere in the try of _run it is the failure
\* of the stage the bootstrap is in, and in the handler nothing catches it.
Interrupted ==
    /\ Running /\ pending
    /\ pending' = FALSE
    /\ \/ /\ pc \in InnerTry
          /\ InnerRaises /\ UNCHANGED code
       \/ /\ pc \in RunTry
          /\ Goto("failing") /\ UNCHANGED code
          /\ draft' = Failure(IF pc \in Stages THEN pc ELSE "outer-launcher")
       \/ /\ pc \in {"failing", "fail record", "fail create", "fail writing"}
          /\ Exit("1") /\ UNCHANGED draft
    /\ UNCHANGED <<attempt, verdict, raw, inner, armed, ran, record, monitor, bound>>

\* The machine or the process dies.
Die ==
    /\ Running
    /\ Exit("dead")
    /\ UNCHANGED <<attempt, verdict, raw, inner, armed, ran, draft, record, monitor, bound,
                   pending>>

MainStep ==
    \/ ParseDelivery \/ CreateOuterAttempt \/ WriteOuterAttempt \/ OpenOuterRaw
    \/ CheckIdentity \/ ReadPlan \/ CompileLauncher \/ CheckOuterAttempt
    \/ CheckPlan \/ MakeInner \/ PrepareInner \/ Arm \/ Release \/ AnswerInner
    \/ AdapterCatches \/ TakeAnswer
    \/ RecordRaw \/ SealingFails \/ SampleBound \/ Summarise \/ CreateOuterVerdict
    \/ WriteOuterVerdict \/ ReturnOuter \/ BeginFailure \/ WriteFailure \/ Interrupted

MonitorStep == Fire \/ HardExit

Next == MainStep \/ MonitorStep \/ Output \/ Die

\* The monitor has a deadline of its own; nothing is assumed of the main thread,
\* which runs other people's code.
MonitorSpec == Init /\ [][Next]_outerVars /\ WF_outerVars(MonitorStep)
Spec == MonitorSpec /\ WF_outerVars(MainStep)
------------------------------------------------------------------------------
(* audit_outer                                                                *)

Answered(state, status) == [state |-> state, status |-> status]

\* The inner evidence agrees with what the verdict says of it.
InnerAgrees(v) ==
    IF v.rec.inner = "none"
    THEN inner = "none" /\ v.status = "failure"
    ELSE /\ v.rec.inner = inner
         /\ inner = "failure" => v.status = "failure" /\ v.class = "inner_failure"
         /\ inner \in {"unused", "consumed"} => v.status = "failure"

OuterAudit ==
    IF attempt = Absent
    THEN Answered(IF raw = NoRaw THEN "absent" ELSE "incomplete", "unknown")
    ELSE IF /\ WholeOuterAttempt /\ verdict.is = "verdict"
            /\ verdict.status = "success" => verdict.class = "success" /\ verdict.armed = 1
            /\ verdict.status = "failure" => verdict.class # "success"
            /\ raw = verdict.rec.size /\ verdict.rec.size = Kept(verdict.rec.seen)
            /\ InnerAgrees(verdict)
         THEN Answered("complete", verdict.status)
         ELSE Answered("incomplete", "unknown")
------------------------------------------------------------------------------
(* Properties.                                                                *)

\* Shapes of the variables.
TypeOK ==
    /\ pc \in Stages \cup InnerTry \cup RunTry \cup
              {"start", "delivered", "marking", "opening", "failing", "fail record", "fail create",
               "fail writing", "over"}
    /\ attempt \in {Absent, Torn} \cup {Whole(w) : w \in Flaws}
    /\ verdict.is \in {"absent", "torn", "verdict"}
    /\ raw \in 0..(OutCap + 1) \cup {NoRaw}
    /\ inner \in {"none", "unused", "consumed", "success", "failure"}
    /\ armed \in 0..1 /\ ran \in BOOLEAN
    /\ draft.status \in {"success", "failure"}
    /\ monitor \in {"off", "watching", "fired", "stopped"}
    /\ bound \in {"none", "timeout", "output"} /\ pending \in BOOLEAN
    /\ code \in {"none", "0", "1", "124", "dead"}

\* When the outer audit answers success, the target was armed once, ran and
\* succeeded, and the outer output fits its cap - whenever the monitor fired
\* and wherever the interrupt arrived (run_outer_entry against audit_outer).
OuterSuccessIsTrue ==
    OuterAudit = Answered("complete", "success") =>
        inner = "success" /\ ran /\ armed = 1 /\ raw <= OutCap /\ ~Cut

\* A process that exits 0 leaves evidence that the audit accepts as a success.
ZeroIsAudited == code = "0" => OuterAudit = Answered("complete", "success")

\* A whole verdict that the audit rejects has one of three reasons: the attempt
\* it belongs to is not one that the auditor believes, whatever the verdict says
\* of that; a bound was reached; or the transaction could not be sealed after the
\* inner gate had begun.  Every other verdict is accepted with its status.
RejectedForReason ==
    verdict.is = "verdict" =>
        \/ OuterAudit = Answered("complete", verdict.status)
        \/ ~WholeOuterAttempt
        \/ bound # "none" \/ Cut
        \/ verdict.rec.inner = "none" /\ inner # "none"

\* Exit code, verdict and audit of a transaction agree with what happened in it.
OuterAuditIsTrue == TypeOK /\ OuterSuccessIsTrue /\ ZeroIsAudited /\ RejectedForReason

\* The promise of OneShotSpec for the outer directory: one attempt, at most one
\* release of the target, one final answer.
OuterPromise == INSTANCE OneShotSpec WITH
    answer <- IF verdict.is = "verdict" THEN verdict.status
              ELSE IF attempt = Absent THEN "unused" ELSE "consumed",
    ran    <- ran
OuterPromiseKept == OuterPromise!Spec

\* Once the monitor runs, either the main thread stops it or the process ends,
\* even if the main thread never takes another step: the hard exit does not
\* depend on the interrupt being handled.
BoundEnforced == monitor = "watching" ~> (monitor = "stopped" \/ code # "none")

\* A transaction that was begun ends.
Ends == attempt.is = "attempt" ~> code # "none"
==============================================================================
