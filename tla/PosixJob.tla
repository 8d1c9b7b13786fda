------------------------------ MODULE PosixJob -------------------------------
(* The POSIX adapters of the one-shot gate (.agents/scripts/one_shot_gate.py):*)
(* _run_non_windows_job runs the target in a process group of its own;        *)
(* _run_non_windows_guarded_job first starts a watchdog process, holds the    *)
(* target behind a guard until the watchdog is armed, and leaves the group to *)
(* the watchdog when the adapter's process dies.  The two streams are one     *)
(* here, a descendant stands for all descendants of the target.               *)
EXTENDS GateOutcome

CONSTANTS
    Guarded,        \* the guarded adapter, or the plain one
    DogMayDie,      \* the watchdog can be killed from outside
    MaxInterrupts   \* bound: interrupts of the adapter's thread

JobAssumption == /\ Guarded \in BOOLEAN /\ DogMayDie \in BOOLEAN
                 /\ MaxInterrupts \in Nat

VARIABLES
    pc,         \* the adapter
    root,       \* the guard, which becomes the target: "none", "config",
                \* "ready", "target" or "gone"
    exit,       \* how the root ended
    kid,        \* a descendant: "none", in the group "in", out of it "out", or
                \* out of it and without the output pipes "away"
    killed,     \* SIGKILL was sent to the group
    dog,        \* the watchdog: "none", "config", "armed", "killing" or "gone"
    dogCode,    \* how it ended
    pipe,       \* what the reader of each control pipe finds in it
    pgid,       \* the adapter knows the group
    called,     \* the cleanup-armed callback was made
    reader,     \* the reader thread: "none", "reading" or "done"
    sink,       \* [over, error]: more than the cap was seen, or a read failed
    rep,        \* what the adapter will report
    interrupts  \* interrupts so far

vars == <<pc, root, exit, kid, killed, dog, dogCode, pipe, pgid, called, reader,
          sink, rep, interrupts>>
world == <<root, exit, kid, killed, dog, dogCode, reader, sink>>

Control == {"guard config", "release", "dog config", "live"}

Init ==
    /\ pc = IF Guarded THEN "spawn dog" ELSE "spawn"
    /\ root = "none" /\ exit = "none" /\ kid = "none" /\ killed = FALSE
    /\ dog = "none" /\ dogCode = "none"
    /\ pipe = [c \in Control |-> "open"]
    /\ pgid = FALSE /\ called = FALSE
    /\ reader = "none" /\ sink = [over |-> FALSE, error |-> FALSE]
    /\ rep = [faults |-> {}, reason |-> FALSE, quiesced |-> FALSE, escapes |-> FALSE]
    /\ interrupts = 0

RootAlive   == root \notin {"none", "gone"}
GroupAlive  == RootAlive \/ kid = "in"
Stopped     == sink.over \/ sink.error      \* the stop event

Goto(l)     == pc' = l
Report(F)   == rep' = [rep EXCEPT !.faults = @ \cup F]

\* kill_group: nothing without a group; the first reason is kept.
Kill(F) ==
    /\ killed' = (killed \/ pgid)
    /\ rep' = [rep EXCEPT !.faults = @ \cup F, !.reason = @ \/ pgid]

\* What is written is found first, then that the writer is gone.
Closed == [c \in Control |-> IF pipe[c] = "open" THEN "eof" ELSE pipe[c]]
------------------------------------------------------------------------------
(* The adapter: start-up.                                                     *)

\* The watchdog is started; without a process there is a launch error.
SpawnDog ==
    /\ pc = "spawn dog"
    /\ \/ dog' = "config" /\ Goto("spawn") /\ UNCHANGED rep
       \/ Report({"launch"}) /\ Goto("finally") /\ UNCHANGED dog
    /\ UNCHANGED <<root, exit, kid, killed, dogCode, pipe, pgid, called, reader, sink,
                   interrupts>>

\* The guard, or the target itself, is started in a new session.
SpawnRoot ==
    /\ pc = "spawn"
    /\ \/ root' = (IF Guarded THEN "config" ELSE "target") /\ Goto("identify")
          /\ UNCHANGED rep
       \/ Report({"launch"}) /\ Goto("finally") /\ UNCHANGED root
    /\ UNCHANGED <<exit, kid, killed, dog, dogCode, pipe, pgid, called, reader, sink,
                   interrupts>>

\* The group is learnt, and the reader threads start.
Identify ==
    /\ pc = "identify"
    /\ pgid' = TRUE /\ reader' = "reading"
    /\ Goto(IF Guarded THEN "configure" ELSE "poll")
    /\ UNCHANGED <<root, exit, kid, killed, dog, dogCode, pipe, called, sink, rep,
                   interrupts>>

\* An exception of the start-up or of the waiting: the group is killed.
Raise == Kill({"infrastructure"}) /\ Goto("except wait")

\* The guard's configuration is written and the pipe closed.
Configure ==
    /\ pc = "configure"
    /\ pipe' = [pipe EXCEPT !["guard config"] = "sent"]
    /\ Goto("await ready")
    /\ UNCHANGED <<world, pgid, called, rep, interrupts>>

\* The guard says that it is ready and is still there; or it is gone, or the
\* deadline passes.
AwaitReady ==
    /\ pc = "await ready"
    /\ \/ root = "ready" /\ Goto("arm") /\ UNCHANGED <<killed, rep>>
       \/ Raise
    /\ UNCHANGED <<root, exit, kid, dog, dogCode, pipe, pgid, called, reader, sink,
                   interrupts>>

\* The watchdog is told the group.
Arm ==
    /\ pc = "arm"
    /\ pipe' = [pipe EXCEPT !["dog config"] = "sent"]
    /\ Goto("await ack")
    /\ UNCHANGED <<world, pgid, called, rep, interrupts>>

\* The watchdog acknowledges and is still there.
AwaitAck ==
    /\ pc = "await ack"
    /\ \/ dog = "armed" /\ Goto("callback") /\ UNCHANGED <<killed, rep>>
       \/ Raise
    /\ UNCHANGED <<root, exit, kid, dog, dogCode, pipe, pgid, called, reader, sink,
                   interrupts>>

\* The caller hears that clean-up is armed, and may object.
Callback ==
    /\ pc = "callback"
    /\ \/ called' = TRUE /\ Goto("release") /\ UNCHANGED <<killed, rep>>
       \/ Raise /\ UNCHANGED called
    /\ UNCHANGED <<root, exit, kid, dog, dogCode, pipe, pgid, reader, sink, interrupts>>

\* Only now the guard is released; a guard that is gone breaks the pipe.
Release ==
    /\ pc = "release"
    /\ IF RootAlive
       THEN /\ pipe' = [pipe EXCEPT !["release"] = "sent"] /\ Goto("poll")
            /\ UNCHANGED <<killed, rep>>
       ELSE Raise /\ UNCHANGED pipe
    /\ UNCHANGED <<root, exit, kid, dog, dogCode, pgid, called, reader, sink, interrupts>>
------------------------------------------------------------------------------
(* The adapter: while the target runs.                                        *)

\* One round of the loop that ends it: the root is gone, or the watchdog is, or
\* a stream stopped, or the deadline has passed.
Poll ==
    /\ pc = "poll"
    /\ \/ ~RootAlive /\ UNCHANGED <<killed, rep>>
       \/ RootAlive /\ Guarded /\ dog = "gone" /\ Kill({"infrastructure"})
       \/ RootAlive /\ Stopped /\ Kill({})
       \/ RootAlive /\ Kill({"timeout"})
    /\ Goto("wait")
    /\ UNCHANGED <<root, exit, kid, dog, dogCode, pipe, pgid, called, reader, sink,
                   interrupts>>

\* The root is waited for, five seconds.
WaitRoot ==
    /\ pc = "wait"
    /\ \/ ~RootAlive /\ Goto("survivors") /\ UNCHANGED <<killed, rep>>
       \/ RootAlive /\ Raise
    /\ UNCHANGED <<root, exit, kid, dog, dogCode, pipe, pgid, called, reader, sink,
                   interrupts>>

\* Descendants that outlive a root which ended by itself are an error.
Survivors ==
    /\ pc = "survivors"
    /\ IF GroupAlive
       THEN /\ IF rep.reason THEN UNCHANGED <<killed, rep>>
                             ELSE Kill({"infrastructure"})
            /\ Goto("quiesce")
       ELSE /\ rep' = [rep EXCEPT !.quiesced = TRUE] /\ Goto("finally")
            /\ UNCHANGED killed
    /\ UNCHANGED <<root, exit, kid, dog, dogCode, pipe, pgid, called, reader, sink,
                   interrupts>>

\* wait_group_quiescence, after the survivors, in the exception handler and in
\* the clean-up: the group disappears within five seconds or is reported.
Quiesce ==
    /\ pc \in {"quiesce", "except quiesce", "final quiesce"}
    /\ \/ /\ ~pgid \/ ~GroupAlive
          /\ rep' = [rep EXCEPT !.quiesced = TRUE]
       \/ /\ pgid /\ GroupAlive
          /\ rep' = [rep EXCEPT !.quiesced = FALSE, !.faults = @ \cup {"infrastructure"}]
    /\ Goto(IF pc = "final quiesce" THEN "disarm" ELSE "finally")
    /\ UNCHANGED <<world, pipe, pgid, called, interrupts>>

\* The exception handler waits for the root too.
ExceptWait ==
    /\ pc = "except wait"
    /\ \/ ~RootAlive /\ UNCHANGED rep
       \/ RootAlive /\ Report({"infrastructure"})
    /\ Goto("except quiesce")
    /\ UNCHANGED <<world, pipe, pgid, called, interrupts>>
------------------------------------------------------------------------------
(* The adapter: clean-up, on every path.                                      *)

\* Whatever is left of the group is killed; the plain adapter reports it when
\* nobody had a reason to kill before.
FinalKill ==
    /\ pc = "finally"
    /\ IF pgid /\ GroupAlive
       THEN /\ Kill(IF ~Guarded /\ ~rep.reason THEN {"infrastructure"} ELSE {})
            /\ Goto("final wait")
       ELSE UNCHANGED <<killed, rep>> /\ Goto("disarm")
    /\ UNCHANGED <<root, exit, kid, dog, dogCode, pipe, pgid, called, reader, sink,
                   interrupts>>

FinalWait ==
    /\ pc = "final wait"
    /\ \/ ~RootAlive /\ UNCHANGED rep
       \/ RootAlive /\ Report({"infrastructure"})
    /\ Goto("final quiesce")
    /\ UNCHANGED <<world, pipe, pgid, called, interrupts>>

\* Mutant: the watchdog is dismissed whatever became of the group.
Disarm_Always ==
    /\ pc = "disarm"
    /\ IF Guarded
       THEN pipe' = [Closed EXCEPT !["live"] = "done"] /\ Goto("await dog")
       ELSE UNCHANGED pipe /\ Goto("join")
    /\ UNCHANGED <<world, pgid, called, rep, interrupts>>
\* The watchdog is dismissed when the group is known to be gone, otherwise it
\* finds the end of its pipe; a watchdog that is gone breaks the pipe.
Disarm ==
    /\ pc = "disarm"
    /\ IF Guarded
       THEN LET dismiss == dog # "none" /\ (~pgid \/ rep.quiesced) IN
            /\ pipe' = [Closed EXCEPT !["live"] = IF dismiss THEN "done" ELSE "eof"]
            /\ IF dismiss /\ dog = "gone" THEN Report({"infrastructure"}) ELSE UNCHANGED rep
            /\ Goto("await dog")
       ELSE UNCHANGED <<pipe, rep>> /\ Goto("join")
    /\ UNCHANGED <<world, pgid, called, interrupts>>

\* The watchdog ends with 0, or is reported; one that does not end is killed.
AwaitDog ==
    /\ pc = "await dog"
    /\ \/ dog = "none" /\ UNCHANGED <<dog, dogCode, rep>>
       \/ /\ dog = "gone" /\ UNCHANGED <<dog, dogCode>>
          /\ IF dogCode = "0" THEN UNCHANGED rep ELSE Report({"infrastructure"})
       \/ /\ dog \notin {"none", "gone"}
          /\ dog' = "gone" /\ dogCode' = "killed" /\ Report({"infrastructure"})
    /\ Goto("join")
    /\ UNCHANGED <<root, exit, kid, killed, pipe, pgid, called, reader, sink, interrupts>>

\* What the adapter leaves behind: its result, or the exception that was held
\* back by the clean-up.
Leave == Goto(IF rep.escapes THEN "raised" ELSE "returned")

\* Mutant: a reader that does not end is forgotten.
Join_Forgets ==
    /\ pc = "join"
    /\ Report(IF sink.error THEN {"thread", "pipe"} ELSE {})
    /\ Leave
    /\ UNCHANGED <<world, pipe, pgid, called, interrupts>>
\* The readers are joined, five seconds; the pipes are closed and the sinks
\* sealed; what remains alive or failed is reported.
Join ==
    /\ pc = "join"
    /\ Report((IF sink.error \/ reader = "reading" THEN {"thread"} ELSE {})
              \cup (IF sink.error THEN {"pipe"} ELSE {}))
    /\ Leave
    /\ UNCHANGED <<world, pipe, pgid, called, interrupts>>

AdapterStep ==
    \/ SpawnDog \/ SpawnRoot \/ Identify \/ Configure \/ AwaitReady \/ Arm \/ AwaitAck
    \/ Callback \/ Release \/ Poll \/ WaitRoot \/ Survivors \/ Quiesce \/ ExceptWait
    \/ FinalKill \/ FinalWait \/ Disarm \/ AwaitDog \/ Join

\* An interrupt is an exception of wherever the adapter is: before there is a
\* process a launch error (even when the process exists by then), in the body an
\* error that is handled, in a wait of the handler or the clean-up one more
\* reported error; elsewhere in the handler it is held back until the clean-up
\* is over, and elsewhere in the clean-up it skips what is left of it.
Interrupt ==
    /\ interrupts < MaxInterrupts
    /\ interrupts' = interrupts + 1
    /\ \/ /\ pc \in {"spawn dog", "spawn", "identify"}
          /\ Report({"launch"}) /\ Goto("finally") /\ UNCHANGED killed
       \/ /\ pc \in {"identify", "configure", "await ready", "arm", "await ack",
                     "callback", "release", "poll", "wait", "survivors", "quiesce"}
          /\ Raise
       \/ /\ pc \in {"except wait", "final wait"}
          /\ Report({"infrastructure"}) /\ UNCHANGED killed
          /\ Goto(IF pc = "except wait" THEN "except quiesce" ELSE "final quiesce")
       \/ /\ pc = "except quiesce"
          /\ rep' = [rep EXCEPT !.escapes = TRUE] /\ Goto("finally") /\ UNCHANGED killed
       \/ /\ pc \in {"finally", "final quiesce", "disarm", "join"}
          /\ Goto("raised") /\ UNCHANGED <<killed, rep>>
    /\ UNCHANGED <<root, exit, kid, dog, dogCode, pipe, pgid, called, reader, sink>>

\* The process of the adapter ends: killed at any moment, or later by itself.
\* Every pipe it held is closed.
ProcessEnds ==
    /\ pc # "dead"
    /\ Goto("dead")
    /\ pipe' = Closed
    /\ reader' = IF reader = "reading" THEN "done" ELSE reader
    /\ UNCHANGED <<root, exit, kid, killed, dog, dogCode, pgid, called, sink, rep,
                   interrupts>>
------------------------------------------------------------------------------
(* The guard and the target.                                                  *)

\* The root ends and is reaped.
Gone(e) == root' = "gone" /\ exit' = e

\* The guard reads its configuration up to the end of the pipe, says that it is
\* ready, and waits for one byte; an incomplete configuration ends it.
GuardReads ==
    /\ root = "config"
    /\ \/ pipe["guard config"] = "sent" /\ root' = "ready" /\ UNCHANGED exit
       \/ pipe["guard config"] = "eof" /\ Gone("bad")
    /\ UNCHANGED <<pc, kid, killed, dog, dogCode, pipe, pgid, called, reader, sink, rep,
                   interrupts>>

\* Released it becomes the target, at the end of the pipe it leaves.
GuardDecides ==
    /\ root = "ready"
    /\ \/ pipe["release"] = "sent" /\ root' = "target" /\ UNCHANGED exit
       \/ pipe["release"] = "eof" /\ Gone("bad")
    /\ UNCHANGED <<pc, kid, killed, dog, dogCode, pipe, pgid, called, reader, sink, rep,
                   interrupts>>

GuardStep == GuardReads \/ GuardDecides

\* The target forks, exits, or the guard dies of something else; the descendant
\* leaves the session, lets go of the pipes, or ends.
TargetStep ==
    /\ ~killed
    /\ \/ root = "target" /\ kid = "none" /\ kid' = "in" /\ UNCHANGED <<root, exit>>
       \/ root = "target" /\ Gone("ok") /\ UNCHANGED kid
       \/ RootAlive /\ Gone("bad") /\ UNCHANGED kid
       \/ kid = "in" /\ kid' \in {"out", "none"} /\ UNCHANGED <<root, exit>>
    /\ UNCHANGED <<pc, killed, dog, dogCode, pipe, pgid, called, reader, sink, rep,
                   interrupts>>

\* What has left the group lives on and ends when it likes.
AwayStep ==
    /\ kid = "out"
    /\ kid' = "away"
    /\ UNCHANGED <<pc, root, exit, killed, dog, dogCode, pipe, pgid, called, reader, sink,
                   rep, interrupts>>

\* SIGKILL reaches every member of the group, some time after it was sent.
Signal ==
    /\ killed /\ GroupAlive
    /\ \/ RootAlive /\ Gone("bad") /\ UNCHANGED kid
       \/ kid = "in" /\ kid' = "none" /\ UNCHANGED <<root, exit>>
    /\ UNCHANGED <<pc, killed, dog, dogCode, pipe, pgid, called, reader, sink, rep,
                   interrupts>>

\* The reader meets the end of the output when nobody can write any more, or the
\* cap, or an error.
ReaderStep ==
    /\ reader = "reading"
    /\ reader' = "done"
    /\ \/ ~RootAlive /\ kid \notin {"in", "out"} /\ UNCHANGED sink
       \/ (root = "target" \/ kid \in {"in", "out"}) /\ sink' = [sink EXCEPT !.over = TRUE]
       \/ sink' = [sink EXCEPT !.error = TRUE]
    /\ UNCHANGED <<pc, root, exit, kid, killed, dog, dogCode, pipe, pgid, called, rep,
                   interrupts>>
------------------------------------------------------------------------------
(* The watchdog.                                                              *)

DogEnds(c) == dog' = "gone" /\ dogCode' = c

\* It learns the group, which must exist, and acknowledges; without a
\* configuration it gives up.
DogReads ==
    /\ dog = "config"
    /\ \/ /\ pipe["dog config"] = "sent"
          /\ IF GroupAlive THEN dog' = "armed" /\ UNCHANGED dogCode ELSE DogEnds("1")
       \/ pipe["dog config"] = "eof" /\ DogEnds("120")
    /\ UNCHANGED <<pc, root, exit, kid, killed, pipe, pgid, called, reader, sink, rep,
                   interrupts>>

\* Mutant: the end of the pipe is taken for the dismissal.
DogDecides_AnyByte ==
    /\ dog = "armed" /\ pipe["live"] # "open" /\ DogEnds("0")
    /\ UNCHANGED <<pc, root, exit, kid, killed, pipe, pgid, called, reader, sink, rep,
                   interrupts>>
\* Dismissed it leaves; at the end of the pipe it kills the group.
DogDecides ==
    /\ dog = "armed"
    /\ \/ pipe["live"] = "done" /\ DogEnds("0") /\ UNCHANGED killed
       \/ /\ pipe["live"] = "eof"
          /\ killed' = TRUE /\ dog' = "killing" /\ UNCHANGED dogCode
    /\ UNCHANGED <<pc, root, exit, kid, pipe, pgid, called, reader, sink, rep, interrupts>>

\* It sees the group disappear, or its five seconds pass.
DogWaits ==
    /\ dog = "killing"
    /\ IF GroupAlive THEN DogEnds("121") ELSE DogEnds("0")
    /\ UNCHANGED <<pc, root, exit, kid, killed, pipe, pgid, called, reader, sink, rep,
                   interrupts>>

DogStep == DogReads \/ DogDecides \/ DogWaits

DogDies ==
    /\ DogMayDie /\ dog \in {"config", "armed", "killing"}
    /\ DogEnds("killed")
    /\ UNCHANGED <<pc, root, exit, kid, killed, pipe, pgid, called, reader, sink, rep,
                   interrupts>>
------------------------------------------------------------------------------
Next ==
    \/ AdapterStep \/ Interrupt \/ ProcessEnds
    \/ GuardStep \/ TargetStep \/ AwayStep \/ Signal \/ ReaderStep
    \/ DogStep \/ DogDies

\* Every wait of the adapter has a timeout, so it needs nobody else to move on.
Spec == Init /\ [][Next]_vars /\ WF_vars(AdapterStep)

\* The kernel delivers signals, and schedules the guard and the watchdog.
FairSpec == Spec /\ WF_vars(GuardStep) /\ WF_vars(DogStep) /\ WF_vars(Signal)

TypeOK ==
    /\ pc \in {"spawn dog", "spawn", "identify", "configure", "await ready", "arm",
               "await ack", "callback", "release", "poll", "wait", "survivors",
               "quiesce", "except wait", "except quiesce", "finally", "final wait",
               "final quiesce", "disarm", "await dog", "join", "returned", "raised",
               "dead"}
    /\ root \in {"none", "config", "ready", "target", "gone"}
    /\ exit \in ExitCode /\ (exit # "none" <=> root = "gone")
    /\ kid \in {"none", "in", "out", "away"}
    /\ dog \in {"none", "config", "armed", "killing", "gone"}
    /\ dogCode \in {"none", "0", "1", "120", "121", "killed"}
    /\ pipe \in [Control -> {"open", "sent", "done", "eof"}]
    /\ reader \in {"none", "reading", "done"}
    /\ sink \in [over : BOOLEAN, error : BOOLEAN]
    /\ rep \in [faults : SUBSET Fault, reason : BOOLEAN, quiesced : BOOLEAN,
               escapes : BOOLEAN]
    /\ killed \in BOOLEAN /\ pgid \in BOOLEAN /\ called \in BOOLEAN
    /\ interrupts \in 0..MaxInterrupts

\* What the gate makes of the adapter's result.
Verdict == Classify([exit |-> exit, faults |-> rep.faults, output |-> sink.over])

\* A run that counts as a success ended by itself: nobody signalled its group,
\* nothing of it still runs or holds the output, both readers saw the end, and
\* in the guarded mode the watchdog was in place and left in order.
SuccessIsClean ==
    (pc = "returned" /\ Verdict = "success") =>
        /\ root = "gone" /\ ~killed
        /\ kid \notin {"in", "out"} /\ reader = "done" /\ ~sink.error
        /\ Guarded => called /\ dog = "gone" /\ dogCode = "0"

\* The adapter never returns over a living process group without an error,
\* whatever the reason for which it had killed the group.
NoSilentSurvivor == (pc = "returned" /\ GroupAlive) => rep.faults # {}

\* The watchdog is dismissed only when no released target and no descendant in
\* its group is left, whichever exception led to the clean-up.
DismissedOnlyWhenGone ==
    pipe["live"] = "done" => root # "target" /\ kid # "in"

\* The command starts only after the caller has heard that the clean-up is armed
\* and the watchdog has acknowledged that it knows the group.
ReleaseWatched ==
    (root # "target" /\ root' = "target" /\ Guarded) =>
        called /\ dog \notin {"none", "config"}

\* The adapter ends, although neither the target, nor the signals, nor the
\* watchdog need ever make progress.
AdapterEnds == <>(pc \in {"returned", "raised", "dead"})

\* When the adapter's process dies, at any moment, the watchdog or the guard
\* clears the whole group away.
OrphanCollected == (Guarded /\ ~DogMayDie /\ pc = "dead") ~> ~GroupAlive
==============================================================================
