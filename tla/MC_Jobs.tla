------------------------------- MODULE MC_Jobs -------------------------------
(* The adapters that run one command and have to see it, and all it started,  *)
(* to its end: the plain and the guarded POSIX adapter and the Windows one of *)
(* the one-shot gate, and the measured invocation of the bench harness, which *)
(* shares the job object of the kernel with the Windows one.  A behaviour is  *)
(* about one of them; the variables of the others keep their first values.    *)
EXTENDS WindowsJob, TLC

CONSTANTS MaxWall, InterruptAt

VARIABLES
    subject,    \* "plain", "guarded", "windows" or "bench"
    orderly,    \* the kernel kills what is to be killed, guard and watchdog are
                \* scheduled, and nobody kills the watchdog
    posixPc, root, exit, kid, posixKilled, dog, dogCode, pipe, pgid, posixCalled,
    posixReader, posixSink, posixRep, posixInterrupts,
    benchPc, retained, measured, listed, sample, errors, timedOut, wall, covered,
    left, result

posixVars == <<posixPc, root, exit, kid, posixKilled, dog, dogCode, pipe, pgid,
               posixCalled, posixReader, posixSink, posixRep, posixInterrupts>>
benchVars == <<benchPc, retained, measured, listed, sample, errors, timedOut, wall,
               covered, left, result>>
choice    == <<subject, orderly>>
allVars   == <<vars, posixVars, benchVars, choice>>

\* Posix(FALSE, FALSE) is the plain adapter, Posix(TRUE, TRUE) the guarded one, and
\* Posix(TRUE, FALSE) the guarded one with a watchdog that nobody kills.
Posix(guarded, dogMayDie) == INSTANCE PosixJob WITH
    Guarded <- guarded, DogMayDie <- dogMayDie, pc <- posixPc,
    killed <- posixKilled, called <- posixCalled, reader <- posixReader,
    sink <- posixSink, rep <- posixRep, interrupts <- posixInterrupts
Bench == INSTANCE BenchJob WITH pc <- benchPc, ActiveLimit <- Cardinality(Proc)

ASSUME JobsAssumption ==
    Posix(TRUE, TRUE)!JobAssumption /\ Bench!BenchJobAssumption

MCInit ==
    /\ Init /\ Bench!Init
    /\ \/ subject = "plain" /\ orderly = FALSE /\ Posix(FALSE, FALSE)!Init
       \/ subject \in {"guarded", "windows", "bench"} /\ orderly \in BOOLEAN
          /\ Posix(TRUE, TRUE)!Init

\* Bound: the descendants, which are interchangeable, are started in a fixed
\* order, an orderly kernel sees one of them at most, and they all end with the
\* same exit code, which nobody asks for.
Eldest == CHOOSE d \in Descendant : TRUE
Small == /\ \A d \in Descendant : proc[d] # "ok"
         /\ \A d \in Descendant \ {Eldest} :
                proc[d] # "none" => proc[Eldest] # "none" /\ ~orderly

InPosix(A)   == A /\ UNCHANGED <<vars, benchVars, choice>>
InWindows(A) == /\ subject = "windows" /\ A
                /\ UNCHANGED <<posixVars, benchVars, choice>> /\ Small'
InBench(A)   == /\ subject = "bench" /\ A
                /\ UNCHANGED <<adapter, posixVars, choice>> /\ Small'

MCNext ==
    \/ subject = "plain" /\ InPosix(Posix(FALSE, FALSE)!Next)
    \/ subject = "guarded" /\ ~orderly /\ InPosix(Posix(TRUE, TRUE)!Next)
    \/ subject = "guarded" /\ orderly /\ InPosix(Posix(TRUE, FALSE)!Next)
    \/ InWindows(Next)
    \/ InBench(Bench!Next)

\* The adapters move on, since all their waits have timeouts; what the rest does
\* is fair only where the kernel is orderly.
MCSpec ==
    /\ MCInit /\ [][MCNext]_allVars
    /\ WF_allVars(subject = "plain" /\ InPosix(Posix(FALSE, FALSE)!AdapterStep))
    /\ WF_allVars(subject = "guarded" /\ InPosix(Posix(TRUE, TRUE)!AdapterStep))
    /\ WF_allVars(InWindows(AdapterStep))
    /\ WF_allVars(InBench(Bench!AdapterStep))
    /\ WF_allVars(subject = "guarded" /\ orderly /\ InPosix(Posix(TRUE, FALSE)!GuardStep))
    /\ WF_allVars(subject = "guarded" /\ orderly /\ InPosix(Posix(TRUE, FALSE)!DogStep))
    /\ WF_allVars(subject = "guarded" /\ orderly /\ InPosix(Posix(TRUE, FALSE)!Signal))
    /\ WF_allVars(orderly /\ InWindows(Killed /\ UNCHANGED adapter))
    /\ WF_allVars(orderly /\ InBench(Killed /\ UNCHANGED benchVars))

------------------------------------------------------------------------------
\* The state of the adapter is well formed.
JobsTypeOK ==
    /\ subject \in {"plain", "guarded"} => Posix(TRUE, TRUE)!TypeOK
    /\ subject = "windows" => TypeOK
    /\ subject = "bench" => Bench!TypeOK

\* A run that counts as a success, under any of the four, ended by itself with
\* all it had started, and was watched to its end.
JobSuccessIsClean ==
    /\ JobsTypeOK
    /\ subject = "plain" => Posix(FALSE, FALSE)!SuccessIsClean
    /\ subject = "guarded" => Posix(TRUE, TRUE)!SuccessIsClean
    /\ SuccessIsClean
    /\ Bench!ReturnedIsOver

\* What an adapter returns tells all there is to tell: a group that survives, a
\* limit that was hit, a process that no sample saw.
NothingIsSilent ==
    /\ Posix(TRUE, TRUE)!NoSilentSurvivor
    /\ LimitReported
    /\ Bench!RssCompleteIsTrue

\* The command runs only where it can be collected, and what collects it is let
\* go of only when it is gone: the guarded target starts under its watchdog,
\* which is dismissed over an empty group, the Windows target runs in its job
\* only, and the measurement keeps no handle that would hold the job open.
KeptUnderControl ==
    /\ [][subject = "guarded" => Posix(TRUE, TRUE)!ReleaseWatched]_posixVars
    /\ [][/\ Posix(TRUE, TRUE)!DismissedOnlyWhenGone'
          /\ subject = "windows" => RunsInJob'
          /\ Bench!HandlesReleased']_allVars

\* Every adapter ends, whatever the target and the kernel do; and where the
\* kernel is orderly nothing of the command outlives it, even when it dies.
AllComesToAnEnd ==
    /\ subject \in {"plain", "guarded"} => Posix(TRUE, TRUE)!AdapterEnds
    /\ subject = "windows" => AdapterEnds
    /\ subject = "bench" => Bench!BenchEnds
    /\ subject = "guarded" /\ orderly => Posix(TRUE, FALSE)!OrphanCollected
    /\ orderly => NothingOutlives /\ Bench!NothingOutlives
==============================================================================
