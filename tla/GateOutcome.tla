----------------------------- MODULE GateOutcome -----------------------------
(* The records the one-shot gate exchanges: what an adapter says about one    *)
(* child run, when the gate accepts such a record, and how it classifies it.  *)
(* Error texts and measurements are abstracted to whether they are present;   *)
(* the raw bytes of a stream to their number and to whether somebody altered  *)
(* them, and the digest of a file to its content.                             *)
EXTENDS Naturals, FiniteSets, Sequences

Stream == {"stdout", "stderr"}

\* The error fields of an outcome, then the limits that can be hit, in the
\* order in which the gate looks at them.
ErrorField == {"launch", "pipe", "thread", "infrastructure"}
LimitField == {"process", "memory", "timeout"}
Fault      == ErrorField \cup LimitField

ExitCode == {"ok", "bad", "none"}   \* in success_exit_codes, not in it, no exit

Raw == [size : Nat, altered : BOOLEAN]

Outcomes(cap) ==
    [exit : ExitCode, faults : SUBSET Fault, output : BOOLEAN,
     streams : [Stream -> [captured : Nat, sha : Raw, seen : Nat,
                           truncated : BOOLEAN, fsynced : BOOLEAN]]]

\* _validate_stream_record
ValidStream(r, cap) ==
    /\ r.captured <= cap
    /\ IF r.truncated THEN r.captured = cap /\ r.seen >= r.captured
                      ELSE r.seen = r.captured

\* _validate_adapter_outcome
ValidOutcome(o, cap) ==
    /\ \A s \in Stream : ValidStream(o.streams[s], cap) /\ o.streams[s].fsynced
    /\ o.output = (\E s \in Stream : o.streams[s].truncated)

\* The order in which _classify_outcome looks at the facts.
FaultOrder == <<"launch", "pipe", "thread", "infrastructure",
                "process", "memory", "timeout">>

First(F) == FaultOrder[CHOOSE i \in 1..Len(FaultOrder) :
                          /\ FaultOrder[i] \in F
                          /\ \A j \in 1..(i - 1) : FaultOrder[j] \notin F]

\* _classify_outcome: the first fact in FaultOrder names the outcome, then a
\* cap that was reached, then the exit code.
Classify(o) ==
    IF o.faults # {} THEN First(o.faults)
    ELSE IF o.output THEN "output"
    ELSE IF o.exit # "ok" THEN "child_nonzero" ELSE "success"
==============================================================================
