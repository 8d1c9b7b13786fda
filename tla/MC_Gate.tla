------------------------------- MODULE MC_Gate -------------------------------
(* The one-shot gate and the outer entry around it, checked side by side: the *)
(* entry sees the gate as OneShotSpec, which PromiseKept shows the gate to    *)
(* implement.  A behaviour is about one of the two, and the variables of the  *)
(* other keep their first values.                                             *)
EXTENDS EvidenceArchive, TLC

CONSTANT OutCap

VARIABLES
    subject,    \* "gate"; "outer"; or "stuck", an outer entry whose main
                \* thread may stop taking steps
    outerPc, attempt, verdict, raw, inner, armed, ran, draft, record, monitor,
    bound, pending, code

outerVars == <<outerPc, attempt, verdict, raw, inner, armed, ran, draft, record,
               monitor, bound, pending, code>>

Outer == INSTANCE OuterEntry WITH pc <- outerPc

ASSUME OuterAssumption == Outer!OutCapAssumption

allVars == <<gateVars, archiveVars, outerVars, subject>>

MCInit == /\ ArchiveInit /\ Outer!Init
          /\ subject \in {"gate", "outer", "stuck"}
          /\ subject # "gate" => file["stray"] = Absent

\* Bound: the callers, which are interchangeable, begin in a fixed order; the
\* second stream gets a byte at most, so that it is never cut; and a directory
\* that is archived is not altered from outside, and has one caller, whose
\* child meets no limit and writes a byte to a stream at most.
Leader == CHOOSE p \in Caller : TRUE
Small == /\ (\E p \in Caller : pc[p] # "start") => pc[Leader] # "start"
         /\ emitted["stderr"] <= 1
         /\ archiver # "idle" =>
                /\ \A p \in Caller \ {Leader} : pc[p] = "start"
                /\ damage = 0 /\ ~late
                /\ exited.faults = {}
                /\ emitted["stdout"] <= 1

InGate(A)  == subject = "gate" /\ A /\ Small' /\ UNCHANGED <<outerVars, subject>>
InOuter(A) == /\ subject # "gate" /\ A
              /\ UNCHANGED <<gateVars, archiveVars, subject>>

MCNext == \/ InGate(ArchiveNext)
          \/ InOuter(Outer!Next)

MCSpec ==
    /\ MCInit /\ [][MCNext]_allVars
    /\ \A p \in Caller : WF_allVars(InGate(CallerStep(p) /\ UNCHANGED archiveVars))
    /\ WF_allVars(InOuter(Outer!MonitorStep))
    /\ WF_allVars(subject = "outer" /\ InOuter(Outer!MainStep))

------------------------------------------------------------------------------
\* What the outer entry answers, by exit code, verdict and audit, is true.
OuterAuditIsTrue == Outer!OuterAuditIsTrue

\* The outer directory is used once, as OneShotSpec says.
OuterPromiseKept == Outer!OuterPromiseKept

\* Every transaction that was begun ends: a prepared attempt settles, the outer
\* entry ends while its main thread goes on, and when it hangs the monitor ends
\* the process all the same.
EveryTransactionEnds ==
    /\ Settles
    /\ subject = "outer" => Outer!Ends
    /\ Outer!BoundEnforced
==============================================================================
