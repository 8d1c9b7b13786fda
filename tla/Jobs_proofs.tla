----------------------------- MODULE Jobs_proofs -----------------------------
(* The adapters of MC_Jobs, for any number of descendants, interrupts and     *)
(* rounds: a run that counts as a success ended by itself with all it had     *)
(* started, what an adapter returns hides nothing, and the command runs only  *)
(* where it can be collected.                                                 *)
(*                                                                            *)
(* Each adapter has an invariant of its own that says, for every step of the  *)
(* adapter, how far the start-up has come, what is known when nothing was     *)
(* reported, and what the clean-up has established.  The guarded and the      *)
(* plain POSIX adapter share one, which has Guarded as a parameter.           *)
EXTENDS MC_Jobs, TLAPS, FiniteSetTheorems

\* The behaviours of the four adapters, without MC_Jobs's bound.
AnyPosix(A)   == A /\ UNCHANGED <<vars, benchVars, choice>>
AnyWindows(A) == subject = "windows" /\ A /\ UNCHANGED <<posixVars, benchVars, choice>>
AnyBench(A)   == subject = "bench" /\ A /\ UNCHANGED <<adapter, posixVars, choice>>
JobsNext ==
    \/ subject = "plain" /\ AnyPosix(Posix(FALSE, FALSE)!Next)
    \/ subject = "guarded" /\ ~orderly /\ AnyPosix(Posix(TRUE, TRUE)!Next)
    \/ subject = "guarded" /\ orderly /\ AnyPosix(Posix(TRUE, FALSE)!Next)
    \/ AnyWindows(Next)
    \/ AnyBench(Bench!Next)
JobsSpec == MCInit /\ [][JobsNext]_allVars

-----------------------------------------------------------------------------
(* The POSIX adapters.                                                        *)

Starting == {"spawn dog", "spawn", "identify"}
Midway   == {"configure", "await ready", "arm", "await ack", "callback", "release", "poll",
             "wait", "survivors", "quiesce"}
Handling == {"except wait", "except quiesce"}
Leaving  == {"finally", "final wait", "final quiesce", "disarm", "await dog", "join",
             "returned", "raised"}
Dismissing == {"await dog", "join", "returned", "raised", "dead"}
Places   == Starting \cup Midway \cup Handling \cup Leaving \cup {"dead"}

GroupGone == root \in {"none", "gone"} /\ kid # "in"

\* TypeOK, in two parts.
PosixStates ==
    /\ posixPc \in Places
    /\ root \in {"none", "config", "ready", "target", "gone"}
    /\ exit \in {"ok", "bad", "none"} /\ (exit # "none" <=> root = "gone")
    /\ kid \in {"none", "in", "out", "away"}
    /\ dog \in {"none", "config", "armed", "killing", "gone"}
    /\ dogCode \in {"none", "0", "1", "120", "121", "killed"}
    /\ posixReader \in {"none", "reading", "done"}
    /\ posixKilled \in BOOLEAN /\ pgid \in BOOLEAN /\ posixCalled \in BOOLEAN
PosixRecords ==
    /\ pipe \in [{"guard config", "release", "dog config", "live"} ->
                     {"open", "sent", "done", "eof"}]
    /\ posixSink \in [over : BOOLEAN, error : BOOLEAN]
    /\ posixRep \in [faults : SUBSET Fault, reason : BOOLEAN, quiesced : BOOLEAN,
                    escapes : BOOLEAN]
    /\ posixInterrupts \in 0..MaxInterrupts

\* How far the start-up has come: the release was sent only behind an armed
\* watchdog, and without it a guarded root is no target and has no children.
StartUp(g) ==
    /\ posixPc \in {"spawn dog", "spawn"} => root = "none" /\ kid = "none"
    /\ posixPc \in Starting => ~pgid /\ ~posixRep.quiesced
    /\ posixPc \in Midway => pgid
    /\ pgid \/ posixPc = "identify" \/ posixReader # "none" => root # "none"
    /\ pgid => posixReader # "none"
    /\ posixPc \in {"callback", "release"} => dog \notin {"none", "config"}
    /\ posixPc = "release" => posixCalled
    /\ pipe["release"] = "sent" => pgid /\ posixCalled /\ dog \notin {"none", "config"}
    /\ g /\ (root = "target" \/ kid # "none") => pipe["release"] = "sent"

\* The watchdog was dismissed when the group was gone, or had never been released.
Dismissal(g) ==
    /\ pipe["live"] = "done" => /\ g /\ posixPc \in Dismissing
                                /\ GroupGone \/ pipe["release"] # "sent"
    /\ posixRep.quiesced /\ pgid => GroupGone

\* What it means that nothing was reported so far.
Faultless(g) ==
    posixRep.faults = {} /\ posixPc # "dead" =>
        /\ posixPc \notin Starting => pgid
        /\ posixPc \notin Handling
        /\ posixPc \in Leaving => GroupGone /\ posixRep.quiesced
        /\ g /\ posixPc # "spawn dog" => dog # "none"
        /\ pipe["live"] # "eof"
        /\ posixKilled => posixSink.over \/ posixSink.error
        /\ g /\ posixPc \in {"release", "poll", "wait", "survivors", "quiesce"} \cup Leaving =>
               posixCalled
        /\ posixPc = "returned" => posixReader # "reading" /\ ~posixSink.error
        /\ g /\ posixPc \in {"join", "returned"} => dog = "gone" /\ dogCode = "0"

\* The reader stopped at the cap, at an error, or when nobody could write.
ReaderSaw ==
    posixPc # "dead" /\ posixReader = "done" =>
        \/ posixSink.over \/ posixSink.error
        \/ root = "gone" /\ kid \notin {"in", "out"}

PosixInv(g) ==
    /\ PosixStates /\ PosixRecords
    /\ StartUp(g) /\ Dismissal(g) /\ Faultless(g) /\ ReaderSaw

-----------------------------------------------------------------------------
(* The Windows adapter.                                                       *)

InLoop   == {"drain", "sample", "check"}
AtEnd    == {"finally", "join", "query", "exit code", "returned"}
Excepting == {"job", "create", "assign", "readers", "callback", "resume"} \cup InLoop
WindowsPlaces == {"sinks", "raised", "dead"} \cup Excepting \cup AtEnd

NoneLive      == \A p \in Proc : proc[p] \notin {"suspended", "running"}
OnlyRootWaits == \A p \in Proc : proc[p] = "suspended" => p = Root

\* TypeOK.
WindowsShapes ==
    /\ KernelOK
    /\ pc \in WindowsPlaces
    /\ assigned = (Root \in inJob) /\ called \in BOOLEAN /\ finished \in BOOLEAN
    /\ killed \in BOOLEAN /\ (killed => stop) /\ stop \in BOOLEAN /\ seen \subseteq posted
    /\ reader \in {"none", "reading", "done"}
    /\ sink \in [over : BOOLEAN, error : BOOLEAN, sealed : BOOLEAN]
    /\ rep \in [exit : {"ok", "bad", "none"}, faults : SUBSET Fault]
    /\ rounds \in 0..MaxRounds /\ interrupts \in 0..MaxInterrupts

\* The processes and the job: only the root is ever suspended, what runs is in
\* the job and was announced, and a finished job stays empty.
WindowsTree ==
    /\ OnlyRootWaits /\ RunsInJob
    /\ inJob # {} => assigned
    /\ posted # {} => assigned
    /\ "job" \notin held /\ pc \notin {"returned", "dead"} => inJob = {}
    /\ pc \in {"create", "assign", "readers", "callback", "resume"} \cup InLoop => "job" \in held
    /\ pc \in {"readers", "callback", "resume"} \cup InLoop => assigned
    /\ pc \in {"resume"} \cup InLoop => called
    /\ pc \in {"callback", "resume"} \cup InLoop => reader # "none"
    /\ finished => /\ pc \in AtEnd \cup {"raised", "dead"}
                   /\ assigned /\ reader # "none" /\ NoneLive

\* What it means that nothing was reported so far.
WindowsFaultless ==
    /\ stop /\ rep.faults = {} => sink.over \/ sink.error
    /\ rep.faults = {} /\ pc \in AtEnd => finished
    /\ rep.faults = {} /\ pc \in {"query", "exit code", "returned"} =>
           reader # "reading" /\ ~sink.error
    /\ rep.faults = {} /\ pc \in {"exit code", "returned"} => posted = {}

\* Behind the clean-up no limit is posted any more, and what was is reported.
WindowsLimits ==
    /\ pc \in AtEnd \ {"finally"} => doomed \/ ~assigned \/ finished
    /\ pc \in {"exit code", "returned"} => posted \subseteq rep.faults
                                            \/ "infrastructure" \in rep.faults
    /\ rep.exit # "none" => pc \in {"returned", "dead"}
    /\ rep.exit = "ok" => proc[Root] = "ok"

WindowsInv == WindowsShapes /\ WindowsTree /\ WindowsFaultless /\ WindowsLimits

-----------------------------------------------------------------------------
(* The measured command of the bench.                                         *)

Looping == {"list", "open", "check"}
Asking  == Looping \cup {"query"}
BenchPlaces == {"job", "create", "assign", "resume", "returned", "raised", "dead"} \cup Asking

AllInJob == \A p \in Proc : proc[p] = "running" => p \in inJob

\* TypeOK, up to the clock.
MeasureShapes ==
    /\ KernelOK
    /\ benchPc \in BenchPlaces
    /\ retained \subseteq Proc /\ measured \subseteq inJob /\ listed \subseteq inJob
    /\ sample \in {"empty", "whole", "missed"} /\ errors \in BOOLEAN /\ timedOut \in BOOLEAN
    /\ result \in [rssComplete : BOOLEAN, exit : {"ok", "bad", "none"},
                  active : 0..Cardinality(Proc)]

\* The polls: as many as the two deadlines allow.
MeasureClock ==
    /\ wall \in Nat /\ covered \in Nat /\ left \in 0..MaxWall
    /\ wall <= 2 * MaxWall + 4 /\ covered <= wall + 1
    /\ benchPc \in {"list", "open", "query"} => covered <= wall
    /\ benchPc \in {"job", "create", "assign", "resume"} =>
           wall = 0 /\ covered = 0 /\ left = MaxWall /\ ~timedOut
    /\ benchPc \in Looping => IF timedOut THEN wall + left <= 2 * MaxWall + 2
                                         ELSE wall + left = MaxWall

\* The processes: what runs is in the job, and once the root was resumed nothing
\* is suspended.
MeasureTree ==
    /\ OnlyRootWaits /\ AllInJob
    /\ benchPc \in {"job", "create"} => retained = {}
    /\ benchPc = "job" => held = {}
    /\ benchPc \in {"assign", "resume"} => retained = {Root}
    /\ benchPc \in {"resume"} \cup Asking => Root \in inJob /\ retained \subseteq inJob
    /\ benchPc \in Asking \cup {"returned"} => proc[Root] \notin {"none", "suspended"}
    /\ InterruptAt \subseteq Looping /\ benchPc \in {"returned", "raised"} =>
           held = {} /\ retained = {}

\* The samples: whom a handle is kept of was measured, or the sample has missed
\* somebody, which is an error; and what is returned without one is over.
MeasureSeen ==
    /\ benchPc \in Asking =>
           \/ retained \ {Root} \subseteq measured
           \/ errors
           \/ benchPc = "open" /\ sample = "missed"
    /\ benchPc \in {"query", "returned"} /\ ~errors => NoneLive
    /\ benchPc = "returned" /\ ~errors => result.active = 0 /\ result.exit = proc[Root]
    /\ benchPc = "returned" /\ result.rssComplete =>
           ~errors /\ inJob \ {Root} \subseteq measured /\ 20 * covered >= 19 * wall

MeasureInv == MeasureShapes /\ MeasureClock /\ MeasureTree /\ MeasureSeen

-----------------------------------------------------------------------------
\* A behaviour is about one adapter, the others do not begin.
JobsInv ==
    /\ subject \in {"plain", "guarded", "windows", "bench"}
    /\ subject = "plain" => PosixInv(FALSE)
    /\ subject # "plain" => PosixInv(TRUE)
    /\ subject # "bench" => WindowsInv
    /\ subject = "bench" => pc = "sinks"
    /\ subject # "windows" => MeasureInv
    /\ subject = "windows" => benchPc = "job"

\* The faults the adapters report.
LEMMA FaultNames ==
  {"launch", "pipe", "thread", "infrastructure", "process", "memory", "timeout"} = Fault
BY DEF Fault, ErrorField, LimitField

\* What the adapter does to its own place and to its report.
LEMMA StatesStay ==
  ASSUME PosixStates, posixPc' \in Places \/ posixPc' = posixPc,
         posixKilled' = posixKilled \/ posixKilled' \in BOOLEAN,
         UNCHANGED <<root, exit, kid, dog, dogCode, pgid, posixCalled, posixReader>>
  PROVE  PosixStates'
BY DEF PosixStates

\* All but the adapter's place, its report, its kill and its interrupts.
Surroundings == <<root, exit, kid, dog, dogCode, pipe, pgid, posixCalled, posixReader,
                  posixSink>>

\* A fault is reported, and the adapter moves on behind its start-up: nothing but
\* its place and its report is different, or that the group was killed.
LEMMA ReportKept ==
  ASSUME NEW g \in BOOLEAN, PosixInv(g), UNCHANGED Surroundings,
         posixRep' \in [faults : SUBSET Fault, reason : BOOLEAN, quiesced : BOOLEAN,
                        escapes : BOOLEAN],
         posixRep'.faults # {}, posixRep'.quiesced => posixRep.quiesced,
         posixKilled' = posixKilled \/ posixKilled' \in BOOLEAN,
         posixInterrupts' = posixInterrupts \/ posixInterrupts' \in 0..MaxInterrupts,
         posixPc' \in Handling \cup Leaving \cup {"wait", "quiesce"},
         posixPc # "dead", posixPc' \in {"wait", "quiesce"} => posixPc \in Midway,
         posixPc \in Dismissing => posixPc' \in Dismissing
  PROVE  PosixInv(g)'
<1>1. UNCHANGED <<root, exit, kid, dog, dogCode, pipe, pgid, posixCalled, posixReader,
                  posixSink>>
  BY DEF Surroundings
<1>2. posixPc' \in Places  BY DEF Places, Midway, Handling, Leaving
<1>3. PosixStates'  BY <1>1, <1>2, StatesStay DEF PosixInv
<1>4. PosixRecords'  BY <1>1 DEF PosixInv, PosixRecords
<1>5. StartUp(g)'  BY <1>1 DEF PosixInv, StartUp, Starting, Midway, Handling, Leaving
<1>6. Dismissal(g)'  BY <1>1 DEF PosixInv, Dismissal, GroupGone
<1>7. ReaderSaw'
  BY <1>1 DEF PosixInv, PosixStates, Places, ReaderSaw, Starting, Midway, Handling, Leaving
<1>8. Faultless(g)'  BY DEF Faultless
<1>9. QED  BY <1>3, <1>4, <1>5, <1>6, <1>7, <1>8 DEF PosixInv

\* Where the body of the adapter may raise.
Raising == Midway \cup {"identify"}

\* An exception of the body is reported, and the group is killed.
LEMMA RaiseKept ==
  ASSUME NEW g \in BOOLEAN, NEW d \in BOOLEAN, PosixInv(g), Posix(g, d)!Raise,
         posixPc \in Raising, UNCHANGED Surroundings,
         posixInterrupts' = posixInterrupts \/ posixInterrupts' \in 0..MaxInterrupts
  PROVE  PosixInv(g)'
<1>1. /\ posixPc' = "except wait"
      /\ posixKilled' = (posixKilled \/ pgid)
      /\ posixRep' = [posixRep EXCEPT !.faults = @ \cup {"infrastructure"},
                                      !.reason = (@ \/ pgid)]
  BY DEF Posix!Raise, Posix!Kill, Posix!Goto
<1>2. /\ posixRep' \in [faults : SUBSET Fault, reason : BOOLEAN, quiesced : BOOLEAN,
                        escapes : BOOLEAN]
      /\ posixRep'.faults # {}
      /\ posixRep'.quiesced => posixRep.quiesced
  BY <1>1, FaultNames DEF PosixInv, PosixRecords
<1>3. posixPc # "dead" /\ posixPc \notin Dismissing  BY DEF Raising, Midway, Dismissing
<1>4. posixKilled' \in BOOLEAN /\ posixPc' \in Handling  BY <1>1 DEF Handling
<1>5. QED  BY <1>1, <1>2, <1>3, <1>4, ReportKept

USE DEF Starting, Midway, Handling, Leaving, Dismissing, GroupGone

\* The watchdog is started, or not.
LEMMA SpawnDogKept ==
  ASSUME NEW g \in BOOLEAN, NEW d \in BOOLEAN, PosixInv(g), Posix(g, d)!SpawnDog
  PROVE  PosixInv(g)'
<1>1. ASSUME /\ posixPc = "spawn dog"
             /\ posixPc' = "spawn"
             /\ dog' = "config"
             /\ UNCHANGED <<root, exit, kid, posixKilled, dogCode, pipe, pgid,
                            posixCalled, posixReader, posixSink, posixRep,
                            posixInterrupts>>
      PROVE  PosixInv(g)'
  <2>1. posixPc' \in Places  BY <1>1 DEF PosixInv, PosixStates, Places
  <2>2. PosixStates'
    <3>1. dog' \in {"none", "config", "armed", "killing", "gone"}  BY <1>1
    <3>2. /\ root' \in {"none", "config", "ready", "target", "gone"}
          /\ exit' \in {"ok", "bad", "none"} /\ (exit' # "none" <=> root' = "gone")
          /\ kid' \in {"none", "in", "out", "away"}
      BY <1>1 DEF PosixInv, PosixStates
    <3>3. QED  BY <1>1, <2>1, <3>1, <3>2 DEF PosixInv, PosixStates
  <2>3. PosixRecords'  BY <1>1 DEF PosixInv, PosixRecords
  <2>4. StartUp(g)'  BY <1>1 DEF PosixInv, PosixStates, PosixRecords, StartUp
  <2>5. Dismissal(g)' /\ ReaderSaw'
    BY <1>1 DEF PosixInv, PosixStates, PosixRecords, Places, StartUp, Dismissal, ReaderSaw
  <2>6. Faultless(g)'
    BY <1>1 DEF PosixInv, PosixStates, PosixRecords, Places, StartUp, Dismissal, Faultless
  <2>7. QED  BY <2>2, <2>3, <2>4, <2>5, <2>6 DEF PosixInv
<1>2. ASSUME /\ posixPc = "spawn dog"
             /\ posixPc' = "finally"
             /\ posixRep' = [posixRep EXCEPT !.faults = @ \cup {"launch"}]
             /\ UNCHANGED <<root, exit, kid, posixKilled, dog, dogCode, pipe, pgid,
                            posixCalled, posixReader, posixSink, posixInterrupts>>
      PROVE  PosixInv(g)'
  <2>1. /\ posixRep' \in [faults : SUBSET Fault, reason : BOOLEAN, quiesced : BOOLEAN,
                      escapes : BOOLEAN]
        /\ posixRep'.faults # {}
        /\ posixRep'.quiesced => posixRep.quiesced
    BY <1>2, FaultNames DEF PosixInv, PosixRecords
  <2>2. QED  BY <1>2, <2>1, ReportKept DEF Surroundings
<1>3. QED  BY <1>1, <1>2 DEF Posix!SpawnDog, Posix!Goto, Posix!Report

\* The guard, or the plain target, is started, or not.
LEMMA SpawnRootKept ==
  ASSUME NEW g \in BOOLEAN, NEW d \in BOOLEAN, PosixInv(g), Posix(g, d)!SpawnRoot
  PROVE  PosixInv(g)'
<1>1. ASSUME /\ g
             /\ posixPc = "spawn"
             /\ posixPc' = "identify"
             /\ root' = "config"
             /\ UNCHANGED <<exit, kid, posixKilled, dog, dogCode, pipe, pgid,
                            posixCalled, posixReader, posixSink, posixRep,
                            posixInterrupts>>
      PROVE  PosixInv(g)'
  <2>1. posixPc' \in Places  BY <1>1 DEF PosixInv, PosixStates, Places
  <2>2. PosixStates'  BY <1>1, <2>1 DEF PosixInv, PosixStates, StartUp
  <2>3. PosixRecords'  BY <1>1 DEF PosixInv, PosixRecords
  <2>4. StartUp(g)' /\ Dismissal(g)' /\ ReaderSaw'
    BY <1>1 DEF PosixInv, PosixStates, PosixRecords, Places, StartUp, Dismissal, ReaderSaw
  <2>5. Faultless(g)'
    BY <1>1 DEF PosixInv, PosixStates, PosixRecords, Places, StartUp, Dismissal, Faultless
  <2>6. QED  BY <2>2, <2>3, <2>4, <2>5 DEF PosixInv
<1>2. ASSUME /\ ~g
             /\ posixPc = "spawn"
             /\ posixPc' = "identify"
             /\ root' = "target"
             /\ UNCHANGED <<exit, kid, posixKilled, dog, dogCode, pipe, pgid,
                            posixCalled, posixReader, posixSink, posixRep,
                            posixInterrupts>>
      PROVE  PosixInv(g)'
  <2>1. posixPc' \in Places  BY <1>2 DEF PosixInv, PosixStates, Places
  <2>2. PosixStates'  BY <1>2, <2>1 DEF PosixInv, PosixStates, StartUp
  <2>3. PosixRecords'  BY <1>2 DEF PosixInv, PosixRecords
  <2>4. StartUp(g)' /\ Dismissal(g)' /\ ReaderSaw'
    BY <1>2 DEF PosixInv, PosixStates, PosixRecords, Places, StartUp, Dismissal, ReaderSaw
  <2>5. Faultless(g)'
    BY <1>2 DEF PosixInv, PosixStates, PosixRecords, Places, StartUp, Dismissal, Faultless
  <2>6. QED  BY <2>2, <2>3, <2>4, <2>5 DEF PosixInv
<1>3. ASSUME /\ posixPc = "spawn"
             /\ posixPc' = "finally"
             /\ posixRep' = [posixRep EXCEPT !.faults = @ \cup {"launch"}]
             /\ UNCHANGED <<root, exit, kid, posixKilled, dog, dogCode, pipe, pgid,
                            posixCalled, posixReader, posixSink, posixInterrupts>>
      PROVE  PosixInv(g)'
  <2>1. /\ posixRep' \in [faults : SUBSET Fault, reason : BOOLEAN, quiesced : BOOLEAN,
                      escapes : BOOLEAN]
        /\ posixRep'.faults # {}
        /\ posixRep'.quiesced => posixRep.quiesced
    BY <1>3, FaultNames DEF PosixInv, PosixRecords
  <2>2. QED  BY <1>3, <2>1, ReportKept DEF Surroundings
<1>4. QED  BY <1>1, <1>2, <1>3 DEF Posix!SpawnRoot, Posix!Goto, Posix!Report

\* The group is learnt.
LEMMA IdentifyKept ==
  ASSUME NEW g \in BOOLEAN, NEW d \in BOOLEAN, PosixInv(g), Posix(g, d)!Identify
  PROVE  PosixInv(g)'
<1>1. ASSUME /\ g
             /\ posixPc = "identify"
             /\ posixPc' = "configure"
             /\ pgid' = TRUE
             /\ posixReader' = "reading"
             /\ UNCHANGED <<root, exit, kid, posixKilled, dog, dogCode, pipe,
                            posixCalled, posixSink, posixRep, posixInterrupts>>
      PROVE  PosixInv(g)'
  <2>1. posixPc' \in Places  BY <1>1 DEF PosixInv, PosixStates, Places
  <2>2. PosixStates'  BY <1>1, <2>1 DEF PosixInv, PosixStates
  <2>3. PosixRecords'  BY <1>1 DEF PosixInv, PosixRecords
  <2>4. StartUp(g)' /\ Dismissal(g)' /\ ReaderSaw'
    BY <1>1 DEF PosixInv, PosixStates, PosixRecords, Places, StartUp, Dismissal, ReaderSaw
  <2>5. Faultless(g)'
    BY <1>1 DEF PosixInv, PosixStates, PosixRecords, Places, StartUp, Dismissal, Faultless
  <2>6. QED  BY <2>2, <2>3, <2>4, <2>5 DEF PosixInv
<1>2. ASSUME /\ ~g
             /\ posixPc = "identify"
             /\ posixPc' = "poll"
             /\ pgid' = TRUE
             /\ posixReader' = "reading"
             /\ UNCHANGED <<root, exit, kid, posixKilled, dog, dogCode, pipe,
                            posixCalled, posixSink, posixRep, posixInterrupts>>
      PROVE  PosixInv(g)'
  <2>1. posixPc' \in Places  BY <1>2 DEF PosixInv, PosixStates, Places
  <2>2. PosixStates'  BY <1>2, <2>1 DEF PosixInv, PosixStates
  <2>3. PosixRecords'  BY <1>2 DEF PosixInv, PosixRecords
  <2>4. StartUp(g)' /\ Dismissal(g)' /\ ReaderSaw'
    BY <1>2 DEF PosixInv, PosixStates, PosixRecords, Places, StartUp, Dismissal, ReaderSaw
  <2>5. Faultless(g)'
    BY <1>2 DEF PosixInv, PosixStates, PosixRecords, Places, StartUp, Dismissal, Faultless
  <2>6. QED  BY <2>2, <2>3, <2>4, <2>5 DEF PosixInv
<1>3. QED  BY <1>1, <1>2 DEF Posix!Identify, Posix!Goto

\* The guard is told its configuration.
LEMMA ConfigureKept ==
  ASSUME NEW g \in BOOLEAN, NEW d \in BOOLEAN, PosixInv(g), Posix(g, d)!Configure
  PROVE  PosixInv(g)'
<1>1. /\ posixPc = "configure"
      /\ posixPc' = "await ready"
      /\ pipe' = [pipe EXCEPT !["guard config"] = "sent"]
      /\ UNCHANGED <<root, exit, kid, posixKilled, dog, dogCode, pgid, posixCalled,
                     posixReader, posixSink, posixRep, posixInterrupts>>
  BY DEF Posix!Configure, Posix!Goto, Posix!world
<1>2. pipe' \in [{"guard config", "release", "dog config", "live"} ->
                     {"open", "sent", "done", "eof"}]
  BY <1>1 DEF PosixInv, PosixRecords
<1>3. posixPc' \in Places  BY <1>1, <1>2 DEF PosixInv, PosixStates, Places
<1>4. PosixStates'  BY <1>1, <1>2, <1>3, StatesStay DEF PosixInv
<1>5. PosixRecords'  BY <1>1, <1>2 DEF PosixInv, PosixRecords
<1>6. StartUp(g)' /\ Dismissal(g)' /\ ReaderSaw'
  BY <1>1, <1>2
  DEF PosixInv, PosixStates, PosixRecords, Places, StartUp, Dismissal, ReaderSaw
<1>7. Faultless(g)'
  BY <1>1, <1>2
  DEF PosixInv, PosixStates, PosixRecords, Places, StartUp, Dismissal, Faultless
<1>8. QED  BY <1>4, <1>5, <1>6, <1>7 DEF PosixInv

\* The guard is ready, or there is an exception.
LEMMA AwaitReadyKept ==
  ASSUME NEW g \in BOOLEAN, NEW d \in BOOLEAN, PosixInv(g), Posix(g, d)!AwaitReady
  PROVE  PosixInv(g)'
<1>1. ASSUME /\ posixPc = "await ready"
             /\ posixPc' = "arm"
             /\ UNCHANGED <<root, exit, kid, posixKilled, dog, dogCode, pipe, pgid,
                            posixCalled, posixReader, posixSink, posixRep,
                            posixInterrupts>>
      PROVE  PosixInv(g)'
  <2>1. posixPc' \in Places  BY <1>1 DEF PosixInv, PosixStates, Places
  <2>2. PosixStates'  BY <1>1, <2>1, StatesStay DEF PosixInv
  <2>3. PosixRecords'  BY <1>1 DEF PosixInv, PosixRecords
  <2>4. StartUp(g)' /\ Dismissal(g)' /\ ReaderSaw'
    BY <1>1 DEF PosixInv, PosixStates, PosixRecords, Places, StartUp, Dismissal, ReaderSaw
  <2>5. Faultless(g)'
    BY <1>1 DEF PosixInv, PosixStates, PosixRecords, Places, StartUp, Dismissal, Faultless
  <2>6. QED  BY <2>2, <2>3, <2>4, <2>5 DEF PosixInv
<1>2. ASSUME Posix(g, d)!Raise, posixPc \in Raising,
             UNCHANGED <<Surroundings, posixInterrupts>>
      PROVE  PosixInv(g)'
  BY <1>2, RaiseKept DEF PosixInv, PosixRecords
<1>3. QED  BY <1>1, <1>2 DEF Posix!AwaitReady, Posix!Goto, Surroundings, Raising

\* The watchdog is told the group.
LEMMA ArmKept ==
  ASSUME NEW g \in BOOLEAN, NEW d \in BOOLEAN, PosixInv(g), Posix(g, d)!Arm
  PROVE  PosixInv(g)'
<1>1. /\ posixPc = "arm"
      /\ posixPc' = "await ack"
      /\ pipe' = [pipe EXCEPT !["dog config"] = "sent"]
      /\ UNCHANGED <<root, exit, kid, posixKilled, dog, dogCode, pgid, posixCalled,
                     posixReader, posixSink, posixRep, posixInterrupts>>
  BY DEF Posix!Arm, Posix!Goto, Posix!world
<1>2. pipe' \in [{"guard config", "release", "dog config", "live"} ->
                     {"open", "sent", "done", "eof"}]
  BY <1>1 DEF PosixInv, PosixRecords
<1>3. posixPc' \in Places  BY <1>1, <1>2 DEF PosixInv, PosixStates, Places
<1>4. PosixStates'  BY <1>1, <1>2, <1>3, StatesStay DEF PosixInv
<1>5. PosixRecords'  BY <1>1, <1>2 DEF PosixInv, PosixRecords
<1>6. StartUp(g)' /\ Dismissal(g)' /\ ReaderSaw'
  BY <1>1, <1>2
  DEF PosixInv, PosixStates, PosixRecords, Places, StartUp, Dismissal, ReaderSaw
<1>7. Faultless(g)'
  BY <1>1, <1>2
  DEF PosixInv, PosixStates, PosixRecords, Places, StartUp, Dismissal, Faultless
<1>8. QED  BY <1>4, <1>5, <1>6, <1>7 DEF PosixInv

\* The watchdog is armed, or there is an exception.
LEMMA AwaitAckKept ==
  ASSUME NEW g \in BOOLEAN, NEW d \in BOOLEAN, PosixInv(g), Posix(g, d)!AwaitAck
  PROVE  PosixInv(g)'
<1>1. ASSUME /\ posixPc = "await ack"
             /\ dog = "armed"
             /\ posixPc' = "callback"
             /\ UNCHANGED <<root, exit, kid, posixKilled, dog, dogCode, pipe, pgid,
                            posixCalled, posixReader, posixSink, posixRep,
                            posixInterrupts>>
      PROVE  PosixInv(g)'
  <2>1. posixPc' \in Places  BY <1>1 DEF PosixInv, PosixStates, Places
  <2>2. PosixStates'  BY <1>1, <2>1, StatesStay DEF PosixInv
  <2>3. PosixRecords'  BY <1>1 DEF PosixInv, PosixRecords
  <2>4. StartUp(g)' /\ Dismissal(g)' /\ ReaderSaw'
    BY <1>1 DEF PosixInv, PosixStates, PosixRecords, Places, StartUp, Dismissal, ReaderSaw
  <2>5. Faultless(g)'
    BY <1>1 DEF PosixInv, PosixStates, PosixRecords, Places, StartUp, Dismissal, Faultless
  <2>6. QED  BY <2>2, <2>3, <2>4, <2>5 DEF PosixInv
<1>2. ASSUME Posix(g, d)!Raise, posixPc \in Raising,
             UNCHANGED <<Surroundings, posixInterrupts>>
      PROVE  PosixInv(g)'
  BY <1>2, RaiseKept DEF PosixInv, PosixRecords
<1>3. QED  BY <1>1, <1>2 DEF Posix!AwaitAck, Posix!Goto, Surroundings, Raising

\* The caller hears of it, and may object.
LEMMA CallbackKept ==
  ASSUME NEW g \in BOOLEAN, NEW d \in BOOLEAN, PosixInv(g), Posix(g, d)!Callback
  PROVE  PosixInv(g)'
<1>1. ASSUME /\ posixPc = "callback"
             /\ posixPc' = "release"
             /\ posixCalled' = TRUE
             /\ UNCHANGED <<root, exit, kid, posixKilled, dog, dogCode, pipe, pgid,
                            posixReader, posixSink, posixRep, posixInterrupts>>
      PROVE  PosixInv(g)'
  <2>1. posixPc' \in Places  BY <1>1 DEF PosixInv, PosixStates, Places
  <2>2. PosixStates'  BY <1>1, <2>1 DEF PosixInv, PosixStates
  <2>3. PosixRecords'  BY <1>1 DEF PosixInv, PosixRecords
  <2>4. StartUp(g)' /\ Dismissal(g)' /\ ReaderSaw'
    BY <1>1 DEF PosixInv, PosixStates, PosixRecords, Places, StartUp, Dismissal, ReaderSaw
  <2>5. Faultless(g)'
    BY <1>1 DEF PosixInv, PosixStates, PosixRecords, Places, StartUp, Dismissal, Faultless
  <2>6. QED  BY <2>2, <2>3, <2>4, <2>5 DEF PosixInv
<1>2. ASSUME Posix(g, d)!Raise, posixPc \in Raising,
             UNCHANGED <<Surroundings, posixInterrupts>>
      PROVE  PosixInv(g)'
  BY <1>2, RaiseKept DEF PosixInv, PosixRecords
<1>3. QED  BY <1>1, <1>2 DEF Posix!Callback, Posix!Goto, Surroundings, Raising

\* The guard is released, unless it is gone.
LEMMA ReleaseKept ==
  ASSUME NEW g \in BOOLEAN, NEW d \in BOOLEAN, PosixInv(g), Posix(g, d)!Release
  PROVE  PosixInv(g)'
<1>1. ASSUME /\ posixPc = "release"
             /\ root \notin {"none", "gone"}
             /\ posixPc' = "poll"
             /\ pipe' = [pipe EXCEPT !["release"] = "sent"]
             /\ UNCHANGED <<root, exit, kid, posixKilled, dog, dogCode, pgid,
                            posixCalled, posixReader, posixSink, posixRep,
                            posixInterrupts>>
      PROVE  PosixInv(g)'
  <2>1. pipe' \in [{"guard config", "release", "dog config", "live"} ->
                       {"open", "sent", "done", "eof"}]
    BY <1>1 DEF PosixInv, PosixRecords
  <2>2. posixPc' \in Places  BY <1>1, <2>1 DEF PosixInv, PosixStates, Places
  <2>3. PosixStates'  BY <1>1, <2>1, <2>2, StatesStay DEF PosixInv
  <2>4. PosixRecords'  BY <1>1, <2>1 DEF PosixInv, PosixRecords
  <2>5. StartUp(g)' /\ Dismissal(g)' /\ ReaderSaw'
    BY <1>1, <2>1
    DEF PosixInv, PosixStates, PosixRecords, Places, StartUp, Dismissal, ReaderSaw
  <2>6. Faultless(g)'
    BY <1>1, <2>1
    DEF PosixInv, PosixStates, PosixRecords, Places, StartUp, Dismissal, Faultless
  <2>7. QED  BY <2>3, <2>4, <2>5, <2>6 DEF PosixInv
<1>2. ASSUME Posix(g, d)!Raise, posixPc \in Raising,
             UNCHANGED <<Surroundings, posixInterrupts>>
      PROVE  PosixInv(g)'
  BY <1>2, RaiseKept DEF PosixInv, PosixRecords
<1>3. QED
  BY <1>1, <1>2 DEF Posix!Release, Posix!Goto, Posix!RootAlive, Surroundings, Raising

\* The round that ends the loop.
LEMMA PollKept ==
  ASSUME NEW g \in BOOLEAN, NEW d \in BOOLEAN, PosixInv(g), Posix(g, d)!Poll
  PROVE  PosixInv(g)'
<1>1. ASSUME /\ posixPc = "poll"
             /\ root \in {"none", "gone"}
             /\ posixPc' = "wait"
             /\ UNCHANGED <<root, exit, kid, posixKilled, dog, dogCode, pipe, pgid,
                            posixCalled, posixReader, posixSink, posixRep,
                            posixInterrupts>>
      PROVE  PosixInv(g)'
  <2>1. posixPc' \in Places  BY <1>1 DEF PosixInv, PosixStates, Places
  <2>2. PosixStates'  BY <1>1, <2>1, StatesStay DEF PosixInv
  <2>3. PosixRecords'  BY <1>1 DEF PosixInv, PosixRecords
  <2>4. StartUp(g)' /\ Dismissal(g)' /\ ReaderSaw'
    BY <1>1 DEF PosixInv, PosixStates, PosixRecords, Places, StartUp, Dismissal, ReaderSaw
  <2>5. Faultless(g)'
    BY <1>1 DEF PosixInv, PosixStates, PosixRecords, Places, StartUp, Dismissal, Faultless
  <2>6. QED  BY <2>2, <2>3, <2>4, <2>5 DEF PosixInv
<1>2. ASSUME /\ posixPc = "poll"
             /\ posixPc' = "wait"
             /\ posixKilled' = (posixKilled \/ pgid)
             /\ posixRep' = [posixRep EXCEPT !.faults = @ \cup {"infrastructure"},
                                             !.reason = (@ \/ pgid)]
             /\ UNCHANGED <<root, exit, kid, dog, dogCode, pipe, pgid, posixCalled,
                            posixReader, posixSink, posixInterrupts>>
      PROVE  PosixInv(g)'
  <2>1. /\ posixRep' \in [faults : SUBSET Fault, reason : BOOLEAN, quiesced : BOOLEAN,
                      escapes : BOOLEAN]
        /\ posixRep'.faults # {}
        /\ posixRep'.quiesced => posixRep.quiesced
    BY <1>2, FaultNames DEF PosixInv, PosixRecords
  <2>2. QED  BY <1>2, <2>1, ReportKept DEF Surroundings
<1>3. ASSUME /\ posixPc = "poll"
             /\ (posixSink.over \/ posixSink.error)
             /\ posixPc' = "wait"
             /\ posixKilled' = (posixKilled \/ pgid)
             /\ posixRep' = [posixRep EXCEPT !.faults = @ \cup {},
                                             !.reason = (@ \/ pgid)]
             /\ UNCHANGED <<root, exit, kid, dog, dogCode, pipe, pgid, posixCalled,
                            posixReader, posixSink, posixInterrupts>>
      PROVE  PosixInv(g)'
  <2>1. /\ posixRep' \in [faults : SUBSET Fault, reason : BOOLEAN, quiesced : BOOLEAN,
                      escapes : BOOLEAN]
        /\ posixRep'.faults = posixRep.faults \cup {}
        /\ posixRep'.quiesced = posixRep.quiesced
    BY <1>3, FaultNames DEF PosixInv, PosixRecords
  <2>2. posixPc' \in Places  BY <1>3, <2>1 DEF PosixInv, PosixStates, Places
  <2>3. PosixStates'  BY <1>3, <2>1, <2>2, StatesStay DEF PosixInv, PosixStates
  <2>4. PosixRecords'  BY <1>3, <2>1 DEF PosixInv, PosixRecords
  <2>5. StartUp(g)' /\ Dismissal(g)' /\ ReaderSaw'
    BY <1>3, <2>1
    DEF PosixInv, PosixStates, PosixRecords, Places, StartUp, Dismissal, ReaderSaw
  <2>6. Faultless(g)'
    BY <1>3, <2>1
    DEF PosixInv, PosixStates, PosixRecords, Places, StartUp, Dismissal, Faultless
  <2>7. QED  BY <2>3, <2>4, <2>5, <2>6 DEF PosixInv
<1>4. ASSUME /\ posixPc = "poll"
             /\ posixPc' = "wait"
             /\ posixKilled' = (posixKilled \/ pgid)
             /\ posixRep' = [posixRep EXCEPT !.faults = @ \cup {"timeout"},
                                             !.reason = (@ \/ pgid)]
             /\ UNCHANGED <<root, exit, kid, dog, dogCode, pipe, pgid, posixCalled,
                            posixReader, posixSink, posixInterrupts>>
      PROVE  PosixInv(g)'
  <2>1. /\ posixRep' \in [faults : SUBSET Fault, reason : BOOLEAN, quiesced : BOOLEAN,
                      escapes : BOOLEAN]
        /\ posixRep'.faults # {}
        /\ posixRep'.quiesced => posixRep.quiesced
    BY <1>4, FaultNames DEF PosixInv, PosixRecords
  <2>2. QED  BY <1>4, <2>1, ReportKept DEF Surroundings
<1>5. QED
  BY <1>1, <1>2, <1>3, <1>4
  DEF Posix!Poll, Posix!Goto, Posix!Kill, Posix!RootAlive, Posix!Stopped

\* The root is waited for.
LEMMA WaitRootKept ==
  ASSUME NEW g \in BOOLEAN, NEW d \in BOOLEAN, PosixInv(g), Posix(g, d)!WaitRoot
  PROVE  PosixInv(g)'
<1>1. ASSUME /\ posixPc = "wait"
             /\ root \in {"none", "gone"}
             /\ posixPc' = "survivors"
             /\ UNCHANGED <<root, exit, kid, posixKilled, dog, dogCode, pipe, pgid,
                            posixCalled, posixReader, posixSink, posixRep,
                            posixInterrupts>>
      PROVE  PosixInv(g)'
  <2>1. posixPc' \in Places  BY <1>1 DEF PosixInv, PosixStates, Places
  <2>2. PosixStates'  BY <1>1, <2>1, StatesStay DEF PosixInv
  <2>3. PosixRecords'  BY <1>1 DEF PosixInv, PosixRecords
  <2>4. StartUp(g)' /\ Dismissal(g)' /\ ReaderSaw'
    BY <1>1 DEF PosixInv, PosixStates, PosixRecords, Places, StartUp, Dismissal, ReaderSaw
  <2>5. Faultless(g)'
    BY <1>1 DEF PosixInv, PosixStates, PosixRecords, Places, StartUp, Dismissal, Faultless
  <2>6. QED  BY <2>2, <2>3, <2>4, <2>5 DEF PosixInv
<1>2. ASSUME Posix(g, d)!Raise, posixPc \in Raising,
             UNCHANGED <<Surroundings, posixInterrupts>>
      PROVE  PosixInv(g)'
  BY <1>2, RaiseKept DEF PosixInv, PosixRecords
<1>3. QED
  BY <1>1, <1>2 DEF Posix!WaitRoot, Posix!Goto, Posix!RootAlive, Surroundings, Raising

\* Descendants that are left are killed.
LEMMA SurvivorsKept ==
  ASSUME NEW g \in BOOLEAN, NEW d \in BOOLEAN, PosixInv(g), Posix(g, d)!Survivors
  PROVE  PosixInv(g)'
<1>1. ASSUME /\ posixPc = "survivors"
             /\ posixPc' = "quiesce"
             /\ UNCHANGED <<root, exit, kid, posixKilled, dog, dogCode, pipe, pgid,
                            posixCalled, posixReader, posixSink, posixRep,
                            posixInterrupts>>
      PROVE  PosixInv(g)'
  <2>1. posixPc' \in Places  BY <1>1 DEF PosixInv, PosixStates, Places
  <2>2. PosixStates'  BY <1>1, <2>1, StatesStay DEF PosixInv
  <2>3. PosixRecords'  BY <1>1 DEF PosixInv, PosixRecords
  <2>4. StartUp(g)' /\ Dismissal(g)' /\ ReaderSaw'
    BY <1>1 DEF PosixInv, PosixStates, PosixRecords, Places, StartUp, Dismissal, ReaderSaw
  <2>5. Faultless(g)'
    BY <1>1 DEF PosixInv, PosixStates, PosixRecords, Places, StartUp, Dismissal, Faultless
  <2>6. QED  BY <2>2, <2>3, <2>4, <2>5 DEF PosixInv
<1>2. ASSUME /\ posixPc = "survivors"
             /\ posixPc' = "quiesce"
             /\ posixKilled' = (posixKilled \/ pgid)
             /\ posixRep' = [posixRep EXCEPT !.faults = @ \cup {"infrastructure"},
                                             !.reason = (@ \/ pgid)]
             /\ UNCHANGED <<root, exit, kid, dog, dogCode, pipe, pgid, posixCalled,
                            posixReader, posixSink, posixInterrupts>>
      PROVE  PosixInv(g)'
  <2>1. /\ posixRep' \in [faults : SUBSET Fault, reason : BOOLEAN, quiesced : BOOLEAN,
                      escapes : BOOLEAN]
        /\ posixRep'.faults # {}
        /\ posixRep'.quiesced => posixRep.quiesced
    BY <1>2, FaultNames DEF PosixInv, PosixRecords
  <2>2. QED  BY <1>2, <2>1, ReportKept DEF Surroundings
<1>3. ASSUME /\ posixPc = "survivors"
             /\ ~(root \notin {"none", "gone"} \/ kid = "in")
             /\ posixPc' = "finally"
             /\ posixRep' = [posixRep EXCEPT !.quiesced = TRUE]
             /\ UNCHANGED <<root, exit, kid, posixKilled, dog, dogCode, pipe, pgid,
                            posixCalled, posixReader, posixSink, posixInterrupts>>
      PROVE  PosixInv(g)'
  <2>1. /\ posixRep' \in [faults : SUBSET Fault, reason : BOOLEAN, quiesced : BOOLEAN,
                      escapes : BOOLEAN]
        /\ posixRep'.faults = posixRep.faults
        /\ posixRep'.quiesced = TRUE
    BY <1>3, FaultNames DEF PosixInv, PosixRecords
  <2>2. posixPc' \in Places  BY <1>3, <2>1 DEF PosixInv, PosixStates, Places
  <2>3. PosixStates'  BY <1>3, <2>1, <2>2, StatesStay DEF PosixInv
  <2>4. PosixRecords'  BY <1>3, <2>1 DEF PosixInv, PosixRecords
  <2>5. StartUp(g)' /\ Dismissal(g)' /\ ReaderSaw'
    BY <1>3, <2>1
    DEF PosixInv, PosixStates, PosixRecords, Places, StartUp, Dismissal, ReaderSaw
  <2>6. Faultless(g)'
    BY <1>3, <2>1
    DEF PosixInv, PosixStates, PosixRecords, Places, StartUp, Dismissal, Faultless
  <2>7. QED  BY <2>3, <2>4, <2>5, <2>6 DEF PosixInv
<1>4. QED
  BY <1>1, <1>2, <1>3
  DEF Posix!Survivors, Posix!Goto, Posix!Kill, Posix!RootAlive, Posix!GroupAlive

\* The group disappears, or is reported.
LEMMA QuiesceKept ==
  ASSUME NEW g \in BOOLEAN, NEW d \in BOOLEAN, PosixInv(g), Posix(g, d)!Quiesce
  PROVE  PosixInv(g)'
<1>1. ASSUME /\ posixPc \in {"quiesce", "except quiesce"}
             /\ ~pgid
             /\ posixPc' = "finally"
             /\ posixRep' = [posixRep EXCEPT !.quiesced = TRUE]
             /\ UNCHANGED <<root, exit, kid, posixKilled, dog, dogCode, pipe, pgid,
                            posixCalled, posixReader, posixSink, posixInterrupts>>
      PROVE  PosixInv(g)'
  <2>1. /\ posixRep' \in [faults : SUBSET Fault, reason : BOOLEAN, quiesced : BOOLEAN,
                      escapes : BOOLEAN]
        /\ posixRep'.faults = posixRep.faults
        /\ posixRep'.quiesced = TRUE
    BY <1>1, FaultNames DEF PosixInv, PosixRecords
  <2>2. posixPc' \in Places  BY <1>1, <2>1 DEF PosixInv, PosixStates, Places
  <2>3. PosixStates'  BY <1>1, <2>1, <2>2, StatesStay DEF PosixInv
  <2>4. PosixRecords'  BY <1>1, <2>1 DEF PosixInv, PosixRecords
  <2>5. StartUp(g)' /\ Dismissal(g)' /\ ReaderSaw'
    BY <1>1, <2>1
    DEF PosixInv, PosixStates, PosixRecords, Places, StartUp, Dismissal, ReaderSaw
  <2>6. Faultless(g)'
    BY <1>1, <2>1
    DEF PosixInv, PosixStates, PosixRecords, Places, StartUp, Dismissal, Faultless
  <2>7. QED  BY <2>3, <2>4, <2>5, <2>6 DEF PosixInv
<1>2. ASSUME /\ posixPc \in {"quiesce", "except quiesce"}
             /\ kid # "in"
             /\ root \in {"none", "gone"}
             /\ posixPc' = "finally"
             /\ posixRep' = [posixRep EXCEPT !.quiesced = TRUE]
             /\ UNCHANGED <<root, exit, kid, posixKilled, dog, dogCode, pipe, pgid,
                            posixCalled, posixReader, posixSink, posixInterrupts>>
      PROVE  PosixInv(g)'
  <2>1. /\ posixRep' \in [faults : SUBSET Fault, reason : BOOLEAN, quiesced : BOOLEAN,
                      escapes : BOOLEAN]
        /\ posixRep'.faults = posixRep.faults
        /\ posixRep'.quiesced = TRUE
    BY <1>2, FaultNames DEF PosixInv, PosixRecords
  <2>2. posixPc' \in Places  BY <1>2, <2>1 DEF PosixInv, PosixStates, Places
  <2>3. PosixStates'  BY <1>2, <2>1, <2>2, StatesStay DEF PosixInv
  <2>4. PosixRecords'  BY <1>2, <2>1 DEF PosixInv, PosixRecords
  <2>5. StartUp(g)' /\ Dismissal(g)' /\ ReaderSaw'
    BY <1>2, <2>1
    DEF PosixInv, PosixStates, PosixRecords, Places, StartUp, Dismissal, ReaderSaw
  <2>6. Faultless(g)'
    BY <1>2, <2>1
    DEF PosixInv, PosixStates, PosixRecords, Places, StartUp, Dismissal, Faultless
  <2>7. QED  BY <2>3, <2>4, <2>5, <2>6 DEF PosixInv
<1>3. ASSUME /\ posixPc \in {"quiesce", "except quiesce"}
             /\ posixPc' = "finally"
             /\ posixRep' = [posixRep EXCEPT !.faults = @ \cup {"infrastructure"},
                                             !.quiesced = FALSE]
             /\ UNCHANGED <<root, exit, kid, posixKilled, dog, dogCode, pipe, pgid,
                            posixCalled, posixReader, posixSink, posixInterrupts>>
      PROVE  PosixInv(g)'
  <2>1. /\ posixRep' \in [faults : SUBSET Fault, reason : BOOLEAN, quiesced : BOOLEAN,
                      escapes : BOOLEAN]
        /\ posixRep'.faults # {}
        /\ posixRep'.quiesced => posixRep.quiesced
    BY <1>3, FaultNames DEF PosixInv, PosixRecords
  <2>2. QED  BY <1>3, <2>1, ReportKept DEF Surroundings
<1>4. ASSUME /\ posixPc = "final quiesce"
             /\ ~pgid
             /\ posixPc' = "disarm"
             /\ posixRep' = [posixRep EXCEPT !.quiesced = TRUE]
             /\ UNCHANGED <<root, exit, kid, posixKilled, dog, dogCode, pipe, pgid,
                            posixCalled, posixReader, posixSink, posixInterrupts>>
      PROVE  PosixInv(g)'
  <2>1. /\ posixRep' \in [faults : SUBSET Fault, reason : BOOLEAN, quiesced : BOOLEAN,
                      escapes : BOOLEAN]
        /\ posixRep'.faults = posixRep.faults
        /\ posixRep'.quiesced = TRUE
    BY <1>4, FaultNames DEF PosixInv, PosixRecords
  <2>2. posixPc' \in Places  BY <1>4, <2>1 DEF PosixInv, PosixStates, Places
  <2>3. PosixStates'  BY <1>4, <2>1, <2>2, StatesStay DEF PosixInv
  <2>4. PosixRecords'  BY <1>4, <2>1 DEF PosixInv, PosixRecords
  <2>5. StartUp(g)' /\ Dismissal(g)' /\ ReaderSaw'
    BY <1>4, <2>1
    DEF PosixInv, PosixStates, PosixRecords, Places, StartUp, Dismissal, ReaderSaw
  <2>6. Faultless(g)'
    BY <1>4, <2>1
    DEF PosixInv, PosixStates, PosixRecords, Places, StartUp, Dismissal, Faultless
  <2>7. QED  BY <2>3, <2>4, <2>5, <2>6 DEF PosixInv
<1>5. ASSUME /\ posixPc = "final quiesce"
             /\ kid # "in"
             /\ root \in {"none", "gone"}
             /\ posixPc' = "disarm"
             /\ posixRep' = [posixRep EXCEPT !.quiesced = TRUE]
             /\ UNCHANGED <<root, exit, kid, posixKilled, dog, dogCode, pipe, pgid,
                            posixCalled, posixReader, posixSink, posixInterrupts>>
      PROVE  PosixInv(g)'
  <2>1. /\ posixRep' \in [faults : SUBSET Fault, reason : BOOLEAN, quiesced : BOOLEAN,
                      escapes : BOOLEAN]
        /\ posixRep'.faults = posixRep.faults
        /\ posixRep'.quiesced = TRUE
    BY <1>5, FaultNames DEF PosixInv, PosixRecords
  <2>2. posixPc' \in Places  BY <1>5, <2>1 DEF PosixInv, PosixStates, Places
  <2>3. PosixStates'  BY <1>5, <2>1, <2>2, StatesStay DEF PosixInv
  <2>4. PosixRecords'  BY <1>5, <2>1 DEF PosixInv, PosixRecords
  <2>5. StartUp(g)' /\ Dismissal(g)' /\ ReaderSaw'
    BY <1>5, <2>1
    DEF PosixInv, PosixStates, PosixRecords, Places, StartUp, Dismissal, ReaderSaw
  <2>6. Faultless(g)'
    BY <1>5, <2>1
    DEF PosixInv, PosixStates, PosixRecords, Places, StartUp, Dismissal, Faultless
  <2>7. QED  BY <2>3, <2>4, <2>5, <2>6 DEF PosixInv
<1>6. ASSUME /\ posixPc = "final quiesce"
             /\ posixPc' = "disarm"
             /\ posixRep' = [posixRep EXCEPT !.faults = @ \cup {"infrastructure"},
                                             !.quiesced = FALSE]
             /\ UNCHANGED <<root, exit, kid, posixKilled, dog, dogCode, pipe, pgid,
                            posixCalled, posixReader, posixSink, posixInterrupts>>
      PROVE  PosixInv(g)'
  <2>1. /\ posixRep' \in [faults : SUBSET Fault, reason : BOOLEAN, quiesced : BOOLEAN,
                      escapes : BOOLEAN]
        /\ posixRep'.faults # {}
        /\ posixRep'.quiesced => posixRep.quiesced
    BY <1>6, FaultNames DEF PosixInv, PosixRecords
  <2>2. QED  BY <1>6, <2>1, ReportKept DEF Surroundings
<1>7. QED
  BY <1>1, <1>2, <1>3, <1>4, <1>5, <1>6
  DEF Posix!Quiesce, Posix!Goto, Posix!world, Posix!RootAlive, Posix!GroupAlive

\* The handler waits for the root.
LEMMA ExceptWaitKept ==
  ASSUME NEW g \in BOOLEAN, NEW d \in BOOLEAN, PosixInv(g), Posix(g, d)!ExceptWait
  PROVE  PosixInv(g)'
<1>1. ASSUME /\ posixPc = "except wait"
             /\ posixPc' = "except quiesce"
             /\ UNCHANGED <<root, exit, kid, posixKilled, dog, dogCode, pipe, pgid,
                            posixCalled, posixReader, posixSink, posixRep,
                            posixInterrupts>>
      PROVE  PosixInv(g)'
  <2>1. posixPc' \in Places  BY <1>1 DEF PosixInv, PosixStates, Places
  <2>2. PosixStates'  BY <1>1, <2>1, StatesStay DEF PosixInv
  <2>3. PosixRecords'  BY <1>1 DEF PosixInv, PosixRecords
  <2>4. StartUp(g)' /\ Dismissal(g)' /\ ReaderSaw'
    BY <1>1 DEF PosixInv, PosixStates, PosixRecords, Places, StartUp, Dismissal, ReaderSaw
  <2>5. Faultless(g)'
    BY <1>1 DEF PosixInv, PosixStates, PosixRecords, Places, StartUp, Dismissal, Faultless
  <2>6. QED  BY <2>2, <2>3, <2>4, <2>5 DEF PosixInv
<1>2. ASSUME /\ posixPc = "except wait"
             /\ posixPc' = "except quiesce"
             /\ posixRep' = [posixRep EXCEPT !.faults = @ \cup {"infrastructure"}]
             /\ UNCHANGED <<root, exit, kid, posixKilled, dog, dogCode, pipe, pgid,
                            posixCalled, posixReader, posixSink, posixInterrupts>>
      PROVE  PosixInv(g)'
  <2>1. /\ posixRep' \in [faults : SUBSET Fault, reason : BOOLEAN, quiesced : BOOLEAN,
                      escapes : BOOLEAN]
        /\ posixRep'.faults # {}
        /\ posixRep'.quiesced => posixRep.quiesced
    BY <1>2, FaultNames DEF PosixInv, PosixRecords
  <2>2. QED  BY <1>2, <2>1, ReportKept DEF Surroundings
<1>3. QED
  BY <1>1, <1>2 DEF Posix!ExceptWait, Posix!Goto, Posix!Report, Posix!world, Posix!RootAlive

\* The clean-up kills what is left.
LEMMA FinalKillKept ==
  ASSUME NEW g \in BOOLEAN, NEW d \in BOOLEAN, PosixInv(g), Posix(g, d)!FinalKill
  PROVE  PosixInv(g)'
<1>1. ASSUME /\ posixPc = "finally"
             /\ pgid
             /\ (root \notin {"none", "gone"} \/ kid = "in")
             /\ posixPc' = "final wait"
             /\ posixKilled' = (posixKilled \/ pgid)
             /\ posixRep' = [posixRep EXCEPT
                               !.faults = @ \cup (IF ~g /\ ~posixRep.reason
                                                  THEN {"infrastructure"} ELSE {}),
                                             !.reason = (@ \/ pgid)]
             /\ UNCHANGED <<root, exit, kid, dog, dogCode, pipe, pgid, posixCalled,
                            posixReader, posixSink, posixInterrupts>>
      PROVE  PosixInv(g)'
  <2>1. /\ posixRep' \in [faults : SUBSET Fault, reason : BOOLEAN, quiesced : BOOLEAN,
                      escapes : BOOLEAN]
        /\ posixRep'.faults = posixRep.faults \cup (IF ~g /\ ~posixRep.reason
                                                  THEN {"infrastructure"} ELSE {})
        /\ posixRep'.quiesced = posixRep.quiesced
    BY <1>1, FaultNames DEF PosixInv, PosixRecords
  <2>2. posixPc' \in Places  BY <1>1, <2>1 DEF PosixInv, PosixStates, Places
  <2>3. PosixStates'  BY <1>1, <2>1, <2>2, StatesStay DEF PosixInv, PosixStates
  <2>4. PosixRecords'  BY <1>1, <2>1 DEF PosixInv, PosixRecords
  <2>5. StartUp(g)' /\ Dismissal(g)' /\ ReaderSaw'
    BY <1>1, <2>1
    DEF PosixInv, PosixStates, PosixRecords, Places, StartUp, Dismissal, ReaderSaw
  <2>6. Faultless(g)'
    BY <1>1, <2>1
    DEF PosixInv, PosixStates, PosixRecords, Places, StartUp, Dismissal, Faultless
  <2>7. QED  BY <2>3, <2>4, <2>5, <2>6 DEF PosixInv
<1>2. ASSUME /\ posixPc = "finally"
             /\ ~pgid
             /\ posixPc' = "disarm"
             /\ UNCHANGED <<root, exit, kid, posixKilled, dog, dogCode, pipe, pgid,
                            posixCalled, posixReader, posixSink, posixRep,
                            posixInterrupts>>
      PROVE  PosixInv(g)'
  <2>1. posixPc' \in Places  BY <1>2 DEF PosixInv, PosixStates, Places
  <2>2. PosixStates'  BY <1>2, <2>1, StatesStay DEF PosixInv
  <2>3. PosixRecords'  BY <1>2 DEF PosixInv, PosixRecords
  <2>4. StartUp(g)' /\ Dismissal(g)' /\ ReaderSaw'
    BY <1>2 DEF PosixInv, PosixStates, PosixRecords, Places, StartUp, Dismissal, ReaderSaw
  <2>5. Faultless(g)'
    BY <1>2 DEF PosixInv, PosixStates, PosixRecords, Places, StartUp, Dismissal, Faultless
  <2>6. QED  BY <2>2, <2>3, <2>4, <2>5 DEF PosixInv
<1>3. ASSUME /\ posixPc = "finally"
             /\ kid # "in"
             /\ root \in {"none", "gone"}
             /\ posixPc' = "disarm"
             /\ UNCHANGED <<root, exit, kid, posixKilled, dog, dogCode, pipe, pgid,
                            posixCalled, posixReader, posixSink, posixRep,
                            posixInterrupts>>
      PROVE  PosixInv(g)'
  <2>1. posixPc' \in Places  BY <1>3 DEF PosixInv, PosixStates, Places
  <2>2. PosixStates'  BY <1>3, <2>1, StatesStay DEF PosixInv
  <2>3. PosixRecords'  BY <1>3 DEF PosixInv, PosixRecords
  <2>4. StartUp(g)' /\ Dismissal(g)' /\ ReaderSaw'
    BY <1>3 DEF PosixInv, PosixStates, PosixRecords, Places, StartUp, Dismissal, ReaderSaw
  <2>5. Faultless(g)'
    BY <1>3 DEF PosixInv, PosixStates, PosixRecords, Places, StartUp, Dismissal, Faultless
  <2>6. QED  BY <2>2, <2>3, <2>4, <2>5 DEF PosixInv
<1>4. QED
  BY <1>1, <1>2, <1>3
  DEF Posix!FinalKill, Posix!Goto, Posix!Kill, Posix!RootAlive, Posix!GroupAlive

\* The clean-up waits for the root.
LEMMA FinalWaitKept ==
  ASSUME NEW g \in BOOLEAN, NEW d \in BOOLEAN, PosixInv(g), Posix(g, d)!FinalWait
  PROVE  PosixInv(g)'
<1>1. ASSUME /\ posixPc = "final wait"
             /\ posixPc' = "final quiesce"
             /\ UNCHANGED <<root, exit, kid, posixKilled, dog, dogCode, pipe, pgid,
                            posixCalled, posixReader, posixSink, posixRep,
                            posixInterrupts>>
      PROVE  PosixInv(g)'
  <2>1. posixPc' \in Places  BY <1>1 DEF PosixInv, PosixStates, Places
  <2>2. PosixStates'  BY <1>1, <2>1, StatesStay DEF PosixInv
  <2>3. PosixRecords'  BY <1>1 DEF PosixInv, PosixRecords
  <2>4. StartUp(g)' /\ Dismissal(g)' /\ ReaderSaw'
    BY <1>1 DEF PosixInv, PosixStates, PosixRecords, Places, StartUp, Dismissal, ReaderSaw
  <2>5. Faultless(g)'
    BY <1>1 DEF PosixInv, PosixStates, PosixRecords, Places, StartUp, Dismissal, Faultless
  <2>6. QED  BY <2>2, <2>3, <2>4, <2>5 DEF PosixInv
<1>2. ASSUME /\ posixPc = "final wait"
             /\ posixPc' = "final quiesce"
             /\ posixRep' = [posixRep EXCEPT !.faults = @ \cup {"infrastructure"}]
             /\ UNCHANGED <<root, exit, kid, posixKilled, dog, dogCode, pipe, pgid,
                            posixCalled, posixReader, posixSink, posixInterrupts>>
      PROVE  PosixInv(g)'
  <2>1. /\ posixRep' \in [faults : SUBSET Fault, reason : BOOLEAN, quiesced : BOOLEAN,
                      escapes : BOOLEAN]
        /\ posixRep'.faults # {}
        /\ posixRep'.quiesced => posixRep.quiesced
    BY <1>2, FaultNames DEF PosixInv, PosixRecords
  <2>2. QED  BY <1>2, <2>1, ReportKept DEF Surroundings
<1>3. QED
  BY <1>1, <1>2 DEF Posix!FinalWait, Posix!Goto, Posix!Report, Posix!world, Posix!RootAlive

\* The watchdog is dismissed, or finds the end of its pipe.
LEMMA DisarmKept ==
  ASSUME NEW g \in BOOLEAN, NEW d \in BOOLEAN, PosixInv(g), Posix(g, d)!Disarm
  PROVE  PosixInv(g)'
<1>1. ASSUME /\ g
             /\ posixPc = "disarm"
             /\ ~pgid
             /\ posixPc' = "await dog"
             /\ pipe' = [[c \in {"guard config", "release", "dog config", "live"} |->
                                 IF pipe[c] = "open" THEN "eof" ELSE pipe[c]]
                        EXCEPT !["live"] = "done"]
             /\ UNCHANGED <<root, exit, kid, posixKilled, dog, dogCode, pgid,
                            posixCalled, posixReader, posixSink, posixRep,
                            posixInterrupts>>
      PROVE  PosixInv(g)'
  <2>1. /\ pipe' \in [{"guard config", "release", "dog config", "live"} ->
                       {"open", "sent", "done", "eof"}]
        /\ pipe'["release"] = "sent" => pipe["release"] = "sent"
        /\ pipe'["live"] = "done"
    BY <1>1 DEF PosixInv, PosixRecords
  <2>2. posixPc' \in Places  BY <1>1, <2>1 DEF PosixInv, PosixStates, Places
  <2>3. PosixStates'  BY <1>1, <2>1, <2>2, StatesStay DEF PosixInv
  <2>4. PosixRecords'  BY <1>1, <2>1 DEF PosixInv, PosixRecords
  <2>5. StartUp(g)' /\ Dismissal(g)' /\ ReaderSaw'
    BY <1>1, <2>1
    DEF PosixInv, PosixStates, PosixRecords, Places, StartUp, Dismissal, ReaderSaw
  <2>6. Faultless(g)'
    BY <1>1, <2>1
    DEF PosixInv, PosixStates, PosixRecords, Places, StartUp, Dismissal, Faultless
  <2>7. QED  BY <2>3, <2>4, <2>5, <2>6 DEF PosixInv
<1>2. ASSUME /\ g
             /\ posixPc = "disarm"
             /\ ~pgid
             /\ posixPc' = "await dog"
             /\ pipe' = [[c \in {"guard config", "release", "dog config", "live"} |->
                                 IF pipe[c] = "open" THEN "eof" ELSE pipe[c]]
                        EXCEPT !["live"] = "done"]
             /\ posixRep' = [posixRep EXCEPT !.faults = @ \cup {"infrastructure"}]
             /\ UNCHANGED <<root, exit, kid, posixKilled, dog, dogCode, pgid,
                            posixCalled, posixReader, posixSink, posixInterrupts>>
      PROVE  PosixInv(g)'
  <2>1. /\ posixRep' \in [faults : SUBSET Fault, reason : BOOLEAN, quiesced : BOOLEAN,
                      escapes : BOOLEAN]
        /\ posixRep'.faults = posixRep.faults \cup {"infrastructure"}
        /\ posixRep'.quiesced = posixRep.quiesced
    BY <1>2, FaultNames DEF PosixInv, PosixRecords
  <2>2. /\ pipe' \in [{"guard config", "release", "dog config", "live"} ->
                       {"open", "sent", "done", "eof"}]
        /\ pipe'["release"] = "sent" => pipe["release"] = "sent"
        /\ pipe'["live"] = "done"
    BY <1>2, <2>1 DEF PosixInv, PosixRecords
  <2>3. posixPc' \in Places  BY <1>2, <2>1, <2>2 DEF PosixInv, PosixStates, Places
  <2>4. PosixStates'  BY <1>2, <2>1, <2>2, <2>3, StatesStay DEF PosixInv
  <2>5. PosixRecords'  BY <1>2, <2>1, <2>2 DEF PosixInv, PosixRecords
  <2>6. StartUp(g)' /\ Dismissal(g)' /\ ReaderSaw'
    BY <1>2, <2>1, <2>2
    DEF PosixInv, PosixStates, PosixRecords, Places, StartUp, Dismissal, ReaderSaw
  <2>7. Faultless(g)'
    BY <1>2, <2>1, <2>2
    DEF PosixInv, PosixStates, PosixRecords, Places, StartUp, Dismissal, Faultless
  <2>8. QED  BY <2>4, <2>5, <2>6, <2>7 DEF PosixInv
<1>3. ASSUME /\ g
             /\ posixPc = "disarm"
             /\ pgid
             /\ posixRep.quiesced
             /\ posixPc' = "await dog"
             /\ pipe' = [[c \in {"guard config", "release", "dog config", "live"} |->
                                 IF pipe[c] = "open" THEN "eof" ELSE pipe[c]]
                        EXCEPT !["live"] = "done"]
             /\ UNCHANGED <<root, exit, kid, posixKilled, dog, dogCode, pgid,
                            posixCalled, posixReader, posixSink, posixRep,
                            posixInterrupts>>
      PROVE  PosixInv(g)'
  <2>1. /\ pipe' \in [{"guard config", "release", "dog config", "live"} ->
                       {"open", "sent", "done", "eof"}]
        /\ pipe'["release"] = "sent" => pipe["release"] = "sent"
        /\ pipe'["live"] = "done"
    BY <1>3 DEF PosixInv, PosixRecords
  <2>2. posixPc' \in Places  BY <1>3, <2>1 DEF PosixInv, PosixStates, Places
  <2>3. PosixStates'  BY <1>3, <2>1, <2>2, StatesStay DEF PosixInv
  <2>4. PosixRecords'  BY <1>3, <2>1 DEF PosixInv, PosixRecords
  <2>5. StartUp(g)' /\ Dismissal(g)' /\ ReaderSaw'
    BY <1>3, <2>1
    DEF PosixInv, PosixStates, PosixRecords, Places, StartUp, Dismissal, ReaderSaw
  <2>6. Faultless(g)'
    BY <1>3, <2>1
    DEF PosixInv, PosixStates, PosixRecords, Places, StartUp, Dismissal, Faultless
  <2>7. QED  BY <2>3, <2>4, <2>5, <2>6 DEF PosixInv
<1>4. ASSUME /\ g
             /\ posixPc = "disarm"
             /\ pgid
             /\ posixRep.quiesced
             /\ posixPc' = "await dog"
             /\ pipe' = [[c \in {"guard config", "release", "dog config", "live"} |->
                                 IF pipe[c] = "open" THEN "eof" ELSE pipe[c]]
                        EXCEPT !["live"] = "done"]
             /\ posixRep' = [posixRep EXCEPT !.faults = @ \cup {"infrastructure"}]
             /\ UNCHANGED <<root, exit, kid, posixKilled, dog, dogCode, pgid,
                            posixCalled, posixReader, posixSink, posixInterrupts>>
      PROVE  PosixInv(g)'
  <2>1. /\ posixRep' \in [faults : SUBSET Fault, reason : BOOLEAN, quiesced : BOOLEAN,
                      escapes : BOOLEAN]
        /\ posixRep'.faults = posixRep.faults \cup {"infrastructure"}
        /\ posixRep'.quiesced = posixRep.quiesced
    BY <1>4, FaultNames DEF PosixInv, PosixRecords
  <2>2. /\ pipe' \in [{"guard config", "release", "dog config", "live"} ->
                       {"open", "sent", "done", "eof"}]
        /\ pipe'["release"] = "sent" => pipe["release"] = "sent"
        /\ pipe'["live"] = "done"
    BY <1>4, <2>1 DEF PosixInv, PosixRecords
  <2>3. posixPc' \in Places  BY <1>4, <2>1, <2>2 DEF PosixInv, PosixStates, Places
  <2>4. PosixStates'  BY <1>4, <2>1, <2>2, <2>3, StatesStay DEF PosixInv
  <2>5. PosixRecords'  BY <1>4, <2>1, <2>2 DEF PosixInv, PosixRecords
  <2>6. StartUp(g)' /\ Dismissal(g)' /\ ReaderSaw'
    BY <1>4, <2>1, <2>2
    DEF PosixInv, PosixStates, PosixRecords, Places, StartUp, Dismissal, ReaderSaw
  <2>7. Faultless(g)'
    BY <1>4, <2>1, <2>2
    DEF PosixInv, PosixStates, PosixRecords, Places, StartUp, Dismissal, Faultless
  <2>8. QED  BY <2>4, <2>5, <2>6, <2>7 DEF PosixInv
<1>5. ASSUME /\ g
             /\ posixPc = "disarm"
             /\ dog = "none"
             /\ posixPc' = "await dog"
             /\ pipe' = [[c \in {"guard config", "release", "dog config", "live"} |->
                                 IF pipe[c] = "open" THEN "eof" ELSE pipe[c]]
                        EXCEPT !["live"] = "eof"]
             /\ UNCHANGED <<root, exit, kid, posixKilled, dog, dogCode, pgid,
                            posixCalled, posixReader, posixSink, posixRep,
                            posixInterrupts>>
      PROVE  PosixInv(g)'
  <2>1. /\ pipe' \in [{"guard config", "release", "dog config", "live"} ->
                       {"open", "sent", "done", "eof"}]
        /\ pipe'["release"] = "sent" => pipe["release"] = "sent"
        /\ pipe'["live"] = "eof"
    BY <1>5 DEF PosixInv, PosixRecords
  <2>2. posixPc' \in Places  BY <1>5, <2>1 DEF PosixInv, PosixStates, Places
  <2>3. PosixStates'  BY <1>5, <2>1, <2>2, StatesStay DEF PosixInv
  <2>4. PosixRecords'  BY <1>5, <2>1 DEF PosixInv, PosixRecords
  <2>5. StartUp(g)' /\ Dismissal(g)' /\ ReaderSaw'
    BY <1>5, <2>1
    DEF PosixInv, PosixStates, PosixRecords, Places, StartUp, Dismissal, ReaderSaw
  <2>6. Faultless(g)'
    BY <1>5, <2>1
    DEF PosixInv, PosixStates, PosixRecords, Places, StartUp, Dismissal, Faultless
  <2>7. QED  BY <2>3, <2>4, <2>5, <2>6 DEF PosixInv
<1>6. ASSUME /\ g
             /\ posixPc = "disarm"
             /\ pgid
             /\ ~posixRep.quiesced
             /\ posixPc' = "await dog"
             /\ pipe' = [[c \in {"guard config", "release", "dog config", "live"} |->
                                 IF pipe[c] = "open" THEN "eof" ELSE pipe[c]]
                        EXCEPT !["live"] = "eof"]
             /\ UNCHANGED <<root, exit, kid, posixKilled, dog, dogCode, pgid,
                            posixCalled, posixReader, posixSink, posixRep,
                            posixInterrupts>>
      PROVE  PosixInv(g)'
  <2>1. /\ pipe' \in [{"guard config", "release", "dog config", "live"} ->
                       {"open", "sent", "done", "eof"}]
        /\ pipe'["release"] = "sent" => pipe["release"] = "sent"
        /\ pipe'["live"] = "eof"
    BY <1>6 DEF PosixInv, PosixRecords
  <2>2. posixPc' \in Places  BY <1>6, <2>1 DEF PosixInv, PosixStates, Places
  <2>3. PosixStates'  BY <1>6, <2>1, <2>2, StatesStay DEF PosixInv
  <2>4. PosixRecords'  BY <1>6, <2>1 DEF PosixInv, PosixRecords
  <2>5. StartUp(g)' /\ Dismissal(g)' /\ ReaderSaw'
    BY <1>6, <2>1
    DEF PosixInv, PosixStates, PosixRecords, Places, StartUp, Dismissal, ReaderSaw
  <2>6. Faultless(g)'
    BY <1>6, <2>1
    DEF PosixInv, PosixStates, PosixRecords, Places, StartUp, Dismissal, Faultless
  <2>7. QED  BY <2>3, <2>4, <2>5, <2>6 DEF PosixInv
<1>7. ASSUME /\ ~g
             /\ posixPc = "disarm"
             /\ posixPc' = "join"
             /\ UNCHANGED <<root, exit, kid, posixKilled, dog, dogCode, pipe, pgid,
                            posixCalled, posixReader, posixSink, posixRep,
                            posixInterrupts>>
      PROVE  PosixInv(g)'
  <2>1. posixPc' \in Places  BY <1>7 DEF PosixInv, PosixStates, Places
  <2>2. PosixStates'  BY <1>7, <2>1, StatesStay DEF PosixInv
  <2>3. PosixRecords'  BY <1>7 DEF PosixInv, PosixRecords
  <2>4. StartUp(g)' /\ Dismissal(g)' /\ ReaderSaw'
    BY <1>7 DEF PosixInv, PosixStates, PosixRecords, Places, StartUp, Dismissal, ReaderSaw
  <2>5. Faultless(g)'
    BY <1>7 DEF PosixInv, PosixStates, PosixRecords, Places, StartUp, Dismissal, Faultless
  <2>6. QED  BY <2>2, <2>3, <2>4, <2>5 DEF PosixInv
<1>8. QED
  BY <1>1, <1>2, <1>3, <1>4, <1>5, <1>6, <1>7
  DEF Posix!Disarm, Posix!Goto, Posix!Report, Posix!world, Posix!Closed, Posix!Control

\* The watchdog ends, or is killed.
LEMMA AwaitDogKept ==
  ASSUME NEW g \in BOOLEAN, NEW d \in BOOLEAN, PosixInv(g), Posix(g, d)!AwaitDog
  PROVE  PosixInv(g)'
<1>1. ASSUME /\ posixPc = "await dog"
             /\ dog = "none"
             /\ posixPc' = "join"
             /\ UNCHANGED <<root, exit, kid, posixKilled, dog, dogCode, pipe, pgid,
                            posixCalled, posixReader, posixSink, posixRep,
                            posixInterrupts>>
      PROVE  PosixInv(g)'
  <2>1. posixPc' \in Places  BY <1>1 DEF PosixInv, PosixStates, Places
  <2>2. PosixStates'  BY <1>1, <2>1, StatesStay DEF PosixInv
  <2>3. PosixRecords'  BY <1>1 DEF PosixInv, PosixRecords
  <2>4. StartUp(g)' /\ Dismissal(g)' /\ ReaderSaw'
    BY <1>1 DEF PosixInv, PosixStates, PosixRecords, Places, StartUp, Dismissal, ReaderSaw
  <2>5. Faultless(g)'
    BY <1>1 DEF PosixInv, PosixStates, PosixRecords, Places, StartUp, Dismissal, Faultless
  <2>6. QED  BY <2>2, <2>3, <2>4, <2>5 DEF PosixInv
<1>2. ASSUME /\ posixPc = "await dog"
             /\ dog = "gone"
             /\ dogCode = "0"
             /\ posixPc' = "join"
             /\ UNCHANGED <<root, exit, kid, posixKilled, dog, dogCode, pipe, pgid,
                            posixCalled, posixReader, posixSink, posixRep,
                            posixInterrupts>>
      PROVE  PosixInv(g)'
  <2>1. posixPc' \in Places  BY <1>2 DEF PosixInv, PosixStates, Places
  <2>2. PosixStates'  BY <1>2, <2>1, StatesStay DEF PosixInv
  <2>3. PosixRecords'  BY <1>2 DEF PosixInv, PosixRecords
  <2>4. StartUp(g)' /\ Dismissal(g)' /\ ReaderSaw'
    BY <1>2 DEF PosixInv, PosixStates, PosixRecords, Places, StartUp, Dismissal, ReaderSaw
  <2>5. Faultless(g)'
    BY <1>2 DEF PosixInv, PosixStates, PosixRecords, Places, StartUp, Dismissal, Faultless
  <2>6. QED  BY <2>2, <2>3, <2>4, <2>5 DEF PosixInv
<1>3. ASSUME /\ posixPc = "await dog"
             /\ dog = "gone"
             /\ posixPc' = "join"
             /\ posixRep' = [posixRep EXCEPT !.faults = @ \cup {"infrastructure"}]
             /\ UNCHANGED <<root, exit, kid, posixKilled, dog, dogCode, pipe, pgid,
                            posixCalled, posixReader, posixSink, posixInterrupts>>
      PROVE  PosixInv(g)'
  <2>1. /\ posixRep' \in [faults : SUBSET Fault, reason : BOOLEAN, quiesced : BOOLEAN,
                      escapes : BOOLEAN]
        /\ posixRep'.faults # {}
        /\ posixRep'.quiesced => posixRep.quiesced
    BY <1>3, FaultNames DEF PosixInv, PosixRecords
  <2>2. QED  BY <1>3, <2>1, ReportKept DEF Surroundings
<1>4. ASSUME /\ posixPc = "await dog"
             /\ dog \notin {"none", "gone"}
             /\ posixPc' = "join"
             /\ dog' = "gone"
             /\ dogCode' = "killed"
             /\ posixRep' = [posixRep EXCEPT !.faults = @ \cup {"infrastructure"}]
             /\ UNCHANGED <<root, exit, kid, posixKilled, pipe, pgid, posixCalled,
                            posixReader, posixSink, posixInterrupts>>
      PROVE  PosixInv(g)'
  <2>1. /\ posixRep' \in [faults : SUBSET Fault, reason : BOOLEAN, quiesced : BOOLEAN,
                      escapes : BOOLEAN]
        /\ posixRep'.faults = posixRep.faults \cup {"infrastructure"}
        /\ posixRep'.quiesced = posixRep.quiesced
    BY <1>4, FaultNames DEF PosixInv, PosixRecords
  <2>2. posixPc' \in Places  BY <1>4, <2>1 DEF PosixInv, PosixStates, Places
  <2>3. PosixStates'  BY <1>4, <2>1, <2>2 DEF PosixInv, PosixStates
  <2>4. PosixRecords'  BY <1>4, <2>1 DEF PosixInv, PosixRecords
  <2>5. StartUp(g)'  BY <1>4, <2>1 DEF PosixInv, PosixStates, PosixRecords, StartUp
  <2>6. Dismissal(g)' /\ ReaderSaw'
    BY <1>4, <2>1
    DEF PosixInv, PosixStates, PosixRecords, Places, StartUp, Dismissal, ReaderSaw
  <2>7. Faultless(g)'
    BY <1>4, <2>1
    DEF PosixInv, PosixStates, PosixRecords, Places, StartUp, Dismissal, Faultless
  <2>8. QED  BY <2>3, <2>4, <2>5, <2>6, <2>7 DEF PosixInv
<1>5. QED  BY <1>1, <1>2, <1>3, <1>4 DEF Posix!AwaitDog, Posix!Goto, Posix!Report

\* The reader is joined.
LEMMA JoinKept ==
  ASSUME NEW g \in BOOLEAN, NEW d \in BOOLEAN, PosixInv(g), Posix(g, d)!Join
  PROVE  PosixInv(g)'
<1>1. ASSUME /\ posixPc = "join"
             /\ posixReader # "reading"
             /\ ~posixSink.error
             /\ posixPc' \in {"returned", "raised"}
             /\ posixRep' = [posixRep EXCEPT !.faults = @ \cup {}]
             /\ UNCHANGED <<root, exit, kid, posixKilled, dog, dogCode, pipe, pgid,
                            posixCalled, posixReader, posixSink, posixInterrupts>>
      PROVE  PosixInv(g)'
  <2>1. /\ posixRep' \in [faults : SUBSET Fault, reason : BOOLEAN, quiesced : BOOLEAN,
                      escapes : BOOLEAN]
        /\ posixRep'.faults = posixRep.faults \cup {}
        /\ posixRep'.quiesced = posixRep.quiesced
    BY <1>1, FaultNames DEF PosixInv, PosixRecords
  <2>2. posixPc' \in Places  BY <1>1, <2>1 DEF PosixInv, PosixStates, Places
  <2>3. PosixStates'  BY <1>1, <2>1, <2>2, StatesStay DEF PosixInv
  <2>4. PosixRecords'  BY <1>1, <2>1 DEF PosixInv, PosixRecords
  <2>5. StartUp(g)' /\ Dismissal(g)' /\ ReaderSaw'
    BY <1>1, <2>1
    DEF PosixInv, PosixStates, PosixRecords, Places, StartUp, Dismissal, ReaderSaw
  <2>6. Faultless(g)'
    BY <1>1, <2>1
    DEF PosixInv, PosixStates, PosixRecords, Places, StartUp, Dismissal, Faultless
  <2>7. QED  BY <2>3, <2>4, <2>5, <2>6 DEF PosixInv
<1>2. ASSUME /\ posixPc = "join"
             /\ posixPc' \in {"returned", "raised"}
             /\ posixRep' = [posixRep EXCEPT !.faults = @ \cup {"thread"}]
             /\ UNCHANGED <<root, exit, kid, posixKilled, dog, dogCode, pipe, pgid,
                            posixCalled, posixReader, posixSink, posixInterrupts>>
      PROVE  PosixInv(g)'
  <2>1. /\ posixRep' \in [faults : SUBSET Fault, reason : BOOLEAN, quiesced : BOOLEAN,
                      escapes : BOOLEAN]
        /\ posixRep'.faults # {}
        /\ posixRep'.quiesced => posixRep.quiesced
    BY <1>2, FaultNames DEF PosixInv, PosixRecords
  <2>2. QED  BY <1>2, <2>1, ReportKept DEF Surroundings
<1>3. ASSUME /\ posixPc = "join"
             /\ posixPc' \in {"returned", "raised"}
             /\ posixRep' = [posixRep EXCEPT !.faults = @ \cup {"thread", "pipe"}]
             /\ UNCHANGED <<root, exit, kid, posixKilled, dog, dogCode, pipe, pgid,
                            posixCalled, posixReader, posixSink, posixInterrupts>>
      PROVE  PosixInv(g)'
  <2>1. /\ posixRep' \in [faults : SUBSET Fault, reason : BOOLEAN, quiesced : BOOLEAN,
                      escapes : BOOLEAN]
        /\ posixRep'.faults # {}
        /\ posixRep'.quiesced => posixRep.quiesced
    BY <1>3, FaultNames DEF PosixInv, PosixRecords
  <2>2. QED  BY <1>3, <2>1, ReportKept DEF Surroundings
<1>4. QED
  BY <1>1, <1>2, <1>3 DEF Posix!Join, Posix!Goto, Posix!Report, Posix!world, Posix!Leave

\* An interrupt, wherever it hits.
LEMMA InterruptKept ==
  ASSUME NEW g \in BOOLEAN, NEW d \in BOOLEAN, PosixInv(g), Posix(g, d)!Interrupt
  PROVE  PosixInv(g)'
<1>1. posixInterrupts' \in 0..MaxInterrupts
  <2>1. posixInterrupts < MaxInterrupts /\ posixInterrupts' = posixInterrupts + 1
    BY DEF Posix!Interrupt
  <2>2. posixInterrupts \in 0..MaxInterrupts  BY DEF PosixInv, PosixRecords
  <2>3. QED  BY <2>1, <2>2, WindowsJobAssumption
<1>2. ASSUME /\ posixPc \in {"spawn dog", "spawn", "identify"}
             /\ posixPc' = "finally"
             /\ posixInterrupts' \in 0..MaxInterrupts
             /\ posixRep' = [posixRep EXCEPT !.faults = @ \cup {"launch"}]
             /\ UNCHANGED <<root, exit, kid, posixKilled, dog, dogCode, pipe, pgid,
                            posixCalled, posixReader, posixSink>>
      PROVE  PosixInv(g)'
  <2>1. /\ posixRep' \in [faults : SUBSET Fault, reason : BOOLEAN, quiesced : BOOLEAN,
                      escapes : BOOLEAN]
        /\ posixRep'.faults # {}
        /\ posixRep'.quiesced => posixRep.quiesced
    BY <1>2, FaultNames DEF PosixInv, PosixRecords
  <2>2. QED  BY <1>2, <2>1, ReportKept DEF Surroundings
<1>3. ASSUME /\ posixPc = "except wait"
             /\ posixPc' = "except quiesce"
             /\ posixInterrupts' \in 0..MaxInterrupts
             /\ posixRep' = [posixRep EXCEPT !.faults = @ \cup {"infrastructure"}]
             /\ UNCHANGED <<root, exit, kid, posixKilled, dog, dogCode, pipe, pgid,
                            posixCalled, posixReader, posixSink>>
      PROVE  PosixInv(g)'
  <2>1. /\ posixRep' \in [faults : SUBSET Fault, reason : BOOLEAN, quiesced : BOOLEAN,
                      escapes : BOOLEAN]
        /\ posixRep'.faults # {}
        /\ posixRep'.quiesced => posixRep.quiesced
    BY <1>3, FaultNames DEF PosixInv, PosixRecords
  <2>2. QED  BY <1>3, <2>1, ReportKept DEF Surroundings
<1>4. ASSUME /\ posixPc = "final wait"
             /\ posixPc' = "final quiesce"
             /\ posixInterrupts' \in 0..MaxInterrupts
             /\ posixRep' = [posixRep EXCEPT !.faults = @ \cup {"infrastructure"}]
             /\ UNCHANGED <<root, exit, kid, posixKilled, dog, dogCode, pipe, pgid,
                            posixCalled, posixReader, posixSink>>
      PROVE  PosixInv(g)'
  <2>1. /\ posixRep' \in [faults : SUBSET Fault, reason : BOOLEAN, quiesced : BOOLEAN,
                      escapes : BOOLEAN]
        /\ posixRep'.faults # {}
        /\ posixRep'.quiesced => posixRep.quiesced
    BY <1>4, FaultNames DEF PosixInv, PosixRecords
  <2>2. QED  BY <1>4, <2>1, ReportKept DEF Surroundings
<1>5. ASSUME /\ posixPc = "except quiesce"
             /\ posixPc' = "finally"
             /\ posixInterrupts' \in 0..MaxInterrupts
             /\ posixRep' = [posixRep EXCEPT !.escapes = TRUE]
             /\ UNCHANGED <<root, exit, kid, posixKilled, dog, dogCode, pipe, pgid,
                            posixCalled, posixReader, posixSink>>
      PROVE  PosixInv(g)'
  <2>1. /\ posixRep' \in [faults : SUBSET Fault, reason : BOOLEAN, quiesced : BOOLEAN,
                      escapes : BOOLEAN]
        /\ posixRep'.faults = posixRep.faults
        /\ posixRep'.quiesced = posixRep.quiesced
    BY <1>5, FaultNames DEF PosixInv, PosixRecords
  <2>2. posixPc' \in Places  BY <1>5, <2>1 DEF PosixInv, PosixStates, Places
  <2>3. PosixStates'  BY <1>5, <2>1, <2>2, StatesStay DEF PosixInv
  <2>4. PosixRecords'  BY <1>5, <2>1 DEF PosixInv, PosixRecords
  <2>5. StartUp(g)' /\ Dismissal(g)' /\ ReaderSaw'
    BY <1>5, <2>1
    DEF PosixInv, PosixStates, PosixRecords, Places, StartUp, Dismissal, ReaderSaw
  <2>6. Faultless(g)'
    BY <1>5, <2>1
    DEF PosixInv, PosixStates, PosixRecords, Places, StartUp, Dismissal, Faultless
  <2>7. QED  BY <2>3, <2>4, <2>5, <2>6 DEF PosixInv
<1>6. ASSUME /\ posixPc \in {"finally", "final quiesce", "disarm", "join"}
             /\ posixPc' = "raised"
             /\ posixInterrupts' \in 0..MaxInterrupts
             /\ UNCHANGED <<root, exit, kid, posixKilled, dog, dogCode, pipe, pgid,
                            posixCalled, posixReader, posixSink, posixRep>>
      PROVE  PosixInv(g)'
  <2>1. posixPc' \in Places  BY <1>6 DEF PosixInv, PosixStates, Places
  <2>2. PosixStates'  BY <1>6, <2>1, StatesStay DEF PosixInv
  <2>3. PosixRecords'  BY <1>6 DEF PosixInv, PosixRecords
  <2>4. StartUp(g)' /\ Dismissal(g)' /\ ReaderSaw'
    <3>1. StartUp(g)'  BY <1>6 DEF PosixInv, PosixStates, PosixRecords, Places, StartUp
    <3>2. Dismissal(g)'  BY <1>6 DEF PosixInv, PosixStates, PosixRecords, Places, StartUp, Dismissal
    <3>3. ReaderSaw'  BY <1>6 DEF PosixInv, PosixStates, PosixRecords, Places, ReaderSaw
    <3>4. QED  BY <3>1, <3>2, <3>3
  <2>5. Faultless(g)'
    BY <1>6 DEF PosixInv, PosixStates, PosixRecords, Places, StartUp, Dismissal, Faultless
  <2>6. QED  BY <2>2, <2>3, <2>4, <2>5 DEF PosixInv
<1>7. ASSUME Posix(g, d)!Raise, posixPc \in Raising,
             posixInterrupts' \in 0..MaxInterrupts,
             UNCHANGED Surroundings
      PROVE  PosixInv(g)'
  BY <1>7, RaiseKept DEF PosixInv, PosixRecords
<1>8. QED
  BY <1>1, <1>2, <1>3, <1>4, <1>5, <1>6, <1>7
  DEF Posix!Interrupt, Posix!Goto, Posix!Report, Surroundings, Raising

\* The process of the adapter ends.
LEMMA ProcessEndsKept ==
  ASSUME NEW g \in BOOLEAN, NEW d \in BOOLEAN, PosixInv(g), Posix(g, d)!ProcessEnds
  PROVE  PosixInv(g)'
<1>1. ASSUME /\ posixReader = "reading"
             /\ posixPc' = "dead"
             /\ pipe' = [c \in {"guard config", "release", "dog config", "live"} |->
                                 IF pipe[c] = "open" THEN "eof" ELSE pipe[c]]
             /\ posixReader' = "done"
             /\ UNCHANGED <<root, exit, kid, posixKilled, dog, dogCode, pgid,
                            posixCalled, posixSink, posixRep, posixInterrupts>>
      PROVE  PosixInv(g)'
  <2>1. /\ pipe' \in [{"guard config", "release", "dog config", "live"} ->
                       {"open", "sent", "done", "eof"}]
        /\ pipe'["release"] = "sent" => pipe["release"] = "sent"
        /\ pipe'["live"] = "done" => pipe["live"] = "done"
    BY <1>1 DEF PosixInv, PosixRecords
  <2>2. posixPc' \in Places  BY <1>1, <2>1 DEF PosixInv, PosixStates, Places
  <2>3. PosixStates'
    <3>1. posixReader' \in {"none", "reading", "done"}  BY <1>1
    <3>2. /\ root' \in {"none", "config", "ready", "target", "gone"}
          /\ exit' \in {"ok", "bad", "none"} /\ (exit' # "none" <=> root' = "gone")
          /\ kid' \in {"none", "in", "out", "away"}
      BY <1>1 DEF PosixInv, PosixStates
    <3>3. QED  BY <1>1, <2>2, <3>1, <3>2 DEF PosixInv, PosixStates
  <2>4. PosixRecords'  BY <1>1, <2>1 DEF PosixInv, PosixRecords
  <2>5. StartUp(g)' /\ Dismissal(g)' /\ ReaderSaw'
    BY <1>1, <2>1
    DEF PosixInv, PosixStates, PosixRecords, Places, StartUp, Dismissal, ReaderSaw
  <2>6. Faultless(g)'
    BY <1>1, <2>1
    DEF PosixInv, PosixStates, PosixRecords, Places, StartUp, Dismissal, Faultless
  <2>7. QED  BY <2>3, <2>4, <2>5, <2>6 DEF PosixInv
<1>2. ASSUME /\ posixPc' = "dead"
             /\ pipe' = [c \in {"guard config", "release", "dog config", "live"} |->
                                 IF pipe[c] = "open" THEN "eof" ELSE pipe[c]]
             /\ UNCHANGED <<root, exit, kid, posixKilled, dog, dogCode, pgid,
                            posixCalled, posixReader, posixSink, posixRep,
                            posixInterrupts>>
      PROVE  PosixInv(g)'
  <2>1. /\ pipe' \in [{"guard config", "release", "dog config", "live"} ->
                       {"open", "sent", "done", "eof"}]
        /\ pipe'["release"] = "sent" => pipe["release"] = "sent"
        /\ pipe'["live"] = "done" => pipe["live"] = "done"
    BY <1>2 DEF PosixInv, PosixRecords
  <2>2. posixPc' \in Places  BY <1>2, <2>1 DEF PosixInv, PosixStates, Places
  <2>3. PosixStates'  BY <1>2, <2>1, <2>2, StatesStay DEF PosixInv
  <2>4. PosixRecords'  BY <1>2, <2>1 DEF PosixInv, PosixRecords
  <2>5. StartUp(g)' /\ Dismissal(g)' /\ ReaderSaw'
    BY <1>2, <2>1
    DEF PosixInv, PosixStates, PosixRecords, Places, StartUp, Dismissal, ReaderSaw
  <2>6. Faultless(g)'
    BY <1>2, <2>1
    DEF PosixInv, PosixStates, PosixRecords, Places, StartUp, Dismissal, Faultless
  <2>7. QED  BY <2>3, <2>4, <2>5, <2>6 DEF PosixInv
<1>3. QED  BY <1>1, <1>2 DEF Posix!ProcessEnds, Posix!Goto, Posix!Closed, Posix!Control

\* The guard reads its configuration.
LEMMA GuardReadsKept ==
  ASSUME NEW g \in BOOLEAN, NEW d \in BOOLEAN, PosixInv(g), Posix(g, d)!GuardReads
  PROVE  PosixInv(g)'
<1>1. ASSUME /\ root = "config"
             /\ root' = "ready"
             /\ UNCHANGED <<posixPc, exit, kid, posixKilled, dog, dogCode, pipe, pgid,
                            posixCalled, posixReader, posixSink, posixRep,
                            posixInterrupts>>
      PROVE  PosixInv(g)'
  <2>1. PosixStates'  BY <1>1 DEF PosixInv, PosixStates
  <2>2. PosixRecords'  BY <1>1 DEF PosixInv, PosixRecords
  <2>3. StartUp(g)' /\ Dismissal(g)' /\ ReaderSaw'
    BY <1>1 DEF PosixInv, PosixStates, PosixRecords, Places, StartUp, Dismissal, ReaderSaw
  <2>4. Faultless(g)'
    BY <1>1 DEF PosixInv, PosixStates, PosixRecords, Places, StartUp, Dismissal, Faultless
  <2>5. QED  BY <2>1, <2>2, <2>3, <2>4 DEF PosixInv
<1>2. ASSUME /\ root = "config"
             /\ root' = "gone"
             /\ exit' = "bad"
             /\ UNCHANGED <<posixPc, kid, posixKilled, dog, dogCode, pipe, pgid,
                            posixCalled, posixReader, posixSink, posixRep,
                            posixInterrupts>>
      PROVE  PosixInv(g)'
  <2>1. PosixStates'  BY <1>2 DEF PosixInv, PosixStates
  <2>2. PosixRecords'  BY <1>2 DEF PosixInv, PosixRecords
  <2>3. StartUp(g)' /\ Dismissal(g)' /\ ReaderSaw'
    <3>1. StartUp(g)'  BY <1>2 DEF PosixInv, PosixStates, PosixRecords, Places, StartUp
    <3>2. Dismissal(g)'  BY <1>2 DEF PosixInv, PosixStates, PosixRecords, Places, StartUp, Dismissal
    <3>3. ReaderSaw'  BY <1>2 DEF PosixInv, PosixStates, PosixRecords, Places, ReaderSaw
    <3>4. QED  BY <3>1, <3>2, <3>3
  <2>4. Faultless(g)'
    BY <1>2 DEF PosixInv, PosixStates, PosixRecords, Places, StartUp, Dismissal, Faultless
  <2>5. QED  BY <2>1, <2>2, <2>3, <2>4 DEF PosixInv
<1>3. QED  BY <1>1, <1>2 DEF Posix!GuardReads, Posix!Gone

\* The guard becomes the target, or leaves.
LEMMA GuardDecidesKept ==
  ASSUME NEW g \in BOOLEAN, NEW d \in BOOLEAN, PosixInv(g), Posix(g, d)!GuardDecides
  PROVE  PosixInv(g)'
<1>1. ASSUME /\ root = "ready"
             /\ pipe["release"] = "sent"
             /\ root' = "target"
             /\ UNCHANGED <<posixPc, exit, kid, posixKilled, dog, dogCode, pipe, pgid,
                            posixCalled, posixReader, posixSink, posixRep,
                            posixInterrupts>>
      PROVE  PosixInv(g)'
  <2>1. PosixStates'  BY <1>1 DEF PosixInv, PosixStates, StartUp
  <2>2. PosixRecords'  BY <1>1 DEF PosixInv, PosixRecords
  <2>3. StartUp(g)' /\ Dismissal(g)' /\ ReaderSaw'
    BY <1>1 DEF PosixInv, PosixStates, PosixRecords, Places, StartUp, Dismissal, ReaderSaw
  <2>4. Faultless(g)'
    BY <1>1 DEF PosixInv, PosixStates, PosixRecords, Places, StartUp, Dismissal, Faultless
  <2>5. QED  BY <2>1, <2>2, <2>3, <2>4 DEF PosixInv
<1>2. ASSUME /\ root = "ready"
             /\ root' = "gone"
             /\ exit' = "bad"
             /\ UNCHANGED <<posixPc, kid, posixKilled, dog, dogCode, pipe, pgid,
                            posixCalled, posixReader, posixSink, posixRep,
                            posixInterrupts>>
      PROVE  PosixInv(g)'
  <2>1. PosixStates'  BY <1>2 DEF PosixInv, PosixStates
  <2>2. PosixRecords'  BY <1>2 DEF PosixInv, PosixRecords
  <2>3. StartUp(g)' /\ Dismissal(g)' /\ ReaderSaw'
    BY <1>2 DEF PosixInv, PosixStates, PosixRecords, Places, StartUp, Dismissal, ReaderSaw
  <2>4. Faultless(g)'
    BY <1>2 DEF PosixInv, PosixStates, PosixRecords, Places, StartUp, Dismissal, Faultless
  <2>5. QED  BY <2>1, <2>2, <2>3, <2>4 DEF PosixInv
<1>3. QED  BY <1>1, <1>2 DEF Posix!GuardDecides, Posix!Gone

\* The target and its descendant.
LEMMA TargetStepKept ==
  ASSUME NEW g \in BOOLEAN, NEW d \in BOOLEAN, PosixInv(g), Posix(g, d)!TargetStep
  PROVE  PosixInv(g)'
<1>1. ASSUME /\ root = "target"
             /\ kid = "none"
             /\ kid' = "in"
             /\ UNCHANGED <<posixPc, root, exit, posixKilled, dog, dogCode, pipe, pgid,
                            posixCalled, posixReader, posixSink, posixRep,
                            posixInterrupts>>
      PROVE  PosixInv(g)'
  <2>1. PosixStates'  BY <1>1 DEF PosixInv, PosixStates
  <2>2. PosixRecords'  BY <1>1 DEF PosixInv, PosixRecords
  <2>3. StartUp(g)' /\ Dismissal(g)' /\ ReaderSaw'
    BY <1>1 DEF PosixInv, PosixStates, PosixRecords, Places, StartUp, Dismissal, ReaderSaw
  <2>4. Faultless(g)'
    BY <1>1 DEF PosixInv, PosixStates, PosixRecords, Places, StartUp, Dismissal, Faultless
  <2>5. QED  BY <2>1, <2>2, <2>3, <2>4 DEF PosixInv
<1>2. ASSUME /\ root = "target"
             /\ root' = "gone"
             /\ exit' = "ok"
             /\ UNCHANGED <<posixPc, kid, posixKilled, dog, dogCode, pipe, pgid,
                            posixCalled, posixReader, posixSink, posixRep,
                            posixInterrupts>>
      PROVE  PosixInv(g)'
  <2>1. PosixStates'  BY <1>2 DEF PosixInv, PosixStates
  <2>2. PosixRecords'  BY <1>2 DEF PosixInv, PosixRecords
  <2>3. StartUp(g)' /\ Dismissal(g)' /\ ReaderSaw'
    BY <1>2 DEF PosixInv, PosixStates, PosixRecords, Places, StartUp, Dismissal, ReaderSaw
  <2>4. Faultless(g)'
    BY <1>2 DEF PosixInv, PosixStates, PosixRecords, Places, StartUp, Dismissal, Faultless
  <2>5. QED  BY <2>1, <2>2, <2>3, <2>4 DEF PosixInv
<1>3. ASSUME /\ root \notin {"none", "gone"}
             /\ root' = "gone"
             /\ exit' = "bad"
             /\ UNCHANGED <<posixPc, kid, posixKilled, dog, dogCode, pipe, pgid,
                            posixCalled, posixReader, posixSink, posixRep,
                            posixInterrupts>>
      PROVE  PosixInv(g)'
  <2>1. PosixStates'  BY <1>3 DEF PosixInv, PosixStates
  <2>2. PosixRecords'  BY <1>3 DEF PosixInv, PosixRecords
  <2>3. StartUp(g)' /\ Dismissal(g)' /\ ReaderSaw'
    BY <1>3 DEF PosixInv, PosixStates, PosixRecords, Places, StartUp, Dismissal, ReaderSaw
  <2>4. Faultless(g)'
    BY <1>3 DEF PosixInv, PosixStates, PosixRecords, Places, StartUp, Dismissal, Faultless
  <2>5. QED  BY <2>1, <2>2, <2>3, <2>4 DEF PosixInv
<1>4. ASSUME /\ kid = "in"
             /\ kid' \in {"out", "none"}
             /\ UNCHANGED <<posixPc, root, exit, posixKilled, dog, dogCode, pipe, pgid,
                            posixCalled, posixReader, posixSink, posixRep,
                            posixInterrupts>>
      PROVE  PosixInv(g)'
  <2>1. PosixStates'  BY <1>4 DEF PosixInv, PosixStates
  <2>2. PosixRecords'  BY <1>4 DEF PosixInv, PosixRecords
  <2>3. StartUp(g)' /\ Dismissal(g)' /\ ReaderSaw'
    <3>1. StartUp(g)'  BY <1>4 DEF PosixInv, PosixStates, PosixRecords, Places, StartUp
    <3>2. Dismissal(g)'  BY <1>4 DEF PosixInv, PosixStates, PosixRecords, Places, StartUp, Dismissal
    <3>3. ReaderSaw'  BY <1>4 DEF PosixInv, PosixStates, PosixRecords, Places, ReaderSaw
    <3>4. QED  BY <3>1, <3>2, <3>3
  <2>4. Faultless(g)'
    BY <1>4 DEF PosixInv, PosixStates, PosixRecords, Places, StartUp, Dismissal, Faultless
  <2>5. QED  BY <2>1, <2>2, <2>3, <2>4 DEF PosixInv
<1>5. QED  BY <1>1, <1>2, <1>3, <1>4 DEF Posix!TargetStep, Posix!Gone, Posix!RootAlive

\* A descendant that left the group.
LEMMA AwayStepKept ==
  ASSUME NEW g \in BOOLEAN, NEW d \in BOOLEAN, PosixInv(g), Posix(g, d)!AwayStep
  PROVE  PosixInv(g)'
<1>1. /\ kid = "out"
      /\ kid' = "away"
      /\ UNCHANGED <<posixPc, root, exit, posixKilled, dog, dogCode, pipe, pgid,
                     posixCalled, posixReader, posixSink, posixRep, posixInterrupts>>
  BY DEF Posix!AwayStep
<1>2. PosixStates'  BY <1>1 DEF PosixInv, PosixStates
<1>3. PosixRecords'  BY <1>1 DEF PosixInv, PosixRecords
<1>4. StartUp(g)' /\ Dismissal(g)' /\ ReaderSaw'
  <2>1. StartUp(g)'  BY <1>1 DEF PosixInv, PosixStates, PosixRecords, Places, StartUp
  <2>2. Dismissal(g)'  BY <1>1 DEF PosixInv, PosixStates, PosixRecords, Places, StartUp, Dismissal
  <2>3. ReaderSaw'  BY <1>1 DEF PosixInv, PosixStates, PosixRecords, Places, ReaderSaw
  <2>4. QED  BY <2>1, <2>2, <2>3
<1>5. Faultless(g)'
  BY <1>1 DEF PosixInv, PosixStates, PosixRecords, Places, StartUp, Dismissal, Faultless
<1>6. QED  BY <1>2, <1>3, <1>4, <1>5 DEF PosixInv

\* The group is hit by its signal.
LEMMA SignalKept ==
  ASSUME NEW g \in BOOLEAN, NEW d \in BOOLEAN, PosixInv(g), Posix(g, d)!Signal
  PROVE  PosixInv(g)'
<1>1. ASSUME /\ root \notin {"none", "gone"}
             /\ root' = "gone"
             /\ exit' = "bad"
             /\ UNCHANGED <<posixPc, kid, posixKilled, dog, dogCode, pipe, pgid,
                            posixCalled, posixReader, posixSink, posixRep,
                            posixInterrupts>>
      PROVE  PosixInv(g)'
  <2>1. PosixStates'  BY <1>1 DEF PosixInv, PosixStates
  <2>2. PosixRecords'  BY <1>1 DEF PosixInv, PosixRecords
  <2>3. StartUp(g)' /\ Dismissal(g)' /\ ReaderSaw'
    BY <1>1 DEF PosixInv, PosixStates, PosixRecords, Places, StartUp, Dismissal, ReaderSaw
  <2>4. Faultless(g)'
    BY <1>1 DEF PosixInv, PosixStates, PosixRecords, Places, StartUp, Dismissal, Faultless
  <2>5. QED  BY <2>1, <2>2, <2>3, <2>4 DEF PosixInv
<1>2. ASSUME /\ kid = "in"
             /\ kid' = "none"
             /\ UNCHANGED <<posixPc, root, exit, posixKilled, dog, dogCode, pipe, pgid,
                            posixCalled, posixReader, posixSink, posixRep,
                            posixInterrupts>>
      PROVE  PosixInv(g)'
  <2>1. PosixStates'  BY <1>2 DEF PosixInv, PosixStates
  <2>2. PosixRecords'  BY <1>2 DEF PosixInv, PosixRecords
  <2>3. StartUp(g)' /\ Dismissal(g)' /\ ReaderSaw'
    <3>1. StartUp(g)'  BY <1>2 DEF PosixInv, PosixStates, PosixRecords, Places, StartUp
    <3>2. Dismissal(g)'  BY <1>2 DEF PosixInv, PosixStates, PosixRecords, Places, StartUp, Dismissal
    <3>3. ReaderSaw'  BY <1>2 DEF PosixInv, PosixStates, PosixRecords, Places, ReaderSaw
    <3>4. QED  BY <3>1, <3>2, <3>3
  <2>4. Faultless(g)'
    BY <1>2 DEF PosixInv, PosixStates, PosixRecords, Places, StartUp, Dismissal, Faultless
  <2>5. QED  BY <2>1, <2>2, <2>3, <2>4 DEF PosixInv
<1>3. QED  BY <1>1, <1>2 DEF Posix!Signal, Posix!Gone, Posix!RootAlive, Posix!GroupAlive

\* The reader stops.
LEMMA ReaderStepKept ==
  ASSUME NEW g \in BOOLEAN, NEW d \in BOOLEAN, PosixInv(g), Posix(g, d)!ReaderStep
  PROVE  PosixInv(g)'
<1>1. ASSUME /\ posixReader = "reading"
             /\ root \in {"none", "gone"}
             /\ kid \notin {"in", "out"}
             /\ posixReader' = "done"
             /\ UNCHANGED <<posixPc, root, exit, kid, posixKilled, dog, dogCode, pipe,
                            pgid, posixCalled, posixSink, posixRep, posixInterrupts>>
      PROVE  PosixInv(g)'
  <2>1. PosixStates'  BY <1>1 DEF PosixInv, PosixStates
  <2>2. PosixRecords'  BY <1>1 DEF PosixInv, PosixRecords
  <2>3. StartUp(g)' /\ Dismissal(g)' /\ ReaderSaw'
    BY <1>1 DEF PosixInv, PosixStates, PosixRecords, Places, StartUp, Dismissal, ReaderSaw
  <2>4. Faultless(g)'
    BY <1>1 DEF PosixInv, PosixStates, PosixRecords, Places, StartUp, Dismissal, Faultless
  <2>5. QED  BY <2>1, <2>2, <2>3, <2>4 DEF PosixInv
<1>2. ASSUME /\ posixReader = "reading"
             /\ posixReader' = "done"
             /\ posixSink' = [posixSink EXCEPT !.over = TRUE]
             /\ UNCHANGED <<posixPc, root, exit, kid, posixKilled, dog, dogCode, pipe,
                            pgid, posixCalled, posixRep, posixInterrupts>>
      PROVE  PosixInv(g)'
  <2>1. posixSink' \in [over : BOOLEAN, error : BOOLEAN]  BY <1>2 DEF PosixInv, PosixRecords
  <2>2. PosixStates'  BY <1>2, <2>1 DEF PosixInv, PosixStates
  <2>3. PosixRecords'  BY <1>2, <2>1 DEF PosixInv, PosixRecords
  <2>4. StartUp(g)' /\ Dismissal(g)' /\ ReaderSaw'
    BY <1>2, <2>1
    DEF PosixInv, PosixStates, PosixRecords, Places, StartUp, Dismissal, ReaderSaw
  <2>5. Faultless(g)'
    BY <1>2, <2>1
    DEF PosixInv, PosixStates, PosixRecords, Places, StartUp, Dismissal, Faultless
  <2>6. QED  BY <2>2, <2>3, <2>4, <2>5 DEF PosixInv
<1>3. ASSUME /\ posixReader = "reading"
             /\ posixReader' = "done"
             /\ posixSink' = [posixSink EXCEPT !.error = TRUE]
             /\ UNCHANGED <<posixPc, root, exit, kid, posixKilled, dog, dogCode, pipe,
                            pgid, posixCalled, posixRep, posixInterrupts>>
      PROVE  PosixInv(g)'
  <2>1. posixSink' \in [over : BOOLEAN, error : BOOLEAN]  BY <1>3 DEF PosixInv, PosixRecords
  <2>2. PosixStates'  BY <1>3, <2>1 DEF PosixInv, PosixStates
  <2>3. PosixRecords'  BY <1>3, <2>1 DEF PosixInv, PosixRecords
  <2>4. StartUp(g)' /\ Dismissal(g)' /\ ReaderSaw'
    BY <1>3, <2>1
    DEF PosixInv, PosixStates, PosixRecords, Places, StartUp, Dismissal, ReaderSaw
  <2>5. Faultless(g)'
    BY <1>3, <2>1
    DEF PosixInv, PosixStates, PosixRecords, Places, StartUp, Dismissal, Faultless
  <2>6. QED  BY <2>2, <2>3, <2>4, <2>5 DEF PosixInv
<1>4. QED  BY <1>1, <1>2, <1>3 DEF Posix!ReaderStep, Posix!RootAlive

\* The watchdog is configured, or gives up.
LEMMA DogReadsKept ==
  ASSUME NEW g \in BOOLEAN, NEW d \in BOOLEAN, PosixInv(g), Posix(g, d)!DogReads
  PROVE  PosixInv(g)'
<1>1. ASSUME /\ dog = "config"
             /\ dog' = "armed"
             /\ UNCHANGED <<posixPc, root, exit, kid, posixKilled, dogCode, pipe, pgid,
                            posixCalled, posixReader, posixSink, posixRep,
                            posixInterrupts>>
      PROVE  PosixInv(g)'
  <2>1. PosixStates'  BY <1>1 DEF PosixInv, PosixStates
  <2>2. PosixRecords'  BY <1>1 DEF PosixInv, PosixRecords
  <2>3. StartUp(g)'  BY <1>1 DEF PosixInv, PosixStates, PosixRecords, StartUp
  <2>4. Dismissal(g)' /\ ReaderSaw'
    BY <1>1 DEF PosixInv, PosixStates, PosixRecords, Places, StartUp, Dismissal, ReaderSaw
  <2>5. Faultless(g)'
    BY <1>1 DEF PosixInv, PosixStates, PosixRecords, Places, StartUp, Dismissal, Faultless
  <2>6. QED  BY <2>1, <2>2, <2>3, <2>4, <2>5 DEF PosixInv
<1>2. ASSUME /\ dog = "config"
             /\ dogCode' \in {"1", "120"}
             /\ dog' = "gone"
             /\ UNCHANGED <<posixPc, root, exit, kid, posixKilled, pipe, pgid,
                            posixCalled, posixReader, posixSink, posixRep,
                            posixInterrupts>>
      PROVE  PosixInv(g)'
  <2>1. PosixStates'  BY <1>2 DEF PosixInv, PosixStates
  <2>2. PosixRecords'  BY <1>2 DEF PosixInv, PosixRecords
  <2>3. StartUp(g)'  BY <1>2 DEF PosixInv, PosixStates, PosixRecords, StartUp
  <2>4. Dismissal(g)' /\ ReaderSaw'
    BY <1>2 DEF PosixInv, PosixStates, PosixRecords, Places, StartUp, Dismissal, ReaderSaw
  <2>5. Faultless(g)'
    BY <1>2 DEF PosixInv, PosixStates, PosixRecords, Places, StartUp, Dismissal, Faultless
  <2>6. QED  BY <2>1, <2>2, <2>3, <2>4, <2>5 DEF PosixInv
<1>3. QED
  BY <1>1, <1>2 DEF Posix!DogReads, Posix!DogEnds, Posix!RootAlive, Posix!GroupAlive

\* The watchdog is dismissed, or kills.
LEMMA DogDecidesKept ==
  ASSUME NEW g \in BOOLEAN, NEW d \in BOOLEAN, PosixInv(g), Posix(g, d)!DogDecides
  PROVE  PosixInv(g)'
<1>1. ASSUME /\ dog = "armed"
             /\ dog' = "gone"
             /\ dogCode' = "0"
             /\ UNCHANGED <<posixPc, root, exit, kid, posixKilled, pipe, pgid,
                            posixCalled, posixReader, posixSink, posixRep,
                            posixInterrupts>>
      PROVE  PosixInv(g)'
  <2>1. PosixStates'  BY <1>1 DEF PosixInv, PosixStates
  <2>2. PosixRecords'  BY <1>1 DEF PosixInv, PosixRecords
  <2>3. StartUp(g)'  BY <1>1 DEF PosixInv, PosixStates, PosixRecords, StartUp
  <2>4. Dismissal(g)' /\ ReaderSaw'
    BY <1>1 DEF PosixInv, PosixStates, PosixRecords, Places, StartUp, Dismissal, ReaderSaw
  <2>5. Faultless(g)'
    BY <1>1 DEF PosixInv, PosixStates, PosixRecords, Places, StartUp, Dismissal, Faultless
  <2>6. QED  BY <2>1, <2>2, <2>3, <2>4, <2>5 DEF PosixInv
<1>2. ASSUME /\ dog = "armed"
             /\ pipe["live"] = "eof"
             /\ dog' = "killing"
             /\ posixKilled' = TRUE
             /\ UNCHANGED <<posixPc, root, exit, kid, dogCode, pipe, pgid, posixCalled,
                            posixReader, posixSink, posixRep, posixInterrupts>>
      PROVE  PosixInv(g)'
  <2>1. PosixStates'  BY <1>2 DEF PosixInv, PosixStates
  <2>2. PosixRecords'  BY <1>2 DEF PosixInv, PosixRecords
  <2>3. StartUp(g)'  BY <1>2 DEF PosixInv, PosixStates, PosixRecords, StartUp
  <2>4. Dismissal(g)' /\ ReaderSaw'
    BY <1>2 DEF PosixInv, PosixStates, PosixRecords, Places, StartUp, Dismissal, ReaderSaw
  <2>5. Faultless(g)'
    BY <1>2 DEF PosixInv, PosixStates, PosixRecords, Places, StartUp, Dismissal, Faultless
  <2>6. QED  BY <2>1, <2>2, <2>3, <2>4, <2>5 DEF PosixInv
<1>3. QED  BY <1>1, <1>2 DEF Posix!DogDecides, Posix!DogEnds

\* The watchdog has killed.
LEMMA DogWaitsKept ==
  ASSUME NEW g \in BOOLEAN, NEW d \in BOOLEAN, PosixInv(g), Posix(g, d)!DogWaits
  PROVE  PosixInv(g)'
<1>1. /\ dog = "killing"
      /\ dogCode' \in {"0", "121"}
      /\ dog' = "gone"
      /\ UNCHANGED <<posixPc, root, exit, kid, posixKilled, pipe, pgid, posixCalled,
                     posixReader, posixSink, posixRep, posixInterrupts>>
  BY DEF Posix!DogWaits, Posix!DogEnds, Posix!RootAlive, Posix!GroupAlive
<1>2. PosixStates'  BY <1>1 DEF PosixInv, PosixStates
<1>3. PosixRecords'  BY <1>1 DEF PosixInv, PosixRecords
<1>4. StartUp(g)'  BY <1>1 DEF PosixInv, PosixStates, PosixRecords, StartUp
<1>5. Dismissal(g)' /\ ReaderSaw'
  BY <1>1 DEF PosixInv, PosixStates, PosixRecords, Places, StartUp, Dismissal, ReaderSaw
<1>6. Faultless(g)'
  BY <1>1 DEF PosixInv, PosixStates, PosixRecords, Places, StartUp, Dismissal, Faultless
<1>7. QED  BY <1>2, <1>3, <1>4, <1>5, <1>6 DEF PosixInv

\* The watchdog is killed.
LEMMA DogDiesKept ==
  ASSUME NEW g \in BOOLEAN, NEW d \in BOOLEAN, PosixInv(g), Posix(g, d)!DogDies
  PROVE  PosixInv(g)'
<1>1. /\ dog \in {"config", "armed", "killing"}
      /\ dog' = "gone"
      /\ dogCode' = "killed"
      /\ UNCHANGED <<posixPc, root, exit, kid, posixKilled, pipe, pgid, posixCalled,
                     posixReader, posixSink, posixRep, posixInterrupts>>
  BY DEF Posix!DogDies, Posix!DogEnds
<1>2. PosixStates'  BY <1>1 DEF PosixInv, PosixStates
<1>3. PosixRecords'  BY <1>1 DEF PosixInv, PosixRecords
<1>4. StartUp(g)'  BY <1>1 DEF PosixInv, PosixStates, PosixRecords, StartUp
<1>5. Dismissal(g)' /\ ReaderSaw'
  BY <1>1 DEF PosixInv, PosixStates, PosixRecords, Places, StartUp, Dismissal, ReaderSaw
<1>6. Faultless(g)'
  BY <1>1 DEF PosixInv, PosixStates, PosixRecords, Places, StartUp, Dismissal, Faultless
<1>7. QED  BY <1>2, <1>3, <1>4, <1>5, <1>6 DEF PosixInv

\* The invariant of the POSIX adapters, for every step.
LEMMA PosixKept ==
  ASSUME NEW g \in BOOLEAN, NEW d \in BOOLEAN, PosixInv(g), Posix(g, d)!Next
  PROVE  PosixInv(g)'
BY SpawnDogKept, SpawnRootKept, IdentifyKept, ConfigureKept, AwaitReadyKept, ArmKept,
   AwaitAckKept, CallbackKept, ReleaseKept, PollKept, WaitRootKept, SurvivorsKept,
   QuiesceKept, ExceptWaitKept, FinalKillKept, FinalWaitKept, DisarmKept, AwaitDogKept,
   JoinKept, InterruptKept, ProcessEndsKept, GuardReadsKept, GuardDecidesKept,
   TargetStepKept, AwayStepKept, SignalKept, ReaderStepKept, DogReadsKept, DogDecidesKept,
   DogWaitsKept, DogDiesKept
DEF Posix!Next, Posix!AdapterStep, Posix!GuardStep, Posix!DogStep

\* The invariant holds at the beginning.
LEMMA PosixBegins ==
  ASSUME NEW g \in BOOLEAN, NEW d \in BOOLEAN, Posix(g, d)!Init
  PROVE  PosixInv(g)
<1>1. /\ posixPc = (IF g THEN "spawn dog" ELSE "spawn")
      /\ root = "none" /\ exit = "none" /\ kid = "none" /\ posixKilled = FALSE
      /\ dog = "none" /\ dogCode = "none"
      /\ pipe = [c \in {"guard config", "release", "dog config", "live"} |-> "open"]
      /\ pgid = FALSE /\ posixCalled = FALSE /\ posixReader = "none"
      /\ posixSink = [over |-> FALSE, error |-> FALSE]
      /\ posixRep = [faults |-> {}, reason |-> FALSE, quiesced |-> FALSE, escapes |-> FALSE]
      /\ posixInterrupts = 0
  BY DEF Posix!Init, Posix!Control
<1>2. posixPc \in {"spawn dog", "spawn"} /\ (g => posixPc = "spawn dog")  BY <1>1
<1>3. PosixStates
  <2>1. posixPc \in Places  BY <1>2 DEF Places
  <2>2. QED  BY <1>1, <2>1 DEF PosixStates
<1>4. PosixRecords
  <2>1. posixInterrupts \in 0..MaxInterrupts
    <3>1. posixInterrupts = 0  BY <1>1
    <3>2. QED  BY <3>1, WindowsJobAssumption
  <2>2. /\ pipe \in [{"guard config", "release", "dog config", "live"} ->
                        {"open", "sent", "done", "eof"}]
        /\ posixSink \in [over : BOOLEAN, error : BOOLEAN]
    BY <1>1
  <2>3. posixRep \in [faults : SUBSET Fault, reason : BOOLEAN, quiesced : BOOLEAN,
                      escapes : BOOLEAN]
    BY <1>1
  <2>4. QED  BY <2>1, <2>2, <2>3 DEF PosixRecords
<1>5. /\ pipe["release"] = "open" /\ pipe["live"] = "open" /\ ~posixRep.quiesced
  BY <1>1
<1>6. StartUp(g) /\ Dismissal(g) /\ ReaderSaw
  BY <1>1, <1>2, <1>5 DEF StartUp, Dismissal, ReaderSaw
<1>7. Faultless(g)  BY <1>1, <1>2, <1>5 DEF Faultless
<1>8. QED  BY <1>3, <1>4, <1>6, <1>7 DEF PosixInv

\* Steps of the other adapters leave it alone.
LEMMA PosixStutter ==
  ASSUME NEW g \in BOOLEAN, PosixInv(g), UNCHANGED posixVars
  PROVE  PosixInv(g)'
<1>1. UNCHANGED <<posixPc, root, exit, kid, posixKilled, dog, dogCode, pipe, pgid,
                  posixCalled, posixReader, posixSink, posixRep, posixInterrupts>>
  BY DEF posixVars
<1>2. PosixStates'  BY <1>1, StatesStay DEF PosixInv
<1>3. PosixRecords'  BY <1>1 DEF PosixInv, PosixRecords
<1>4. StartUp(g)' /\ Dismissal(g)' /\ ReaderSaw'
  BY <1>1 DEF PosixInv, StartUp, Dismissal, ReaderSaw
<1>5. Faultless(g)'  BY <1>1 DEF PosixInv, Faultless
<1>6. QED  BY <1>2, <1>3, <1>4, <1>5 DEF PosixInv

\* Only the guard becomes the target, when it was released.
LEMMA ReleaseIsWatched ==
  ASSUME NEW d \in BOOLEAN, PosixInv(TRUE), Posix(TRUE, d)!Next, root # "target",
         root' = "target"
  PROVE  posixCalled /\ dog \notin {"none", "config"}
<1>1. pipe["release"] = "sent" \/ root' # "target"
  <2>1. CASE Posix(TRUE, d)!SpawnDog  BY <2>1 DEF Posix!SpawnDog
  <2>2. CASE Posix(TRUE, d)!Identify  BY <2>2 DEF Posix!Identify
  <2>3. CASE Posix(TRUE, d)!Configure  BY <2>3 DEF Posix!Configure, Posix!world
  <2>4. CASE Posix(TRUE, d)!AwaitReady  BY <2>4 DEF Posix!AwaitReady
  <2>5. CASE Posix(TRUE, d)!Arm  BY <2>5 DEF Posix!Arm, Posix!world
  <2>6. CASE Posix(TRUE, d)!AwaitAck  BY <2>6 DEF Posix!AwaitAck
  <2>7. CASE Posix(TRUE, d)!Callback  BY <2>7 DEF Posix!Callback
  <2>8. CASE Posix(TRUE, d)!Release  BY <2>8 DEF Posix!Release
  <2>9. CASE Posix(TRUE, d)!Poll  BY <2>9 DEF Posix!Poll
  <2>10. CASE Posix(TRUE, d)!WaitRoot  BY <2>10 DEF Posix!WaitRoot
  <2>11. CASE Posix(TRUE, d)!Survivors  BY <2>11 DEF Posix!Survivors
  <2>12. CASE Posix(TRUE, d)!Quiesce  BY <2>12 DEF Posix!Quiesce, Posix!world
  <2>13. CASE Posix(TRUE, d)!ExceptWait  BY <2>13 DEF Posix!ExceptWait, Posix!world
  <2>14. CASE Posix(TRUE, d)!FinalKill  BY <2>14 DEF Posix!FinalKill
  <2>15. CASE Posix(TRUE, d)!FinalWait  BY <2>15 DEF Posix!FinalWait, Posix!world
  <2>16. CASE Posix(TRUE, d)!Disarm  BY <2>16 DEF Posix!Disarm, Posix!world
  <2>17. CASE Posix(TRUE, d)!AwaitDog  BY <2>17 DEF Posix!AwaitDog
  <2>18. CASE Posix(TRUE, d)!Join  BY <2>18 DEF Posix!Join, Posix!world
  <2>19. CASE Posix(TRUE, d)!SpawnRoot  BY <2>19 DEF Posix!SpawnRoot
  <2>20. CASE Posix(TRUE, d)!Interrupt  BY <2>20 DEF Posix!Interrupt
  <2>21. CASE Posix(TRUE, d)!ProcessEnds  BY <2>21 DEF Posix!ProcessEnds
  <2>22. CASE Posix(TRUE, d)!GuardReads  BY <2>22 DEF Posix!GuardReads, Posix!Gone
  <2>23. CASE Posix(TRUE, d)!GuardDecides  BY <2>23 DEF Posix!GuardDecides, Posix!Gone
  <2>24. CASE Posix(TRUE, d)!TargetStep  BY <2>24 DEF Posix!TargetStep, Posix!Gone
  <2>25. CASE Posix(TRUE, d)!AwayStep  BY <2>25 DEF Posix!AwayStep
  <2>26. CASE Posix(TRUE, d)!Signal  BY <2>26 DEF Posix!Signal, Posix!Gone
  <2>27. CASE Posix(TRUE, d)!ReaderStep  BY <2>27 DEF Posix!ReaderStep
  <2>28. CASE Posix(TRUE, d)!DogReads  BY <2>28 DEF Posix!DogReads
  <2>29. CASE Posix(TRUE, d)!DogDecides  BY <2>29 DEF Posix!DogDecides
  <2>30. CASE Posix(TRUE, d)!DogWaits  BY <2>30 DEF Posix!DogWaits
  <2>31. CASE Posix(TRUE, d)!DogDies  BY <2>31 DEF Posix!DogDies
  <2>32. QED
    BY <2>1, <2>2, <2>3, <2>4, <2>5, <2>6, <2>7, <2>8, <2>9, <2>10, <2>11, <2>12, <2>13,
       <2>14, <2>15, <2>16, <2>17, <2>18, <2>19, <2>20, <2>21, <2>22, <2>23, <2>24, <2>25,
       <2>26, <2>27, <2>28, <2>29, <2>30, <2>31
    DEF Posix!Next, Posix!AdapterStep, Posix!GuardStep, Posix!DogStep
<1>2. QED  BY <1>1 DEF PosixInv, StartUp

\* The limits are faults.
LEMMA PostedFaults ==
  ASSUME WindowsShapes
  PROVE  posted \subseteq Fault
BY FaultNames DEF WindowsShapes, KernelOK

\* An exception of the body is reported, and a job that owns the target ends.
LEMMA ExceptKept ==
  ASSUME WindowsInv, pc \in Excepting, NEW F \in {{}, {"launch"}}, Except(F),
         held' = held \/ held' = held \ {"thread"},
         proc' = proc \/ proc' = [proc EXCEPT ![Root] = "bad"],
         interrupts' = interrupts \/ interrupts' \in 0..MaxInterrupts,
         UNCHANGED <<inJob, posted, assigned, called, finished, killed, stop, seen, reader,
                     sink, rounds>>
  PROVE  WindowsInv'
<1>1. /\ pc' = "finally"
      /\ doomed' = (doomed \/ assigned)
      /\ rep' \in [exit : {"ok", "bad", "none"}, faults : SUBSET Fault]
      /\ rep'.faults # {}
      /\ rep'.exit = rep.exit
  BY FaultNames DEF Except, Goto, WindowsInv, WindowsShapes
<1>2. pc' \in WindowsPlaces  BY <1>1 DEF WindowsPlaces, AtEnd
<1>3. WindowsShapes'
  <2>1. KernelOK'  BY <1>1 DEF WindowsInv, WindowsShapes, KernelOK
  <2>2. QED  BY <1>1, <1>2, <2>1 DEF WindowsInv, WindowsShapes
<1>4. WindowsTree'
  <2>1. \A p \in Proc : proc'[p] = proc[p] \/ proc'[p] = "bad"
    BY DEF WindowsInv, WindowsShapes, KernelOK
  <2>2. OnlyRootWaits' /\ RunsInJob'
    BY <2>1 DEF WindowsInv, WindowsTree, OnlyRootWaits, RunsInJob
  <2>3. ~finished
    BY DEF WindowsInv, WindowsTree, Excepting, InLoop, AtEnd
  <2>4. QED
    BY <1>1, <2>2, <2>3
    DEF WindowsInv, WindowsShapes, KernelOK, WindowsTree, InLoop, AtEnd, Excepting
<1>5. WindowsFaultless'  BY <1>1 DEF WindowsInv, WindowsFaultless
<1>6. WindowsLimits'
  BY <1>1 DEF WindowsInv, WindowsShapes, WindowsLimits, InLoop, AtEnd, Excepting
<1>7. QED  BY <1>3, <1>4, <1>5, <1>6 DEF WindowsInv

\* The raw files are created, or not.
LEMMA WindowsOpenSinksKept ==
  ASSUME WindowsInv, OpenSinks
  PROVE  WindowsInv'
<1>1. /\ pc = "sinks"
      /\ pc' \in {"job", "raised"}
      /\ UNCHANGED <<held, proc, inJob, doomed, posted, assigned, called, finished,
                     killed, stop, seen, reader, sink, rep, rounds, interrupts>>
  BY DEF OpenSinks, kernel
<1>2. pc' \in WindowsPlaces  BY <1>1 DEF WindowsPlaces, Excepting, InLoop, AtEnd
<1>3. WindowsShapes'  BY <1>1, <1>2 DEF WindowsInv, WindowsShapes, KernelOK, Proc
<1>4. WindowsTree'
  BY <1>1
  DEF WindowsInv, WindowsShapes, WindowsTree, OnlyRootWaits, RunsInJob, NoneLive, InLoop,
      AtEnd, Excepting, WindowsPlaces
<1>5. WindowsFaultless'
  BY <1>1
  DEF WindowsInv, WindowsShapes, WindowsTree, WindowsFaultless, InLoop, AtEnd, Excepting,
      WindowsPlaces
<1>6. WindowsLimits'
  BY <1>1
  DEF WindowsInv, WindowsShapes, WindowsTree, WindowsLimits, InLoop, AtEnd, Excepting,
      WindowsPlaces
<1>7. QED  BY <1>3, <1>4, <1>5, <1>6 DEF WindowsInv

\* The job is created, or there is an exception.
LEMMA WindowsNewJobKept ==
  ASSUME WindowsInv, NewJob
  PROVE  WindowsInv'
<1>1. ASSUME /\ pc = "job"
             /\ held' = {"job", "port"}
             /\ pc' = "create"
             /\ UNCHANGED <<proc, inJob, doomed, posted, assigned, called, finished,
                            killed, stop, seen, reader, sink, rep, rounds, interrupts>>
      PROVE  WindowsInv'
  <2>1. pc' \in WindowsPlaces  BY <1>1 DEF WindowsPlaces, Excepting, InLoop, AtEnd
  <2>2. WindowsShapes'  BY <1>1, <2>1 DEF WindowsInv, WindowsShapes, KernelOK, Proc
  <2>3. WindowsTree'
    BY <1>1
    DEF WindowsInv, WindowsShapes, WindowsTree, OnlyRootWaits, RunsInJob, NoneLive, InLoop,
        AtEnd, Excepting, WindowsPlaces
  <2>4. WindowsFaultless'
    BY <1>1
    DEF WindowsInv, WindowsShapes, WindowsTree, WindowsFaultless, InLoop, AtEnd, Excepting,
        WindowsPlaces
  <2>5. WindowsLimits'
    BY <1>1
    DEF WindowsInv, WindowsShapes, WindowsTree, WindowsLimits, InLoop, AtEnd, Excepting,
        WindowsPlaces
  <2>6. QED  BY <2>2, <2>3, <2>4, <2>5 DEF WindowsInv
<1>2. ASSUME /\ pc \in Excepting
             /\ Except({})
             /\ UNCHANGED <<held, proc, inJob, posted, assigned, called, finished,
                            killed, stop, seen, reader, sink, rounds, interrupts>>
      PROVE  WindowsInv'
  BY <1>2, ExceptKept
<1>3. QED  BY <1>1, <1>2 DEF NewJob, Goto, Excepting

\* The target is created suspended, or there is an exception.
LEMMA WindowsCreateKept ==
  ASSUME WindowsInv, Create
  PROVE  WindowsInv'
<1>1. ASSUME /\ pc = "create"
             /\ proc' = [proc EXCEPT ![Root] = "suspended"]
             /\ held' = held \cup {"process", "thread"}
             /\ pc' = "assign"
             /\ UNCHANGED <<inJob, doomed, posted, assigned, called, finished, killed,
                            stop, seen, reader, sink, rep, rounds, interrupts>>
      PROVE  WindowsInv'
  <2>1. pc' \in WindowsPlaces  BY <1>1 DEF WindowsPlaces, Excepting, InLoop, AtEnd
  <2>2. WindowsShapes'  BY <1>1, <2>1 DEF WindowsInv, WindowsShapes, KernelOK, Proc
  <2>3. WindowsTree'
    BY <1>1
    DEF WindowsInv, WindowsShapes, WindowsTree, OnlyRootWaits, RunsInJob, NoneLive, InLoop,
        AtEnd, Excepting, WindowsPlaces
  <2>4. WindowsFaultless'
    BY <1>1
    DEF WindowsInv, WindowsShapes, WindowsTree, WindowsFaultless, InLoop, AtEnd, Excepting,
        WindowsPlaces
  <2>5. WindowsLimits'
    BY <1>1
    DEF WindowsInv, WindowsShapes, WindowsTree, WindowsLimits, InLoop, AtEnd, Excepting,
        WindowsPlaces
  <2>6. QED  BY <2>2, <2>3, <2>4, <2>5 DEF WindowsInv
<1>2. ASSUME /\ pc \in Excepting
             /\ Except({"launch"})
             /\ UNCHANGED <<held, proc, inJob, posted, assigned, called, finished,
                            killed, stop, seen, reader, sink, rounds, interrupts>>
      PROVE  WindowsInv'
  BY <1>2, ExceptKept
<1>3. QED  BY <1>1, <1>2 DEF Create, Goto, Excepting

\* The target comes into the job, or is ended.
LEMMA WindowsAssignKept ==
  ASSUME WindowsInv, Assign
  PROVE  WindowsInv'
<1>1. ASSUME /\ pc = "assign"
             /\ inJob' = inJob \cup {Root}
             /\ assigned' = TRUE
             /\ pc' = "readers"
             /\ UNCHANGED <<held, proc, doomed, posted, called, finished, killed, stop,
                            seen, reader, sink, rep, rounds, interrupts>>
      PROVE  WindowsInv'
  <2>1. pc' \in WindowsPlaces  BY <1>1 DEF WindowsPlaces, Excepting, InLoop, AtEnd
  <2>2. WindowsShapes'
    <3>1. KernelOK'  BY <1>1 DEF WindowsInv, WindowsShapes, KernelOK, Proc
    <3>2. assigned' = (Root \in inJob')  BY <1>1 DEF WindowsInv, WindowsShapes
    <3>3. QED  BY <1>1, <2>1, <3>1, <3>2 DEF WindowsInv, WindowsShapes
  <2>3. WindowsTree'
    BY <1>1
    DEF WindowsInv, WindowsShapes, WindowsTree, OnlyRootWaits, RunsInJob, NoneLive, InLoop,
        AtEnd, Excepting, WindowsPlaces
  <2>4. WindowsFaultless'
    BY <1>1
    DEF WindowsInv, WindowsShapes, WindowsTree, WindowsFaultless, InLoop, AtEnd, Excepting,
        WindowsPlaces
  <2>5. WindowsLimits'
    BY <1>1
    DEF WindowsInv, WindowsShapes, WindowsTree, WindowsLimits, InLoop, AtEnd, Excepting,
        WindowsPlaces
  <2>6. QED  BY <2>2, <2>3, <2>4, <2>5 DEF WindowsInv
<1>2. ASSUME /\ pc \in Excepting
             /\ Except({"launch"})
             /\ proc' = [proc EXCEPT ![Root] = "bad"]
             /\ UNCHANGED <<held, inJob, posted, assigned, called, finished, killed,
                            stop, seen, reader, sink, rounds, interrupts>>
      PROVE  WindowsInv'
  BY <1>2, ExceptKept
<1>3. QED  BY <1>1, <1>2 DEF Assign, Goto, Excepting

\* The readers start, or there is an exception.
LEMMA WindowsStartReadersKept ==
  ASSUME WindowsInv, StartReaders
  PROVE  WindowsInv'
<1>1. ASSUME /\ pc = "readers"
             /\ reader' = "reading"
             /\ pc' = "callback"
             /\ UNCHANGED <<held, proc, inJob, doomed, posted, assigned, called,
                            finished, killed, stop, seen, sink, rep, rounds,
                            interrupts>>
      PROVE  WindowsInv'
  <2>1. pc' \in WindowsPlaces  BY <1>1 DEF WindowsPlaces, Excepting, InLoop, AtEnd
  <2>2. WindowsShapes'  BY <1>1, <2>1 DEF WindowsInv, WindowsShapes, KernelOK, Proc
  <2>3. WindowsTree'
    BY <1>1
    DEF WindowsInv, WindowsShapes, WindowsTree, OnlyRootWaits, RunsInJob, NoneLive, InLoop,
        AtEnd, Excepting, WindowsPlaces
  <2>4. WindowsFaultless'
    BY <1>1
    DEF WindowsInv, WindowsShapes, WindowsTree, WindowsFaultless, InLoop, AtEnd, Excepting,
        WindowsPlaces
  <2>5. WindowsLimits'
    BY <1>1
    DEF WindowsInv, WindowsShapes, WindowsTree, WindowsLimits, InLoop, AtEnd, Excepting,
        WindowsPlaces
  <2>6. QED  BY <2>2, <2>3, <2>4, <2>5 DEF WindowsInv
<1>2. ASSUME /\ pc \in Excepting
             /\ Except({})
             /\ UNCHANGED <<held, proc, inJob, posted, assigned, called, finished,
                            killed, stop, seen, reader, sink, rounds, interrupts>>
      PROVE  WindowsInv'
  BY <1>2, ExceptKept
<1>3. QED  BY <1>1, <1>2 DEF StartReaders, Goto, Excepting

\* The caller hears of it, and may object.
LEMMA WindowsCallbackKept ==
  ASSUME WindowsInv, Callback
  PROVE  WindowsInv'
<1>1. ASSUME /\ pc = "callback"
             /\ called' = TRUE
             /\ pc' = "resume"
             /\ UNCHANGED <<held, proc, inJob, doomed, posted, assigned, finished,
                            killed, stop, seen, reader, sink, rep, rounds, interrupts>>
      PROVE  WindowsInv'
  <2>1. pc' \in WindowsPlaces  BY <1>1 DEF WindowsPlaces, Excepting, InLoop, AtEnd
  <2>2. WindowsShapes'  BY <1>1, <2>1 DEF WindowsInv, WindowsShapes, KernelOK, Proc
  <2>3. WindowsTree'
    BY <1>1
    DEF WindowsInv, WindowsShapes, WindowsTree, OnlyRootWaits, RunsInJob, NoneLive, InLoop,
        AtEnd, Excepting, WindowsPlaces
  <2>4. WindowsFaultless'
    BY <1>1
    DEF WindowsInv, WindowsShapes, WindowsTree, WindowsFaultless, InLoop, AtEnd, Excepting,
        WindowsPlaces
  <2>5. WindowsLimits'
    BY <1>1
    DEF WindowsInv, WindowsShapes, WindowsTree, WindowsLimits, InLoop, AtEnd, Excepting,
        WindowsPlaces
  <2>6. QED  BY <2>2, <2>3, <2>4, <2>5 DEF WindowsInv
<1>2. ASSUME /\ pc \in Excepting
             /\ Except({})
             /\ UNCHANGED <<held, proc, inJob, posted, assigned, called, finished,
                            killed, stop, seen, reader, sink, rounds, interrupts>>
      PROVE  WindowsInv'
  BY <1>2, ExceptKept
<1>3. QED  BY <1>1, <1>2 DEF Callback, Goto, Excepting

\* The target runs, or there is an exception.
LEMMA WindowsResumeKept ==
  ASSUME WindowsInv, Resume
  PROVE  WindowsInv'
<1>1. ASSUME /\ pc = "resume"
             /\ held' = held \ {"thread"}
             /\ proc' = [proc EXCEPT ![Root] = IF @ = "suspended" THEN "running" ELSE @]
             /\ pc' = "drain"
             /\ UNCHANGED <<inJob, doomed, posted, assigned, called, finished, killed,
                            stop, seen, reader, sink, rep, rounds, interrupts>>
      PROVE  WindowsInv'
  <2>1. pc' \in WindowsPlaces  BY <1>1 DEF WindowsPlaces, Excepting, InLoop, AtEnd
  <2>2. WindowsShapes'  BY <1>1, <2>1 DEF WindowsInv, WindowsShapes, KernelOK, Proc
  <2>3. WindowsTree'
    BY <1>1
    DEF WindowsInv, WindowsShapes, WindowsTree, OnlyRootWaits, RunsInJob, NoneLive, InLoop,
        AtEnd, Excepting, WindowsPlaces
  <2>4. WindowsFaultless'
    BY <1>1
    DEF WindowsInv, WindowsShapes, WindowsTree, WindowsFaultless, InLoop, AtEnd, Excepting,
        WindowsPlaces
  <2>5. WindowsLimits'
    BY <1>1
    DEF WindowsInv, WindowsShapes, WindowsTree, WindowsLimits, InLoop, AtEnd, Excepting,
        WindowsPlaces
  <2>6. QED  BY <2>2, <2>3, <2>4, <2>5 DEF WindowsInv
<1>2. ASSUME /\ pc \in Excepting
             /\ Except({"launch"})
             /\ held' = held \ {"thread"}
             /\ UNCHANGED <<proc, inJob, posted, assigned, called, finished, killed,
                            stop, seen, reader, sink, rounds, interrupts>>
      PROVE  WindowsInv'
  BY <1>2, ExceptKept
<1>3. QED  BY <1>1, <1>2 DEF Resume, Goto, Excepting

\* The messages are taken.
LEMMA WindowsDrainKept ==
  ASSUME WindowsInv, Drain
  PROVE  WindowsInv'
<1>1. ASSUME /\ pc = "drain"
             /\ pc' = "sample"
             /\ seen' = posted
             /\ rep' = [rep EXCEPT !.faults = @ \cup posted]
             /\ stop' = (stop \/ posted \ seen # {})
             /\ UNCHANGED <<held, proc, inJob, doomed, posted, assigned, called,
                            finished, killed, reader, sink, rounds, interrupts>>
      PROVE  WindowsInv'
  <2>1. /\ rep' \in [exit : {"ok", "bad", "none"}, faults : SUBSET Fault]
        /\ rep'.faults = rep.faults \cup posted
        /\ rep'.exit = rep.exit
    BY <1>1, FaultNames, PostedFaults DEF WindowsInv, WindowsShapes, KernelOK
  <2>2. pc' \in WindowsPlaces  BY <1>1, <2>1 DEF WindowsPlaces, Excepting, InLoop, AtEnd
  <2>3. WindowsShapes'  BY <1>1, <2>1, <2>2 DEF WindowsInv, WindowsShapes, KernelOK, Proc
  <2>4. WindowsTree'
    BY <1>1, <2>1
    DEF WindowsInv, WindowsShapes, WindowsTree, OnlyRootWaits, RunsInJob, NoneLive, InLoop,
        AtEnd, Excepting, WindowsPlaces
  <2>5. WindowsFaultless'
    BY <1>1, <2>1
    DEF WindowsInv, WindowsShapes, WindowsTree, WindowsFaultless, InLoop, AtEnd, Excepting,
        WindowsPlaces
  <2>6. WindowsLimits'
    BY <1>1, <2>1
    DEF WindowsInv, WindowsShapes, WindowsTree, WindowsLimits, InLoop, AtEnd, Excepting,
        WindowsPlaces
  <2>7. QED  BY <2>3, <2>4, <2>5, <2>6 DEF WindowsInv
<1>2. ASSUME /\ pc = "drain"
             /\ pc' = "sample"
             /\ rep' = [rep EXCEPT !.faults = @ \cup {"infrastructure"}]
             /\ stop' = TRUE
             /\ UNCHANGED <<held, proc, inJob, doomed, posted, assigned, called,
                            finished, killed, seen, reader, sink, rounds, interrupts>>
      PROVE  WindowsInv'
  <2>1. /\ rep' \in [exit : {"ok", "bad", "none"}, faults : SUBSET Fault]
        /\ rep'.faults = rep.faults \cup {"infrastructure"}
        /\ rep'.exit = rep.exit
    BY <1>2, FaultNames, PostedFaults DEF WindowsInv, WindowsShapes, KernelOK
  <2>2. pc' \in WindowsPlaces  BY <1>2, <2>1 DEF WindowsPlaces, Excepting, InLoop, AtEnd
  <2>3. WindowsShapes'  BY <1>2, <2>1, <2>2 DEF WindowsInv, WindowsShapes, KernelOK, Proc
  <2>4. WindowsTree'
    BY <1>2, <2>1
    DEF WindowsInv, WindowsShapes, WindowsTree, OnlyRootWaits, RunsInJob, NoneLive, InLoop,
        AtEnd, Excepting, WindowsPlaces
  <2>5. WindowsFaultless'
    BY <1>2, <2>1
    DEF WindowsInv, WindowsShapes, WindowsTree, WindowsFaultless, InLoop, AtEnd, Excepting,
        WindowsPlaces
  <2>6. WindowsLimits'
    BY <1>2, <2>1
    DEF WindowsInv, WindowsShapes, WindowsTree, WindowsLimits, InLoop, AtEnd, Excepting,
        WindowsPlaces
  <2>7. QED  BY <2>3, <2>4, <2>5, <2>6 DEF WindowsInv
<1>3. QED
  BY <1>1, <1>2 DEF Drain, Goto, Report, kernel, WindowsInv, WindowsShapes, KernelOK

\* The working sets are read.
LEMMA WindowsSampleKept ==
  ASSUME WindowsInv, Sample
  PROVE  WindowsInv'
<1>1. ASSUME /\ pc = "sample"
             /\ pc' = "check"
             /\ UNCHANGED <<held, proc, inJob, doomed, posted, assigned, called,
                            finished, killed, stop, seen, reader, sink, rep, rounds,
                            interrupts>>
      PROVE  WindowsInv'
  <2>1. pc' \in WindowsPlaces  BY <1>1 DEF WindowsPlaces, Excepting, InLoop, AtEnd
  <2>2. WindowsShapes'  BY <1>1, <2>1 DEF WindowsInv, WindowsShapes, KernelOK, Proc
  <2>3. WindowsTree'
    BY <1>1
    DEF WindowsInv, WindowsShapes, WindowsTree, OnlyRootWaits, RunsInJob, NoneLive, InLoop,
        AtEnd, Excepting, WindowsPlaces
  <2>4. WindowsFaultless'
    BY <1>1
    DEF WindowsInv, WindowsShapes, WindowsTree, WindowsFaultless, InLoop, AtEnd, Excepting,
        WindowsPlaces
  <2>5. WindowsLimits'
    BY <1>1
    DEF WindowsInv, WindowsShapes, WindowsTree, WindowsLimits, InLoop, AtEnd, Excepting,
        WindowsPlaces
  <2>6. QED  BY <2>2, <2>3, <2>4, <2>5 DEF WindowsInv
<1>2. ASSUME /\ pc = "sample"
             /\ pc' = "check"
             /\ rep' = [rep EXCEPT !.faults = @ \cup {"infrastructure"}]
             /\ stop' = TRUE
             /\ UNCHANGED <<held, proc, inJob, doomed, posted, assigned, called,
                            finished, killed, seen, reader, sink, rounds, interrupts>>
      PROVE  WindowsInv'
  <2>1. /\ rep' \in [exit : {"ok", "bad", "none"}, faults : SUBSET Fault]
        /\ rep'.faults = rep.faults \cup {"infrastructure"}
        /\ rep'.exit = rep.exit
    BY <1>2, FaultNames, PostedFaults DEF WindowsInv, WindowsShapes, KernelOK
  <2>2. pc' \in WindowsPlaces  BY <1>2, <2>1 DEF WindowsPlaces, Excepting, InLoop, AtEnd
  <2>3. WindowsShapes'  BY <1>2, <2>1, <2>2 DEF WindowsInv, WindowsShapes, KernelOK, Proc
  <2>4. WindowsTree'
    BY <1>2, <2>1
    DEF WindowsInv, WindowsShapes, WindowsTree, OnlyRootWaits, RunsInJob, NoneLive, InLoop,
        AtEnd, Excepting, WindowsPlaces
  <2>5. WindowsFaultless'
    BY <1>2, <2>1
    DEF WindowsInv, WindowsShapes, WindowsTree, WindowsFaultless, InLoop, AtEnd, Excepting,
        WindowsPlaces
  <2>6. WindowsLimits'
    BY <1>2, <2>1
    DEF WindowsInv, WindowsShapes, WindowsTree, WindowsLimits, InLoop, AtEnd, Excepting,
        WindowsPlaces
  <2>7. QED  BY <2>3, <2>4, <2>5, <2>6 DEF WindowsInv
<1>3. QED  BY <1>1, <1>2 DEF Sample, Goto, Report, kernel

\* An unfinished job is terminated.
LEMMA WindowsFinalTerminateKept ==
  ASSUME WindowsInv, FinalTerminate
  PROVE  WindowsInv'
<1>1. /\ pc = "finally"
      /\ pc' = "join"
      /\ held' = held \ {"thread"}
      /\ doomed' = (doomed \/ (assigned /\ ~finished))
      /\ UNCHANGED <<proc, inJob, posted, assigned, called, finished, killed, stop,
                     seen, reader, sink, rep, rounds, interrupts>>
  BY DEF FinalTerminate, Goto
<1>2. pc' \in WindowsPlaces  BY <1>1 DEF WindowsPlaces, Excepting, InLoop, AtEnd
<1>3. WindowsShapes'  BY <1>1, <1>2 DEF WindowsInv, WindowsShapes, KernelOK, Proc
<1>4. WindowsTree'
  BY <1>1
  DEF WindowsInv, WindowsShapes, WindowsTree, OnlyRootWaits, RunsInJob, NoneLive, InLoop,
      AtEnd, Excepting, WindowsPlaces
<1>5. WindowsFaultless'
  BY <1>1
  DEF WindowsInv, WindowsShapes, WindowsTree, WindowsFaultless, InLoop, AtEnd, Excepting,
      WindowsPlaces
<1>6. WindowsLimits'
  BY <1>1
  DEF WindowsInv, WindowsShapes, WindowsTree, WindowsLimits, InLoop, AtEnd, Excepting,
      WindowsPlaces
<1>7. QED  BY <1>3, <1>4, <1>5, <1>6 DEF WindowsInv

\* The readers are joined.
LEMMA WindowsJoinKept ==
  ASSUME WindowsInv, Join
  PROVE  WindowsInv'
<1>1. ASSUME /\ pc = "join"
             /\ reader # "reading"
             /\ ~sink.error
             /\ pc' = "query"
             /\ sink' = [sink EXCEPT !.sealed = TRUE]
             /\ rep' = [rep EXCEPT !.faults = @ \cup {}]
             /\ UNCHANGED <<held, proc, inJob, doomed, posted, assigned, called,
                            finished, killed, stop, seen, reader, rounds, interrupts>>
      PROVE  WindowsInv'
  <2>1. /\ rep' \in [exit : {"ok", "bad", "none"}, faults : SUBSET Fault]
        /\ rep'.faults = rep.faults \cup {}
        /\ rep'.exit = rep.exit
    BY <1>1, FaultNames, PostedFaults DEF WindowsInv, WindowsShapes, KernelOK
  <2>2. /\ sink' \in [over : BOOLEAN, error : BOOLEAN, sealed : BOOLEAN]
        /\ sink'.over = sink.over
        /\ sink'.error = sink.error
    BY <1>1 DEF WindowsInv, WindowsShapes
  <2>3. pc' \in WindowsPlaces
    BY <1>1, <2>1, <2>2 DEF WindowsPlaces, Excepting, InLoop, AtEnd
  <2>4. WindowsShapes'
    BY <1>1, <2>1, <2>2, <2>3 DEF WindowsInv, WindowsShapes, KernelOK, Proc
  <2>5. WindowsTree'
    BY <1>1, <2>1, <2>2
    DEF WindowsInv, WindowsShapes, WindowsTree, OnlyRootWaits, RunsInJob, NoneLive, InLoop,
        AtEnd, Excepting, WindowsPlaces
  <2>6. WindowsFaultless'
    BY <1>1, <2>1, <2>2
    DEF WindowsInv, WindowsShapes, WindowsTree, WindowsFaultless, InLoop, AtEnd, Excepting,
        WindowsPlaces
  <2>7. WindowsLimits'
    BY <1>1, <2>1, <2>2
    DEF WindowsInv, WindowsShapes, WindowsTree, WindowsLimits, InLoop, AtEnd, Excepting,
        WindowsPlaces
  <2>8. QED  BY <2>4, <2>5, <2>6, <2>7 DEF WindowsInv
<1>2. ASSUME /\ pc = "join"
             /\ pc' = "query"
             /\ sink' = [sink EXCEPT !.sealed = TRUE]
             /\ rep' = [rep EXCEPT !.faults = @ \cup {"thread"}]
             /\ UNCHANGED <<held, proc, inJob, doomed, posted, assigned, called,
                            finished, killed, stop, seen, reader, rounds, interrupts>>
      PROVE  WindowsInv'
  <2>1. /\ rep' \in [exit : {"ok", "bad", "none"}, faults : SUBSET Fault]
        /\ rep'.faults = rep.faults \cup {"thread"}
        /\ rep'.exit = rep.exit
    BY <1>2, FaultNames, PostedFaults DEF WindowsInv, WindowsShapes, KernelOK
  <2>2. /\ sink' \in [over : BOOLEAN, error : BOOLEAN, sealed : BOOLEAN]
        /\ sink'.over = sink.over
        /\ sink'.error = sink.error
    BY <1>2 DEF WindowsInv, WindowsShapes
  <2>3. pc' \in WindowsPlaces
    BY <1>2, <2>1, <2>2 DEF WindowsPlaces, Excepting, InLoop, AtEnd
  <2>4. WindowsShapes'
    BY <1>2, <2>1, <2>2, <2>3 DEF WindowsInv, WindowsShapes, KernelOK, Proc
  <2>5. WindowsTree'
    BY <1>2, <2>1, <2>2
    DEF WindowsInv, WindowsShapes, WindowsTree, OnlyRootWaits, RunsInJob, NoneLive, InLoop,
        AtEnd, Excepting, WindowsPlaces
  <2>6. WindowsFaultless'
    BY <1>2, <2>1, <2>2
    DEF WindowsInv, WindowsShapes, WindowsTree, WindowsFaultless, InLoop, AtEnd, Excepting,
        WindowsPlaces
  <2>7. WindowsLimits'
    BY <1>2, <2>1, <2>2
    DEF WindowsInv, WindowsShapes, WindowsTree, WindowsLimits, InLoop, AtEnd, Excepting,
        WindowsPlaces
  <2>8. QED  BY <2>4, <2>5, <2>6, <2>7 DEF WindowsInv
<1>3. ASSUME /\ pc = "join"
             /\ pc' = "query"
             /\ sink' = [sink EXCEPT !.sealed = TRUE]
             /\ rep' = [rep EXCEPT !.faults = @ \cup {"thread", "pipe"}]
             /\ UNCHANGED <<held, proc, inJob, doomed, posted, assigned, called,
                            finished, killed, stop, seen, reader, rounds, interrupts>>
      PROVE  WindowsInv'
  <2>1. /\ rep' \in [exit : {"ok", "bad", "none"}, faults : SUBSET Fault]
        /\ rep'.faults = rep.faults \cup {"thread", "pipe"}
        /\ rep'.exit = rep.exit
    BY <1>3, FaultNames, PostedFaults DEF WindowsInv, WindowsShapes, KernelOK
  <2>2. /\ sink' \in [over : BOOLEAN, error : BOOLEAN, sealed : BOOLEAN]
        /\ sink'.over = sink.over
        /\ sink'.error = sink.error
    BY <1>3 DEF WindowsInv, WindowsShapes
  <2>3. pc' \in WindowsPlaces
    BY <1>3, <2>1, <2>2 DEF WindowsPlaces, Excepting, InLoop, AtEnd
  <2>4. WindowsShapes'
    BY <1>3, <2>1, <2>2, <2>3 DEF WindowsInv, WindowsShapes, KernelOK, Proc
  <2>5. WindowsTree'
    BY <1>3, <2>1, <2>2
    DEF WindowsInv, WindowsShapes, WindowsTree, OnlyRootWaits, RunsInJob, NoneLive, InLoop,
        AtEnd, Excepting, WindowsPlaces
  <2>6. WindowsFaultless'
    BY <1>3, <2>1, <2>2
    DEF WindowsInv, WindowsShapes, WindowsTree, WindowsFaultless, InLoop, AtEnd, Excepting,
        WindowsPlaces
  <2>7. WindowsLimits'
    BY <1>3, <2>1, <2>2
    DEF WindowsInv, WindowsShapes, WindowsTree, WindowsLimits, InLoop, AtEnd, Excepting,
        WindowsPlaces
  <2>8. QED  BY <2>4, <2>5, <2>6, <2>7 DEF WindowsInv
<1>4. QED  BY <1>1, <1>2, <1>3 DEF Join, Goto, Report, kernel

\* The messages are taken for the last time.
LEMMA WindowsFinalQueryKept ==
  ASSUME WindowsInv, FinalQuery
  PROVE  WindowsInv'
<1>1. ASSUME /\ pc = "query"
             /\ pc' = "exit code"
             /\ seen' = posted
             /\ rep' = [rep EXCEPT !.faults = @ \cup posted]
             /\ UNCHANGED <<held, proc, inJob, doomed, posted, assigned, called,
                            finished, killed, stop, reader, sink, rounds, interrupts>>
      PROVE  WindowsInv'
  <2>1. /\ rep' \in [exit : {"ok", "bad", "none"}, faults : SUBSET Fault]
        /\ rep'.faults = rep.faults \cup posted
        /\ rep'.exit = rep.exit
    BY <1>1, FaultNames, PostedFaults DEF WindowsInv, WindowsShapes, KernelOK
  <2>2. pc' \in WindowsPlaces  BY <1>1, <2>1 DEF WindowsPlaces, Excepting, InLoop, AtEnd
  <2>3. WindowsShapes'  BY <1>1, <2>1, <2>2 DEF WindowsInv, WindowsShapes, KernelOK, Proc
  <2>4. WindowsTree'
    BY <1>1, <2>1
    DEF WindowsInv, WindowsShapes, WindowsTree, OnlyRootWaits, RunsInJob, NoneLive, InLoop,
        AtEnd, Excepting, WindowsPlaces
  <2>5. WindowsFaultless'
    BY <1>1, <2>1
    DEF WindowsInv, WindowsShapes, WindowsTree, WindowsFaultless, InLoop, AtEnd, Excepting,
        WindowsPlaces
  <2>6. WindowsLimits'
    BY <1>1, <2>1
    DEF WindowsInv, WindowsShapes, WindowsTree, WindowsLimits, InLoop, AtEnd, Excepting,
        WindowsPlaces
  <2>7. QED  BY <2>3, <2>4, <2>5, <2>6 DEF WindowsInv
<1>2. ASSUME /\ pc = "query"
             /\ pc' = "exit code"
             /\ rep' = [rep EXCEPT !.faults = @ \cup {"infrastructure"}]
             /\ UNCHANGED <<held, proc, inJob, doomed, posted, assigned, called,
                            finished, killed, stop, seen, reader, sink, rounds,
                            interrupts>>
      PROVE  WindowsInv'
  <2>1. /\ rep' \in [exit : {"ok", "bad", "none"}, faults : SUBSET Fault]
        /\ rep'.faults = rep.faults \cup {"infrastructure"}
        /\ rep'.exit = rep.exit
    BY <1>2, FaultNames, PostedFaults DEF WindowsInv, WindowsShapes, KernelOK
  <2>2. pc' \in WindowsPlaces  BY <1>2, <2>1 DEF WindowsPlaces, Excepting, InLoop, AtEnd
  <2>3. WindowsShapes'  BY <1>2, <2>1, <2>2 DEF WindowsInv, WindowsShapes, KernelOK, Proc
  <2>4. WindowsTree'
    BY <1>2, <2>1
    DEF WindowsInv, WindowsShapes, WindowsTree, OnlyRootWaits, RunsInJob, NoneLive, InLoop,
        AtEnd, Excepting, WindowsPlaces
  <2>5. WindowsFaultless'
    BY <1>2, <2>1
    DEF WindowsInv, WindowsShapes, WindowsTree, WindowsFaultless, InLoop, AtEnd, Excepting,
        WindowsPlaces
  <2>6. WindowsLimits'
    BY <1>2, <2>1
    DEF WindowsInv, WindowsShapes, WindowsTree, WindowsLimits, InLoop, AtEnd, Excepting,
        WindowsPlaces
  <2>7. QED  BY <2>3, <2>4, <2>5, <2>6 DEF WindowsInv
<1>3. ASSUME /\ pc = "query"
             /\ "job" \notin held
             /\ pc' = "exit code"
             /\ UNCHANGED <<held, proc, inJob, doomed, posted, assigned, called,
                            finished, killed, stop, seen, reader, sink, rep, rounds,
                            interrupts>>
      PROVE  WindowsInv'
  <2>1. pc' \in WindowsPlaces  BY <1>3 DEF WindowsPlaces, Excepting, InLoop, AtEnd
  <2>2. WindowsShapes'
    <3>1. KernelOK'  BY <1>3 DEF WindowsInv, WindowsShapes, KernelOK, Proc
    <3>2. assigned' = (Root \in inJob')  BY <1>3 DEF WindowsInv, WindowsShapes
    <3>3. QED  BY <1>3, <2>1, <3>1, <3>2 DEF WindowsInv, WindowsShapes
  <2>3. WindowsTree'
    BY <1>3
    DEF WindowsInv, WindowsShapes, WindowsTree, OnlyRootWaits, RunsInJob, NoneLive, InLoop,
        AtEnd, Excepting, WindowsPlaces
  <2>4. WindowsFaultless'
    BY <1>3
    DEF WindowsInv, WindowsShapes, WindowsTree, WindowsFaultless, InLoop, AtEnd, Excepting,
        WindowsPlaces
  <2>5. WindowsLimits'
    BY <1>3
    DEF WindowsInv, WindowsShapes, WindowsTree, WindowsLimits, InLoop, AtEnd, Excepting,
        WindowsPlaces
  <2>6. QED  BY <2>2, <2>3, <2>4, <2>5 DEF WindowsInv
<1>4. QED  BY <1>1, <1>2, <1>3 DEF FinalQuery, Goto, Report, kernel

\* The exit code is read, and the handles closed.
LEMMA WindowsCloseAllKept ==
  ASSUME WindowsInv, CloseAll
  PROVE  WindowsInv'
<1>1. ASSUME /\ pc = "exit code"
             /\ pc' = "returned"
             /\ held' = {}
             /\ doomed' = (doomed \/ "job" \in held)
             /\ rep' = [rep EXCEPT !.exit = IF proc[Root] = "ok" THEN "ok" ELSE "bad"]
             /\ UNCHANGED <<proc, inJob, posted, assigned, called, finished, killed,
                            stop, seen, reader, sink, rounds, interrupts>>
      PROVE  WindowsInv'
  <2>1. /\ rep' \in [exit : {"ok", "bad", "none"}, faults : SUBSET Fault]
        /\ rep'.faults = rep.faults
        /\ rep'.exit = (IF proc[Root] = "ok" THEN "ok" ELSE "bad")
    BY <1>1, FaultNames, PostedFaults DEF WindowsInv, WindowsShapes, KernelOK
  <2>2. pc' \in WindowsPlaces  BY <1>1, <2>1 DEF WindowsPlaces, Excepting, InLoop, AtEnd
  <2>3. WindowsShapes'  BY <1>1, <2>1, <2>2 DEF WindowsInv, WindowsShapes, KernelOK, Proc
  <2>4. WindowsTree'
    BY <1>1, <2>1
    DEF WindowsInv, WindowsShapes, WindowsTree, OnlyRootWaits, RunsInJob, NoneLive, InLoop,
        AtEnd, Excepting, WindowsPlaces
  <2>5. WindowsFaultless'
    BY <1>1, <2>1
    DEF WindowsInv, WindowsShapes, WindowsTree, WindowsFaultless, InLoop, AtEnd, Excepting,
        WindowsPlaces
  <2>6. WindowsLimits'
    BY <1>1, <2>1
    DEF WindowsInv, WindowsShapes, WindowsTree, WindowsLimits, InLoop, AtEnd, Excepting,
        WindowsPlaces
  <2>7. QED  BY <2>3, <2>4, <2>5, <2>6 DEF WindowsInv
<1>2. ASSUME /\ pc = "exit code"
             /\ pc' = "returned"
             /\ held' = {}
             /\ doomed' = (doomed \/ "job" \in held)
             /\ rep' = [rep EXCEPT !.faults = @ \cup {"infrastructure"}]
             /\ UNCHANGED <<proc, inJob, posted, assigned, called, finished, killed,
                            stop, seen, reader, sink, rounds, interrupts>>
      PROVE  WindowsInv'
  <2>1. /\ rep' \in [exit : {"ok", "bad", "none"}, faults : SUBSET Fault]
        /\ rep'.faults = rep.faults \cup {"infrastructure"}
        /\ rep'.exit = rep.exit
    BY <1>2, FaultNames, PostedFaults DEF WindowsInv, WindowsShapes, KernelOK
  <2>2. pc' \in WindowsPlaces  BY <1>2, <2>1 DEF WindowsPlaces, Excepting, InLoop, AtEnd
  <2>3. WindowsShapes'  BY <1>2, <2>1, <2>2 DEF WindowsInv, WindowsShapes, KernelOK, Proc
  <2>4. WindowsTree'
    BY <1>2, <2>1
    DEF WindowsInv, WindowsShapes, WindowsTree, OnlyRootWaits, RunsInJob, NoneLive, InLoop,
        AtEnd, Excepting, WindowsPlaces
  <2>5. WindowsFaultless'
    BY <1>2, <2>1
    DEF WindowsInv, WindowsShapes, WindowsTree, WindowsFaultless, InLoop, AtEnd, Excepting,
        WindowsPlaces
  <2>6. WindowsLimits'
    BY <1>2, <2>1
    DEF WindowsInv, WindowsShapes, WindowsTree, WindowsLimits, InLoop, AtEnd, Excepting,
        WindowsPlaces
  <2>7. QED  BY <2>3, <2>4, <2>5, <2>6 DEF WindowsInv
<1>3. ASSUME /\ pc = "exit code"
             /\ pc' = "returned"
             /\ held' = {}
             /\ doomed' = (doomed \/ "job" \in held)
             /\ UNCHANGED <<proc, inJob, posted, assigned, called, finished, killed,
                            stop, seen, reader, sink, rep, rounds, interrupts>>
      PROVE  WindowsInv'
  <2>1. pc' \in WindowsPlaces  BY <1>3 DEF WindowsPlaces, Excepting, InLoop, AtEnd
  <2>2. WindowsShapes'  BY <1>3, <2>1 DEF WindowsInv, WindowsShapes, KernelOK, Proc
  <2>3. WindowsTree'
    BY <1>3
    DEF WindowsInv, WindowsShapes, WindowsTree, OnlyRootWaits, RunsInJob, NoneLive, InLoop,
        AtEnd, Excepting, WindowsPlaces
  <2>4. WindowsFaultless'
    BY <1>3
    DEF WindowsInv, WindowsShapes, WindowsTree, WindowsFaultless, InLoop, AtEnd, Excepting,
        WindowsPlaces
  <2>5. WindowsLimits'
    BY <1>3
    DEF WindowsInv, WindowsShapes, WindowsTree, WindowsLimits, InLoop, AtEnd, Excepting,
        WindowsPlaces
  <2>6. QED  BY <2>2, <2>3, <2>4, <2>5 DEF WindowsInv
<1>4. QED
  BY <1>1, <1>2, <1>3 DEF CloseAll, Goto, Report, Close, WindowsInv, WindowsShapes, KernelOK

\* The process of the adapter ends.
LEMMA WindowsProcessEndsKept ==
  ASSUME WindowsInv, ProcessEnds
  PROVE  WindowsInv'
<1>1. /\ reader' \in {reader, "done"}
      /\ reader' # reader => reader = "reading"
      /\ pc' = "dead"
      /\ held' = {}
      /\ doomed' = (doomed \/ "job" \in held)
      /\ UNCHANGED <<proc, inJob, posted, assigned, called, finished, killed, stop,
                     seen, sink, rep, rounds, interrupts>>
  BY DEF ProcessEnds, Goto, Close
<1>2. pc' \in WindowsPlaces  BY <1>1 DEF WindowsPlaces, Excepting, InLoop, AtEnd
<1>3. WindowsShapes'  BY <1>1, <1>2 DEF WindowsInv, WindowsShapes, KernelOK, Proc
<1>4. WindowsTree'
  BY <1>1
  DEF WindowsInv, WindowsShapes, WindowsTree, OnlyRootWaits, RunsInJob, NoneLive, InLoop,
      AtEnd, Excepting, WindowsPlaces
<1>5. WindowsFaultless'
  BY <1>1
  DEF WindowsInv, WindowsShapes, WindowsTree, WindowsFaultless, InLoop, AtEnd, Excepting,
      WindowsPlaces
<1>6. WindowsLimits'
  BY <1>1
  DEF WindowsInv, WindowsShapes, WindowsTree, WindowsLimits, InLoop, AtEnd, Excepting,
      WindowsPlaces
<1>7. QED  BY <1>3, <1>4, <1>5, <1>6 DEF WindowsInv

\* The reader stops.
LEMMA WindowsReaderStepKept ==
  ASSUME WindowsInv, ReaderStep
  PROVE  WindowsInv'
<1>1. ASSUME /\ reader = "reading"
             /\ reader' = "done"
             /\ UNCHANGED <<held, proc, inJob, doomed, posted, pc, assigned, called,
                            finished, killed, stop, seen, sink, rep, rounds,
                            interrupts>>
      PROVE  WindowsInv'
  <2>1. WindowsShapes'  BY <1>1 DEF WindowsInv, WindowsShapes, KernelOK, Proc
  <2>2. WindowsTree'
    BY <1>1
    DEF WindowsInv, WindowsShapes, WindowsTree, OnlyRootWaits, RunsInJob, NoneLive, InLoop,
        AtEnd, Excepting, WindowsPlaces
  <2>3. WindowsFaultless'
    BY <1>1
    DEF WindowsInv, WindowsShapes, WindowsTree, WindowsFaultless, InLoop, AtEnd, Excepting,
        WindowsPlaces
  <2>4. WindowsLimits'
    BY <1>1
    DEF WindowsInv, WindowsShapes, WindowsTree, WindowsLimits, InLoop, AtEnd, Excepting,
        WindowsPlaces
  <2>5. QED  BY <2>1, <2>2, <2>3, <2>4 DEF WindowsInv
<1>2. ASSUME /\ reader = "reading"
             /\ reader' = "done"
             /\ stop' = TRUE
             /\ sink' = [sink EXCEPT !.over = TRUE]
             /\ UNCHANGED <<held, proc, inJob, doomed, posted, pc, assigned, called,
                            finished, killed, seen, rep, rounds, interrupts>>
      PROVE  WindowsInv'
  <2>1. /\ sink' \in [over : BOOLEAN, error : BOOLEAN, sealed : BOOLEAN]
        /\ sink'.over = TRUE
        /\ sink'.error = sink.error
    BY <1>2 DEF WindowsInv, WindowsShapes
  <2>2. WindowsShapes'  BY <1>2, <2>1 DEF WindowsInv, WindowsShapes, KernelOK, Proc
  <2>3. WindowsTree'
    BY <1>2, <2>1
    DEF WindowsInv, WindowsShapes, WindowsTree, OnlyRootWaits, RunsInJob, NoneLive, InLoop,
        AtEnd, Excepting, WindowsPlaces
  <2>4. WindowsFaultless'
    BY <1>2, <2>1
    DEF WindowsInv, WindowsShapes, WindowsTree, WindowsFaultless, InLoop, AtEnd, Excepting,
        WindowsPlaces
  <2>5. WindowsLimits'
    BY <1>2, <2>1
    DEF WindowsInv, WindowsShapes, WindowsTree, WindowsLimits, InLoop, AtEnd, Excepting,
        WindowsPlaces
  <2>6. QED  BY <2>2, <2>3, <2>4, <2>5 DEF WindowsInv
<1>3. ASSUME /\ reader = "reading"
             /\ reader' = "done"
             /\ stop' = TRUE
             /\ sink' = [sink EXCEPT !.error = TRUE]
             /\ UNCHANGED <<held, proc, inJob, doomed, posted, pc, assigned, called,
                            finished, killed, seen, rep, rounds, interrupts>>
      PROVE  WindowsInv'
  <2>1. /\ sink' \in [over : BOOLEAN, error : BOOLEAN, sealed : BOOLEAN]
        /\ sink'.over = sink.over
        /\ sink'.error = TRUE
    BY <1>3 DEF WindowsInv, WindowsShapes
  <2>2. WindowsShapes'  BY <1>3, <2>1 DEF WindowsInv, WindowsShapes, KernelOK, Proc
  <2>3. WindowsTree'
    BY <1>3, <2>1
    DEF WindowsInv, WindowsShapes, WindowsTree, OnlyRootWaits, RunsInJob, NoneLive, InLoop,
        AtEnd, Excepting, WindowsPlaces
  <2>4. WindowsFaultless'
    BY <1>3, <2>1
    DEF WindowsInv, WindowsShapes, WindowsTree, WindowsFaultless, InLoop, AtEnd, Excepting,
        WindowsPlaces
  <2>5. WindowsLimits'
    BY <1>3, <2>1
    DEF WindowsInv, WindowsShapes, WindowsTree, WindowsLimits, InLoop, AtEnd, Excepting,
        WindowsPlaces
  <2>6. QED  BY <2>2, <2>3, <2>4, <2>5 DEF WindowsInv
<1>4. QED  BY <1>1, <1>2, <1>3 DEF ReaderStep, kernel

\* The accounting of the job: the end, a deadline, or an exception.
LEMMA WindowsCheckKept ==
  ASSUME WindowsInv, Check
  PROVE  WindowsInv'
<1>1. ASSUME /\ pc = "check" /\ Active = {} /\ proc[Root] \in {"ok", "bad"}
             /\ finished' = TRUE
             /\ pc' = "finally"
             /\ UNCHANGED <<held, proc, inJob, doomed, posted, assigned, called, killed,
                            stop, seen, reader, sink, rep, rounds, interrupts>>
      PROVE  WindowsInv'
  <2>1. NoneLive
    BY <1>1 DEF WindowsInv, WindowsTree, OnlyRootWaits, RunsInJob, NoneLive, Active, Live
  <2>2. pc' \in WindowsPlaces  BY <1>1 DEF WindowsPlaces, AtEnd
  <2>3. WindowsShapes'  BY <1>1, <2>2 DEF WindowsInv, WindowsShapes, KernelOK
  <2>4. WindowsTree'
    BY <1>1, <2>1
    DEF WindowsInv, WindowsShapes, WindowsTree, OnlyRootWaits, RunsInJob, NoneLive, InLoop,
        AtEnd
  <2>5. WindowsFaultless' /\ WindowsLimits'
    BY <1>1 DEF WindowsInv, WindowsShapes, WindowsFaultless, WindowsLimits, InLoop, AtEnd
  <2>6. QED  BY <2>3, <2>4, <2>5 DEF WindowsInv
<1>2. ASSUME NEW late \in BOOLEAN, NEW over \in BOOLEAN,
             /\ pc = "check" /\ (over => killed)
             /\ stop' = (stop \/ late) /\ killed' = (killed \/ stop')
             /\ doomed' = (doomed \/ killed')
             /\ rounds' = IF killed' # killed THEN MaxRounds
                          ELSE IF rounds = 0 THEN 0 ELSE rounds - 1
             /\ rep' = [rep EXCEPT !.faults = @ \cup
                           ((IF late THEN {"timeout"} ELSE {})
                            \cup (IF over THEN {"infrastructure"} ELSE {}))]
             /\ pc' = IF over THEN "finally" ELSE "drain"
             /\ UNCHANGED <<held, proc, inJob, posted, assigned, called, finished, seen,
                            reader, sink, interrupts>>
      PROVE  WindowsInv'
  <2>1. /\ rep' \in [exit : {"ok", "bad", "none"}, faults : SUBSET Fault]
        /\ rep'.exit = rep.exit
        /\ rep'.faults = {} => rep.faults = {} /\ ~late /\ ~over
    <3>1. /\ rep' = [exit |-> rep.exit, faults |-> rep'.faults]
          /\ rep'.faults = rep.faults \cup (IF late THEN {"timeout"} ELSE {})
                                      \cup (IF over THEN {"infrastructure"} ELSE {})
      BY <1>2 DEF WindowsInv, WindowsShapes
    <3>2. rep.exit \in {"ok", "bad", "none"} /\ rep.faults \in SUBSET Fault
      BY DEF WindowsInv, WindowsShapes
    <3>3. QED  BY <3>1, <3>2, FaultNames
  <2>2. pc' \in WindowsPlaces  BY <1>2 DEF WindowsPlaces, AtEnd, Excepting, InLoop
  <2>3. rounds' \in 0..MaxRounds
    <3>1. rounds \in 0..MaxRounds  BY DEF WindowsInv, WindowsShapes
    <3>2. QED  BY <1>2, <3>1, WindowsJobAssumption
  <2>4. WindowsShapes'  BY <1>2, <2>1, <2>2, <2>3 DEF WindowsInv, WindowsShapes, KernelOK
  <2>5. WindowsTree'
    BY <1>2
    DEF WindowsInv, WindowsShapes, WindowsTree, OnlyRootWaits, RunsInJob, NoneLive, InLoop,
        AtEnd, Excepting
  <2>6. WindowsFaultless'
    BY <1>2, <2>1 DEF WindowsInv, WindowsShapes, WindowsFaultless, InLoop, AtEnd
  <2>7. WindowsLimits'
    BY <1>2, <2>1 DEF WindowsInv, WindowsShapes, WindowsLimits, InLoop, AtEnd
  <2>8. QED  BY <2>4, <2>5, <2>6, <2>7 DEF WindowsInv
<1>3. ASSUME /\ pc = "check" /\ Except({})
             /\ UNCHANGED <<held, proc, inJob, posted, assigned, called, finished, killed,
                            stop, seen, reader, sink, rounds, interrupts>>
      PROVE  WindowsInv'
  BY <1>3, ExceptKept DEF Excepting, InLoop
<1>4. QED  BY <1>1, <1>2, <1>3 DEF Check, Goto, Report

\* An interrupt, in the body or in the clean-up.
LEMMA WindowsInterruptKept ==
  ASSUME WindowsInv, Interrupt
  PROVE  WindowsInv'
<1>1. interrupts' \in 0..MaxInterrupts
  <2>1. interrupts < MaxInterrupts /\ interrupts' = interrupts + 1  BY DEF Interrupt
  <2>2. interrupts \in 0..MaxInterrupts  BY DEF WindowsInv, WindowsShapes
  <2>3. QED  BY <2>1, <2>2, WindowsJobAssumption
<1>2. ASSUME /\ pc \in Excepting /\ Except({})
             /\ UNCHANGED <<held, proc, inJob, posted, assigned, called, finished, killed,
                            stop, seen, reader, sink, rounds>>
      PROVE  WindowsInv'
  BY <1>1, <1>2, ExceptKept
<1>3. ASSUME /\ pc \in {"finally", "join", "query"}
             /\ pc' = "raised"
             /\ UNCHANGED <<held, proc, inJob, doomed, posted, assigned, called, finished,
                            killed, stop, seen, reader, sink, rep, rounds>>
      PROVE  WindowsInv'
  <2>1. pc' \in WindowsPlaces  BY <1>3 DEF WindowsPlaces
  <2>2. WindowsShapes'  BY <1>1, <1>3, <2>1 DEF WindowsInv, WindowsShapes, KernelOK
  <2>3. WindowsTree'
    BY <1>3
    DEF WindowsInv, WindowsShapes, WindowsTree, OnlyRootWaits, RunsInJob, NoneLive, InLoop,
        AtEnd, Excepting
  <2>4. WindowsFaultless' /\ WindowsLimits'
    BY <1>3 DEF WindowsInv, WindowsShapes, WindowsFaultless, WindowsLimits, InLoop, AtEnd
  <2>5. QED  BY <2>2, <2>3, <2>4 DEF WindowsInv
<1>4. QED  BY <1>2, <1>3 DEF Interrupt, Goto, Excepting, InLoop

\* A process starts another one, hits a limit, or ends: as long as one runs, the
\* job has not been emptied.
LEMMA RunningMeansOpen ==
  ASSUME WindowsInv, NEW p \in Proc, proc[p] = "running"
  PROVE  /\ p \in inJob /\ called /\ assigned /\ ~finished
         /\ "job" \in held \/ pc \in {"returned", "dead"}
         /\ ~doomed => pc \notin {"join", "query", "exit code", "returned"}
BY DEF WindowsInv, WindowsTree, WindowsLimits, RunsInJob, NoneLive, AtEnd

\* A process starts another one, if the job is not full.
LEMMA WindowsStartKept ==
  ASSUME WindowsInv, Start, UNCHANGED adapter
  PROVE  WindowsInv'
<1>1. PICK p \in Proc, q \in Descendant :
         /\ proc[p] = "running" /\ proc[q] = "none"
         /\ IF p \notin inJob \/ Cardinality(Active) < ActiveLimit
            THEN /\ proc' = [proc EXCEPT ![q] = "running"]
                 /\ inJob' = IF p \in inJob THEN inJob \cup {q} ELSE inJob
                 /\ UNCHANGED posted
            ELSE posted' = posted \cup {"process"} /\ UNCHANGED <<proc, inJob>>
  BY DEF Start
<1>2. /\ ~doomed
      /\ UNCHANGED <<held, doomed, pc, assigned, called, finished, killed, stop, seen,
                     reader, sink, rep, rounds, interrupts>>
  BY DEF Start, adapter
<1>3. /\ p \in inJob /\ called /\ assigned /\ ~finished
      /\ "job" \in held \/ pc \in {"returned", "dead"}
      /\ pc \notin {"join", "query", "exit code", "returned"}
  BY <1>1, <1>2, RunningMeansOpen
<1>4. q \in Proc /\ q # Root  BY JobObjectAssumption DEF Proc
<1>5. CASE /\ proc' = [proc EXCEPT ![q] = "running"]
           /\ inJob' = inJob \cup {q} /\ UNCHANGED posted
  <2>1. WindowsShapes'  BY <1>2, <1>4, <1>5 DEF WindowsInv, WindowsShapes, KernelOK
  <2>2. WindowsTree'
    BY <1>2, <1>3, <1>4, <1>5
    DEF WindowsInv, WindowsShapes, KernelOK, WindowsTree, OnlyRootWaits, RunsInJob
  <2>3. WindowsFaultless'  BY <1>2, <1>5 DEF WindowsInv, WindowsFaultless
  <2>4. WindowsLimits'
    BY <1>2, <1>3, <1>4, <1>5 DEF WindowsInv, WindowsShapes, KernelOK, WindowsLimits, AtEnd
  <2>5. QED  BY <2>1, <2>2, <2>3, <2>4 DEF WindowsInv
<1>6. CASE posted' = posted \cup {"process"} /\ UNCHANGED <<proc, inJob>>
  <2>1. WindowsShapes'  BY <1>2, <1>6 DEF WindowsInv, WindowsShapes, KernelOK
  <2>2. WindowsTree'
    BY <1>2, <1>3, <1>6 DEF WindowsInv, WindowsTree, OnlyRootWaits, RunsInJob, NoneLive
  <2>3. WindowsFaultless' /\ WindowsLimits'
    BY <1>2, <1>3, <1>6 DEF WindowsInv, WindowsFaultless, WindowsLimits, AtEnd
  <2>4. QED  BY <2>1, <2>2, <2>3 DEF WindowsInv
<1>7. QED  BY <1>1, <1>3, <1>5, <1>6

\* The job hits its memory limit.
LEMMA WindowsMemoryKept ==
  ASSUME WindowsInv, HitMemory, UNCHANGED adapter
  PROVE  WindowsInv'
<1>1. PICK p \in inJob : proc[p] = "running"
  BY DEF HitMemory
<1>2. /\ ~doomed /\ posted' = posted \cup {"memory"}
      /\ UNCHANGED <<held, proc, inJob, doomed, pc, assigned, called, finished, killed,
                     stop, seen, reader, sink, rep, rounds, interrupts>>
  BY DEF HitMemory, adapter
<1>3. /\ assigned /\ ~finished
      /\ pc \notin {"join", "query", "exit code", "returned"}
  BY <1>1, <1>2, RunningMeansOpen DEF WindowsInv, WindowsShapes, KernelOK
<1>4. WindowsShapes'  BY <1>2 DEF WindowsInv, WindowsShapes, KernelOK
<1>5. WindowsTree'
  BY <1>2, <1>3 DEF WindowsInv, WindowsTree, OnlyRootWaits, RunsInJob, NoneLive
<1>6. WindowsFaultless' /\ WindowsLimits'
  BY <1>2, <1>3 DEF WindowsInv, WindowsFaultless, WindowsLimits, AtEnd
<1>7. QED  BY <1>4, <1>5, <1>6 DEF WindowsInv

\* A process ends, by itself or with its job.
LEMMA WindowsEndKept ==
  ASSUME WindowsInv, Exit \/ Killed, UNCHANGED adapter
  PROVE  WindowsInv'
<1>1. PICK p \in Proc, e \in {"ok", "bad"} :
         proc[p] \in {"suspended", "running"} /\ proc' = [proc EXCEPT ![p] = e]
  BY DEF Exit, Killed, Active, Live
<1>2. UNCHANGED <<held, inJob, doomed, posted, pc, assigned, called, finished, killed, stop,
                  seen, reader, sink, rep, rounds, interrupts>>
  BY DEF Exit, Killed, adapter
<1>3. WindowsShapes'  BY <1>1, <1>2 DEF WindowsInv, WindowsShapes, KernelOK
<1>4. WindowsTree'
  BY <1>1, <1>2
  DEF WindowsInv, WindowsShapes, KernelOK, WindowsTree, OnlyRootWaits, RunsInJob, NoneLive
<1>5. WindowsFaultless'  BY <1>2 DEF WindowsInv, WindowsFaultless
<1>6. WindowsLimits'
  <2>1. proc[Root] = "ok" => proc'[Root] = "ok"
    BY <1>1 DEF WindowsInv, WindowsShapes, KernelOK
  <2>2. NoneLive => NoneLive'  BY <1>1 DEF WindowsInv, WindowsShapes, KernelOK, NoneLive
  <2>3. QED  BY <1>2, <2>1, <2>2 DEF WindowsInv, WindowsLimits
<1>7. QED  BY <1>3, <1>4, <1>5, <1>6 DEF WindowsInv

\* The invariant of the Windows adapter, for every step.
LEMMA WindowsKept ==
  ASSUME WindowsInv, Next
  PROVE  WindowsInv'
BY WindowsOpenSinksKept, WindowsNewJobKept, WindowsCreateKept, WindowsAssignKept,
   WindowsStartReadersKept, WindowsCallbackKept, WindowsResumeKept, WindowsDrainKept,
   WindowsSampleKept, WindowsCheckKept, WindowsFinalTerminateKept, WindowsJoinKept,
   WindowsFinalQueryKept, WindowsCloseAllKept, WindowsInterruptKept, WindowsProcessEndsKept,
   WindowsReaderStepKept, WindowsStartKept, WindowsMemoryKept, WindowsEndKept
DEF Next, AdapterStep, ProcessStep

\* The invariant holds at the beginning.
LEMMA WindowsBegins ==
  ASSUME Init
  PROVE  WindowsInv
<1>1. WindowsShapes
  <2>1. pc \in WindowsPlaces  BY DEF Init, WindowsPlaces
  <2>2. rounds \in 0..MaxRounds /\ interrupts \in 0..MaxInterrupts
    BY WindowsJobAssumption DEF Init
  <2>3. KernelOK  BY DEF Init, KernelInit, KernelOK
  <2>4. assigned = (Root \in inJob) /\ seen \subseteq posted
    <3>1. inJob = {} /\ assigned = FALSE /\ seen = {} /\ posted = {}
      BY DEF Init, KernelInit
    <3>2. (Root \in inJob) = FALSE  BY <3>1
    <3>3. QED  BY <3>1, <3>2
  <2>5. /\ sink \in [over : BOOLEAN, error : BOOLEAN, sealed : BOOLEAN]
        /\ rep \in [exit : {"ok", "bad", "none"}, faults : SUBSET Fault]
    BY DEF Init
  <2>6. /\ called \in BOOLEAN /\ finished \in BOOLEAN /\ killed \in BOOLEAN /\ (killed => stop)
        /\ stop \in BOOLEAN /\ reader \in {"none", "reading", "done"}
    BY DEF Init
  <2>7. QED  BY <2>1, <2>2, <2>3, <2>4, <2>5, <2>6 DEF WindowsShapes
<1>2. WindowsTree  BY DEF Init, KernelInit, WindowsTree, OnlyRootWaits, RunsInJob, InLoop
<1>3. WindowsFaultless /\ WindowsLimits  BY DEF Init, WindowsFaultless, WindowsLimits, AtEnd
<1>4. QED  BY <1>1, <1>2, <1>3 DEF WindowsInv

\* Steps of the other adapters leave it alone.
LEMMA WindowsStutter ==
  ASSUME WindowsInv, UNCHANGED vars
  PROVE  WindowsInv'
<1>1. UNCHANGED <<held, proc, inJob, doomed, posted, pc, assigned, called, finished, killed,
                  stop, seen, reader, sink, rep, rounds, interrupts>>
  BY DEF vars, adapter
<1>2. WindowsShapes'  BY <1>1 DEF WindowsInv, WindowsShapes, KernelOK
<1>3. WindowsTree'  BY <1>1 DEF WindowsInv, WindowsTree, OnlyRootWaits, RunsInJob, NoneLive
<1>4. WindowsFaultless' /\ WindowsLimits'
  BY <1>1 DEF WindowsInv, WindowsFaultless, WindowsLimits
<1>5. QED  BY <1>2, <1>3, <1>4 DEF WindowsInv

\* The job is created, or not.
LEMMA BenchNewJobKept ==
  ASSUME MeasureInv, Bench!NewJob
  PROVE  MeasureInv'
<1>1. ASSUME /\ benchPc = "job"
             /\ held' = {"job"}
             /\ benchPc' = "create"
             /\ UNCHANGED <<proc, inJob, doomed, posted, retained, measured, listed,
                            sample, errors, timedOut, wall, covered, left, result>>
      PROVE  MeasureInv'
  <2>1. benchPc' \in BenchPlaces  BY <1>1 DEF BenchPlaces, Asking, Looping
  <2>2. MeasureShapes'  BY <1>1, <2>1 DEF MeasureInv, MeasureShapes, KernelOK, Proc
  <2>3. MeasureClock'  BY <1>1 DEF MeasureInv, MeasureClock, BenchPlaces, Asking, Looping
  <2>4. MeasureTree'
    BY <1>1
    DEF MeasureInv, MeasureShapes, KernelOK, MeasureTree, OnlyRootWaits, AllInJob, Asking,
        Looping
  <2>5. MeasureSeen'
    BY <1>1
    DEF MeasureInv, MeasureShapes, MeasureTree, MeasureSeen, NoneLive, Asking, Looping
  <2>6. QED  BY <2>2, <2>3, <2>4, <2>5 DEF MeasureInv
<1>2. ASSUME /\ benchPc = "job"
             /\ benchPc' = "raised"
             /\ UNCHANGED <<held, proc, inJob, doomed, posted, retained, measured,
                            listed, sample, errors, timedOut, wall, covered, left,
                            result>>
      PROVE  MeasureInv'
  <2>1. benchPc' \in BenchPlaces  BY <1>2 DEF BenchPlaces, Asking, Looping
  <2>2. MeasureShapes'  BY <1>2, <2>1 DEF MeasureInv, MeasureShapes, KernelOK, Proc
  <2>3. MeasureClock'  BY <1>2 DEF MeasureInv, MeasureClock, BenchPlaces, Asking, Looping
  <2>4. MeasureTree'
    BY <1>2
    DEF MeasureInv, MeasureShapes, KernelOK, MeasureTree, OnlyRootWaits, AllInJob, Asking,
        Looping
  <2>5. MeasureSeen'
    BY <1>2
    DEF MeasureInv, MeasureShapes, MeasureTree, MeasureSeen, NoneLive, Asking, Looping
  <2>6. QED  BY <2>2, <2>3, <2>4, <2>5 DEF MeasureInv
<1>3. QED
  BY <1>1, <1>2 DEF Bench!NewJob, Bench!Goto, Bench!kernel, Bench!sampling, Bench!clock

\* The command is created suspended, or not.
LEMMA BenchCreateKept ==
  ASSUME MeasureInv, Bench!Create
  PROVE  MeasureInv'
<1>1. ASSUME /\ benchPc = "create"
             /\ benchPc' = "assign"
             /\ proc' = [proc EXCEPT ![Root] = "suspended"]
             /\ held' = held \cup {"process", "thread"}
             /\ retained' = {Root}
             /\ UNCHANGED <<inJob, doomed, posted, measured, listed, sample, errors,
                            timedOut, wall, covered, left, result>>
      PROVE  MeasureInv'
  <2>1. benchPc' \in BenchPlaces  BY <1>1 DEF BenchPlaces, Asking, Looping
  <2>2. MeasureShapes'  BY <1>1, <2>1 DEF MeasureInv, MeasureShapes, KernelOK, Proc
  <2>3. MeasureClock'  BY <1>1 DEF MeasureInv, MeasureClock, BenchPlaces, Asking, Looping
  <2>4. MeasureTree'
    BY <1>1
    DEF MeasureInv, MeasureShapes, KernelOK, MeasureTree, OnlyRootWaits, AllInJob, Asking,
        Looping
  <2>5. MeasureSeen'
    BY <1>1
    DEF MeasureInv, MeasureShapes, MeasureTree, MeasureSeen, NoneLive, Asking, Looping
  <2>6. QED  BY <2>2, <2>3, <2>4, <2>5 DEF MeasureInv
<1>2. ASSUME /\ benchPc = "create"
             /\ benchPc' = "raised"
             /\ held' = {}
             /\ retained' = {}
             /\ doomed' = (doomed \/ "job" \in held)
             /\ UNCHANGED <<proc, inJob, posted, measured, listed, sample, errors,
                            timedOut, wall, covered, left, result>>
      PROVE  MeasureInv'
  <2>1. benchPc' \in BenchPlaces  BY <1>2 DEF BenchPlaces, Asking, Looping
  <2>2. MeasureShapes'  BY <1>2, <2>1 DEF MeasureInv, MeasureShapes, KernelOK, Proc
  <2>3. MeasureClock'  BY <1>2 DEF MeasureInv, MeasureClock, BenchPlaces, Asking, Looping
  <2>4. MeasureTree'
    BY <1>2
    DEF MeasureInv, MeasureShapes, KernelOK, MeasureTree, OnlyRootWaits, AllInJob, Asking,
        Looping
  <2>5. MeasureSeen'
    BY <1>2
    DEF MeasureInv, MeasureShapes, MeasureTree, MeasureSeen, NoneLive, Asking, Looping
  <2>6. QED  BY <2>2, <2>3, <2>4, <2>5 DEF MeasureInv
<1>3. QED
  BY <1>1, <1>2
  DEF Bench!Create, Bench!Goto, Bench!Release, Bench!Close, Bench!sampling, Bench!clock

\* The command comes into the job, or is ended.
LEMMA BenchAssignKept ==
  ASSUME MeasureInv, Bench!Assign
  PROVE  MeasureInv'
<1>1. ASSUME /\ benchPc = "assign"
             /\ benchPc' = "resume"
             /\ inJob' = inJob \cup {Root}
             /\ UNCHANGED <<held, proc, doomed, posted, retained, measured, listed,
                            sample, errors, timedOut, wall, covered, left, result>>
      PROVE  MeasureInv'
  <2>1. benchPc' \in BenchPlaces  BY <1>1 DEF BenchPlaces, Asking, Looping
  <2>2. MeasureShapes'  BY <1>1, <2>1 DEF MeasureInv, MeasureShapes, KernelOK, Proc
  <2>3. MeasureClock'  BY <1>1 DEF MeasureInv, MeasureClock, BenchPlaces, Asking, Looping
  <2>4. MeasureTree'
    BY <1>1
    DEF MeasureInv, MeasureShapes, KernelOK, MeasureTree, OnlyRootWaits, AllInJob, Asking,
        Looping
  <2>5. MeasureSeen'
    BY <1>1
    DEF MeasureInv, MeasureShapes, MeasureTree, MeasureSeen, NoneLive, Asking, Looping
  <2>6. QED  BY <2>2, <2>3, <2>4, <2>5 DEF MeasureInv
<1>2. ASSUME /\ benchPc = "assign"
             /\ benchPc' = "raised"
             /\ proc' = [proc EXCEPT ![Root] = "bad"]
             /\ held' = {}
             /\ retained' = {}
             /\ doomed' = (doomed \/ "job" \in held)
             /\ UNCHANGED <<inJob, posted, measured, listed, sample, errors, timedOut,
                            wall, covered, left, result>>
      PROVE  MeasureInv'
  <2>1. benchPc' \in BenchPlaces  BY <1>2 DEF BenchPlaces, Asking, Looping
  <2>2. MeasureShapes'  BY <1>2, <2>1 DEF MeasureInv, MeasureShapes, KernelOK, Proc
  <2>3. MeasureClock'  BY <1>2 DEF MeasureInv, MeasureClock, BenchPlaces, Asking, Looping
  <2>4. MeasureTree'
    BY <1>2
    DEF MeasureInv, MeasureShapes, KernelOK, MeasureTree, OnlyRootWaits, AllInJob, Asking,
        Looping
  <2>5. MeasureSeen'
    BY <1>2
    DEF MeasureInv, MeasureShapes, MeasureTree, MeasureSeen, NoneLive, Asking, Looping
  <2>6. QED  BY <2>2, <2>3, <2>4, <2>5 DEF MeasureInv
<1>3. QED
  BY <1>1, <1>2
  DEF Bench!Assign, Bench!Goto, Bench!Release, Bench!Close, Bench!sampling, Bench!clock

\* The command runs, or not.
LEMMA BenchResumeKept ==
  ASSUME MeasureInv, Bench!Resume
  PROVE  MeasureInv'
<1>1. ASSUME /\ benchPc = "resume"
             /\ benchPc' = "list"
             /\ proc' = [proc EXCEPT ![Root] = "running"]
             /\ held' = held \ {"thread"}
             /\ UNCHANGED <<inJob, doomed, posted, retained, measured, listed, sample,
                            errors, timedOut, wall, covered, left, result>>
      PROVE  MeasureInv'
  <2>1. benchPc' \in BenchPlaces  BY <1>1 DEF BenchPlaces, Asking, Looping
  <2>2. MeasureShapes'  BY <1>1, <2>1 DEF MeasureInv, MeasureShapes, KernelOK, Proc
  <2>3. MeasureClock'  BY <1>1 DEF MeasureInv, MeasureClock, BenchPlaces, Asking, Looping
  <2>4. MeasureTree'
    BY <1>1
    DEF MeasureInv, MeasureShapes, KernelOK, MeasureTree, OnlyRootWaits, AllInJob, Asking,
        Looping
  <2>5. MeasureSeen'
    BY <1>1
    DEF MeasureInv, MeasureShapes, MeasureTree, MeasureSeen, NoneLive, Asking, Looping
  <2>6. QED  BY <2>2, <2>3, <2>4, <2>5 DEF MeasureInv
<1>2. ASSUME /\ benchPc = "resume"
             /\ benchPc' = "raised"
             /\ held' = {}
             /\ retained' = {}
             /\ doomed' = (doomed \/ "job" \in held)
             /\ UNCHANGED <<proc, inJob, posted, measured, listed, sample, errors,
                            timedOut, wall, covered, left, result>>
      PROVE  MeasureInv'
  <2>1. benchPc' \in BenchPlaces  BY <1>2 DEF BenchPlaces, Asking, Looping
  <2>2. MeasureShapes'  BY <1>2, <2>1 DEF MeasureInv, MeasureShapes, KernelOK, Proc
  <2>3. MeasureClock'  BY <1>2 DEF MeasureInv, MeasureClock, BenchPlaces, Asking, Looping
  <2>4. MeasureTree'
    BY <1>2
    DEF MeasureInv, MeasureShapes, KernelOK, MeasureTree, OnlyRootWaits, AllInJob, Asking,
        Looping
  <2>5. MeasureSeen'
    BY <1>2
    DEF MeasureInv, MeasureShapes, MeasureTree, MeasureSeen, NoneLive, Asking, Looping
  <2>6. QED  BY <2>2, <2>3, <2>4, <2>5 DEF MeasureInv
<1>3. QED
  BY <1>1, <1>2
  DEF Bench!Resume, Bench!Goto, Bench!Release, Bench!Close, Bench!sampling, Bench!clock

\* The processes of the job are listed, or not.
LEMMA BenchListKept ==
  ASSUME MeasureInv, Bench!List
  PROVE  MeasureInv'
<1>1. ASSUME /\ benchPc = "list"
             /\ sample' \in {"empty", "whole"}
             /\ listed' \subseteq inJob
             /\ benchPc' = "open"
             /\ UNCHANGED <<held, proc, inJob, doomed, posted, retained, measured,
                            errors, timedOut, wall, covered, left, result>>
      PROVE  MeasureInv'
  <2>1. benchPc' \in BenchPlaces  BY <1>1 DEF BenchPlaces, Asking, Looping
  <2>2. MeasureShapes'  BY <1>1, <2>1 DEF MeasureInv, MeasureShapes, KernelOK, Proc
  <2>3. MeasureClock'  BY <1>1 DEF MeasureInv, MeasureClock, BenchPlaces, Asking, Looping
  <2>4. MeasureTree'
    BY <1>1
    DEF MeasureInv, MeasureShapes, KernelOK, MeasureTree, OnlyRootWaits, AllInJob, Asking,
        Looping
  <2>5. MeasureSeen'
    BY <1>1
    DEF MeasureInv, MeasureShapes, MeasureTree, MeasureSeen, NoneLive, Asking, Looping
  <2>6. QED  BY <2>2, <2>3, <2>4, <2>5 DEF MeasureInv
<1>2. ASSUME /\ benchPc = "list"
             /\ sample' \in {"empty", "whole"}
             /\ benchPc' = "open"
             /\ listed' = {}
             /\ errors' = TRUE
             /\ UNCHANGED <<held, proc, inJob, doomed, posted, retained, measured,
                            timedOut, wall, covered, left, result>>
      PROVE  MeasureInv'
  <2>1. benchPc' \in BenchPlaces  BY <1>2 DEF BenchPlaces, Asking, Looping
  <2>2. MeasureShapes'  BY <1>2, <2>1 DEF MeasureInv, MeasureShapes, KernelOK, Proc
  <2>3. MeasureClock'  BY <1>2 DEF MeasureInv, MeasureClock, BenchPlaces, Asking, Looping
  <2>4. MeasureTree'
    BY <1>2
    DEF MeasureInv, MeasureShapes, KernelOK, MeasureTree, OnlyRootWaits, AllInJob, Asking,
        Looping
  <2>5. MeasureSeen'
    BY <1>2
    DEF MeasureInv, MeasureShapes, MeasureTree, MeasureSeen, NoneLive, Asking, Looping
  <2>6. QED  BY <2>2, <2>3, <2>4, <2>5 DEF MeasureInv
<1>3. QED  BY <1>1, <1>2 DEF Bench!List, Bench!Goto, Bench!kernel, Bench!clock, Bench!Active

\* An exception of the loop, or an interrupt before it.
LEMMA BenchLoopRaisesKept ==
  ASSUME MeasureInv, Bench!LoopRaises
  PROVE  MeasureInv'
<1>1. ASSUME /\ benchPc \in Looping
             /\ benchPc' = "raised"
             /\ held' = {}
             /\ retained' = {}
             /\ doomed' = TRUE
             /\ UNCHANGED <<proc, inJob, posted, measured, listed, sample, errors,
                            timedOut, wall, covered, left, result>>
      PROVE  MeasureInv'
  <2>1. benchPc' \in BenchPlaces  BY <1>1 DEF BenchPlaces, Asking, Looping
  <2>2. MeasureShapes'  BY <1>1, <2>1 DEF MeasureInv, MeasureShapes, KernelOK, Proc
  <2>3. MeasureClock'  BY <1>1 DEF MeasureInv, MeasureClock, BenchPlaces, Asking, Looping
  <2>4. MeasureTree'
    BY <1>1
    DEF MeasureInv, MeasureShapes, KernelOK, MeasureTree, OnlyRootWaits, AllInJob, Asking,
        Looping
  <2>5. MeasureSeen'
    BY <1>1
    DEF MeasureInv, MeasureShapes, MeasureTree, MeasureSeen, NoneLive, Asking, Looping
  <2>6. QED  BY <2>2, <2>3, <2>4, <2>5 DEF MeasureInv
<1>2. ASSUME /\ ~(InterruptAt \subseteq Looping)
             /\ benchPc' = "raised"
             /\ UNCHANGED <<held, proc, inJob, doomed, posted, retained, measured,
                            listed, sample, errors, timedOut, wall, covered, left,
                            result>>
      PROVE  MeasureInv'
  <2>1. benchPc' \in BenchPlaces  BY <1>2 DEF BenchPlaces, Asking, Looping
  <2>2. MeasureShapes'  BY <1>2, <2>1 DEF MeasureInv, MeasureShapes, KernelOK, Proc
  <2>3. MeasureClock'  BY <1>2 DEF MeasureInv, MeasureClock, BenchPlaces, Asking, Looping
  <2>4. MeasureTree'
    BY <1>2
    DEF MeasureInv, MeasureShapes, KernelOK, MeasureTree, OnlyRootWaits, AllInJob, Asking,
        Looping
  <2>5. MeasureSeen'
    BY <1>2
    DEF MeasureInv, MeasureShapes, MeasureTree, MeasureSeen, NoneLive, Asking, Looping
  <2>6. QED  BY <2>2, <2>3, <2>4, <2>5 DEF MeasureInv
<1>3. QED
  BY <1>1, <1>2
  DEF Bench!LoopRaises, Bench!Goto, Bench!Body, Bench!sampling, Bench!clock, Looping

\* The measuring process ends.
LEMMA BenchProcessEndsKept ==
  ASSUME MeasureInv, Bench!ProcessEnds
  PROVE  MeasureInv'
<1>1. /\ benchPc' = "dead"
      /\ held' = {}
      /\ retained' = {}
      /\ doomed' = (doomed \/ "job" \in held)
      /\ UNCHANGED <<proc, inJob, posted, measured, listed, sample, errors, timedOut,
                     wall, covered, left, result>>
  BY
  DEF Bench!ProcessEnds, Bench!Goto, Bench!Release, Bench!Close, Bench!sampling, Bench!clock
<1>2. benchPc' \in BenchPlaces  BY <1>1 DEF BenchPlaces, Asking, Looping
<1>3. MeasureShapes'  BY <1>1, <1>2 DEF MeasureInv, MeasureShapes, KernelOK, Proc
<1>4. MeasureClock'  BY <1>1 DEF MeasureInv, MeasureClock, BenchPlaces, Asking, Looping
<1>5. MeasureTree'
  BY <1>1
  DEF MeasureInv, MeasureShapes, KernelOK, MeasureTree, OnlyRootWaits, AllInJob, Asking,
      Looping
<1>6. MeasureSeen'
  BY <1>1 DEF MeasureInv, MeasureShapes, MeasureTree, MeasureSeen, NoneLive, Asking, Looping
<1>7. QED  BY <1>3, <1>4, <1>5, <1>6 DEF MeasureInv

\* A process of the sample is read, or missed.
LEMMA BenchOpenKept ==
  ASSUME MeasureInv, Bench!Open
  PROVE  MeasureInv'
<1>1. PICK p \in listed : Bench!Read(p) /\ listed' = listed \ {p}
  BY DEF Bench!Open
<1>2. /\ benchPc = "open"
      /\ UNCHANGED <<held, proc, inJob, doomed, posted, benchPc, errors, timedOut, wall,
                     covered, left, result>>
  BY DEF Bench!Open, Bench!kernel, Bench!clock
<1>3. /\ p \in inJob /\ p \in Proc /\ inJob \subseteq Proc
      /\ retained \subseteq Proc /\ measured \subseteq inJob /\ listed \subseteq inJob
      /\ sample \in {"empty", "whole", "missed"}
  BY <1>1 DEF MeasureInv, MeasureShapes, KernelOK
<1>4. \/ retained' = retained \cup {p} /\ measured' = measured \cup {p} /\ sample' = sample
      \/ /\ retained' \in {retained, retained \cup {p}} /\ measured' = measured
         /\ sample' = "missed"
  BY <1>1 DEF Bench!Read
<1>5. MeasureShapes'
  <2>1. /\ retained' \subseteq Proc /\ measured' \subseteq inJob' /\ listed' \subseteq inJob'
        /\ sample' \in {"empty", "whole", "missed"}
    BY <1>1, <1>2, <1>3, <1>4
  <2>2. QED  BY <1>2, <2>1 DEF MeasureInv, MeasureShapes, KernelOK
<1>6. MeasureClock'  BY <1>2 DEF MeasureInv, MeasureClock
<1>7. MeasureTree'
  <2>1. retained \subseteq inJob => retained' \subseteq inJob'  BY <1>2, <1>3, <1>4
  <2>2. QED
    BY <1>2, <2>1 DEF MeasureInv, MeasureTree, OnlyRootWaits, AllInJob, Asking, Looping
<1>8. MeasureSeen'  BY <1>2, <1>4 DEF MeasureInv, MeasureSeen, NoneLive, Asking, Looping
<1>9. QED  BY <1>5, <1>6, <1>7, <1>8 DEF MeasureInv

\* The sample is over, and counts when it is whole.
LEMMA BenchEndSampleKept ==
  ASSUME MeasureInv, Bench!EndSample
  PROVE  MeasureInv'
<1>1. /\ benchPc = "open" /\ benchPc' = "check"
      /\ covered' = (IF sample = "whole" THEN covered + 1 ELSE covered)
      /\ errors' = (errors \/ sample = "missed")
      /\ UNCHANGED <<held, proc, inJob, doomed, posted, retained, measured, listed, sample,
                     timedOut, wall, left, result>>
  BY DEF Bench!EndSample, Bench!Goto, Bench!kernel
<1>2. benchPc' \in BenchPlaces  BY <1>1 DEF BenchPlaces, Asking, Looping
<1>3. MeasureShapes'  BY <1>1, <1>2 DEF MeasureInv, MeasureShapes, KernelOK
<1>4. MeasureClock'  BY <1>1 DEF MeasureInv, MeasureClock, Looping
<1>5. MeasureTree'
  BY <1>1 DEF MeasureInv, MeasureTree, OnlyRootWaits, AllInJob, Asking, Looping
<1>6. MeasureSeen'  BY <1>1 DEF MeasureInv, MeasureShapes, MeasureSeen, Asking, Looping
<1>7. QED  BY <1>3, <1>4, <1>5, <1>6 DEF MeasureInv

\* The accounting of the job: the end, another round, the timeout, or the end of
\* the grace after it.
LEMMA BenchCheckKept ==
  ASSUME MeasureInv, Bench!Check
  PROVE  MeasureInv'
<1>1. PICK d \in {1, 2} :
         /\ wall' = wall + d
         /\ \/ /\ Active = {} /\ benchPc' = "query" /\ UNCHANGED <<doomed, timedOut, left, errors>>
            \/ /\ d < left /\ left' = left - d /\ benchPc' = "list"
               /\ UNCHANGED <<doomed, timedOut, errors>>
            \/ /\ ~timedOut /\ ~(d < left) /\ timedOut' = TRUE /\ left' = MaxWall
               /\ benchPc' = "list"
               /\ \/ doomed' = TRUE /\ errors' = errors
                  \/ doomed' = doomed /\ errors' = TRUE
            \/ /\ timedOut /\ ~(d < left) /\ errors' = TRUE /\ benchPc' = "query"
               /\ UNCHANGED <<doomed, timedOut, left>>
  BY DEF Bench!Check, Bench!Goto, Bench!Active, Bench!Live, Bench!Proc, Active, Live, Proc
<1>2. /\ benchPc = "check"
      /\ UNCHANGED <<held, proc, inJob, posted, retained, measured, listed, sample, covered,
                     result>>
  BY DEF Bench!Check
<1>3. /\ benchPc' \in {"list", "query"} /\ doomed' \in BOOLEAN /\ errors' \in BOOLEAN
      /\ timedOut' \in BOOLEAN /\ (errors => errors')
  BY <1>1 DEF MeasureInv, MeasureShapes, KernelOK
<1>4. MeasureShapes'
  <2>1. benchPc' \in BenchPlaces  BY <1>3 DEF BenchPlaces, Asking, Looping
  <2>2. QED  BY <1>2, <1>3, <2>1 DEF MeasureInv, MeasureShapes, KernelOK
<1>5. MeasureClock'
  <2>1. /\ wall \in Nat /\ covered \in Nat /\ left \in 0..MaxWall /\ covered <= wall + 1
        /\ IF timedOut THEN wall + left <= 2 * MaxWall + 2 ELSE wall + left = MaxWall
        /\ timedOut \in BOOLEAN /\ MaxWall \in Nat
    BY <1>2, JobsAssumption
    DEF MeasureInv, MeasureShapes, MeasureClock, Looping, Bench!BenchJobAssumption
  <2>2. /\ wall' \in Nat /\ left' \in 0..MaxWall /\ covered' \in Nat /\ covered' <= wall'
        /\ covered' <= wall' + 1 /\ wall' <= 2 * MaxWall + 4
        /\ benchPc' = "list" => IF timedOut' THEN wall' + left' <= 2 * MaxWall + 2
                                            ELSE wall' + left' = MaxWall
    BY <1>1, <1>2, <2>1
  <2>3. QED  BY <1>3, <2>2 DEF MeasureClock, Looping
<1>6. MeasureTree'
  BY <1>2, <1>3 DEF MeasureInv, MeasureTree, OnlyRootWaits, AllInJob, Asking, Looping
<1>7. MeasureSeen'
  <2>1. Active = {} => NoneLive
    BY <1>2
    DEF MeasureInv, MeasureTree, OnlyRootWaits, AllInJob, NoneLive, Active, Live, Asking,
        Looping
  <2>2. benchPc' = "query" /\ ~errors' => NoneLive'  BY <1>1, <1>2, <2>1 DEF NoneLive
  <2>3. QED  BY <1>2, <1>3, <2>2 DEF MeasureInv, MeasureSeen, Asking, Looping
<1>8. QED  BY <1>4, <1>5, <1>6, <1>7 DEF MeasureInv

\* The result: with as many processes kept as the job ever had, all were read.
LEMMA BenchQueryKept ==
  ASSUME MeasureInv, Bench!Query
  PROVE  MeasureInv'
<1>1. ASSUME /\ benchPc = "query" /\ benchPc' = "returned"
             /\ result' = [rssComplete |-> Bench!RssComplete,
                           exit |-> IF proc[Root] = "ok" THEN "ok" ELSE "bad",
                           active |-> Cardinality(Active)]
             /\ held' = {} /\ retained' = {} /\ doomed' = (doomed \/ "job" \in held)
             /\ UNCHANGED <<proc, inJob, posted, measured, listed, sample, errors, timedOut,
                            wall, covered, left>>
      PROVE  MeasureInv'
  <2>1. IsFiniteSet(Proc)  BY JobObjectAssumption, FS_AddElement DEF Proc
  <2>2. Cardinality(Active) \in 0..Cardinality(Proc)
    <3>1. Active \subseteq Proc  BY DEF Active, Live
    <3>2. IsFiniteSet(Active) /\ Cardinality(Active) <= Cardinality(Proc)
      BY <2>1, <3>1, FS_Subset
    <3>3. Cardinality(Active) \in Nat /\ Cardinality(Proc) \in Nat
      BY <2>1, <3>2, FS_CardinalityType
    <3>4. QED  BY <3>2, <3>3
  <2>3. /\ result'.rssComplete = Bench!RssComplete /\ result'.rssComplete \in BOOLEAN
        /\ result'.exit = (IF proc[Root] = "ok" THEN "ok" ELSE "bad")
        /\ result'.active = Cardinality(Active)
        /\ result' \in [rssComplete : BOOLEAN, exit : {"ok", "bad", "none"},
                        active : 0..Cardinality(Proc)]
    <3>1. Bench!RssComplete \in BOOLEAN  BY DEF Bench!RssComplete
    <3>2. QED  BY <1>1, <2>2, <3>1
  <2>4. MeasureShapes'
    <3>1. benchPc' \in BenchPlaces  BY <1>1 DEF BenchPlaces
    <3>2. QED  BY <1>1, <2>3, <3>1 DEF MeasureInv, MeasureShapes, KernelOK
  <2>5. MeasureClock' /\ MeasureTree'
    BY <1>1
    DEF MeasureInv, MeasureClock, MeasureTree, OnlyRootWaits, AllInJob, Asking, Looping
  <2>6. MeasureSeen'
    <3>1. ~errors => NoneLive  BY <1>1 DEF MeasureInv, MeasureSeen
    <3>2. ~errors => result'.active = 0 /\ result'.exit = proc[Root]
      <4>1. NoneLive => Active = {} /\ proc[Root] \notin {"suspended", "running"}
        BY DEF NoneLive, Active, Live, Proc
      <4>2. proc[Root] \in {"ok", "bad", "suspended", "running"}
        BY <1>1 DEF MeasureInv, MeasureShapes, KernelOK, MeasureTree, Asking, Looping, Proc
      <4>3. QED  BY <2>3, <3>1, <4>1, <4>2, FS_EmptySet
    <3>3. Bench!RssComplete => /\ ~errors /\ 20 * covered >= 19 * wall
                               /\ inJob \ {Root} \subseteq measured
      <4>1. SUFFICES ASSUME Bench!RssComplete
                     PROVE  /\ ~errors /\ 20 * covered >= 19 * wall
                            /\ inJob \ {Root} \subseteq measured
        OBVIOUS
      <4>2. /\ Cardinality(retained) >= Cardinality(inJob)
            /\ 100 * covered >= 95 * wall /\ ~errors
        BY <4>1 DEF Bench!RssComplete, Bench!Cardinality, Cardinality
      <4>3. retained \subseteq inJob /\ inJob \subseteq Proc /\ covered \in Nat /\ wall \in Nat
        BY <1>1 DEF MeasureInv, MeasureShapes, KernelOK, MeasureTree, MeasureClock, Asking
      <4>4. retained = inJob  BY <2>1, <4>2, <4>3, FS_Subset, FS_CardinalityType
      <4>5. retained \ {Root} \subseteq measured
        BY <1>1, <4>2 DEF MeasureInv, MeasureSeen, Asking
      <4>6. 20 * covered >= 19 * wall  BY <4>2, <4>3
      <4>7. QED  BY <4>2, <4>4, <4>5, <4>6
    <3>4. NoneLive => NoneLive'  BY <1>1 DEF NoneLive
    <3>5. QED  BY <1>1, <2>3, <3>1, <3>2, <3>3, <3>4 DEF MeasureSeen, Asking, Looping
  <2>7. QED  BY <2>4, <2>5, <2>6 DEF MeasureInv
<1>2. ASSUME /\ benchPc = "query" /\ benchPc' = "raised"
             /\ held' = {} /\ retained' = {} /\ doomed' = (doomed \/ "job" \in held)
             /\ UNCHANGED <<proc, inJob, posted, measured, listed, sample, errors, timedOut,
                            wall, covered, left, result>>
      PROVE  MeasureInv'
  <2>1. benchPc' \in BenchPlaces  BY <1>2 DEF BenchPlaces
  <2>2. MeasureShapes'  BY <1>2, <2>1 DEF MeasureInv, MeasureShapes, KernelOK
  <2>3. MeasureClock' /\ MeasureTree'
    BY <1>2
    DEF MeasureInv, MeasureClock, MeasureTree, OnlyRootWaits, AllInJob, Asking, Looping
  <2>4. MeasureSeen'  BY <1>2 DEF MeasureSeen, Asking, Looping
  <2>5. QED  BY <2>2, <2>3, <2>4 DEF MeasureInv
<1>3. QED
  <2>1. Bench!Cardinality(Bench!Active) = Cardinality(Active)
    BY
    DEF Bench!Active, Bench!Live, Bench!Proc, Active, Live, Proc, Bench!Cardinality,
        Cardinality
  <2>2. QED
    BY <1>1, <1>2, <2>1
    DEF Bench!Query, Bench!Goto, Bench!Release, Bench!Close, Bench!sampling, Bench!clock

\* A process of the job starts another one.
LEMMA BenchStartKept ==
  ASSUME MeasureInv, Bench!Start, UNCHANGED Bench!adapter
  PROVE  MeasureInv'
<1>1. PICK p \in Proc, q \in Descendant :
         /\ proc[p] = "running" /\ proc[q] = "none"
         /\ \/ /\ proc' = [proc EXCEPT ![q] = "running"]
               /\ inJob' = (IF p \in inJob THEN inJob \cup {q} ELSE inJob)
               /\ UNCHANGED posted
            \/ posted' = posted \cup {"process"} /\ UNCHANGED <<proc, inJob>>
  BY DEF Bench!Start, Bench!Proc, Proc
<1>2. UNCHANGED <<held, doomed, benchPc, retained, measured, listed, sample, errors,
                  timedOut, wall, covered, left, result>>
  BY DEF Bench!Start, Bench!adapter
<1>3. p \in inJob /\ ~NoneLive /\ q \in Proc /\ q # Root
  BY <1>1, JobObjectAssumption DEF MeasureInv, MeasureTree, AllInJob, NoneLive, Proc
<1>4. MeasureShapes'  BY <1>1, <1>2, <1>3 DEF MeasureInv, MeasureShapes, KernelOK
<1>5. MeasureClock'  BY <1>2 DEF MeasureInv, MeasureClock
<1>6. MeasureTree'
  <2>1. OnlyRootWaits'
    BY <1>1, <1>3 DEF MeasureInv, MeasureShapes, KernelOK, MeasureTree, OnlyRootWaits
  <2>2. AllInJob'
    BY <1>1, <1>3 DEF MeasureInv, MeasureShapes, KernelOK, MeasureTree, AllInJob
  <2>3. inJob \subseteq inJob'  BY <1>1
  <2>4. proc'[Root] = proc[Root]
    BY <1>1, <1>3 DEF MeasureInv, MeasureShapes, KernelOK, Proc
  <2>5. QED  BY <1>2, <2>1, <2>2, <2>3, <2>4 DEF MeasureInv, MeasureTree
<1>7. MeasureSeen'  BY <1>2, <1>3 DEF MeasureInv, MeasureSeen
<1>8. QED  BY <1>4, <1>5, <1>6, <1>7 DEF MeasureInv

\* A process ends, by itself or with its job.
LEMMA BenchEndKept ==
  ASSUME MeasureInv, Bench!Exit \/ Bench!Killed, UNCHANGED Bench!adapter
  PROVE  MeasureInv'
<1>1. PICK p \in Proc, e \in {"ok", "bad"} :
         proc[p] \in {"suspended", "running"} /\ proc' = [proc EXCEPT ![p] = e]
  BY DEF Bench!Exit, Bench!Killed, Bench!Active, Bench!Live, Bench!Proc, Proc
<1>2. UNCHANGED <<held, inJob, doomed, posted, benchPc, retained, measured, listed, sample,
                  errors, timedOut, wall, covered, left, result>>
  BY DEF Bench!Exit, Bench!Killed, Bench!adapter
<1>3. ~NoneLive  BY <1>1 DEF NoneLive
<1>4. MeasureShapes'  BY <1>1, <1>2 DEF MeasureInv, MeasureShapes, KernelOK
<1>5. MeasureClock'  BY <1>2 DEF MeasureInv, MeasureClock
<1>6. MeasureTree'
  <2>1. OnlyRootWaits' /\ AllInJob'
    BY <1>1, <1>2
    DEF MeasureInv, MeasureShapes, KernelOK, MeasureTree, OnlyRootWaits, AllInJob
  <2>2. proc[Root] \notin {"none", "suspended"} => proc'[Root] \notin {"none", "suspended"}
    BY <1>1 DEF MeasureInv, MeasureShapes, KernelOK
  <2>3. QED  BY <1>2, <2>1, <2>2 DEF MeasureInv, MeasureTree
<1>7. MeasureSeen'  BY <1>2, <1>3 DEF MeasureInv, MeasureSeen
<1>8. QED  BY <1>4, <1>5, <1>6, <1>7 DEF MeasureInv

\* The invariant of the measurement, for every step.
LEMMA BenchKept ==
  ASSUME MeasureInv, Bench!Next
  PROVE  MeasureInv'
BY BenchNewJobKept, BenchCreateKept, BenchAssignKept, BenchResumeKept, BenchListKept,
   BenchOpenKept, BenchEndSampleKept, BenchCheckKept, BenchQueryKept, BenchLoopRaisesKept,
   BenchProcessEndsKept, BenchStartKept, BenchEndKept
DEF Bench!Next, Bench!AdapterStep

\* The invariant holds at the beginning.
LEMMA BenchBegins ==
  ASSUME Bench!Init
  PROVE  MeasureInv
<1>1. /\ held = {} /\ proc = [p \in Proc |-> "none"] /\ inJob = {} /\ doomed = FALSE
      /\ posted = {} /\ benchPc = "job" /\ retained = {} /\ measured = {} /\ listed = {}
      /\ sample = "empty" /\ errors = FALSE /\ timedOut = FALSE /\ wall = 0 /\ covered = 0
      /\ left = MaxWall
      /\ result = [rssComplete |-> FALSE, exit |-> "none", active |-> 0]
  BY DEF Bench!Init, Bench!KernelInit, Bench!Proc, Proc
<1>2. MeasureShapes
  <2>1. benchPc \in BenchPlaces  BY <1>1 DEF BenchPlaces
  <2>2. Cardinality(Proc) \in Nat
    BY JobObjectAssumption, FS_AddElement, FS_CardinalityType DEF Proc
  <2>3. result \in [rssComplete : BOOLEAN, exit : {"ok", "bad", "none"},
                    active : 0..Cardinality(Proc)]
    BY <1>1, <2>2
  <2>4. QED  BY <1>1, <2>1, <2>3 DEF MeasureShapes, KernelOK
<1>3. MeasureClock
  BY <1>1, JobsAssumption DEF MeasureClock, Looping, Bench!BenchJobAssumption
<1>4. MeasureTree /\ MeasureSeen
  BY <1>1 DEF MeasureTree, MeasureSeen, OnlyRootWaits, AllInJob, Asking, Looping
<1>5. QED  BY <1>2, <1>3, <1>4 DEF MeasureInv

\* Steps of the other adapters leave it alone.
LEMMA BenchStutter ==
  ASSUME MeasureInv, UNCHANGED <<held, kernel, benchVars>>
  PROVE  MeasureInv'
<1>1. UNCHANGED <<held, proc, inJob, doomed, posted, benchPc, retained, measured, listed,
                  sample, errors, timedOut, wall, covered, left, result>>
  BY DEF kernel, benchVars
<1>2. MeasureShapes'  BY <1>1 DEF MeasureInv, MeasureShapes, KernelOK
<1>3. MeasureClock'  BY <1>1 DEF MeasureInv, MeasureClock
<1>4. MeasureTree'  BY <1>1 DEF MeasureInv, MeasureTree, OnlyRootWaits, AllInJob
<1>5. MeasureSeen'  BY <1>1 DEF MeasureInv, MeasureSeen, NoneLive
<1>6. QED  BY <1>2, <1>3, <1>4, <1>5 DEF MeasureInv

\* What is named first of some faults is no success.
LEMMA FirstIsAFault ==
  ASSUME NEW F \in SUBSET Fault, F # {}
  PROVE  First(F) # "success"
<1>1. /\ Len(FaultOrder) = 7
      /\ FaultOrder[1] = "launch" /\ FaultOrder[2] = "pipe" /\ FaultOrder[3] = "thread"
      /\ FaultOrder[4] = "infrastructure" /\ FaultOrder[5] = "process"
      /\ FaultOrder[6] = "memory" /\ FaultOrder[7] = "timeout"
  BY DEF FaultOrder
<1>2. \E i \in 1..7 : FaultOrder[i] \in F /\ \A j \in 1..(i - 1) : FaultOrder[j] \notin F
  <2>1. \E i \in 1..7 : FaultOrder[i] \in F  BY <1>1, FaultNames
  <2>2. CASE FaultOrder[1] \in F  BY <2>2
  <2>3. CASE FaultOrder[1] \notin F /\ FaultOrder[2] \in F  BY <2>3
  <2>4. CASE FaultOrder[1] \notin F /\ FaultOrder[2] \notin F /\ FaultOrder[3] \in F
    BY <2>4
  <2>5. CASE /\ FaultOrder[1] \notin F /\ FaultOrder[2] \notin F /\ FaultOrder[3] \notin F
             /\ FaultOrder[4] \in F
    BY <2>5
  <2>6. CASE /\ FaultOrder[1] \notin F /\ FaultOrder[2] \notin F /\ FaultOrder[3] \notin F
             /\ FaultOrder[4] \notin F /\ FaultOrder[5] \in F
    BY <2>6
  <2>7. CASE /\ FaultOrder[1] \notin F /\ FaultOrder[2] \notin F /\ FaultOrder[3] \notin F
             /\ FaultOrder[4] \notin F /\ FaultOrder[5] \notin F /\ FaultOrder[6] \in F
    BY <2>7
  <2>8. CASE /\ FaultOrder[1] \notin F /\ FaultOrder[2] \notin F /\ FaultOrder[3] \notin F
             /\ FaultOrder[4] \notin F /\ FaultOrder[5] \notin F /\ FaultOrder[6] \notin F
             /\ FaultOrder[7] \in F
    BY <2>8
  <2>9. QED  BY <2>1, <2>2, <2>3, <2>4, <2>5, <2>6, <2>7, <2>8
<1>3. First(F) \in F  BY <1>1, <1>2 DEF First
<1>4. "success" \notin Fault  BY FaultNames
<1>5. QED  BY <1>3, <1>4

\* A success has no fault, no cap that was reached, and an exit code for it.
LEMMA SuccessHasNoFault ==
  ASSUME NEW o \in [exit : {"ok", "bad", "none"}, faults : SUBSET Fault, output : BOOLEAN],
         Classify(o) = "success"
  PROVE  o.faults = {} /\ ~o.output /\ o.exit = "ok"
BY FirstIsAFault DEF Classify

\* The invariants of the adapters hold at the beginning.
LEMMA JobsBegin ==
  ASSUME MCInit
  PROVE  JobsInv
<1>1. WindowsInv /\ pc = "sinks"  BY WindowsBegins DEF MCInit, Init
<1>2. MeasureInv /\ benchPc = "job"  BY BenchBegins DEF MCInit, Bench!Init
<1>3. CASE subject = "plain" /\ Posix(FALSE, FALSE)!Init
  <2>1. PosixInv(FALSE)  BY <1>3, PosixBegins
  <2>2. QED  BY <1>1, <1>2, <1>3, <2>1 DEF JobsInv
<1>4. CASE subject \in {"guarded", "windows", "bench"} /\ Posix(TRUE, TRUE)!Init
  <2>1. PosixInv(TRUE)  BY <1>4, PosixBegins
  <2>2. QED  BY <1>1, <1>2, <1>4, <2>1 DEF JobsInv
<1>5. QED  BY <1>3, <1>4 DEF MCInit

\* Every step, of whichever adapter the behaviour is about, keeps them.
LEMMA JobsKeep ==
  ASSUME JobsInv, [JobsNext]_allVars
  PROVE  JobsInv'
<1>1. ASSUME UNCHANGED allVars
      PROVE  JobsInv'
  <2>1. /\ UNCHANGED posixVars /\ UNCHANGED vars /\ UNCHANGED benchVars
        /\ subject' = subject
    BY <1>1 DEF allVars, choice
  <2>2. pc' = pc /\ benchPc' = benchPc /\ UNCHANGED <<held, kernel>>
    BY <2>1 DEF vars, adapter, kernel, benchVars
  <2>3. (PosixInv(TRUE) => PosixInv(TRUE)') /\ (PosixInv(FALSE) => PosixInv(FALSE)')
    BY <2>1, PosixStutter
  <2>4. (WindowsInv => WindowsInv') /\ (MeasureInv => MeasureInv')
    BY <2>1, <2>2, WindowsStutter, BenchStutter
  <2>5. QED  BY <2>1, <2>2, <2>3, <2>4 DEF JobsInv
<1>2. ASSUME NEW g \in BOOLEAN, NEW d \in BOOLEAN, AnyPosix(Posix(g, d)!Next),
             subject = (IF g THEN "guarded" ELSE "plain")
      PROVE  JobsInv'
  <2>1. /\ Posix(g, d)!Next /\ UNCHANGED vars /\ UNCHANGED benchVars
        /\ subject' = subject
    BY <1>2 DEF AnyPosix, choice
  <2>2. benchPc' = benchPc /\ UNCHANGED <<held, kernel>>
    BY <2>1 DEF vars, kernel, benchVars
  <2>3. PosixInv(g)'
    <3>1. PosixInv(g)  BY <1>2 DEF JobsInv
    <3>2. QED  BY <2>1, <3>1, PosixKept
  <2>4. WindowsInv' /\ MeasureInv'
    BY <1>2, <2>1, <2>2, WindowsStutter, BenchStutter DEF JobsInv
  <2>5. QED  BY <1>2, <2>1, <2>3, <2>4 DEF JobsInv
<1>3. ASSUME subject = "windows", Next, UNCHANGED <<posixVars, benchVars, choice>>
      PROVE  JobsInv'
  <2>1. UNCHANGED posixVars /\ benchPc' = benchPc /\ subject' = subject
    BY <1>3 DEF benchVars, choice
  <2>2. PosixInv(TRUE)' /\ WindowsInv'  BY <1>3, <2>1, PosixStutter, WindowsKept DEF JobsInv
  <2>3. QED  BY <1>3, <2>1, <2>2 DEF JobsInv
<1>4. ASSUME subject = "bench", Bench!Next, UNCHANGED <<adapter, posixVars, choice>>
      PROVE  JobsInv'
  <2>1. UNCHANGED posixVars /\ pc' = pc /\ subject' = subject  BY <1>4 DEF adapter, choice
  <2>2. PosixInv(TRUE)' /\ MeasureInv'  BY <1>4, <2>1, PosixStutter, BenchKept DEF JobsInv
  <2>3. QED  BY <1>4, <2>1, <2>2 DEF JobsInv
<1>5. QED  BY <1>1, <1>2, <1>3, <1>4 DEF JobsNext, AnyWindows, AnyBench

\* The state of an adapter is well formed.
LEMMA JobsAreTyped ==
  ASSUME JobsInv
  PROVE  JobsTypeOK
<1>1. ASSUME NEW g \in BOOLEAN, PosixInv(g)
      PROVE  Posix(TRUE, TRUE)!TypeOK
  <2>1. PosixStates /\ PosixRecords  BY <1>1 DEF PosixInv
  <2>2. posixPc \in {"spawn dog", "spawn", "identify", "configure", "await ready", "arm",
                     "await ack", "callback", "release", "poll", "wait", "survivors",
                     "quiesce", "except wait", "except quiesce", "finally", "final wait",
                     "final quiesce", "disarm", "await dog", "join", "returned", "raised",
                     "dead"}
    BY <2>1 DEF PosixStates, Places, Starting, Midway, Handling, Leaving
  <2>3. Posix(TRUE, TRUE)!ExitCode = {"ok", "bad", "none"} /\ Posix(TRUE, TRUE)!Fault = Fault
    BY
    DEF Posix!ExitCode, Posix!Fault, Posix!ErrorField, Posix!LimitField, Fault, ErrorField,
        LimitField
  <2>4. QED  BY <2>1, <2>2, <2>3 DEF Posix!TypeOK, PosixStates, PosixRecords, Posix!Control
<1>2. ASSUME WindowsInv
      PROVE  TypeOK
  <2>1. pc \in {"sinks", "job", "create", "assign", "readers", "callback", "resume",
                "drain", "sample", "check", "finally", "join", "query", "exit code",
                "returned", "raised", "dead"}
    BY <1>2 DEF WindowsInv, WindowsShapes, WindowsPlaces, Excepting, InLoop, AtEnd
  <2>2. QED  BY <1>2, <2>1 DEF WindowsInv, WindowsShapes, TypeOK, ExitCode
<1>3. ASSUME MeasureInv
      PROVE  Bench!TypeOK
  <2>1. benchPc \in {"job", "create", "assign", "resume", "query", "returned", "raised",
                     "dead"} \cup Bench!Body
    BY <1>3 DEF MeasureInv, MeasureShapes, BenchPlaces, Asking, Looping, Bench!Body
  <2>2. wall \in 0..(2 * MaxWall + 4) /\ covered \in 0..(wall + 1) /\ left \in 0..MaxWall
    BY <1>3, JobsAssumption DEF MeasureInv, MeasureClock, Bench!BenchJobAssumption
  <2>3. Bench!KernelOK /\ Bench!ExitCode = {"ok", "bad", "none"} /\ Bench!Proc = Proc
        /\ Bench!Cardinality(Bench!Proc) = Cardinality(Proc)
    BY <1>3
    DEF MeasureInv, MeasureShapes, KernelOK, Bench!KernelOK, Bench!Proc, Proc,
        Bench!ExitCode, Bench!Cardinality, Cardinality
  <2>4. QED  BY <1>3, <2>1, <2>2, <2>3 DEF MeasureInv, MeasureShapes, Bench!TypeOK
<1>4. QED  BY <1>1, <1>2, <1>3 DEF JobsInv, JobsTypeOK

\* A success of a POSIX adapter is clean.
LEMMA PosixSuccess ==
  ASSUME NEW g \in BOOLEAN, NEW d \in BOOLEAN, PosixInv(g)
  PROVE  Posix(g, d)!SuccessIsClean
<1>1. SUFFICES ASSUME posixPc = "returned", Posix(g, d)!Verdict = "success"
               PROVE  /\ root = "gone" /\ ~posixKilled
                      /\ kid \notin {"in", "out"} /\ posixReader = "done" /\ ~posixSink.error
                      /\ g => posixCalled /\ dog = "gone" /\ dogCode = "0"
  BY DEF Posix!SuccessIsClean
<1>2. PICK o : o = [exit |-> exit, faults |-> posixRep.faults, output |-> posixSink.over]
  OBVIOUS
<1>3. o \in [exit : {"ok", "bad", "none"}, faults : SUBSET Fault, output : BOOLEAN]
  BY <1>2 DEF PosixInv, PosixStates, PosixRecords
<1>4. Posix(g, d)!First(o.faults) = First(o.faults)
  BY DEF Posix!First, Posix!FaultOrder, First, FaultOrder
<1>5. Classify(o) = "success"
  BY <1>1, <1>2, <1>4 DEF Posix!Verdict, Posix!Classify, Classify
<1>6. posixRep.faults = {} /\ ~posixSink.over /\ exit = "ok"
  BY <1>2, <1>3, <1>5, SuccessHasNoFault
<1>7. /\ pgid /\ GroupGone /\ ~(posixKilled /\ ~posixSink.error)
      /\ g => posixCalled /\ dog = "gone" /\ dogCode = "0"
      /\ posixReader # "reading" /\ ~posixSink.error
  BY <1>1, <1>6 DEF PosixInv, Faultless, Starting, Leaving
<1>8. posixReader = "done"  BY <1>7 DEF PosixInv, PosixStates, StartUp
<1>9. root = "gone" /\ kid \notin {"in", "out"}
  BY <1>1, <1>6, <1>7, <1>8 DEF PosixInv, ReaderSaw
<1>10. QED  BY <1>7, <1>8, <1>9

\* A success of the Windows adapter is clean.
LEMMA WindowsSuccess ==
  ASSUME WindowsInv
  PROVE  SuccessIsClean
<1>1. SUFFICES ASSUME pc = "returned", Verdict = "success"
               PROVE  /\ proc[Root] = "ok" /\ Live = {} /\ finished /\ ~killed /\ posted = {}
                      /\ reader = "done"
  BY DEF SuccessIsClean
<1>2. PICK o : o = [exit |-> rep.exit, faults |-> rep.faults, output |-> sink.over]
  OBVIOUS
<1>3. o \in [exit : {"ok", "bad", "none"}, faults : SUBSET Fault, output : BOOLEAN]
  BY <1>2 DEF WindowsInv, WindowsShapes
<1>4. rep.faults = {} /\ ~sink.over /\ rep.exit = "ok"
  BY <1>1, <1>2, <1>3, SuccessHasNoFault DEF Verdict
<1>5. finished /\ reader # "reading" /\ ~sink.error /\ posted = {} /\ ~stop
  BY <1>1, <1>4 DEF WindowsInv, WindowsShapes, WindowsFaultless, AtEnd
<1>6. NoneLive /\ reader # "none" /\ proc[Root] = "ok" /\ ~killed
  BY <1>4, <1>5 DEF WindowsInv, WindowsShapes, WindowsTree, WindowsLimits
<1>7. QED  BY <1>5, <1>6 DEF WindowsInv, WindowsShapes, NoneLive, Live

\* A run that counts as a success, under any adapter, ended by itself with all it
\* had started and was watched to its end: in every reachable state, for any
\* number of descendants, interrupts and rounds.
THEOREM SuccessesAreClean == JobsSpec => []JobSuccessIsClean
<1>1. MCInit => JobsInv  BY JobsBegin
<1>2. JobsInv /\ [JobsNext]_allVars => JobsInv'  BY JobsKeep
<1>3. JobsInv => JobSuccessIsClean
  <2>1. SUFFICES ASSUME JobsInv PROVE JobSuccessIsClean
    OBVIOUS
  <2>2. JobsTypeOK  BY <2>1, JobsAreTyped
  <2>3. subject = "plain" => Posix(FALSE, FALSE)!SuccessIsClean
    BY <2>1, PosixSuccess DEF JobsInv
  <2>4. subject = "guarded" => Posix(TRUE, TRUE)!SuccessIsClean
    BY <2>1, PosixSuccess DEF JobsInv
  <2>5. SuccessIsClean
    <3>1. subject = "bench" => SuccessIsClean  BY <2>1 DEF JobsInv, SuccessIsClean
    <3>2. QED  BY <2>1, <3>1, WindowsSuccess DEF JobsInv
  <2>6. Bench!ReturnedIsOver
    <3>1. NoneLive => Bench!Live = {}  BY DEF NoneLive, Bench!Live, Bench!Proc, Proc
    <3>2. QED  BY <2>1, <3>1 DEF JobsInv, MeasureInv, MeasureSeen, Bench!ReturnedIsOver
  <2>7. QED  BY <2>2, <2>3, <2>4, <2>5, <2>6 DEF JobSuccessIsClean
<1>4. QED  BY <1>1, <1>2, <1>3, PTL DEF JobsSpec

\* What an adapter returns tells all there is to tell: a group that survives, a
\* limit that was hit, a process that no sample saw.
THEOREM NothingStaysSilent == JobsSpec => []NothingIsSilent
<1>1. MCInit => JobsInv  BY JobsBegin
<1>2. JobsInv /\ [JobsNext]_allVars => JobsInv'  BY JobsKeep
<1>3. JobsInv => NothingIsSilent
  <2>1. SUFFICES ASSUME JobsInv PROVE NothingIsSilent
    OBVIOUS
  <2>2. Posix(TRUE, TRUE)!NoSilentSurvivor
    <3>1. ASSUME NEW g \in BOOLEAN, PosixInv(g)
          PROVE  Posix(TRUE, TRUE)!NoSilentSurvivor
      BY <3>1
      DEF PosixInv, Faultless, GroupGone, Leaving, Starting, Posix!NoSilentSurvivor,
          Posix!GroupAlive, Posix!RootAlive
    <3>2. QED  BY <2>1, <3>1 DEF JobsInv
  <2>3. LimitReported  BY <2>1 DEF JobsInv, WindowsInv, WindowsLimits, LimitReported
  <2>4. Bench!RssCompleteIsTrue
    BY <2>1 DEF JobsInv, MeasureInv, MeasureSeen, Bench!RssCompleteIsTrue
  <2>5. QED  BY <2>2, <2>3, <2>4 DEF NothingIsSilent
<1>4. QED  BY <1>1, <1>2, <1>3, PTL DEF JobsSpec

\* What holds the command together, in every state.
Controlled == /\ Posix(TRUE, TRUE)!DismissedOnlyWhenGone
              /\ subject = "windows" => RunsInJob
              /\ Bench!HandlesReleased

\* The command runs only where it can be collected, and what collects it is let go
\* of only when it is gone.  An interrupt between the creation of the measured
\* command and its loop would leave the handles to the process, so that no such
\* interrupt is assumed.
THEOREM AllStaysUnderControl ==
  ASSUME InterruptAt \subseteq Bench!Body
  PROVE  JobsSpec => KeptUnderControl
<1>1. MCInit => JobsInv  BY JobsBegin
<1>2. JobsInv /\ [JobsNext]_allVars => JobsInv'  BY JobsKeep
<1>3. JobsInv /\ [JobsNext]_allVars =>
          [subject = "guarded" => Posix(TRUE, TRUE)!ReleaseWatched]_posixVars
  <2>1. SUFFICES ASSUME JobsInv, [JobsNext]_allVars, subject = "guarded", root # "target",
                        root' = "target"
                 PROVE  posixCalled /\ dog \notin {"none", "config"}
    BY DEF Posix!ReleaseWatched
  <2>2. PICK d \in BOOLEAN : Posix(TRUE, d)!Next
    BY <2>1 DEF JobsNext, AnyPosix, AnyWindows, AnyBench, allVars, posixVars
  <2>3. PosixInv(TRUE)  BY <2>1 DEF JobsInv
  <2>4. QED  BY <2>1, <2>2, <2>3, ReleaseIsWatched
<1>4. JobsInv => Controlled
  <2>1. SUFFICES ASSUME JobsInv PROVE Controlled
    OBVIOUS
  <2>2. ASSUME NEW g \in BOOLEAN, PosixInv(g)
        PROVE  Posix(TRUE, TRUE)!DismissedOnlyWhenGone
    <3>1. ASSUME pipe["live"] = "done"
          PROVE  root # "target" /\ kid # "in"
      <4>1. g /\ (GroupGone \/ pipe["release"] # "sent")
        BY <2>2, <3>1 DEF PosixInv, Dismissal
      <4>2. pipe["release"] # "sent" => root # "target" /\ kid = "none"
        BY <2>2, <4>1 DEF PosixInv, StartUp
      <4>3. QED  BY <4>1, <4>2 DEF GroupGone
    <3>2. QED  BY <3>1 DEF Posix!DismissedOnlyWhenGone
  <2>3. Posix(TRUE, TRUE)!DismissedOnlyWhenGone  BY <2>1, <2>2 DEF JobsInv
  <2>4. subject = "windows" => RunsInJob  BY <2>1 DEF JobsInv, WindowsInv, WindowsTree
  <2>5. Bench!HandlesReleased
    <3>1. InterruptAt \subseteq Looping  BY DEF Bench!Body, Looping
    <3>2. benchPc = "job" => Bench!HandlesReleased  BY DEF Bench!HandlesReleased
    <3>3. MeasureInv => Bench!HandlesReleased
      BY <3>1 DEF MeasureInv, MeasureTree, Bench!HandlesReleased
    <3>4. QED  BY <2>1, <3>2, <3>3 DEF JobsInv
  <2>6. QED  BY <2>3, <2>4, <2>5 DEF Controlled
<1>5. Controlled' /\ [JobsNext]_allVars =>
          [/\ Posix(TRUE, TRUE)!DismissedOnlyWhenGone'
           /\ subject = "windows" => RunsInJob'
           /\ Bench!HandlesReleased']_allVars
  <2>1. [JobsNext]_allVars => subject' = subject
    BY DEF JobsNext, AnyPosix, AnyWindows, AnyBench, allVars, choice
  <2>2. QED  BY <2>1 DEF Controlled
<1>6. QED  BY <1>1, <1>2, <1>3, <1>4, <1>5, PTL DEF JobsSpec, KeptUnderControl

\* What the runs check, a bounded kernel and fair adapters included, is a part of
\* what is proved about.
THEOREM RunsAreJobs == MCSpec => JobsSpec
<1>1. [MCNext]_allVars => [JobsNext]_allVars
  BY DEF MCNext, InPosix, InWindows, InBench, JobsNext, AnyPosix, AnyWindows, AnyBench
<1>2. QED  BY <1>1, PTL DEF MCSpec, JobsSpec

=============================================================================
