------------------------- MODULE OneShotGate_proofs --------------------------
(* The one-shot gate keeps its promise for any number of callers, any caps    *)
(* and any outcome of an adapter: one launch per directory, answers that tell *)
(* the truth, and the abstract life of a directory that OneShotSpec states.   *)
(*                                                                            *)
(* The argument.  A caller works when it has passed the checks of execute;    *)
(* before a verdict is written (Decided) at most one caller claims or works,  *)
(* because the marker is created exclusively and nothing removes it.  After   *)
(* it nobody works again: whoever finds the marker gone still finds one of    *)
(* the other files, as fewer files were altered than there are.               *)
(*                                                                            *)
(* Two parts follow.  EvidenceArchive: a verdict that was listed for an       *)
(* archive stays what it is, and no file is added after it.  OuterEntry: a    *)
(* success of the outer transaction is one, wherever its monitor interrupts   *)
(* the main thread, and its directory keeps the promise of OneShotSpec too.   *)
EXTENDS MC_Gate, TLAPS

Claiming == {"marking", "prepared"}
Working  == {"opening", "opened", "running", "raised", "sizing stdout",
             "hashing stdout", "sizing stderr", "hashing stderr", "returned",
             "checked outcome", "classified", "judging"}
Checked  == {"checked outcome", "classified", "judging"}

\* A verdict has been written, whatever became of it.
Decided == file["verdict"].is = "verdict" \/ damage > 0

\* TypeOK, variable by variable, and that the directory and the outcomes are
\* functions.
FilesOK ==
    /\ DOMAIN file = Names
    /\ file["attempt"] \in {Absent, Torn} \cup
           [is : {"attempt"}, id : Caller, altered : BOOLEAN]
    /\ \A s \in Stream : file[s] = Absent \/
           file[s] \in [is : {"raw"}, size : 0..Cap, altered : BOOLEAN]
    /\ file["verdict"].is \in {"absent", "torn", "verdict"}
    /\ file["verdict"].is = "absent" => file["verdict"] = Absent
    /\ file["stray"] \in {Absent, RawFile(0)}
CallersOK ==
    /\ pc \in [Caller -> PCs] /\ outcome \in [Caller -> Outcomes(Cap)]
    /\ wrapped \in [Caller -> BOOLEAN] /\ reading \in [Caller -> BOOLEAN]
WorldOK ==
    /\ launched \in Nat /\ emitted \in [Stream -> 0..MaxOut]
    /\ exited \in [code : ExitCode, faults : SUBSET Fault]
    /\ toolBad \in BOOLEAN /\ late \in BOOLEAN /\ damage \in 0..MaxDamage
Types == FilesOK /\ CallersOK /\ WorldOK

\* One caller at a time has the directory, until there is a verdict.
Busy(p) == pc[p] \in Claiming \cup Working
Alone == /\ \A p \in Caller : pc[p] \in Working => ~Decided
         /\ ~Decided => \A p, q \in Caller : Busy(p) /\ Busy(q) => p = q

\* What is in the directory while nothing was decided: before it is consumed,
\* and when a caller p is at l.
Untouched == launched = 0 /\ \A s \in Stream \cup {"verdict"} : file[s] = Absent
Unaltered == \A s \in Stream : file[s] # Absent => ~file[s].altered
Place(p, l) ==
    /\ l \in Claiming \cup {"opening"} => Untouched
    /\ l = "opened" => launched = 0
    /\ l \in Working => (file["verdict"] = Absent <=> l # "judging")
    /\ l \in Working \cup {"prepared"} => file["attempt"] = Attempt(p)
    /\ l \in Checked \cup {"opened", "running", "returned", "hashing stderr"}
       => \A s \in Stream : file[s] # Absent
    /\ l \in {"hashing stdout", "sizing stderr"} => file["stdout"] # Absent
Undecided ==
    ~Decided => /\ ~Consumed => Untouched /\ \A p \in Caller : ~Busy(p)
                /\ Unaltered
                /\ \A p \in Caller : Place(p, pc[p])

\* The command was started once at most, and the readers are its readers.
Launches ==
    /\ launched <= 1
    /\ \A p \in Caller : reading[p] \/ pc[p] = "running" => launched = 1
    /\ \A p, q \in Caller : pc[p] = "running" /\ reading[q] => p = q

\* An outcome without a fault is that of the command, to its last byte.
Truth(o) ==
    o.faults = {} =>
        /\ launched = 1 /\ exited = [code |-> o.exit, faults |-> {}]
        /\ \A s \in Stream : o.streams[s].seen = emitted[s]
        /\ \A q \in Caller : ~reading[q]

\* What a caller at l believes.
Belief(p, l) ==
    /\ l \in {"sizing stdout", "hashing stdout", "sizing stderr", "hashing stderr"}
       => outcome[p].faults # {}
    /\ l \in Checked \cup {"returned"} => Truth(outcome[p])
    /\ l \in Checked => ValidOutcome(outcome[p], Cap) /\ (late \/ RawAsRecorded(p))
    /\ l \in {"classified", "judging"} /\ outcome[p].faults = {} => ~toolBad
Sealed == \A p \in Caller, s \in Stream : ~outcome[p].streams[s].sha.altered
Beliefs == Sealed /\ \A p \in Caller : Belief(p, pc[p])

\* The verdict is as WriteVerdict left it, and true; and a caller that got hold
\* of the directory after it has overwritten the marker the verdict names.
Written(v) ==
    /\ v.id \in Caller /\ v.attempt = Attempt(v.id) /\ pc[v.id] \in {"done", "dead"}
    /\ v.child \in Outcomes(Cap) /\ ValidOutcome(v.child, Cap)
    /\ \A s \in Stream : ~v.child.streams[s].sha.altered
    /\ v.status = IF v.class = "success" THEN "success" ELSE "failure"
    /\ \/ v.class = Classify(v.child) /\ v.stage = "child"
       \/ /\ Classify(v.child) = "success" /\ v.stage = "result-schema"
          /\ v.class \in {"success", "schema_error"}
    /\ Truth(v.child)
    /\ v.child.faults = {} /\ file["attempt"] = v.attempt => ~toolBad
    /\ (\E p \in Caller : pc[p] \in Claiming) => file["attempt"] # v.attempt
    /\ damage = 0 => file["attempt"] = v.attempt
    /\ damage = 0 /\ ~late =>
          \A s \in Stream : LET rec == v.child.streams[s] IN
              file[s].is = "raw" /\ file[s].size = rec.captured /\ Digest(s) = rec.sha
Judged == file["verdict"].is = "verdict" => Written(file["verdict"])

\* Every file that is missing after the verdict was removed by an alteration.
Missing(f) == IF file[f] = Absent THEN 1 ELSE 0
Gone == Missing("stdout") + Missing("stderr") + Missing("verdict")
Removed ==
    Decided =>
      /\ Gone <= damage
      /\ ~Consumed \/ (\E p \in Caller : pc[p] \in Claiming) => Gone + 1 <= damage

GateInv == Types /\ Alone /\ Undecided /\ Launches /\ Beliefs /\ Judged /\ Removed

-----------------------------------------------------------------------------
\* The outcome of a caller that knows nothing yet is one.
LEMMA NoneType == NoOutcome \in Outcomes(Cap)
BY DEF NoOutcome, NoRecord, Outcomes, ExitCode, Raw

\* An empty directory, or one with a file that does not belong, satisfies the invariant.
LEMMA InitInv == Init => GateInv
<1> SUFFICES ASSUME Init PROVE GateInv  OBVIOUS
<1>1. FilesOK  BY DEF Init, FilesOK, Names, Complete, Stream, Absent, RawFile
<1>3. CallersOK  BY NoneType DEF Init, CallersOK, PCs
<1>4. WorldOK
  <2>1. [s \in Stream |-> 0] \in [Stream -> 0..MaxOut]  BY GateAssumption
  <2>2. [code |-> "none", faults |-> {}] \in [code : ExitCode, faults : SUBSET Fault]
    BY DEF ExitCode
  <2>3. launched = 0 /\ damage = 0 /\ 0 \in Nat /\ 0 \in 0..MaxDamage
    BY GateAssumption DEF Init
  <2>4. QED  BY <2>1, <2>2, <2>3 DEF Init, WorldOK
<1>5. ~Decided  BY DEF Init, Decided, Names, Complete, Absent
<1>6. Alone  BY <1>5 DEF Init, Alone, Busy, Claiming, Working
<1>7. Undecided
  BY DEF Init, Undecided, Untouched, Unaltered, Place, Busy, Claiming, Working, Checked,
         Names, Complete, Stream
<1>8. Launches  BY DEF Init, Launches
<1>9. Beliefs  BY DEF Init, Beliefs, Sealed, Belief, Checked, NoOutcome, NoRecord
<1>10. Judged /\ Removed  BY <1>5 DEF Judged, Removed, Decided
<1>11. QED  BY <1>1, <1>3, <1>4, <1>6, <1>7, <1>8, <1>9, <1>10 DEF GateInv, Types

\* While nothing is decided, at most one caller is busy.
LEMMA Others ==
  ASSUME GateInv, NEW p \in Caller, Busy(p), ~Decided
  PROVE  \A q \in Caller : q # p => ~Busy(q)
BY DEF GateInv, Alone

\* A step of a busy caller while nothing is decided, seen from all that it does
\* not touch.
LEMMA BusyStep ==
  ASSUME GateInv, NEW p \in Caller, NEW l \in Working \cup Over \cup {"prepared"},
         Busy(p), ~Decided, pc' = [pc EXCEPT ![p] = l],
         Types', ~Decided', Consumed', Unaltered', Place(p, l)',
         Launches', Sealed', Belief(p, l)'
  PROVE  GateInv'
<1>1. \A q \in Caller : q # p => ~Busy(q)  BY Others
<1>2. pc'[p] = l /\ \A q \in Caller : q # p => pc'[q] = pc[q]
  BY DEF GateInv, Types, CallersOK
<1>3. \A q \in Caller : q # p => pc'[q] \notin Claiming \cup Working
  BY <1>1, <1>2 DEF Busy
<1>4. Alone'  BY <1>3 DEF Alone, Busy
<1>5. Undecided'
  <2>1. \A q \in Caller : q # p => Place(q, pc[q])'
    BY <1>3 DEF Place, Claiming, Working, Checked
  <2>2. QED  BY <2>1, <1>2 DEF Undecided
<1>6. Beliefs'
  <2>1. \A q \in Caller : q # p => Belief(q, pc[q])'
    BY <1>3 DEF Belief, Claiming, Working, Checked
  <2>2. QED  BY <2>1, <1>2 DEF Beliefs
<1>7. Judged' /\ Removed'  BY DEF Judged, Removed, Decided
<1>8. QED  BY <1>4, <1>5, <1>6, <1>7 DEF GateInv

\* A working caller finds the marker consumed, nothing altered and no answer.
LEMMA WorkState ==
  ASSUME GateInv, NEW p \in Caller, pc[p] \in Working
  PROVE  /\ Busy(p) /\ ~Decided /\ Consumed /\ Unaltered
         /\ Place(p, pc[p]) /\ Belief(p, pc[p])
BY DEF GateInv, Alone, Undecided, Beliefs, Busy

\* What does not change with the files and the launches.
LEMMA SameFiles ==
  ASSUME GateInv, file' = file, damage' = damage
  PROVE  /\ FilesOK' /\ (Decided' <=> Decided) /\ (Consumed' <=> Consumed)
         /\ (Unaltered' <=> Unaltered)
BY DEF GateInv, Types, FilesOK, Decided, Consumed, Unaltered

\* Nobody starts running, nobody starts reading and nothing is launched.
LEMMA SameLaunches ==
  ASSUME GateInv, launched' = launched,
         \A q \in Caller : /\ reading'[q] => reading[q]
                           /\ pc'[q] = "running" => pc[q] = "running"
  PROVE  Launches'
BY DEF GateInv, Launches

\* What the adapter and the fallback keep of a stream.
StreamRecord == [captured : Nat, sha : Raw, seen : Nat, truncated : BOOLEAN,
                 fsynced : BOOLEAN]

\* What a sink records of an unaltered raw file is a record, and unaltered.
LEMMA SinkType ==
  ASSUME Types, Unaltered, NEW s \in Stream, NEW b \in BOOLEAN, file[s] # Absent
  PROVE  SinkRecord(s, b) \in StreamRecord /\ ~SinkRecord(s, b).sha.altered
<1>1. /\ file[s].size \in Nat /\ file[s].altered = FALSE /\ emitted[s] \in Nat
  BY GateAssumption DEF Types, FilesOK, WorldOK, Unaltered
<1>2. Digest(s) = [size |-> file[s].size, altered |-> FALSE]  BY <1>1 DEF Digest
<1>3. Digest(s) \in Raw  BY <1>1, <1>2 DEF Raw
<1>4. QED  BY <1>1, <1>2, <1>3 DEF SinkRecord, StreamRecord

\* An outcome put together from such records is one.
LEMMA OutcomeType ==
  ASSUME NEW e \in ExitCode, NEW F \in SUBSET Fault, NEW b \in BOOLEAN,
         NEW rec \in [Stream -> StreamRecord]
  PROVE  [exit |-> e, faults |-> F, output |-> b, streams |-> rec] \in Outcomes(Cap)
BY DEF Outcomes, StreamRecord

-----------------------------------------------------------------------------
(* The steps of a working caller.                                          *)

\* The target is started only where none was started before.
LEMMA LaunchInv == ASSUME GateInv, NEW p \in Caller, Launch(p) PROVE GateInv'
<1>1. /\ pc[p] = "opened" /\ file' = file /\ damage' = damage /\ launched' = launched + 1
      /\ reading' = [reading EXCEPT ![p] = TRUE]
      /\ pc' = [pc EXCEPT ![p] = "running"]
      /\ UNCHANGED <<outcome, wrapped, emitted, exited, toolBad, late>>
  BY DEF Launch, Goto
<1>2. Busy(p) /\ ~Decided /\ Consumed /\ Unaltered /\ Place(p, "opened")
  BY <1>1, WorkState DEF Working
<1>3. FilesOK' /\ ~Decided' /\ Consumed' /\ Unaltered'  BY <1>1, <1>2, SameFiles
<1>4. launched = 0  BY <1>2 DEF Place
<1>5. Place(p, "running")'
  BY <1>1, <1>2 DEF Place, Working, Claiming, Checked
<1>6. Types'
  <2>1. launched' \in Nat  BY <1>1, <1>4
  <2>2. CallersOK'  BY <1>1 DEF GateInv, Types, CallersOK, PCs
  <2>3. WorldOK'  BY <1>1, <2>1 DEF GateInv, Types, WorldOK
  <2>4. QED  BY <1>3, <2>2, <2>3 DEF Types
<1>7. Launches'
  <2>1. \A q \in Caller : ~reading[q]  BY <1>4 DEF GateInv, Launches
  <2>2. \A q \in Caller : q # p => pc[q] # "running"
    BY <1>2, Others DEF Busy, Working
  <2>3. QED  BY <2>1, <2>2, <1>1, <1>4 DEF Launches, GateInv, Types, CallersOK
<1>8. Sealed' /\ Belief(p, "running")'
  BY <1>1 DEF GateInv, Beliefs, Sealed, Belief, Checked
<1>9. QED  BY <1>1, <1>2, <1>3, <1>5, <1>6, <1>7, <1>8, BusyStep DEF Working

\* A target that could not be started leaves its two raw files empty.
LEMMA LaunchFailsInv == ASSUME GateInv, NEW p \in Caller, LaunchFails(p) PROVE GateInv'
<1> DEFINE rec == [s \in Stream |-> SinkRecord(s, TRUE)]
           o   == [exit |-> "none", faults |-> {"launch"}, output |-> FALSE, streams |-> rec]
<1>1. /\ pc[p] = "opened" /\ file' = file /\ damage' = damage
      /\ outcome' = [outcome EXCEPT ![p] = o] /\ pc' = [pc EXCEPT ![p] = "returned"]
      /\ UNCHANGED <<launched, wrapped, reading, emitted, exited, toolBad, late>>
  BY DEF LaunchFails, Goto
<1>2. Busy(p) /\ ~Decided /\ Consumed /\ Unaltered /\ Place(p, "opened")
  BY <1>1, WorkState DEF Working
<1>3. FilesOK' /\ ~Decided' /\ Consumed' /\ Unaltered'  BY <1>1, <1>2, SameFiles
<1>4. Place(p, "returned")'
  BY <1>1, <1>2 DEF Place, Working, Claiming, Checked
<1>5. \A s \in Stream : rec[s] \in StreamRecord /\ ~rec[s].sha.altered
  BY <1>2, SinkType DEF Place, GateInv
<1>6. o \in Outcomes(Cap)
  BY <1>5, OutcomeType DEF ExitCode, Fault, ErrorField
<1> HIDE DEF rec
<1>7. Types'
  BY <1>1, <1>3, <1>6 DEF GateInv, Types, CallersOK, WorldOK, PCs
<1>8. Launches'
  BY <1>1, SameLaunches DEF GateInv, Types, CallersOK
<1>9. outcome'[p] = o /\ \A q \in Caller : q # p => outcome'[q] = outcome[q]
  BY <1>1 DEF GateInv, Types, CallersOK
<1>10. Sealed'  BY <1>5, <1>9 DEF GateInv, Beliefs, Sealed
<1>11. Belief(p, "returned")'  BY <1>9 DEF Belief, Checked, Truth
<1>12. QED  BY <1>1, <1>2, <1>3, <1>4, <1>7, <1>8, <1>10, <1>11, BusyStep DEF Working

\* An outcome of the adapter without a fault is the truth about the child.
LEMMA AdapterReturnsInv ==
  ASSUME GateInv, NEW p \in Caller, AdapterReturns(p) PROVE GateInv'
<1>1. PICK exit \in ExitCode, F \in FewFaults, sealed \in BOOLEAN :
        /\ exited' = [code |-> exit, faults |-> F]
        /\ outcome' = [outcome EXCEPT ![p] = ChildOutcome(exit, F, sealed)]
  BY DEF AdapterReturns
<1> DEFINE rec == [s \in Stream |-> SinkRecord(s, sealed)]
           out == \E s \in Stream : emitted[s] > file[s].size
           o   == [exit |-> exit, faults |-> F, output |-> out, streams |-> rec]
<1>2. /\ pc[p] = "running" /\ file' = file /\ damage' = damage
      /\ reading' = [reading EXCEPT ![p] = FALSE]
      /\ pc' = [pc EXCEPT ![p] = "returned"]
      /\ UNCHANGED <<launched, wrapped, emitted, toolBad, late>>
  BY DEF AdapterReturns, Goto
<1>3. Busy(p) /\ ~Decided /\ Consumed /\ Unaltered /\ Place(p, "running")
  BY <1>2, WorkState DEF Working
<1>4. FilesOK' /\ ~Decided' /\ Consumed' /\ Unaltered'  BY <1>2, <1>3, SameFiles
<1>5. Place(p, "returned")'
  BY <1>2, <1>3 DEF Place, Working, Claiming, Checked
<1>6. F \in SUBSET Fault  BY DEF FewFaults
<1>7. \A s \in Stream :
        rec[s] \in StreamRecord /\ ~rec[s].sha.altered /\ rec[s].seen = emitted[s]
  BY <1>3, SinkType DEF Place, Checked, GateInv, SinkRecord
<1>8. outcome' = [outcome EXCEPT ![p] = o]  BY <1>1 DEF ChildOutcome
<1> HIDE DEF rec, out
<1>9. out \in BOOLEAN  BY DEF out
<1>10. o \in Outcomes(Cap)  BY <1>6, <1>7, <1>9, OutcomeType DEF rec
<1>11. Types'
  <2>1. CallersOK'  BY <1>2, <1>8, <1>10 DEF GateInv, Types, CallersOK, PCs
  <2>2. WorldOK'  BY <1>1, <1>2, <1>6 DEF GateInv, Types, WorldOK
  <2>3. QED  BY <1>4, <2>1, <2>2 DEF Types
<1>12. Launches'
  BY <1>2, SameLaunches DEF GateInv, Types, CallersOK
<1>13. outcome'[p] = o /\ \A q \in Caller : q # p => outcome'[q] = outcome[q]
  BY <1>8 DEF GateInv, Types, CallersOK
<1>14. Sealed'  BY <1>7, <1>13 DEF GateInv, Beliefs, Sealed
<1>15. Belief(p, "returned")'
  <2>1. launched = 1 /\ \A q \in Caller : reading[q] => q = p
    BY <1>2 DEF GateInv, Launches
  <2>2. \A q \in Caller : ~reading'[q]
    BY <2>1, <1>2 DEF GateInv, Types, CallersOK
  <2>3. o.faults = {} => exited' = [code |-> o.exit, faults |-> {}]  BY <1>1
  <2>4. \A s \in Stream : o.streams[s].seen = emitted'[s]  BY <1>7, <1>2
  <2>5. Truth(outcome[p])'  BY <2>1, <2>2, <2>3, <2>4, <1>2, <1>13 DEF Truth
  <2>6. QED  BY <2>5 DEF Belief, Checked
<1>16. QED
  BY <1>2, <1>3, <1>4, <1>5, <1>11, <1>12, <1>14, <1>15, BusyStep DEF Working

\* An adapter that raises may leave its readers behind, nothing else.
LEMMA AdapterRaisesInv ==
  ASSUME GateInv, NEW p \in Caller, AdapterRaises(p) PROVE GateInv'
<1>1. /\ pc[p] \in {"opened", "running"} /\ file' = file /\ damage' = damage
      /\ reading' = reading \/ reading' = [reading EXCEPT ![p] = FALSE]
      /\ pc' = [pc EXCEPT ![p] = "raised"]
      /\ UNCHANGED <<outcome, launched, wrapped, emitted, exited, toolBad, late>>
  BY DEF AdapterRaises, Goto
<1>2. Busy(p) /\ ~Decided /\ Consumed /\ Unaltered /\ Place(p, pc[p])
  BY <1>1, WorkState DEF Working
<1>3. FilesOK' /\ ~Decided' /\ Consumed' /\ Unaltered'  BY <1>1, <1>2, SameFiles
<1>4. Place(p, "raised")'
  BY <1>1, <1>2 DEF Place, Working, Claiming, Checked
<1>5. Types'
  BY <1>1, <1>3 DEF GateInv, Types, CallersOK, WorldOK, PCs
<1>6. Launches'
  BY <1>1, SameLaunches DEF GateInv, Types, CallersOK
<1>7. Sealed' /\ Belief(p, "raised")'
  BY <1>1 DEF GateInv, Beliefs, Sealed, Belief, Checked
<1>8. QED  BY <1>1, <1>2, <1>3, <1>4, <1>5, <1>6, <1>7, BusyStep DEF Working

\* The fallback begins with an outcome that is never a success.
LEMMA BeginFallbackInv ==
  ASSUME GateInv, NEW p \in Caller, BeginFallback(p) PROVE GateInv'
<1> DEFINE o == [NoOutcome EXCEPT !.faults = {"infrastructure"}]
<1>1. /\ pc[p] = "raised" /\ file' = file /\ damage' = damage
      /\ outcome' = [outcome EXCEPT ![p] = o] /\ pc' = [pc EXCEPT ![p] = "sizing stdout"]
      /\ UNCHANGED <<launched, wrapped, reading, emitted, exited, toolBad, late>>
  BY DEF BeginFallback, Goto
<1>2. Busy(p) /\ ~Decided /\ Consumed /\ Unaltered /\ Place(p, "raised")
  BY <1>1, WorkState DEF Working
<1>3. FilesOK' /\ ~Decided' /\ Consumed' /\ Unaltered'  BY <1>1, <1>2, SameFiles
<1>4. Place(p, "sizing stdout")'
  BY <1>1, <1>2 DEF Place, Working, Claiming, Checked
<1>5. NoOutcome \in Outcomes(Cap) /\ \A s \in Stream : NoOutcome.streams[s] = NoRecord
  BY NoneType DEF NoOutcome
<1>6. {"infrastructure"} \in SUBSET Fault  BY DEF Fault, ErrorField
<1>7. o \in Outcomes(Cap)  BY <1>5, <1>6 DEF Outcomes
<1>8. \A s \in Stream : ~o.streams[s].sha.altered  BY <1>5 DEF NoRecord, Outcomes
<1>9. o.faults # {}  BY <1>5 DEF Outcomes
<1> HIDE DEF o
<1>10. Types'
  BY <1>1, <1>3, <1>7 DEF GateInv, Types, CallersOK, WorldOK, PCs
<1>11. Launches'
  BY <1>1, SameLaunches DEF GateInv, Types, CallersOK
<1>12. outcome'[p] = o /\ \A q \in Caller : q # p => outcome'[q] = outcome[q]
  BY <1>1 DEF GateInv, Types, CallersOK
<1>13. Sealed'  BY <1>8, <1>12 DEF GateInv, Beliefs, Sealed
<1>14. Belief(p, "sizing stdout")'  BY <1>9, <1>12 DEF Belief, Checked
<1>15. QED
  BY <1>1, <1>2, <1>3, <1>4, <1>10, <1>11, <1>13, <1>14, BusyStep DEF Working

\* A stream's file is not one of the others.
LEMMA NamesApart ==
  /\ \A s \in Stream : s # "attempt" /\ s # "verdict" /\ s # "stray" /\ s \in Names
  /\ "attempt" \in Names /\ "verdict" \in Names /\ "stray" \in Names
BY DEF Stream, Names, Complete

\* A new raw file is empty, unaltered and there.
LEMMA EmptyRaw ==
  /\ RawFile(0) \in [is : {"raw"}, size : 0..Cap, altered : BOOLEAN]
  /\ RawFile(0) # Absent /\ ~RawFile(0).altered
BY GateAssumption DEF RawFile, Absent

\* The raw files are created where there were none.
LEMMA OpenRawInv == ASSUME GateInv, NEW p \in Caller, OpenRaw(p) PROVE GateInv'
<1>1. PICK opened \in {{}, {"stdout"}, Stream} :
        /\ file' = [f \in Names |-> IF f \in opened THEN RawFile(0) ELSE file[f]]
        /\ Goto(p, IF opened = Stream THEN "opened" ELSE "raised")
  BY DEF OpenRaw
<1> DEFINE l == IF opened = Stream THEN "opened" ELSE "raised"
<1>2. /\ pc[p] = "opening" /\ pc' = [pc EXCEPT ![p] = l]
      /\ UNCHANGED <<outcome, launched, wrapped, reading, emitted, exited, toolBad, late,
                     damage>>
  BY <1>1 DEF OpenRaw, Goto
<1>3. Busy(p) /\ ~Decided /\ Consumed /\ Unaltered /\ Place(p, "opening")
  BY <1>2, WorkState DEF Working
<1>4. opened \subseteq Stream /\ l \in {"opened", "raised"}  BY DEF Stream
<1>5. /\ file'["attempt"] = file["attempt"] /\ file'["verdict"] = file["verdict"]
      /\ file'["stray"] = file["stray"]
      /\ \A s \in Stream : file'[s] = IF s \in opened THEN RawFile(0) ELSE file[s]
      /\ DOMAIN file' = Names
  BY <1>1, <1>4, NamesApart
<1>6. FilesOK'  BY <1>5, EmptyRaw DEF FilesOK, GateInv, Types
<1>7. ~Decided' /\ Consumed'  BY <1>2, <1>3, <1>5 DEF Decided, Consumed
<1>8. Unaltered'  BY <1>3, <1>5, EmptyRaw DEF Unaltered
<1>9. launched = 0 /\ file["verdict"] = Absent /\ file["attempt"] = Attempt(p)
  BY <1>3 DEF Place, Untouched, Working
<1>10. Place(p, l)'
  BY <1>2, <1>5, <1>9, EmptyRaw DEF Place, Working, Claiming, Checked
<1>11. Types'
  BY <1>2, <1>4, <1>6 DEF GateInv, Types, CallersOK, WorldOK, PCs
<1>12. Launches'
  BY <1>2, <1>4, SameLaunches DEF GateInv, Types, CallersOK
<1>13. Sealed' /\ Belief(p, l)'
  BY <1>2, <1>4 DEF GateInv, Beliefs, Sealed, Belief, Checked
<1>14. QED
  BY <1>2, <1>3, <1>4, <1>7, <1>8, <1>10, <1>11, <1>12, <1>13, BusyStep DEF Working

\* The places of the fallback, stream by stream.
LEMMA Places ==
  /\ Sizing["stdout"] = "sizing stdout" /\ Sizing["stderr"] = "sizing stderr"
  /\ Hashing["stdout"] = "hashing stdout" /\ Hashing["stderr"] = "hashing stderr"
BY DEF Sizing, Hashing

\* The record of one stream is replaced.
LEMMA PutRecord ==
  ASSUME GateInv, NEW p \in Caller, NEW s \in Stream, NEW rec \in StreamRecord,
         outcome' = [outcome EXCEPT ![p].streams[s] = rec]
  PROVE  /\ outcome' \in [Caller -> Outcomes(Cap)]
         /\ outcome'[p].faults = outcome[p].faults
         /\ outcome'[p].streams[s] = rec
         /\ ~rec.sha.altered => Sealed'
<1> DEFINE o == [outcome[p] EXCEPT !.streams[s] = rec]
<1>1. outcome \in [Caller -> Outcomes(Cap)]  BY DEF GateInv, Types, CallersOK
<1>2. outcome[p].streams \in [Stream -> StreamRecord]
  BY <1>1 DEF Outcomes, StreamRecord
<1>3. o \in Outcomes(Cap) /\ o.faults = outcome[p].faults /\ o.streams[s] = rec
      /\ \A t \in Stream : t # s => o.streams[t] = outcome[p].streams[t]
  BY <1>1, <1>2 DEF Outcomes, StreamRecord
<1>4. outcome' = [outcome EXCEPT ![p] = o]  OBVIOUS
<1> HIDE DEF o
<1>5. outcome'[p] = o /\ \A q \in Caller : q # p => outcome'[q] = outcome[q]
  BY <1>1, <1>4
<1>6. outcome' \in [Caller -> Outcomes(Cap)]  BY <1>1, <1>3, <1>4
<1>7. ~rec.sha.altered => Sealed'
  BY <1>3, <1>5 DEF GateInv, Beliefs, Sealed
<1>8. QED  BY <1>3, <1>5, <1>6, <1>7

\* The fallback records a size and creates a missing raw file.
LEMMA TakeSizeInv ==
  ASSUME GateInv, NEW p \in Caller, NEW s \in Stream, TakeSize(p, s) PROVE GateInv'
<1> DEFINE n   == IF file[s].is = "raw" THEN file[s].size ELSE 0
           cut == n = Cap /\ Cap > 0
           rec == [NoRecord EXCEPT !.captured = n, !.seen = n, !.fsynced = TRUE,
                                   !.truncated = cut]
           l   == Hashing[s]
<1>1. /\ pc[p] = Sizing[s] /\ pc' = [pc EXCEPT ![p] = l]
      /\ outcome' = [outcome EXCEPT ![p].streams[s] = rec]
      /\ file' = IF file[s] = Absent THEN [file EXCEPT ![s] = RawFile(0)] ELSE file
      /\ UNCHANGED <<launched, wrapped, reading, emitted, exited, toolBad, late, damage>>
  BY DEF TakeSize, Goto
<1>2. pc[p] \in {"sizing stdout", "sizing stderr"}  BY <1>1, Places DEF Stream
<1>3. Busy(p) /\ ~Decided /\ Consumed /\ Unaltered /\ Place(p, pc[p]) /\ Belief(p, pc[p])
  BY <1>2, WorkState DEF Working
<1>4. n \in Nat
  BY GateAssumption DEF GateInv, Types, FilesOK, Absent
<1>5. cut \in BOOLEAN  OBVIOUS
<1> HIDE DEF n, cut
<1>6. rec \in StreamRecord /\ ~rec.sha.altered
  <2> DEFINE r1 == [NoRecord EXCEPT !.captured = n]
             r2 == [r1 EXCEPT !.seen = n]
             r3 == [r2 EXCEPT !.fsynced = TRUE]
  <2>1. NoRecord \in StreamRecord /\ ~NoRecord.sha.altered
    BY DEF NoRecord, StreamRecord, Raw
  <2>2. r1 \in StreamRecord /\ ~r1.sha.altered  BY <2>1, <1>4 DEF StreamRecord
  <2> HIDE DEF r1
  <2>3. r2 \in StreamRecord /\ ~r2.sha.altered  BY <2>2, <1>4 DEF StreamRecord
  <2> HIDE DEF r2
  <2>4. r3 \in StreamRecord /\ ~r3.sha.altered  BY <2>3 DEF StreamRecord
  <2> HIDE DEF r3
  <2>5. [r3 EXCEPT !.truncated = cut] \in StreamRecord
        /\ ~[r3 EXCEPT !.truncated = cut].sha.altered
    BY <2>4, <1>5 DEF StreamRecord
  <2>6. rec = [r3 EXCEPT !.truncated = cut]  BY DEF r1, r2, r3
  <2>7. QED  BY <2>5, <2>6
<1> HIDE DEF rec
<1>7. /\ outcome' \in [Caller -> Outcomes(Cap)] /\ Sealed'
      /\ outcome'[p].faults = outcome[p].faults
  BY <1>1, <1>6, PutRecord
<1>8. /\ file'["attempt"] = file["attempt"] /\ file'["verdict"] = file["verdict"]
      /\ file'["stray"] = file["stray"]
      /\ \A t \in Stream : file'[t] = IF t = s /\ file[t] = Absent THEN RawFile(0) ELSE file[t]
      /\ DOMAIN file' = Names
  BY <1>1, NamesApart DEF GateInv, Types, FilesOK
<1>9. FilesOK'  BY <1>8, EmptyRaw DEF FilesOK, GateInv, Types
<1>10. ~Decided' /\ Consumed'  BY <1>1, <1>3, <1>8 DEF Decided, Consumed
<1>11. Unaltered'  BY <1>3, <1>8, EmptyRaw DEF Unaltered
<1>12. l \in {"hashing stdout", "hashing stderr"}
       /\ (l = "hashing stdout" => s = "stdout")
       /\ (l = "hashing stderr" => s = "stderr" /\ pc[p] = "sizing stderr")
  BY <1>1, Places DEF Stream
<1> HIDE DEF l
<1>13. file["verdict"] = Absent /\ file["attempt"] = Attempt(p)
       /\ (pc[p] = "sizing stderr" => file["stdout"] # Absent)
  BY <1>2, <1>3 DEF Place, Working
<1>14. Place(p, l)'
  BY <1>8, <1>12, <1>13, EmptyRaw DEF Place, Working, Claiming, Checked, Stream
<1>15. Types'
  BY <1>1, <1>7, <1>9, <1>12 DEF GateInv, Types, CallersOK, WorldOK, PCs
<1>16. Launches'
  BY <1>1, <1>12, SameLaunches DEF GateInv, Types, CallersOK
<1>17. Belief(p, l)'  BY <1>2, <1>3, <1>7, <1>12 DEF Belief, Checked
<1>18. QED
  BY <1>1, <1>3, <1>7, <1>10, <1>11, <1>12, <1>14, <1>15, <1>16, <1>17, BusyStep DEF Working

\* The fallback records a digest, taken from a second read.
LEMMA TakeHashInv ==
  ASSUME GateInv, NEW p \in Caller, NEW s \in Stream, TakeHash(p, s) PROVE GateInv'
<1> DEFINE o == [outcome[p] EXCEPT !.streams[s].sha = Digest(s)]
           b == \E t \in Stream : o.streams[t].truncated
           d == IF s = "stderr" THEN [o EXCEPT !.output = b] ELSE o
           l == IF s = "stdout" THEN "sizing stderr" ELSE "returned"
<1>1. /\ pc[p] = Hashing[s] /\ pc' = [pc EXCEPT ![p] = l]
      /\ outcome' = [outcome EXCEPT ![p] = d] /\ file' = file /\ damage' = damage
      /\ UNCHANGED <<launched, wrapped, reading, emitted, exited, toolBad, late>>
  BY DEF TakeHash, Goto
<1>2. /\ pc[p] \in {"hashing stdout", "hashing stderr"} /\ l \in {"sizing stderr", "returned"}
      /\ l = "sizing stderr" => s = "stdout" /\ pc[p] = "hashing stdout"
      /\ l = "returned" => s = "stderr" /\ pc[p] = "hashing stderr"
  BY <1>1, Places DEF Stream
<1>3. Busy(p) /\ ~Decided /\ Consumed /\ Unaltered /\ Place(p, pc[p]) /\ Belief(p, pc[p])
  BY <1>2, WorkState DEF Working
<1>4. FilesOK' /\ ~Decided' /\ Consumed' /\ Unaltered'  BY <1>1, <1>3, SameFiles
<1>5. file[s] # Absent  BY <1>2, <1>3 DEF Place, Stream
<1>6. Digest(s) \in Raw /\ ~Digest(s).altered
  BY <1>3, <1>5, GateAssumption DEF GateInv, Types, FilesOK, Unaltered, Digest, Raw
<1>7. outcome \in [Caller -> Outcomes(Cap)]  BY DEF GateInv, Types, CallersOK
<1> DEFINE rec == [outcome[p].streams[s] EXCEPT !.sha = Digest(s)]
<1>20. outcome[p].streams \in [Stream -> StreamRecord]
  BY <1>7 DEF Outcomes, StreamRecord
<1>21. rec \in StreamRecord /\ rec.sha = Digest(s)  BY <1>6, <1>20 DEF StreamRecord
<1>22. o = [outcome[p] EXCEPT !.streams[s] = rec]  BY <1>7, <1>20 DEF StreamRecord
<1> HIDE DEF rec
<1>8. /\ o \in Outcomes(Cap) /\ o.faults = outcome[p].faults /\ o.streams[s].sha = Digest(s)
      /\ \A t \in Stream : t # s => o.streams[t] = outcome[p].streams[t]
  <2>1. PICK x, y : x = outcome[p] /\ y = [x.streams EXCEPT ![s] = rec]  OBVIOUS
  <2>2. x \in Outcomes(Cap) /\ o = [x EXCEPT !.streams = y]  BY <1>7, <1>22, <2>1
  <2>3. /\ y \in [Stream -> StreamRecord] /\ y[s] = rec
        /\ \A t \in Stream : t # s => y[t] = x.streams[t]
    BY <1>20, <1>21, <2>1
  <2>4. o \in Outcomes(Cap) /\ o.faults = x.faults /\ o.streams = y
    BY <2>2, <2>3 DEF Outcomes, StreamRecord
  <2>5. QED  BY <1>21, <2>1, <2>3, <2>4
<1> HIDE DEF o
<1>9. b \in BOOLEAN  OBVIOUS
<1> HIDE DEF b
<1>10. d \in Outcomes(Cap) /\ d.faults = outcome[p].faults /\ d.streams = o.streams
  BY <1>8, <1>9 DEF Outcomes
<1> HIDE DEF d, l
<1>11. outcome'[p] = d /\ \A q \in Caller : q # p => outcome'[q] = outcome[q]
  BY <1>1, <1>7
<1>12. Sealed'  BY <1>6, <1>8, <1>10, <1>11 DEF GateInv, Beliefs, Sealed
<1>13. Place(p, l)'
  BY <1>1, <1>2, <1>3 DEF Place, Working, Claiming, Checked
<1>14. Types'
  BY <1>1, <1>2, <1>4, <1>10 DEF GateInv, Types, CallersOK, WorldOK, PCs
<1>15. Launches'
  BY <1>1, <1>2, SameLaunches DEF GateInv, Types, CallersOK
<1>16. outcome[p].faults # {}  BY <1>2, <1>3 DEF Belief
<1>17. Belief(p, l)'  BY <1>2, <1>10, <1>11, <1>16 DEF Belief, Checked, Truth
<1>18. QED
  BY <1>1, <1>2, <1>3, <1>4, <1>12, <1>13, <1>14, <1>15, <1>17, BusyStep DEF Working

\* An outcome passes only when it is valid and the files say the same.
LEMMA CheckOutcomeInv ==
  ASSUME GateInv, NEW p \in Caller, CheckOutcome(p) PROVE GateInv'
<1>1. /\ pc[p] = "returned" /\ file' = file /\ damage' = damage
      /\ wrapped' = wrapped \/ wrapped' = [wrapped EXCEPT ![p] = TRUE]
      /\ UNCHANGED <<outcome, launched, reading, emitted, exited, toolBad, late>>
  BY DEF CheckOutcome
<1>2. PICK l \in {"checked outcome", "escaped", "raised"} :
        /\ pc' = [pc EXCEPT ![p] = l]
        /\ l = "checked outcome" => ValidOutcome(outcome[p], Cap) /\ RawAsRecorded(p)
  BY DEF CheckOutcome, Goto
<1>3. Busy(p) /\ ~Decided /\ Consumed /\ Unaltered /\ Place(p, "returned")
      /\ Belief(p, "returned")
  BY <1>1, WorkState DEF Working
<1>4. FilesOK' /\ ~Decided' /\ Consumed' /\ Unaltered'  BY <1>1, <1>3, SameFiles
<1>5. RawAsRecorded(p)' <=> RawAsRecorded(p)  BY <1>1 DEF RawAsRecorded, Digest
<1>6. Place(p, l)'
  BY <1>1, <1>2, <1>3 DEF Place, Working, Claiming, Checked
<1>7. Types'
  BY <1>1, <1>2, <1>4 DEF GateInv, Types, CallersOK, WorldOK, PCs, Over
<1>8. Launches'
  BY <1>1, <1>2, SameLaunches DEF GateInv, Types, CallersOK
<1>9. Sealed'  BY <1>1 DEF GateInv, Beliefs, Sealed
<1>10. Truth(outcome[p])'  BY <1>1, <1>3 DEF Belief, Truth
<1>11. Belief(p, l)'
  <2>1. ~(l \in {"classified", "judging"})  BY <1>2
  <2>2. l \in Checked => ValidOutcome(outcome[p], Cap)' /\ RawAsRecorded(p)'
    BY <1>1, <1>2, <1>5 DEF Checked
  <2>3. QED  BY <2>1, <2>2, <1>2, <1>10 DEF Belief
<1>12. QED
  BY <1>2, <1>3, <1>4, <1>6, <1>7, <1>8, <1>9, <1>11, BusyStep DEF Working, Over

\* A tool that was replaced makes the outcome a failure.
LEMMA CheckToolInv == ASSUME GateInv, NEW p \in Caller, CheckTool(p) PROVE GateInv'
<1> DEFINE o == [outcome[p] EXCEPT !.faults = @ \cup {"infrastructure"}]
           d == IF toolBad THEN o ELSE outcome[p]
<1>1. /\ pc[p] = "checked outcome" /\ file' = file /\ damage' = damage
      /\ pc' = [pc EXCEPT ![p] = "classified"]
      /\ UNCHANGED <<launched, wrapped, reading, emitted, exited, toolBad, late>>
  BY DEF CheckTool, Goto
<1>2. Busy(p) /\ ~Decided /\ Consumed /\ Unaltered /\ Place(p, "checked outcome")
      /\ Belief(p, "checked outcome")
  BY <1>1, WorkState DEF Working
<1>3. FilesOK' /\ ~Decided' /\ Consumed' /\ Unaltered'  BY <1>1, <1>2, SameFiles
<1>4. outcome \in [Caller -> Outcomes(Cap)]  BY DEF GateInv, Types, CallersOK
<1>5. outcome' = [outcome EXCEPT ![p] = d]  BY <1>4 DEF CheckTool
<1>6. "infrastructure" \in Fault  BY DEF Fault, ErrorField
<1>7. /\ o \in Outcomes(Cap) /\ "infrastructure" \in o.faults
      /\ o.streams = outcome[p].streams /\ o.output = outcome[p].output
  BY <1>4, <1>6 DEF Outcomes
<1> HIDE DEF o
<1>8. /\ d \in Outcomes(Cap) /\ d.streams = outcome[p].streams
      /\ d.output = outcome[p].output
      /\ d.faults = {} => ~toolBad /\ d = outcome[p]
  BY <1>4, <1>7
<1> HIDE DEF d
<1>9. outcome'[p] = d /\ \A q \in Caller : q # p => outcome'[q] = outcome[q]
  BY <1>4, <1>5
<1>10. Place(p, "classified")'
  BY <1>1, <1>2 DEF Place, Working, Claiming, Checked
<1>11. Types'
  BY <1>1, <1>3, <1>5, <1>8 DEF GateInv, Types, CallersOK, WorldOK, PCs
<1>12. Launches'
  BY <1>1, SameLaunches DEF GateInv, Types, CallersOK
<1>13. Sealed'  BY <1>8, <1>9 DEF GateInv, Beliefs, Sealed
<1>14. Truth(outcome[p])'
  BY <1>1, <1>2, <1>8, <1>9 DEF Belief, Checked, Truth
<1>15. ValidOutcome(d, Cap)  BY <1>2, <1>8 DEF Belief, Checked, ValidOutcome
<1>16. late' \/ RawAsRecorded(p)'
  BY <1>1, <1>2, <1>8, <1>9 DEF Belief, Checked, RawAsRecorded, Digest
<1>17. Belief(p, "classified")'
  <2>1. ValidOutcome(outcome[p], Cap)'  BY <1>9, <1>15
  <2>2. outcome'[p].faults = {} => ~toolBad'  BY <1>1, <1>8, <1>9
  <2>3. QED  BY <2>1, <2>2, <1>14, <1>16 DEF Belief
<1>18. QED
  BY <1>1, <1>2, <1>3, <1>10, <1>11, <1>12, <1>13, <1>17, BusyStep DEF Working

-----------------------------------------------------------------------------
(* The verdict.                                                               *)

\* The first of some faults is a fault.
LEMMA FirstIsFault == ASSUME NEW F \in SUBSET Fault, F # {} PROVE First(F) \in Fault
<1> DEFINE Least(i) == FaultOrder[i] \in F /\ \A j \in 1..(i - 1) : FaultOrder[j] \notin F
<1>1. /\ Len(FaultOrder) = 7
      /\ FaultOrder[1] = "launch" /\ FaultOrder[2] = "pipe" /\ FaultOrder[3] = "thread"
      /\ FaultOrder[4] = "infrastructure" /\ FaultOrder[5] = "process"
      /\ FaultOrder[6] = "memory" /\ FaultOrder[7] = "timeout"
  BY DEF FaultOrder
<1>2. Fault = {"launch", "pipe", "thread", "infrastructure", "process", "memory",
               "timeout"}
  BY DEF Fault, ErrorField, LimitField
<1> HIDE DEF FaultOrder
<1>3. \A i \in 1..7 : FaultOrder[i] \in Fault
  <2> SUFFICES ASSUME NEW i \in 1..7 PROVE FaultOrder[i] \in Fault  OBVIOUS
  <2>1. i = 1 \/ i = 2 \/ i = 3 \/ i = 4 \/ i = 5 \/ i = 6 \/ i = 7  OBVIOUS
  <2>2. QED  BY <2>1, <1>1, <1>2
<1>5. \E i \in 1..7 : Least(i)
  <2> DEFINE At(i) == FaultOrder[i] \in F
  <2>1. At(1) \/ At(2) \/ At(3) \/ At(4) \/ At(5) \/ At(6) \/ At(7)
    BY <1>1, <1>2
  <2>2. \A i \in 1..7 : At(i) /\ (\A j \in 1..(i - 1) : ~At(j)) => Least(i)  OBVIOUS
  <2> HIDE DEF At, Least
  <2>3. At(1) => Least(1)  BY <2>2
  <2>4. At(2) /\ ~At(1) => Least(2)  BY <2>2
  <2>5. At(3) /\ ~At(1) /\ ~At(2) => Least(3)
    <3>1. \A j \in 1..2 : j = 1 \/ j = 2  OBVIOUS
    <3>2. QED  BY <3>1, <2>2
  <2>6. At(4) /\ ~At(1) /\ ~At(2) /\ ~At(3) => Least(4)
    <3>1. \A j \in 1..3 : j = 1 \/ j = 2 \/ j = 3  OBVIOUS
    <3>2. QED  BY <3>1, <2>2
  <2>7. At(5) /\ ~At(1) /\ ~At(2) /\ ~At(3) /\ ~At(4) => Least(5)
    <3>1. \A j \in 1..4 : j = 1 \/ j = 2 \/ j = 3 \/ j = 4  OBVIOUS
    <3>2. QED  BY <3>1, <2>2
  <2>8. At(6) /\ ~At(1) /\ ~At(2) /\ ~At(3) /\ ~At(4) /\ ~At(5) => Least(6)
    <3>1. \A j \in 1..5 : j = 1 \/ j = 2 \/ j = 3 \/ j = 4 \/ j = 5  OBVIOUS
    <3>2. QED  BY <3>1, <2>2
  <2>9. At(7) /\ ~At(1) /\ ~At(2) /\ ~At(3) /\ ~At(4) /\ ~At(5) /\ ~At(6) => Least(7)
    <3>1. \A j \in 1..6 : j = 1 \/ j = 2 \/ j = 3 \/ j = 4 \/ j = 5 \/ j = 6  OBVIOUS
    <3>2. QED  BY <3>1, <2>2
  <2>10. QED  BY <2>1, <2>3, <2>4, <2>5, <2>6, <2>7, <2>8, <2>9
<1>6. (CHOOSE i \in 1..7 : Least(i)) \in 1..7  BY <1>5
<1> HIDE DEF Least
<1>7. First(F) = FaultOrder[CHOOSE i \in 1..7 : Least(i)]
  BY <1>1 DEF First, Least
<1>8. QED  BY <1>3, <1>6, <1>7

\* What the classification says of the facts: success means a good exit, no
\* fault and the whole output; and it never says schema_error.
LEMMA ClassifyMeans ==
  ASSUME NEW o \in Outcomes(Cap)
  PROVE  /\ Classify(o) = "success" => o.faults = {} /\ ~o.output /\ o.exit = "ok"
         /\ Classify(o) # "schema_error"
<1>1. o.faults \in SUBSET Fault  BY DEF Outcomes
<1>2. o.faults # {} => First(o.faults) \in Fault  BY <1>1, FirstIsFault
<1>3. "success" \notin Fault /\ "schema_error" \notin Fault
  BY DEF Fault, ErrorField, LimitField
<1>4. QED  BY <1>2, <1>3 DEF Classify

\* Only the verdict file is written.
LEMMA VerdictFile ==
  ASSUME GateInv, file'["verdict"].is \in {"torn", "verdict"},
         file' = [file EXCEPT !["verdict"] = file'["verdict"]]
  PROVE  FilesOK' /\ \A f \in Names \ {"verdict"} : file'[f] = file[f]
<1>1. /\ DOMAIN file' = Names /\ \A f \in Names \ {"verdict"} : file'[f] = file[f]
  BY NamesApart DEF GateInv, Types, FilesOK
<1>2. QED  BY <1>1, NamesApart DEF GateInv, Types, FilesOK

\* The verdict is created by the one caller that works.
LEMMA CreateVerdictInv ==
  ASSUME GateInv, NEW p \in Caller, CreateVerdict(p), CanCreate("verdict") PROVE GateInv'
<1>1. /\ pc[p] = "classified" /\ file' = [file EXCEPT !["verdict"] = Torn]
      /\ pc' = [pc EXCEPT ![p] = "judging"] /\ damage' = damage
      /\ UNCHANGED <<outcome, launched, wrapped, reading, emitted, exited, toolBad, late>>
  BY DEF CreateVerdict, Goto
<1>2. Busy(p) /\ ~Decided /\ Consumed /\ Unaltered /\ Place(p, "classified")
      /\ Belief(p, "classified")
  BY <1>1, WorkState DEF Working
<1>3. /\ file'["verdict"] = Torn /\ FilesOK'
      /\ \A f \in Names \ {"verdict"} : file'[f] = file[f]
  <2>1. Torn.is = "torn"  BY DEF Torn
  <2>2. file'["verdict"] = Torn  BY <1>1, NamesApart DEF GateInv, Types, FilesOK
  <2>3. QED  BY <2>1, <2>2, <1>1, VerdictFile
<1>4. ~Decided' /\ Consumed' /\ Unaltered'
  BY <1>1, <1>2, <1>3, NamesApart DEF Decided, Consumed, Unaltered, Torn
<1>5. Place(p, "judging")'
  BY <1>1, <1>2, <1>3, NamesApart
  DEF Place, Working, Claiming, Checked, Torn, Absent
<1>6. Types'
  BY <1>1, <1>3 DEF GateInv, Types, CallersOK, WorldOK, PCs
<1>7. Launches'
  BY <1>1, SameLaunches DEF GateInv, Types, CallersOK
<1>8. Sealed'  BY <1>1 DEF GateInv, Beliefs, Sealed
<1>9. RawAsRecorded(p) => RawAsRecorded(p)'
  BY <1>1, <1>3, NamesApart DEF RawAsRecorded, Digest
<1>10. Truth(outcome[p]) => Truth(outcome[p])'  BY <1>1 DEF Truth
<1>11. Belief(p, "judging")'
  BY <1>1, <1>2, <1>9, <1>10 DEF Belief, Checked
<1>12. QED
  BY <1>1, <1>2, <1>4, <1>5, <1>6, <1>7, <1>8, <1>11, BusyStep DEF Working

\* The verdict that WriteVerdict leaves is the one the facts deserve.
LEMMA WriteVerdictInv ==
  ASSUME GateInv, NEW p \in Caller, WriteVerdict(p), file' # file \/ pc'[p] = "done"
  PROVE  GateInv'
<1>1. /\ pc[p] = "judging" /\ damage' = damage
      /\ UNCHANGED <<outcome, launched, wrapped, reading, emitted, exited, toolBad, late>>
  BY DEF WriteVerdict
<1>2. Busy(p) /\ ~Decided /\ Consumed /\ Unaltered /\ Place(p, "judging")
      /\ Belief(p, "judging")
  BY <1>1, WorkState DEF Working
<1>3. PICK v \in {"none", "accepts", "rejects"} :
        /\ v # "none" => Classify(outcome[p]) = "success"
        /\ file' = [file EXCEPT !["verdict"] =
             Verdict(p, IF v = "rejects" THEN "schema_error" ELSE Classify(outcome[p]),
                     IF v = "none" THEN "child" ELSE "result-schema")]
        /\ pc' = [pc EXCEPT ![p] = "done"]
  <2>1. pc'[p] = "done" => pc' # [pc EXCEPT ![p] = "escaped"]
    BY DEF GateInv, Types, CallersOK
  <2>2. QED  BY <2>1 DEF WriteVerdict, Goto
<1> PICK class : class = IF v = "rejects" THEN "schema_error" ELSE Classify(outcome[p])
  OBVIOUS
<1> PICK stage : stage = IF v = "none" THEN "child" ELSE "result-schema"  OBVIOUS
<1> PICK w : w = Verdict(p, class, stage)  OBVIOUS
<1>4. /\ w.is = "verdict" /\ w.id = p /\ w.attempt = file["attempt"] /\ w.class = class
      /\ w.stage = stage /\ w.child = outcome[p]
      /\ w.status = IF class = "success" THEN "success" ELSE "failure"
  BY DEF Verdict
<1>5. file' = [file EXCEPT !["verdict"] = w]  BY <1>3
<1>6. \/ class = Classify(outcome[p]) /\ stage = "child"
      \/ /\ Classify(outcome[p]) = "success" /\ stage = "result-schema"
         /\ class \in {"success", "schema_error"}
  BY <1>3
<1>7. /\ file'["verdict"] = w /\ FilesOK'
      /\ \A f \in Names \ {"verdict"} : file'[f] = file[f]
  <2>1. file'["verdict"] = w  BY <1>5, NamesApart DEF GateInv, Types, FilesOK
  <2>2. QED  BY <2>1, <1>4, <1>5, VerdictFile
<1>8. Types'
  BY <1>1, <1>3, <1>7 DEF GateInv, Types, CallersOK, WorldOK, PCs, Over
<1>9. pc'[p] = "done" /\ \A q \in Caller : q # p => pc'[q] = pc[q]
  BY <1>3 DEF GateInv, Types, CallersOK
<1>10. \A q \in Caller : pc'[q] \notin Claiming \cup Working
  <2>1. \A q \in Caller : q # p => ~Busy(q)  BY <1>2, Others
  <2>2. QED  BY <2>1, <1>9 DEF Busy, Claiming, Working
<1>11. damage = 0  BY <1>2 DEF Decided, GateInv, Types, WorldOK
<1>12. Decided'  BY <1>4, <1>7 DEF Decided
<1>13. Alone' /\ Undecided'  BY <1>10, <1>12 DEF Alone, Undecided
<1>14. Launches'
  BY <1>1, <1>9, SameLaunches
<1>15. Beliefs'
  <2>1. Sealed'  BY <1>1 DEF GateInv, Beliefs, Sealed
  <2>2. \A q \in Caller : Belief(q, pc[q])'
    BY <1>10 DEF Belief, Checked, Working
  <2>3. QED  BY <2>1, <2>2 DEF Beliefs
<1>16. file["attempt"] = Attempt(p) /\ \A s \in Stream : file[s] # Absent
  BY <1>2 DEF Place, Working, Checked
<1>17. Written(w)'
  <2>1. w.id \in Caller /\ w.attempt = Attempt(w.id) /\ pc'[w.id] = "done"
    BY <1>4, <1>9, <1>16
  <2>2. /\ w.child = outcome[p] /\ w.child \in Outcomes(Cap) /\ ValidOutcome(w.child, Cap)
        /\ \A s \in Stream : ~w.child.streams[s].sha.altered
    BY <1>2, <1>4 DEF GateInv, Types, CallersOK, Beliefs, Sealed, Belief, Checked
  <2>3. Truth(w.child)'
    BY <1>1, <1>2, <2>2 DEF Belief, Checked, Truth
  <2>4. w.child.faults = {} => ~toolBad'  BY <1>1, <1>2, <2>2 DEF Belief
  <2>5. file'["attempt"] = w.attempt  BY <1>4, <1>7, NamesApart
  <2>6. ~late' => \A s \in Stream : LET rec == w.child.streams[s] IN
              file'[s].is = "raw" /\ file'[s].size = rec.captured /\ Digest(s)' = rec.sha
    BY <1>1, <1>2, <1>7, <2>2, NamesApart
    DEF Belief, Checked, RawAsRecorded, Digest
  <2>7. /\ w.status = IF w.class = "success" THEN "success" ELSE "failure"
        /\ \/ w.class = Classify(w.child) /\ w.stage = "child"
           \/ /\ Classify(w.child) = "success" /\ w.stage = "result-schema"
              /\ w.class \in {"success", "schema_error"}
    BY <1>4, <1>6
  <2>8. ~\E q \in Caller : pc'[q] \in Claiming  BY <1>10
  <2>9. QED
    BY <2>1, <2>2, <2>3, <2>4, <2>5, <2>6, <2>7, <2>8, Zenon DEF Written
<1>18. Judged'  BY <1>7, <1>17 DEF Judged
<1>19. Removed'
  <2>1. Consumed' /\ Missing("stdout")' = 0 /\ Missing("stderr")' = 0
    BY <1>2, <1>7, <1>16, NamesApart DEF Consumed, Missing, Stream
  <2>2. Missing("verdict")' = 0  BY <1>4, <1>7 DEF Missing, Absent
  <2>3. QED  BY <2>1, <2>2, <1>1, <1>10, <1>11 DEF Removed, Gone
<1>20. QED  BY <1>8, <1>13, <1>14, <1>15, <1>18, <1>19 DEF GateInv

-----------------------------------------------------------------------------
(* The other steps.                                                        *)

\* Callers stop, readers end, and nothing else happens.
LEMMA QuietStep ==
  ASSUME GateInv, CallersOK',
         UNCHANGED <<file, outcome, launched, emitted, exited, toolBad, late, damage>>,
         \A q \in Caller : reading'[q] => reading[q],
         \A q \in Caller : \/ pc'[q] = pc[q]
                           \/ /\ pc'[q] \notin Claiming \cup Working
                              /\ pc[q] \in {"done", "dead"} => pc'[q] = "dead"
  PROVE  GateInv'
<1>1. FilesOK' /\ (Decided' <=> Decided) /\ (Consumed' <=> Consumed)
      /\ (Unaltered' <=> Unaltered)
  BY SameFiles
<1>2. Types'  BY <1>1 DEF GateInv, Types, WorldOK
<1>3. \A q \in Caller : /\ pc'[q] \in Working => pc'[q] = pc[q]
                        /\ pc'[q] \in Claiming => pc'[q] = pc[q]
  OBVIOUS
<1>4. Alone'  BY <1>1, <1>3 DEF GateInv, Alone, Busy
<1>5. Undecided'
  <2> SUFFICES ASSUME ~Decided PROVE Undecided'  BY <1>1 DEF Undecided
  <2>1. ~Consumed' => Untouched' /\ \A p \in Caller : ~Busy(p)'
    BY <1>1, <1>3 DEF GateInv, Undecided, Untouched, Busy
  <2>2. Unaltered'  BY <1>1 DEF GateInv, Undecided
  <2>3. ASSUME NEW q \in Caller PROVE Place(q, pc[q])'
    <3>1. CASE pc'[q] = pc[q]
      <4>1. Place(q, pc[q])  BY DEF GateInv, Undecided
      <4>2. QED  BY <3>1, <4>1 DEF Place, Untouched
    <3>2. CASE pc'[q] \notin Claiming \cup Working
      BY <3>2 DEF Place, Claiming, Working, Checked
    <3>3. QED  BY <3>1, <3>2
  <2>4. QED  BY <2>1, <2>2, <2>3 DEF Undecided
<1>6. Launches'
  <2>1. \A q \in Caller : pc'[q] = "running" => pc[q] = "running"
    BY <1>3 DEF Working
  <2>2. QED  BY <2>1, SameLaunches
<1>7. \A o : Truth(o) => Truth(o)'  BY DEF Truth
<1>8. Beliefs'
  <2>1. Sealed'  BY DEF GateInv, Beliefs, Sealed
  <2>2. ASSUME NEW q \in Caller PROVE Belief(q, pc[q])'
    <3>1. CASE pc'[q] = pc[q]
      <4>1. Belief(q, pc[q])  BY DEF GateInv, Beliefs
      <4>2. RawAsRecorded(q)' <=> RawAsRecorded(q)  BY DEF RawAsRecorded, Digest
      <4>3. Truth(outcome[q]) => Truth(outcome[q])'  BY DEF Truth
      <4>4. QED  BY <3>1, <4>1, <4>2, <4>3 DEF Belief
    <3>2. CASE pc'[q] \notin Claiming \cup Working
      BY <3>2 DEF Belief, Claiming, Working, Checked
    <3>3. QED  BY <3>1, <3>2
  <2>3. QED  BY <2>1, <2>2 DEF Beliefs
<1>9. Judged'
  <2> SUFFICES ASSUME file["verdict"].is = "verdict" PROVE Written(file["verdict"])'
    BY DEF Judged
  <2> DEFINE v == file["verdict"]
  <2>1. Written(v)  BY DEF GateInv, Judged
  <2>2. v' = v  OBVIOUS
  <2>3. pc'[v.id] \in {"done", "dead"}  BY <2>1 DEF Written
  <2>4. Truth(v.child)'  BY <2>1 DEF Written, Truth
  <2>5. (\E p \in Caller : pc'[p] \in Claiming) => \E p \in Caller : pc[p] \in Claiming
    BY <1>3
  <2>6. \A s \in Stream : Digest(s)' = Digest(s)  BY DEF Digest
  <2> HIDE DEF v
  <2>7. Written(v)'
    BY <2>1, <2>2, <2>3, <2>4, <2>5, <2>6, Zenon DEF Written
  <2>8. QED  BY <2>7 DEF v
<1>10. Removed'
  BY <1>1, <1>3 DEF GateInv, Removed, Gone, Missing
<1>11. QED  BY <1>2, <1>4, <1>5, <1>6, <1>8, <1>9, <1>10 DEF GateInv

\* A caller gives up, dies, or looks at the directory.
LEMMA LeaveInv ==
  ASSUME GateInv, NEW p \in Caller, NEW l \in Over \cup {"checked"},
         pc[p] \in {"done", "dead"} => l = "dead",
         pc' = [pc EXCEPT ![p] = l],
         reading' = reading \/ reading' = [reading EXCEPT ![p] = FALSE],
         UNCHANGED <<file, outcome, wrapped, launched, emitted, exited, toolBad, late,
                     damage>>
  PROVE  GateInv'
<1>1. CallersOK'  BY DEF GateInv, Types, CallersOK, PCs
<1>2. \A q \in Caller : reading'[q] => reading[q]
  BY DEF GateInv, Types, CallersOK
<1>3. pc'[p] = l /\ \A q \in Caller : q # p => pc'[q] = pc[q]
  BY DEF GateInv, Types, CallersOK
<1>4. l \notin Claiming \cup Working  BY DEF Over, Claiming, Working
<1>5. QED  BY <1>1, <1>2, <1>3, <1>4, QuietStep

\* The end of the readers disturbs nothing.
LEMMA ReadersEndInv == ASSUME GateInv, NEW p \in Caller, ReadersEnd(p) PROVE GateInv'
<1>1. CallersOK' /\ \A q \in Caller : reading'[q] => reading[q]
  BY DEF ReadersEnd, GateInv, Types, CallersOK
<1>2. QED  BY <1>1, QuietStep DEF ReadersEnd

\* Only the marker is written.
LEMMA AttemptFile ==
  ASSUME GateInv, file'["attempt"] \in {Torn} \cup {Attempt(q) : q \in Caller},
         file' = [file EXCEPT !["attempt"] = file'["attempt"]]
  PROVE  /\ FilesOK' /\ Consumed'
         /\ \A f \in Names \ {"attempt"} : file'[f] = file[f]
<1>1. /\ DOMAIN file' = Names /\ \A f \in Names \ {"attempt"} : file'[f] = file[f]
  BY NamesApart DEF GateInv, Types, FilesOK
<1>2. \A q \in Caller :
        /\ Attempt(q) \in [is : {"attempt"}, id : Caller, altered : BOOLEAN]
        /\ Attempt(q) # Absent
  BY DEF Attempt, Absent
<1>3. Torn # Absent  BY DEF Torn, Absent
<1>4. file'["attempt"] \in {Torn} \cup [is : {"attempt"}, id : Caller, altered : BOOLEAN]
  BY <1>2
<1>5. QED  BY <1>1, <1>2, <1>3, <1>4, NamesApart DEF GateInv, Types, FilesOK, Consumed

\* When the marker is missing or somebody claims the directory after a verdict,
\* at least one alteration happened: the verdict does not describe the files.
LEMMA ClaimedLate ==
  ASSUME GateInv, Decided, ~Consumed \/ (\E p \in Caller : pc[p] \in Claiming)
  PROVE  damage > 0 /\ Gone + 1 <= damage
<1>1. Gone \in Nat  BY DEF Gone, Missing
<1>2. Gone + 1 <= damage /\ damage \in Nat
  BY GateAssumption DEF GateInv, Removed, Types, WorldOK
<1>3. QED  BY <1>1, <1>2

\* A step that writes the marker and nothing else, after a verdict: the verdict
\* names another marker.
LEMMA MarkLate ==
  ASSUME GateInv, Decided, NEW p \in Caller, NEW l \in Claiming,
         ~Consumed \/ pc[p] \in Claiming, pc[p] \in {"checked"} \cup Claiming,
         pc' = [pc EXCEPT ![p] = l],
         file'["attempt"] \in {Torn, Attempt(p)},
         file' = [file EXCEPT !["attempt"] = file'["attempt"]],
         UNCHANGED <<outcome, wrapped, reading, launched, emitted, exited, toolBad,
                     late, damage>>
  PROVE  GateInv'
<1>1. /\ FilesOK' /\ Consumed'
      /\ \A f \in Names \ {"attempt"} : file'[f] = file[f]
  BY AttemptFile
<1>2. CallersOK'  BY DEF GateInv, Types, CallersOK, PCs, Claiming
<1>3. Types'  BY <1>1, <1>2 DEF GateInv, Types, WorldOK
<1>4. pc'[p] = l /\ \A q \in Caller : q # p => pc'[q] = pc[q]
  BY DEF GateInv, Types, CallersOK
<1>5. damage > 0 /\ Gone + 1 <= damage  BY ClaimedLate
<1>6. Decided'  BY <1>5 DEF Decided
<1>7. \A q \in Caller : pc'[q] \notin Working
  BY <1>4 DEF GateInv, Alone, Claiming, Working
<1>8. Alone' /\ Undecided'  BY <1>6, <1>7 DEF Alone, Undecided
<1>9. Launches'
  <2>1. \A q \in Caller : pc'[q] # "running"  BY <1>7 DEF Working
  <2>2. QED  BY <2>1, SameLaunches
<1>10. Beliefs'
  <2>1. Sealed'  BY DEF GateInv, Beliefs, Sealed
  <2>2. \A q \in Caller : Belief(q, pc[q])'
    BY <1>7 DEF Belief, Checked, Working
  <2>3. QED  BY <2>1, <2>2 DEF Beliefs
<1>11. Judged'
  <2> SUFFICES ASSUME file'["verdict"].is = "verdict" PROVE Written(file["verdict"])'
    BY DEF Judged
  <2> PICK v : v = file["verdict"]  OBVIOUS
  <2>1. file'["verdict"] = v  BY <1>1, NamesApart
  <2>2. Written(v)  BY <2>1, <1>1, NamesApart DEF GateInv, Judged
  <2>3. v.id \in Caller /\ pc[v.id] \in {"done", "dead"} /\ v.attempt = Attempt(v.id)
    BY <2>2 DEF Written
  <2>4. v.id # p /\ pc'[v.id] = pc[v.id]  BY <2>3, <1>4 DEF Claiming
  <2>5. file'["attempt"] # v.attempt
    BY <2>3, <2>4 DEF Attempt, Torn
  <2>6. Truth(v.child)'  BY <2>2 DEF Written, Truth
  <2>7. ~(damage' = 0)  BY <1>5
  <2>8. Written(v)'
    BY <2>2, <2>3, <2>4, <2>5, <2>6, <2>7, Zenon DEF Written
  <2>9. QED  BY <2>1, <2>8
<1>12. Removed'
  <2>1. Gone' = Gone
    BY <1>1, NamesApart DEF Gone, Missing, Stream
  <2>2. Gone \in Nat  BY DEF Gone, Missing
  <2>3. damage \in Nat  BY GateAssumption DEF GateInv, Types, WorldOK
  <2>4. QED  BY <2>1, <2>2, <2>3, <1>5 DEF Removed
<1>13. QED
  BY <1>3, <1>8, <1>9, <1>10, <1>11, <1>12 DEF GateInv

\* The marker is created in a directory nobody has consumed, or long after.
LEMMA CreateAttemptInv ==
  ASSUME GateInv, NEW p \in Caller, CreateAttempt(p) PROVE GateInv'
<1>1. /\ pc[p] = "checked"
      /\ UNCHANGED <<outcome, wrapped, reading, launched, emitted, exited, toolBad,
                     late, damage>>
  BY DEF CreateAttempt
<1>2. CASE ~CanCreate("attempt")
  <2>1. pc' = [pc EXCEPT ![p] = "refused"] /\ file' = file
    BY <1>2 DEF CreateAttempt, Goto
  <2>2. QED  BY <2>1, <1>1, LeaveInv DEF Over
<1>3. CASE CanCreate("attempt")
  <2>1. /\ pc' = [pc EXCEPT ![p] = "marking"] /\ ~Consumed
        /\ file' = [file EXCEPT !["attempt"] = Torn]
    BY <1>3 DEF CreateAttempt, Goto, CanCreate, Consumed
  <2>2. file'["attempt"] = Torn  BY <2>1, NamesApart DEF GateInv, Types, FilesOK
  <2>3. CASE Decided
    BY <2>1, <2>2, <2>3, <1>1, MarkLate DEF Claiming
  <2>4. CASE ~Decided
    <3>1. /\ FilesOK' /\ Consumed'
          /\ \A f \in Names \ {"attempt"} : file'[f] = file[f]
      BY <2>1, <2>2, AttemptFile
    <3>2. ~Decided'  BY <1>1, <2>4, <3>1, NamesApart DEF Decided
    <3>3. Untouched /\ Unaltered /\ \A q \in Caller : ~Busy(q)
      BY <2>1, <2>4 DEF GateInv, Undecided
    <3>4. pc'[p] = "marking" /\ \A q \in Caller : q # p => pc'[q] = pc[q]
      BY <2>1 DEF GateInv, Types, CallersOK
    <3>5. \A q \in Caller : q # p => pc'[q] \notin Claiming \cup Working
      BY <3>3, <3>4 DEF Busy
    <3>6. Types'
      BY <1>1, <2>1, <3>1 DEF GateInv, Types, CallersOK, WorldOK, PCs
    <3>7. Alone'  BY <3>2, <3>5 DEF Alone, Busy
    <3>8. Untouched' /\ Unaltered'
      BY <1>1, <3>1, <3>3, NamesApart DEF Untouched, Unaltered
    <3>9. Undecided'
      <4>1. Place(p, "marking")'
        BY <3>8 DEF Place, Working, Checked
      <4>2. \A q \in Caller : q # p => Place(q, pc[q])'
        BY <3>5 DEF Place, Claiming, Working, Checked
      <4>3. QED  BY <4>1, <4>2, <3>1, <3>4, <3>8 DEF Undecided
    <3>10. Launches'
      <4>1. \A q \in Caller : pc'[q] = "running" => pc[q] = "running"  BY <3>4
      <4>2. QED  BY <1>1, <4>1, SameLaunches
    <3>11. Beliefs'
      <4>1. Sealed'  BY <1>1 DEF GateInv, Beliefs, Sealed
      <4>2. \A q \in Caller : Belief(q, pc[q])'
        BY <3>4, <3>5 DEF Belief, Checked, Working
      <4>3. QED  BY <4>1, <4>2 DEF Beliefs
    <3>12. Judged' /\ Removed'  BY <3>2 DEF Judged, Removed, Decided
    <3>13. QED
      BY <3>6, <3>7, <3>9, <3>10, <3>11, <3>12 DEF GateInv
  <2>5. QED  BY <2>3, <2>4
<1>4. QED  BY <1>2, <1>3

\* The marker is completed by whoever created it.
LEMMA WriteAttemptInv ==
  ASSUME GateInv, NEW p \in Caller, WriteAttempt(p) PROVE GateInv'
<1>1. /\ pc[p] = "marking"
      /\ UNCHANGED <<outcome, wrapped, reading, launched, emitted, exited, toolBad,
                     late, damage>>
  BY DEF WriteAttempt
<1>2. CASE pc' = [pc EXCEPT ![p] = "escaped"] /\ file' = file
  BY <1>1, <1>2, LeaveInv DEF Over
<1>3. CASE /\ pc' = [pc EXCEPT ![p] = "prepared"]
           /\ file' = [file EXCEPT !["attempt"] = Attempt(p)]
  <2>1. file'["attempt"] = Attempt(p)  BY <1>3, NamesApart DEF GateInv, Types, FilesOK
  <2>2. CASE Decided
    BY <2>1, <2>2, <1>1, <1>3, MarkLate DEF Claiming
  <2>3. CASE ~Decided
    <3>1. /\ FilesOK' /\ Consumed'
          /\ \A f \in Names \ {"attempt"} : file'[f] = file[f]
      BY <1>3, <2>1, AttemptFile
    <3>2. ~Decided'  BY <1>1, <2>3, <3>1, NamesApart DEF Decided
    <3>3. Busy(p)  BY <1>1 DEF Busy, Claiming
    <3>4. Untouched /\ Unaltered
      BY <1>1, <2>3 DEF GateInv, Undecided, Place, Claiming
    <3>5. Untouched' /\ Unaltered'
      BY <1>1, <3>1, <3>4, NamesApart DEF Untouched, Unaltered
    <3>6. Place(p, "prepared")'
      BY <2>1, <3>5 DEF Place, Working, Claiming, Checked
    <3>7. Types'
      BY <1>1, <1>3, <3>1 DEF GateInv, Types, CallersOK, WorldOK, PCs
    <3>8. Launches'
      BY <1>1, <1>3, SameLaunches DEF GateInv, Types, CallersOK
    <3>9. Sealed' /\ Belief(p, "prepared")'
      BY <1>1 DEF GateInv, Beliefs, Sealed, Belief, Checked
    <3>10. QED
      BY <1>3, <2>3, <3>1, <3>2, <3>3, <3>5, <3>6, <3>7, <3>8, <3>9, BusyStep
  <2>4. QED  BY <2>2, <2>3
<1>4. QED  BY <1>2, <1>3 DEF WriteAttempt, Goto

\* Whoever passes the checks of execute is before any verdict: with a verdict,
\* four alterations would have removed the four files it looks for.
LEMMA ExecuteInv == ASSUME GateInv, NEW p \in Caller, Execute(p) PROVE GateInv'
<1>1. /\ pc[p] = "prepared" /\ file' = file
      /\ UNCHANGED <<outcome, wrapped, reading, launched, emitted, exited, toolBad,
                     late, damage>>
  BY DEF Execute
<1>2. CASE \E f \in Stream \cup {"verdict"} : file[f] # Absent
  <2>1. pc' = [pc EXCEPT ![p] = "escaped"]  BY <1>2 DEF Execute, Goto
  <2>2. QED  BY <2>1, <1>1, LeaveInv DEF Over
<1>3. CASE \A f \in Stream \cup {"verdict"} : file[f] = Absent
  <2>1. pc' = [pc EXCEPT ![p] = "opening"]  BY <1>3 DEF Execute, Goto
  <2>2. ~Decided
    <3>1. Gone = 3  BY <1>3 DEF Gone, Missing, Stream
    <3>2. damage <= 3  BY GateAssumption DEF GateInv, Types, WorldOK
    <3>3. QED  BY <3>1, <3>2, <1>1, ClaimedLate, GateAssumption
               DEF Claiming, GateInv, Types, WorldOK
  <2>3. Busy(p)  BY <1>1 DEF Busy, Claiming
  <2>4. Untouched /\ Unaltered /\ file["attempt"] = Attempt(p) /\ Consumed
    BY <1>1, <2>2, <2>3 DEF GateInv, Undecided, Place, Claiming
  <2>5. FilesOK' /\ ~Decided' /\ Consumed' /\ Unaltered'
    BY <1>1, <2>2, <2>4, SameFiles
  <2>6. Place(p, "opening")'
    BY <1>1, <2>4 DEF Place, Untouched, Working, Claiming, Checked
  <2>7. Types'
    BY <1>1, <2>1, <2>5 DEF GateInv, Types, CallersOK, WorldOK, PCs
  <2>8. Launches'
    BY <1>1, <2>1, SameLaunches DEF GateInv, Types, CallersOK
  <2>9. Sealed' /\ Belief(p, "opening")'
    BY <1>1 DEF GateInv, Beliefs, Sealed, Belief, Checked
  <2>10. QED
    BY <2>1, <2>2, <2>3, <2>5, <2>6, <2>7, <2>8, <2>9, BusyStep DEF Working
<1>4. QED  BY <1>2, <1>3

\* A byte that arrives after the reader's caller moved on is late; before, no
\* other caller has looked at the file yet.
LEMMA EmitInv ==
  ASSUME GateInv, NEW p \in Caller, NEW s \in Stream, Emit(p, s) PROVE GateInv'
<1>1. /\ reading[p] /\ emitted[s] < MaxOut /\ emitted' = [emitted EXCEPT ![s] = @ + 1]
      /\ file' = IF file[s].is = "raw" /\ file[s].size < Cap
                 THEN [file EXCEPT ![s].size = @ + 1] ELSE file
      /\ late' = (late \/ (pc[p] # "running" /\ file' # file))
      /\ UNCHANGED <<pc, outcome, wrapped, reading, launched, exited, toolBad, damage>>
  BY DEF Emit
<1>2. launched = 1  BY <1>1 DEF GateInv, Launches
<1> DEFINE bytes == [is : {"raw"}, size : 0..Cap, altered : BOOLEAN]
<1>3. /\ \A f \in Names \ {s} : file'[f] = file[f]
      /\ DOMAIN file' = Names
      /\ file'[s] = Absent <=> file[s] = Absent
      /\ file'[s] = Absent \/ file'[s] \in bytes
      /\ file[s] # Absent => file'[s].altered = file[s].altered
  <2>1. CASE file' = file  BY <2>1, NamesApart DEF GateInv, Types, FilesOK
  <2>2. CASE /\ file[s].is = "raw" /\ file[s].size < Cap
             /\ file' = [file EXCEPT ![s].size = @ + 1]
    <3>1. file[s] # Absent  BY <2>2 DEF Absent
    <3>2. file[s] \in bytes  BY <3>1 DEF GateInv, Types, FilesOK
    <3>3. PICK g : g = [file[s] EXCEPT !.size = @ + 1]  OBVIOUS
    <3>4. file[s].size + 1 \in 0..Cap  BY <2>2, <3>2, GateAssumption
    <3>5. g \in bytes /\ g.altered = file[s].altered  BY <3>2, <3>3, <3>4
    <3>6. g # Absent  BY <3>5 DEF Absent
    <3>7. file' = [file EXCEPT ![s] = g]  BY <2>2, <3>3
    <3>8. file'[s] = g /\ DOMAIN file' = Names /\ \A f \in Names \ {s} : file'[f] = file[f]
      BY <3>7, NamesApart DEF GateInv, Types, FilesOK
    <3>9. QED  BY <3>1, <3>5, <3>6, <3>8
  <2>3. QED  BY <1>1, <2>1, <2>2
<1>4. /\ file'["attempt"] = file["attempt"] /\ file'["verdict"] = file["verdict"]
      /\ file'["stray"] = file["stray"]
      /\ \A t \in Stream : /\ file'[t] = Absent <=> file[t] = Absent
                           /\ file'[t] = Absent \/ file'[t] \in bytes
                           /\ file[t] # Absent => file'[t].altered = file[t].altered
  <2>1. \A t \in Stream \ {s} : file'[t] = file[t]  BY <1>3, NamesApart
  <2>2. \A t \in Stream \ {s} : file'[t] = Absent \/ file'[t] \in bytes
    BY <2>1 DEF GateInv, Types, FilesOK
  <2>3. QED  BY <1>3, <2>1, <2>2, NamesApart
<1> HIDE DEF bytes
<1>5. Types'
  <2>1. FilesOK'  BY <1>3, <1>4 DEF GateInv, Types, FilesOK, bytes
  <2>2. emitted' \in [Stream -> 0..MaxOut]
    BY <1>1, GateAssumption DEF GateInv, Types, WorldOK
  <2>3. late' \in BOOLEAN  BY <1>1 DEF GateInv, Types, WorldOK
  <2>4. CallersOK'  BY <1>1 DEF GateInv, Types, CallersOK
  <2>5. WorldOK'  BY <1>1, <2>2, <2>3 DEF GateInv, Types, WorldOK
  <2>6. QED  BY <2>1, <2>4, <2>5 DEF Types
<1>6. (Decided' <=> Decided) /\ (Consumed' <=> Consumed)
  BY <1>1, <1>4 DEF Decided, Consumed
<1>7. Alone'  BY <1>1, <1>6 DEF GateInv, Alone, Busy
<1>8. Undecided'
  <2> SUFFICES ASSUME ~Decided PROVE Undecided'  BY <1>6 DEF Undecided
  <2>1. Consumed' /\ ~Untouched
    BY <1>2, <1>6 DEF GateInv, Undecided, Untouched
  <2>2. Unaltered'  BY <1>4 DEF GateInv, Undecided, Unaltered
  <2>3. \A q \in Caller : Place(q, pc[q])'
    <3> SUFFICES ASSUME NEW q \in Caller PROVE Place(q, pc[q])'  OBVIOUS
    <3>1. Place(q, pc[q])  BY DEF GateInv, Undecided
    <3>2. "stdout" \in Stream  BY DEF Stream
    <3>3. QED  BY <1>1, <1>4, <2>1, <3>1, <3>2, Zenon DEF Place
  <2>4. QED  BY <2>1, <2>2, <2>3 DEF Undecided
<1>9. Launches'  BY <1>1, SameLaunches
<1>10. \A o : Truth(o) => Truth(o)'
  <2>1. \A o : Truth(o) => o.faults # {}  BY <1>1 DEF Truth
  <2>2. QED  BY <2>1 DEF Truth
<1>11. file' # file /\ ~late' => pc[p] = "running"  BY <1>1
<1>12. Beliefs'
  <2>1. Sealed'  BY <1>1 DEF GateInv, Beliefs, Sealed
  <2>2. ASSUME NEW q \in Caller PROVE Belief(q, pc[q])'
    <3>1. Belief(q, pc[q])  BY DEF GateInv, Beliefs
    <3>2. pc[q] \in Checked /\ ~late' => ~late /\ RawAsRecorded(q)'
      <4> SUFFICES ASSUME pc[q] \in Checked, ~late' PROVE ~late /\ RawAsRecorded(q)'
        OBVIOUS
      <4>1. ~late  BY <1>1
      <4>2. file' = file
        <5> SUFFICES ASSUME pc[p] = "running" PROVE FALSE  BY <1>11
        <5>1. pc[q] \in Working /\ pc[p] \in Working  BY DEF Checked, Working
        <5>2. p = q  BY <5>1 DEF GateInv, Alone, Busy
        <5>3. QED  BY <5>2 DEF Checked
      <4>3. RawAsRecorded(q)  BY <3>1, <4>1 DEF Belief
      <4>4. QED  BY <1>1, <4>1, <4>2, <4>3 DEF RawAsRecorded, Digest
    <3>3. Truth(outcome[q]) => Truth(outcome[q])'
      <4>1. Truth(outcome[q]) => outcome[q].faults # {}  BY <1>1 DEF Truth
      <4>2. QED  BY <1>1, <4>1 DEF Truth
    <3>4. QED  BY <1>1, <3>1, <3>2, <3>3, Zenon DEF Belief
  <2>3. QED  BY <2>1, <2>2 DEF Beliefs
<1>13. Judged'
  <2> SUFFICES ASSUME file["verdict"].is = "verdict" PROVE Written(file["verdict"])'
    BY <1>4 DEF Judged
  <2> PICK v : v = file["verdict"]  OBVIOUS
  <2>1. file'["verdict"] = v  BY <1>4
  <2>2. Written(v)  BY DEF GateInv, Judged
  <2>3. Truth(v.child)'  BY <2>2, <1>10 DEF Written, Truth
  <2>4. ~late' => file' = file /\ ~late
    <3>1. pc[p] # "running"  BY DEF GateInv, Alone, Decided, Working
    <3>2. QED  BY <1>1, <3>1
  <2>5. damage' = 0 /\ ~late' =>
          \A t \in Stream : LET rec == v.child.streams[t] IN
              file'[t].is = "raw" /\ file'[t].size = rec.captured /\ Digest(t)' = rec.sha
    <3> SUFFICES ASSUME damage' = 0, ~late'
                 PROVE  \A t \in Stream : LET rec == v.child.streams[t] IN
                           /\ file'[t].is = "raw" /\ file'[t].size = rec.captured
                           /\ Digest(t)' = rec.sha
      OBVIOUS
    <3>1. file' = file /\ ~late /\ damage = 0  BY <1>1, <2>4
    <3>2. \A t \in Stream : Digest(t)' = Digest(t)  BY <3>1 DEF Digest
    <3>3. QED  BY <2>2, <3>1, <3>2, Zenon DEF Written
  <2>6. Written(v)'
    BY <1>1, <1>4, <2>2, <2>3, <2>5, Zenon DEF Written
  <2>7. QED  BY <2>1, <2>6
<1>14. Removed'
  BY <1>1, <1>4, <1>6 DEF GateInv, Removed, Gone, Missing, Stream
<1>15. QED
  BY <1>5, <1>7, <1>8, <1>9, <1>12, <1>13, <1>14 DEF GateInv

\* The tool can only be replaced while an attempt is at work, and then no
\* verdict without a fault is being written nor describes the files.
LEMMA ReplaceToolInv == ASSUME GateInv, ReplaceTool PROVE GateInv'
<1>1. /\ toolBad' = TRUE
      /\ UNCHANGED <<file, pc, outcome, wrapped, reading, launched, emitted, exited, late,
                     damage>>
  BY DEF ReplaceTool
<1>2. PICK p \in Caller :
        pc[p] \in {"prepared", "opening", "opened", "running", "raised", "returned",
                   "checked outcome"}
  BY DEF ReplaceTool
<1>3. FilesOK' /\ (Decided' <=> Decided) /\ (Consumed' <=> Consumed)
      /\ (Unaltered' <=> Unaltered)
  BY <1>1, SameFiles
<1>4. Types'  BY <1>1, <1>3 DEF GateInv, Types, CallersOK, WorldOK
<1>5. Alone'  BY <1>1, <1>3 DEF GateInv, Alone, Busy
<1>6. Undecided'
  BY <1>1, <1>3 DEF GateInv, Undecided, Untouched, Place, Busy
<1>7. Launches'  BY <1>1, SameLaunches
<1>8. Beliefs'
  <2>1. Sealed'  BY <1>1 DEF GateInv, Beliefs, Sealed
  <2>2. ASSUME NEW q \in Caller PROVE Belief(q, pc[q])'
    <3>1. Belief(q, pc[q])  BY DEF GateInv, Beliefs
    <3>2. pc[q] \notin {"classified", "judging"}
      <4> SUFFICES ASSUME pc[q] \in {"classified", "judging"} PROVE FALSE  OBVIOUS
      <4>1. Busy(q) /\ ~Decided  BY DEF Busy, Working, GateInv, Alone
      <4>2. Busy(p)  BY <1>2 DEF Busy, Working, Claiming
      <4>3. p = q  BY <4>1, <4>2 DEF GateInv, Alone
      <4>4. QED  BY <4>3, <1>2
    <3>3. Truth(outcome[q]) => Truth(outcome[q])'  BY <1>1 DEF Truth
    <3>4. RawAsRecorded(q)' <=> RawAsRecorded(q)  BY <1>1 DEF RawAsRecorded, Digest
    <3>5. QED  BY <1>1, <3>1, <3>2, <3>3, <3>4, Zenon DEF Belief
  <2>3. QED  BY <2>1, <2>2 DEF Beliefs
<1>9. Judged'
  <2> SUFFICES ASSUME file["verdict"].is = "verdict" PROVE Written(file["verdict"])'
    BY <1>1 DEF Judged
  <2> PICK v : v = file["verdict"]  OBVIOUS
  <2>1. file'["verdict"] = v  BY <1>1
  <2>2. Written(v)  BY DEF GateInv, Judged
  <2>3. pc[p] \in Claiming
    BY <1>2 DEF GateInv, Alone, Decided, Working, Claiming
  <2>4. file["attempt"] # v.attempt  BY <2>2, <2>3 DEF Written
  <2>5. Truth(v.child)'  BY <1>1, <2>2 DEF Written, Truth
  <2>6. \A s \in Stream : Digest(s)' = Digest(s)  BY <1>1 DEF Digest
  <2>7. Written(v)'
    BY <1>1, <2>2, <2>4, <2>5, <2>6, Zenon DEF Written
  <2>8. QED  BY <2>1, <2>7
<1>10. Removed'  BY <1>1, <1>3 DEF GateInv, Removed, Gone, Missing
<1>11. QED
  BY <1>4, <1>5, <1>6, <1>7, <1>8, <1>9, <1>10 DEF GateInv

\* A file the child leaves behind is none of the inventory.
LEMMA LeaveFileInv == ASSUME GateInv, LeaveFile PROVE GateInv'
<1>1. /\ file' = [file EXCEPT !["stray"] = RawFile(0)]
      /\ UNCHANGED <<pc, outcome, wrapped, reading, launched, emitted, exited, toolBad,
                     late, damage>>
  BY DEF LeaveFile
<1>2. ~Decided  BY DEF LeaveFile, GateInv, Alone, Working
<1>3. /\ DOMAIN file' = Names /\ file'["stray"] = RawFile(0)
      /\ \A f \in Names \ {"stray"} : file'[f] = file[f]
  BY <1>1, NamesApart DEF GateInv, Types, FilesOK
<1>4. /\ file'["attempt"] = file["attempt"] /\ file'["verdict"] = file["verdict"]
      /\ \A s \in Stream : file'[s] = file[s]
  BY <1>3, NamesApart
<1>5. Types'
  <2>1. FilesOK'  BY <1>3, <1>4 DEF GateInv, Types, FilesOK
  <2>2. QED  BY <1>1, <2>1 DEF GateInv, Types, CallersOK, WorldOK
<1>6. ~Decided' /\ (Consumed' <=> Consumed)
  BY <1>1, <1>2, <1>4 DEF Decided, Consumed
<1>7. Alone'  BY <1>1, <1>2, <1>6 DEF GateInv, Alone, Busy
<1>8. Undecided'
  <2>1. "stdout" \in Stream  BY DEF Stream
  <2>2. (Untouched' <=> Untouched) /\ (Unaltered' <=> Unaltered)
    BY <1>1, <1>4 DEF Untouched, Unaltered
  <2>3. ASSUME NEW q \in Caller PROVE Place(q, pc[q])'
    <3>1. Place(q, pc[q])  BY <1>2 DEF GateInv, Undecided
    <3>2. QED  BY <1>1, <1>4, <2>1, <2>2, <3>1, Zenon DEF Place
  <2>4. QED  BY <1>1, <1>2, <1>6, <2>2, <2>3 DEF GateInv, Undecided, Busy
<1>9. Launches'  BY <1>1, SameLaunches
<1>10. Beliefs'
  <2>1. Sealed'  BY <1>1 DEF GateInv, Beliefs, Sealed
  <2>2. ASSUME NEW q \in Caller PROVE Belief(q, pc[q])'
    <3>1. Belief(q, pc[q])  BY DEF GateInv, Beliefs
    <3>2. Truth(outcome[q]) => Truth(outcome[q])'  BY <1>1 DEF Truth
    <3>3. RawAsRecorded(q)' <=> RawAsRecorded(q)
      BY <1>1, <1>4 DEF RawAsRecorded, Digest
    <3>4. QED  BY <1>1, <3>1, <3>2, <3>3, Zenon DEF Belief
  <2>3. QED  BY <2>1, <2>2 DEF Beliefs
<1>11. Judged' /\ Removed'  BY <1>6 DEF Judged, Removed, Decided
<1>12. QED
  BY <1>5, <1>7, <1>8, <1>9, <1>10, <1>11 DEF GateInv

\* An alteration removes a file at most, and never restores one.
LEMMA DamageInv == ASSUME GateInv, NEW f \in Complete, Damage(f) PROVE GateInv'
<1>1. /\ damage < MaxDamage /\ damage' = damage + 1 /\ file["verdict"].is = "verdict"
      /\ UNCHANGED <<pc, outcome, wrapped, reading, launched, emitted, exited, toolBad,
                     late>>
  BY DEF Damage
<1> DEFINE marks == [is : {"attempt"}, id : Caller, altered : BOOLEAN]
           raws  == [is : {"raw"}, size : 0..Cap, altered : BOOLEAN]
<1>2. f \in Stream \/ f = "attempt" \/ f = "verdict"  BY DEF Complete
<1>3. PICK g :
        /\ file' = [file EXCEPT ![f] = g]
        /\ \/ g = Absent
           \/ f \in {"attempt", "verdict"} /\ g = Torn
           \/ f = "attempt" /\ g \in marks /\ g.altered
           \/ f \in Stream /\ g \in raws /\ file[f] # Absent
  <2>1. CASE file' = [file EXCEPT ![f] = Absent]  BY <2>1
  <2>2. CASE f \in {"attempt", "verdict"} /\ file' = [file EXCEPT ![f] = Torn]  BY <2>2
  <2>3. CASE /\ file[f].is \in {"raw", "attempt"}
             /\ file' = [file EXCEPT ![f].altered = TRUE]
    <3>1. PICK g : g = [file[f] EXCEPT !.altered = TRUE]  OBVIOUS
    <3>2. file' = [file EXCEPT ![f] = g]  BY <2>3, <3>1
    <3>3. f # "verdict" /\ file[f] # Absent /\ file[f] # Torn
      BY <1>1, <2>3 DEF Absent, Torn
    <3>4. CASE f = "attempt"
      <4>1. file[f] \in marks  BY <3>3, <3>4 DEF GateInv, Types, FilesOK
      <4>2. g \in marks /\ g.altered  BY <3>1, <4>1
      <4>3. QED  BY <3>2, <3>4, <4>2
    <3>5. CASE f \in Stream
      <4>1. file[f] \in raws  BY <3>3, <3>5 DEF GateInv, Types, FilesOK
      <4>2. g \in raws  BY <3>1, <4>1
      <4>3. QED  BY <3>2, <3>3, <3>5, <4>2
    <3>6. QED  BY <1>2, <3>3, <3>4, <3>5
  <2>4. CASE /\ file[f].is = "raw" /\ file[f].size > 0
             /\ file' = [file EXCEPT ![f].size = @ - 1]
    <3>1. PICK g : g = [file[f] EXCEPT !.size = @ - 1]  OBVIOUS
    <3>2. file' = [file EXCEPT ![f] = g]  BY <2>4, <3>1
    <3>3. f \in Stream /\ file[f] # Absent
      BY <1>1, <1>2, <2>4 DEF Absent, Torn, GateInv, Types, FilesOK
    <3>4. file[f] \in raws  BY <3>3 DEF GateInv, Types, FilesOK
    <3>5. file[f].size - 1 \in 0..Cap  BY <2>4, <3>4, GateAssumption
    <3>6. g \in raws  BY <3>1, <3>4, <3>5
    <3>7. QED  BY <3>2, <3>3, <3>6
  <2>5. QED  BY <2>1, <2>2, <2>3, <2>4 DEF Damage
<1>4. f \in Names  BY DEF Names
<1>5. /\ DOMAIN file' = Names /\ file'[f] = g
      /\ \A h \in Names \ {f} : file'[h] = file[h]
  BY <1>3, <1>4 DEF GateInv, Types, FilesOK
<1>6. f # "stray"  BY <1>2, NamesApart
<1>7. Types'
  <2>1. FilesOK'
    <3>1. file'["attempt"] \in {Absent, Torn} \cup marks
      BY <1>3, <1>5, NamesApart DEF GateInv, Types, FilesOK
    <3>2. \A s \in Stream : file'[s] = Absent \/ file'[s] \in raws
      BY <1>3, <1>5, NamesApart DEF GateInv, Types, FilesOK
    <3>3. /\ file'["verdict"].is \in {"absent", "torn", "verdict"}
          /\ file'["verdict"].is = "absent" => file'["verdict"] = Absent
      BY <1>3, <1>5, NamesApart DEF GateInv, Types, FilesOK, Absent, Torn
    <3>4. file'["stray"] \in {Absent, RawFile(0)}
      BY <1>5, <1>6, NamesApart DEF GateInv, Types, FilesOK
    <3>5. QED  BY <1>5, <3>1, <3>2, <3>3, <3>4 DEF FilesOK
  <2>2. damage' \in 0..MaxDamage
    BY <1>1, GateAssumption DEF GateInv, Types, WorldOK
  <2>3. CallersOK'  BY <1>1 DEF GateInv, Types, CallersOK
  <2>4. WorldOK'  BY <1>1, <2>2 DEF GateInv, Types, WorldOK
  <2>5. QED  BY <2>1, <2>3, <2>4 DEF Types
<1>8. damage \in Nat /\ Decided /\ Decided'
  BY <1>1, GateAssumption DEF GateInv, Types, WorldOK, Decided
<1>9. \A q \in Caller : pc'[q] \notin Working
  BY <1>1, <1>8 DEF GateInv, Alone
<1>10. Alone' /\ Undecided'  BY <1>8, <1>9 DEF Alone, Undecided
<1>11. Launches'  BY <1>1, SameLaunches
<1>12. Beliefs'
  <2>1. Sealed'  BY <1>1 DEF GateInv, Beliefs, Sealed
  <2>2. \A q \in Caller : Belief(q, pc[q])'
    BY <1>9 DEF Belief, Checked, Working
  <2>3. QED  BY <2>1, <2>2 DEF Beliefs
<1>13. Judged'
  <2> SUFFICES ASSUME file'["verdict"].is = "verdict" PROVE Written(file["verdict"])'
    BY DEF Judged
  <2> PICK v : v = file["verdict"]  OBVIOUS
  <2>1. file'["verdict"] = v
    BY <1>3, <1>5, NamesApart DEF Absent, Torn
  <2>2. Written(v)  BY <1>1 DEF GateInv, Judged
  <2>3. v.attempt = Attempt(v.id)  BY <2>2 DEF Written
  <2>4. file'["attempt"] = v.attempt => file["attempt"] = v.attempt
    <3>1. Attempt(v.id).is = "attempt" /\ Attempt(v.id).altered = FALSE  BY DEF Attempt
    <3>2. CASE f = "attempt"
      BY <1>3, <1>5, <2>3, <3>1, <3>2, NamesApart DEF Absent, Torn
    <3>3. CASE f # "attempt"  BY <1>5, <3>3, NamesApart
    <3>4. QED  BY <3>2, <3>3
  <2>5. Truth(v.child)'  BY <1>1, <2>2 DEF Written, Truth
  <2>6. damage' # 0  BY <1>1, <1>8
  <2>7. Written(v)'
    BY <1>1, <2>2, <2>4, <2>5, <2>6, Zenon DEF Written
  <2>8. QED  BY <2>1, <2>7
<1>14. Removed'
  <2>1. \A h \in Names : /\ Missing(h)' \in {0, 1} /\ Missing(h) \in {0, 1}
                         /\ h # f => Missing(h)' = Missing(h)
    BY <1>5 DEF Missing
  <2>2. /\ {"stdout", "stderr", "verdict", "attempt"} \subseteq Names
    BY DEF Names, Complete, Stream
  <2>3. Gone' <= Gone + 1 /\ Gone \in Nat /\ Gone' \in Nat
    <3>1. \A h \in {"stdout", "stderr", "verdict"} :
            Missing(h) \in {0, 1} /\ Missing(h)' \in {0, 1}
      BY <2>1, <2>2
    <3>2. CASE f = "stdout"
      <4>1. Missing("stderr")' = Missing("stderr") /\ Missing("verdict")' = Missing("verdict")
        BY <2>1, <2>2, <3>2
      <4>2. QED  BY <3>1, <4>1 DEF Gone
    <3>3. CASE f = "stderr"
      <4>1. Missing("stdout")' = Missing("stdout") /\ Missing("verdict")' = Missing("verdict")
        BY <2>1, <2>2, <3>3
      <4>2. QED  BY <3>1, <4>1 DEF Gone
    <3>4. CASE f # "stdout" /\ f # "stderr"
      <4>1. Missing("stdout")' = Missing("stdout") /\ Missing("stderr")' = Missing("stderr")
        BY <2>1, <2>2, <3>4
      <4>2. QED  BY <3>1, <4>1 DEF Gone
    <3>5. QED  BY <3>2, <3>3, <3>4
  <2>4. Gone <= damage  BY <1>8 DEF GateInv, Removed
  <2>5. CASE f = "attempt"
    <3>1. Gone' = Gone  BY <2>1, <2>2, <2>5 DEF Gone
    <3>2. Gone' + 1 <= damage' /\ Gone' <= damage'  BY <1>1, <1>8, <2>3, <2>4, <3>1
    <3>3. QED  BY <3>2 DEF Removed
  <2>6. CASE f # "attempt"
    <3>1. Consumed' <=> Consumed  BY <1>5, <2>2, <2>6 DEF Consumed
    <3>2. ~Consumed \/ (\E q \in Caller : pc[q] \in Claiming) => Gone + 1 <= damage
      BY <1>8 DEF GateInv, Removed
    <3>3. Gone' <= damage'  BY <1>1, <1>8, <2>3, <2>4
    <3>4. ~Consumed \/ (\E q \in Caller : pc[q] \in Claiming) => Gone' + 1 <= damage'
      <4> SUFFICES ASSUME ~Consumed \/ (\E q \in Caller : pc[q] \in Claiming)
                   PROVE  Gone' + 1 <= damage'
        OBVIOUS
      <4>1. Gone + 1 <= damage  BY <3>2
      <4>2. \A m, n, d \in Nat : m <= n + 1 /\ n + 1 <= d => m + 1 <= d + 1  OBVIOUS
      <4>3. Gone' + 1 <= damage + 1  BY <4>1, <4>2, <1>8, <2>3
      <4>4. QED  BY <4>3, <1>1
    <3>5. QED  BY <1>1, <3>1, <3>3, <3>4 DEF Removed
  <2>7. QED  BY <2>5, <2>6
<1>15. QED
  BY <1>7, <1>10, <1>11, <1>12, <1>13, <1>14 DEF GateInv

-----------------------------------------------------------------------------
\* Every step preserves the invariant.
LEMMA NextInv == GateInv /\ [Next]_gateVars => GateInv'
<1> SUFFICES ASSUME GateInv, [Next]_gateVars PROVE GateInv'  OBVIOUS
<1>1. CASE UNCHANGED gateVars
  <2>1. CallersOK'  BY <1>1 DEF gateVars, GateInv, Types, CallersOK
  <2>2. QED  BY <1>1, <2>1, QuietStep DEF gateVars
<1>2. ASSUME NEW p \in Caller, CallerStep(p) PROVE GateInv'
  <2>1. CASE Validate(p)
    <3>1. PICK l \in {"checked", "refused"} : pc' = [pc EXCEPT ![p] = l]
      BY <2>1 DEF Validate, Goto
    <3>2. QED  BY <2>1, <3>1, LeaveInv DEF Validate, Over
  <2>2. CASE CreateAttempt(p)  BY <2>2, CreateAttemptInv
  <2>3. CASE WriteAttempt(p)  BY <2>3, WriteAttemptInv
  <2>4. CASE Execute(p)  BY <2>4, ExecuteInv
  <2>5. CASE OpenRaw(p)  BY <2>5, OpenRawInv
  <2>6. CASE Launch(p)  BY <2>6, LaunchInv
  <2>7. CASE LaunchFails(p)  BY <2>7, LaunchFailsInv
  <2>8. CASE AdapterReturns(p)  BY <2>8, AdapterReturnsInv
  <2>9. CASE AdapterRaises(p)  BY <2>9, AdapterRaisesInv
  <2>10. CASE BeginFallback(p)  BY <2>10, BeginFallbackInv
  <2>11. ASSUME NEW s \in Stream, TakeSize(p, s) PROVE GateInv'  BY <2>11, TakeSizeInv
  <2>12. ASSUME NEW s \in Stream, TakeHash(p, s) PROVE GateInv'  BY <2>12, TakeHashInv
  <2>13. CASE CheckOutcome(p)  BY <2>13, CheckOutcomeInv
  <2>14. CASE CheckTool(p)  BY <2>14, CheckToolInv
  <2>15. CASE CreateVerdict(p)
    <3>1. CASE CanCreate("verdict")  BY <2>15, <3>1, CreateVerdictInv
    <3>2. CASE ~CanCreate("verdict")
      <4>1. pc[p] = "classified" /\ pc' = [pc EXCEPT ![p] = "escaped"]
        BY <2>15, <3>2 DEF CreateVerdict, Goto
      <4>2. QED  BY <2>15, <3>2, <4>1, LeaveInv DEF CreateVerdict, Over
    <3>3. QED  BY <3>1, <3>2
  <2>16. CASE WriteVerdict(p)
    <3>1. CASE file' # file \/ pc'[p] = "done"  BY <2>16, <3>1, WriteVerdictInv
    <3>2. CASE file' = file /\ pc'[p] # "done"
      <4>1. pc[p] = "judging" /\ pc' = [pc EXCEPT ![p] = "escaped"]
        <5>1. pc' # [pc EXCEPT ![p] = "done"]
          BY <3>2 DEF GateInv, Types, CallersOK
        <5>2. QED  BY <2>16, <5>1 DEF WriteVerdict, Goto
      <4>2. QED  BY <2>16, <3>2, <4>1, LeaveInv DEF WriteVerdict, Over
    <3>3. QED  BY <3>1, <3>2
  <2>17. QED
    BY <1>2, <2>1, <2>2, <2>3, <2>4, <2>5, <2>6, <2>7, <2>8, <2>9, <2>10, <2>11, <2>12,
       <2>13, <2>14, <2>15, <2>16 DEF CallerStep
<1>3. ASSUME NEW p \in Caller, Die(p) PROVE GateInv'
  BY <1>3, LeaveInv DEF Die, Goto, Over
<1>4. ASSUME NEW p \in Caller, ReadersEnd(p) PROVE GateInv'  BY <1>4, ReadersEndInv
<1>5. ASSUME NEW p \in Caller, NEW s \in Stream, Emit(p, s) PROVE GateInv'
  BY <1>5, EmitInv
<1>6. CASE ReplaceTool  BY <1>6, ReplaceToolInv
<1>7. CASE LeaveFile  BY <1>7, LeaveFileInv
<1>8. ASSUME NEW f \in Complete, Damage(f) PROVE GateInv'  BY <1>8, DamageInv
<1>9. QED  BY <1>1, <1>2, <1>3, <1>4, <1>5, <1>6, <1>7, <1>8 DEF Next

(* One caller has the directory at a time, beliefs are those of the run, and  *)
(* the verdict is what the facts deserve, for any callers and caps.           *)
THEOREM Invariance == Spec => []GateInv
<1>1. Init => GateInv  BY InitInv
<1>2. GateInv /\ [Next]_gateVars => GateInv'  BY NextInv
<1>3. QED  BY <1>1, <1>2, PTL DEF Spec

(* The reviewed command is started at most once in an evidence directory,     *)
(* whoever retries, dies, or finds it altered (execute behind                 *)
(* prepare_attempt).                                                          *)
THEOREM LaunchedOnce == Spec => []OneLaunch
<1>1. GateInv => OneLaunch  BY DEF GateInv, Launches, OneLaunch
<1>2. QED  BY Invariance, <1>1, PTL

\* The shapes TypeOK asks for are the types of the invariant.
LEMMA TypesImplied == GateInv => TypeOK
BY DEF GateInv, Types, FilesOK, CallersOK, WorldOK, TypeOK

\* An answer "success" is that of a run of the reviewed command and tool, with
\* its whole output in the files as they are now.
LEMMA SuccessImplied == GateInv => SuccessIsTrue
<1> SUFFICES ASSUME GateInv, Audit = Answered("complete", "success")
             PROVE  /\ launched = 1 /\ exited = [code |-> "ok", faults |-> {}]
                    /\ \A s \in Stream : file[s] = RawFile(emitted[s])
                    /\ ~toolBad
  BY DEF SuccessIsTrue
<1> PICK v : v = file["verdict"]  OBVIOUS
<1>1. WholeAttempt /\ WholeVerdict /\ VerdictHolds(v) /\ v.status = "success"
  BY DEF Audit, Answered, Incomplete
<1>2. Written(v)  BY <1>1 DEF WholeVerdict, GateInv, Judged
<1>3. v.class = "success"  BY <1>1, <1>2 DEF Written
<1>4. Classify(v.child) = "success"  BY <1>2, <1>3 DEF Written
<1>5. v.child \in Outcomes(Cap)  BY <1>2 DEF Written
<1>6. v.child.faults = {} /\ ~v.child.output /\ v.child.exit = "ok"
  BY <1>4, <1>5, ClassifyMeans
<1>7. /\ launched = 1 /\ exited = [code |-> "ok", faults |-> {}]
      /\ \A s \in Stream : v.child.streams[s].seen = emitted[s]
  BY <1>2, <1>6 DEF Written, Truth
<1>8. file["attempt"] = v.attempt  BY <1>1 DEF VerdictHolds
<1>9. ~toolBad  BY <1>2, <1>6, <1>8 DEF Written
<1>10. ASSUME NEW s \in Stream PROVE file[s] = RawFile(emitted[s])
  <2>1. /\ file[s].is = "raw" /\ file[s].size = v.child.streams[s].captured
        /\ Digest(s) = v.child.streams[s].sha
    BY <1>1 DEF VerdictHolds
  <2>2. file[s].altered = FALSE
    <3>1. file[s] \in [is : {"raw"}, size : 0..Cap, altered : BOOLEAN]
      BY <2>1 DEF GateInv, Types, FilesOK, Absent
    <3>2. Digest(s).altered = file[s].altered  BY DEF Digest
    <3>3. ~v.child.streams[s].sha.altered  BY <1>2 DEF Written
    <3>4. QED  BY <2>1, <3>1, <3>2, <3>3
  <2>3. ~v.child.streams[s].truncated
    BY <1>1, <1>6 DEF VerdictHolds
  <2>4. v.child.streams[s].seen = v.child.streams[s].captured
    BY <1>2, <2>3 DEF Written, ValidOutcome, ValidStream
  <2>5. file[s] \in [is : {"raw"}, size : 0..Cap, altered : BOOLEAN]
    BY <2>1 DEF GateInv, Types, FilesOK, Absent
  <2>6. QED  BY <1>7, <2>1, <2>2, <2>4, <2>5 DEF RawFile
<1>11. QED  BY <1>7, <1>9, <1>10

\* The auditor accepts what the writer wrote.
LEMMA VerdictImplied == GateInv => VerdictAudits
<1> SUFFICES ASSUME GateInv, file["verdict"].is = "verdict", damage = 0, ~late,
                    file["stray"] = Absent
             PROVE  Audit = Answered("complete", file["verdict"].status)
  BY DEF VerdictAudits
<1> PICK v : v = file["verdict"]  OBVIOUS
<1>1. Written(v)  BY DEF GateInv, Judged
<1>2. file["attempt"] = v.attempt /\ v.attempt = Attempt(v.id)  BY <1>1 DEF Written
<1>3. Consumed /\ WholeAttempt /\ file["attempt"].id = v.id
  BY <1>2 DEF Consumed, WholeAttempt, Attempt, Absent
<1>4. WholeVerdict  BY <1>1 DEF WholeVerdict, Written, ValidOutcome
<1>5. Classify(v.child) # "schema_error"  BY <1>1, ClassifyMeans DEF Written
<1>6. VerdictHolds(v)
  <2>1. (CASE v.class = "schema_error" ->
                Classify(v.child) = "success" /\ v.stage = "result-schema"
          [] v.class = "success" /\ v.stage = "result-schema" ->
                Classify(v.child) = "success"
          [] OTHER -> v.class = Classify(v.child) /\ v.stage = "child")
    <3>1. \/ v.class = Classify(v.child) /\ v.stage = "child"
          \/ /\ Classify(v.child) = "success" /\ v.stage = "result-schema"
             /\ v.class \in {"success", "schema_error"}
      BY <1>1 DEF Written
    <3>2. CASE v.class = "schema_error"  BY <3>1, <3>2, <1>5
    <3>3. CASE v.class = "success" /\ v.stage = "result-schema"
      BY <3>1, <3>3
    <3>4. CASE v.class # "schema_error" /\ ~(v.class = "success" /\ v.stage = "result-schema")
      BY <3>1, <3>4
    <3>5. QED  BY <3>2, <3>3, <3>4
  <2>2. v.child.output = (\E s \in Stream : v.child.streams[s].truncated)
    BY <1>1 DEF Written, ValidOutcome
  <2>3. QED  BY <1>1, <1>2, <1>3, <2>1, <2>2 DEF VerdictHolds, Written
<1>7. QED  BY <1>3, <1>4, <1>6 DEF Audit

(* An audit answers success only about a run that did succeed, whatever       *)
(* happened to the files since; and it accepts every verdict of execute in a  *)
(* directory nobody touched (audit_attempt against execute).                  *)
THEOREM AuditTellsTheTruth == Spec => []AuditIsTrue
<1>1. GateInv => AuditIsTrue
  BY TypesImplied, SuccessImplied, VerdictImplied DEF AuditIsTrue
<1>2. QED  BY Invariance, <1>1, PTL

-----------------------------------------------------------------------------
(* The promise of OneShotSpec.                                                *)

\* A directory whose attempt lost its process has nobody who would go on.
LEMMA OrphanStep ==
  ASSUME GateInv, Orphaned, [Next]_gateVars PROVE Orphaned'
<1>1. CASE UNCHANGED gateVars
  BY <1>1 DEF gateVars, Orphaned, Consumed, Owned
<1>2. \A q \in Caller : pc[q] \in Over \cup {"start", "checked"}
  BY DEF Orphaned, Owned
<1>3. ASSUME file'["attempt"] = file["attempt"], file'["verdict"] = file["verdict"],
             \A q \in Caller : pc'[q] = pc[q] \/ pc'[q] \in Over \cup {"checked"}
      PROVE  Orphaned'
  BY <1>2, <1>3 DEF Orphaned, Consumed, Owned
<1>4. ASSUME NEW p \in Caller, CallerStep(p) PROVE Orphaned'
  <2>1. Validate(p) \/ CreateAttempt(p)
    BY <1>2, <1>4, Places
    DEF Over, CallerStep, WriteAttempt, Execute, OpenRaw, Launch, LaunchFails,
        AdapterReturns, AdapterRaises, BeginFallback, TakeSize, TakeHash, CheckOutcome,
        CheckTool, CreateVerdict, WriteVerdict, Stream
  <2>2. ~CanCreate("attempt")  BY DEF Orphaned, Consumed, CanCreate
  <2>3. file' = file /\ \E l \in Over \cup {"checked"} : pc' = [pc EXCEPT ![p] = l]
    BY <2>1, <2>2 DEF Validate, CreateAttempt, Goto, Over
  <2>4. QED  BY <2>3, <1>3 DEF GateInv, Types, CallersOK
<1>5. ASSUME NEW p \in Caller, Die(p) PROVE Orphaned'
  BY <1>3, <1>5 DEF Die, Goto, Over, GateInv, Types, CallersOK
<1>6. ASSUME NEW p \in Caller, ReadersEnd(p) PROVE Orphaned'
  BY <1>3, <1>6 DEF ReadersEnd
<1>7. ASSUME NEW p \in Caller, NEW s \in Stream, Emit(p, s) PROVE Orphaned'
  BY <1>3, <1>7, NamesApart DEF Emit, GateInv, Types, FilesOK
<1>8. ~ReplaceTool  BY <1>2 DEF ReplaceTool, Over
<1>9. ~LeaveFile  BY <1>2 DEF LeaveFile, Over
<1>10. \A f \in Complete : ~Damage(f)  BY DEF Damage, Orphaned
<1>11. QED  BY <1>1, <1>4, <1>5, <1>6, <1>7, <1>8, <1>9, <1>10 DEF Next

\* The answer and the run only change with the marker, the verdict and the count
\* of launches.
LEMMA Stutter ==
  ASSUME file'["attempt"] = file["attempt"], file'["verdict"] = file["verdict"],
         launched' = launched
  PROVE  UNCHANGED Promise!vars
BY DEF Promise!vars, Consumed

\* Every step of the gate is a step of the promise, or none, unless it is an
\* alteration from outside.
LEMMA PromiseStep ==
  ASSUME GateInv, [Next]_gateVars
  PROVE  [damage' = 0 => Promise!Next]_(Promise!vars)
<1> SUFFICES ASSUME damage' = 0 PROVE Promise!Next \/ UNCHANGED Promise!vars  OBVIOUS
<1>1. CASE UNCHANGED gateVars  BY <1>1, Stutter DEF gateVars
<1>2. ASSUME NEW p \in Caller, CallerStep(p)
      PROVE  Promise!Next \/ UNCHANGED Promise!vars
  <2>1. damage = 0
    BY <1>2
    DEF CallerStep, Validate, CreateAttempt, WriteAttempt, Execute, OpenRaw, Launch,
        LaunchFails, AdapterReturns, AdapterRaises, BeginFallback, TakeSize, TakeHash,
        CheckOutcome, CheckTool, CreateVerdict, WriteVerdict
  <2>2. CASE CreateAttempt(p) /\ CanCreate("attempt")
    <3>1. ~Consumed  BY <2>2 DEF CanCreate, Consumed
    <3>2. ~Decided  BY <2>1, <3>1, ClaimedLate
    <3>3. file["verdict"] = Absent  BY <3>1, <3>2 DEF GateInv, Undecided, Untouched
    <3>4. file' = [file EXCEPT !["attempt"] = Torn] /\ launched' = launched
      BY <2>2 DEF CreateAttempt
    <3>5. file'["attempt"] = Torn /\ file'["verdict"] = file["verdict"]
      BY <3>4, NamesApart DEF GateInv, Types, FilesOK
    <3>6. Consumed'  BY <3>5 DEF Consumed, Torn, Absent
    <3>7. Promise!Consume
      BY <3>1, <3>3, <3>4, <3>5, <3>6 DEF Promise!Consume, Absent
    <3>8. QED  BY <3>7 DEF Promise!Next
  <2>3. CASE Launch(p)
    <3>1. pc[p] = "opened" /\ launched' = launched + 1 /\ file' = file
      BY <2>3 DEF Launch
    <3>2. ~Decided /\ Consumed /\ Place(p, "opened")  BY <3>1, WorkState DEF Working
    <3>3. launched = 0 /\ file["verdict"].is # "verdict"
      BY <3>2 DEF Place, Decided
    <3>4. Promise!Start  BY <3>1, <3>2, <3>3 DEF Promise!Start, Consumed
    <3>5. QED  BY <3>4 DEF Promise!Next
  <2>4. CASE WriteVerdict(p) /\ file' # file
    <3>1. pc[p] = "judging" /\ launched' = launched /\ damage' = damage
      BY <2>4 DEF WriteVerdict
    <3>2. ~Decided /\ Consumed  BY <3>1, WorkState DEF Working
    <3>3. PICK w : file' = [file EXCEPT !["verdict"] = w] /\ w.is = "verdict"
      <4>1. PICK class, stage : file' = [file EXCEPT !["verdict"] = Verdict(p, class, stage)]
        BY <2>4 DEF WriteVerdict
      <4>2. PICK w : w = Verdict(p, class, stage)  OBVIOUS
      <4>3. w.is = "verdict"  BY <4>2 DEF Verdict
      <4>4. QED  BY <4>1, <4>2, <4>3
    <3>4. file'["verdict"] = w /\ file'["attempt"] = file["attempt"]
      BY <3>3, NamesApart DEF GateInv, Types, FilesOK
    <3>5. GateInv'  BY <2>4, WriteVerdictInv
    <3>6. Written(w)'  BY <3>3, <3>4, <3>5 DEF GateInv, Judged
    <3>7. w.status \in {"success", "failure"} /\ (w.status = "success" => w.class = "success")
      BY <3>6 DEF Written
    <3>8. w.class = "success" => launched > 0
      <4>1. w.class = "success" => Classify(w.child) = "success"  BY <3>6 DEF Written
      <4>2. Classify(w.child) = "success" => w.child.faults = {}
        BY <3>6, ClassifyMeans DEF Written
      <4>3. w.child.faults = {} => launched' = 1  BY <3>6 DEF Written, Truth
      <4>4. QED  BY <3>1, <4>1, <4>2, <4>3
    <3>9. Promise!Answer
      BY <3>1, <3>2, <3>3, <3>4, <3>7, <3>8 DEF Promise!Answer, Decided
    <3>10. QED  BY <3>9 DEF Promise!Next
  <2>5. CASE CreateVerdict(p) /\ CanCreate("verdict")
    <3>1. pc[p] = "classified" /\ file' = [file EXCEPT !["verdict"] = Torn]
          /\ launched' = launched
      BY <2>5 DEF CreateVerdict
    <3>2. ~Decided /\ Consumed  BY <3>1, WorkState DEF Working
    <3>3. file'["attempt"] = file["attempt"] /\ file'["verdict"] = Torn
      BY <3>1, NamesApart DEF GateInv, Types, FilesOK
    <3>4. QED  BY <3>1, <3>2, <3>3 DEF Promise!vars, Consumed, Decided, Torn
  <2>6. CASE WriteAttempt(p)
    <3>1. pc[p] = "marking" /\ launched' = launched  BY <2>6 DEF WriteAttempt
    <3>2. ~Decided  BY <2>1, <3>1, ClaimedLate DEF Claiming
    <3>3. Consumed
      BY <3>1, <3>2 DEF GateInv, Undecided, Busy, Claiming
    <3>4. file' = file \/ file' = [file EXCEPT !["attempt"] = Attempt(p)]
      BY <2>6 DEF WriteAttempt
    <3>5. /\ file'["verdict"] = file["verdict"]
          /\ file'["attempt"] \in {file["attempt"], Attempt(p)}
      BY <3>4, NamesApart DEF GateInv, Types, FilesOK
    <3>6. Consumed'  BY <3>3, <3>5 DEF Consumed, Attempt, Absent
    <3>7. QED  BY <3>1, <3>3, <3>5, <3>6 DEF Promise!vars
  <2>7. CASE \/ Validate(p) \/ Execute(p) \/ LaunchFails(p) \/ AdapterReturns(p)
             \/ AdapterRaises(p) \/ BeginFallback(p)
             \/ \E s \in Stream : TakeHash(p, s)
             \/ CheckOutcome(p) \/ CheckTool(p)
             \/ CreateAttempt(p) /\ ~CanCreate("attempt")
             \/ CreateVerdict(p) /\ ~CanCreate("verdict")
             \/ WriteVerdict(p) /\ file' = file
    <3>1. file' = file /\ launched' = launched
      BY <2>7
      DEF Validate, CreateAttempt, Execute, LaunchFails, AdapterReturns, AdapterRaises,
          BeginFallback, TakeHash, CheckOutcome, CheckTool, CreateVerdict, WriteVerdict
    <3>2. QED  BY <3>1, Stutter
  <2>8. CASE OpenRaw(p)
    <3>1. PICK opened \in {{}, {"stdout"}, Stream} :
            file' = [f \in Names |-> IF f \in opened THEN RawFile(0) ELSE file[f]]
      BY <2>8 DEF OpenRaw
    <3>2. opened \subseteq Stream  BY DEF Stream
    <3>3. file'["attempt"] = file["attempt"] /\ file'["verdict"] = file["verdict"]
      BY <3>1, <3>2, NamesApart
    <3>4. QED  BY <2>8, <3>3, Stutter DEF OpenRaw
  <2>9. ASSUME NEW s \in Stream, TakeSize(p, s) PROVE UNCHANGED Promise!vars
    <3>1. file' = file \/ file' = [file EXCEPT ![s] = RawFile(0)]
      BY <2>9 DEF TakeSize
    <3>2. file'["attempt"] = file["attempt"] /\ file'["verdict"] = file["verdict"]
      BY <3>1, NamesApart DEF GateInv, Types, FilesOK
    <3>3. QED  BY <2>9, <3>2, Stutter DEF TakeSize
  <2>10. QED
    <3>1. CASE \E s \in Stream : TakeSize(p, s) \/ TakeHash(p, s)  BY <3>1, <2>7, <2>9
    <3>2. CASE CreateAttempt(p)  BY <3>2, <2>2, <2>7
    <3>3. CASE CreateVerdict(p)  BY <3>3, <2>5, <2>7
    <3>4. CASE WriteVerdict(p)  BY <3>4, <2>4, <2>7
    <3>5. CASE \/ Validate(p) \/ Execute(p) \/ LaunchFails(p) \/ AdapterReturns(p)
               \/ AdapterRaises(p) \/ BeginFallback(p) \/ CheckOutcome(p) \/ CheckTool(p)
      BY <3>5, <2>7
    <3>6. CASE OpenRaw(p) \/ Launch(p) \/ WriteAttempt(p)  BY <3>6, <2>3, <2>6, <2>8
    <3>7. QED
      BY <1>2, <3>1, <3>2, <3>3, <3>4, <3>5, <3>6, Zenon DEF CallerStep
<1>3. ASSUME NEW p \in Caller, Die(p) PROVE UNCHANGED Promise!vars
  BY <1>3, Stutter DEF Die
<1>4. ASSUME NEW p \in Caller, ReadersEnd(p) PROVE UNCHANGED Promise!vars
  BY <1>4, Stutter DEF ReadersEnd
<1>5. ASSUME NEW p \in Caller, NEW s \in Stream, Emit(p, s) PROVE UNCHANGED Promise!vars
  <2>1. file'["attempt"] = file["attempt"] /\ file'["verdict"] = file["verdict"]
    BY <1>5, NamesApart DEF Emit, GateInv, Types, FilesOK
  <2>2. QED  BY <1>5, <2>1, Stutter DEF Emit
<1>6. CASE ReplaceTool  BY <1>6, Stutter DEF ReplaceTool
<1>7. CASE LeaveFile
  <2>1. file'["attempt"] = file["attempt"] /\ file'["verdict"] = file["verdict"]
    BY <1>7, NamesApart DEF LeaveFile, GateInv, Types, FilesOK
  <2>2. QED  BY <1>7, <2>1, Stutter DEF LeaveFile
<1>8. \A f \in Complete : ~Damage(f)
  BY GateAssumption DEF Damage, GateInv, Types, WorldOK
<1>9. QED  BY <1>1, <1>2, <1>3, <1>4, <1>5, <1>6, <1>7, <1>8 DEF Next

\* A new directory is unused.
LEMMA PromiseInit == Init => Promise!Init
<1> SUFFICES ASSUME Init PROVE Promise!Init  OBVIOUS
<1>1. file["attempt"] = Absent /\ file["verdict"] = Absent /\ launched = 0
  BY NamesApart DEF Init
<1>2. QED  BY <1>1 DEF Promise!Init, Consumed, Absent

(* The gate implements OneShotSpec: a directory is consumed once, started at  *)
(* most once after that, answered at most once, with success only after a     *)
(* run, and never adopted when its attempt lost its process.                  *)
THEOREM KeepsThePromise == Spec => PromiseKept
<1>1. Init => Promise!Init  BY PromiseInit
<1>2. GateInv /\ [Next]_gateVars => [damage' = 0 => Promise!Next]_(Promise!vars)
  BY PromiseStep
<1>3. GateInv /\ [Next]_gateVars => [Orphaned => Orphaned']_gateVars
  BY OrphanStep
<1>4. QED  BY <1>1, <1>2, <1>3, Invariance, PTL DEF Spec, PromiseKept, NoAdoption

-----------------------------------------------------------------------------
(* An archive made at any time, beside any number of callers.               *)

\* While nobody alters the directory from outside, a verdict that was begun stays
\* begun, one that is whole stays as it is, and no file is added beside it.
LEMMA VerdictStays ==
  ASSUME GateInv, file["verdict"] # Absent, [Next]_gateVars, damage = 0, damage' = 0
  PROVE  /\ file'["verdict"] # Absent /\ file'["stray"] = file["stray"]
         /\ file["verdict"].is = "verdict" => file'["verdict"] = file["verdict"]
<1> DEFINE Same == /\ file'["verdict"] # Absent /\ file'["stray"] = file["stray"]
                   /\ file["verdict"].is = "verdict" => file'["verdict"] = file["verdict"]
<1>1. \A p \in Caller : pc[p] \in Working => pc[p] = "judging"
  <2>1. CASE Decided  BY <2>1 DEF GateInv, Alone
  <2>2. CASE ~Decided
    <3>1. CASE ~Consumed  BY <2>2, <3>1 DEF GateInv, Undecided, Untouched
    <3>2. CASE Consumed  BY <2>2, <3>2 DEF GateInv, Undecided, Place
    <3>3. QED  BY <3>1, <3>2
  <2>3. QED  BY <2>1, <2>2
<1>v. \A p \in Caller : pc[p] = "judging" => file["verdict"].is # "verdict"
  BY DEF GateInv, Alone, Decided, Working
<1>2. damage \in Nat  BY GateAssumption DEF GateInv, Types, WorldOK
<1>3. \A f \in Complete : ~Damage(f)  BY <1>2 DEF Damage
<1>4. ~LeaveFile  BY <1>1 DEF LeaveFile, Working
<1>5. DOMAIN file = Names  BY DEF GateInv, Types, FilesOK
<1>6. ASSUME NEW p \in Caller, CallerStep(p) PROVE Same
  <2>w. pc[p] \in Working => pc[p] = "judging"  BY <1>1
  <2>s. \A s \in Stream : ~TakeSize(p, s) /\ ~TakeHash(p, s)
    <3>1. \A s \in Stream : /\ Sizing[s] \in Working /\ Hashing[s] \in Working
                           /\ Sizing[s] # "judging" /\ Hashing[s] # "judging"
      BY Places DEF Working, Stream
    <3>2. QED  BY <2>w, <3>1 DEF TakeSize, TakeHash
  <2>a. ~OpenRaw(p) /\ ~Launch(p) /\ ~LaunchFails(p) /\ ~AdapterReturns(p)
        /\ ~AdapterRaises(p) /\ ~BeginFallback(p)
    BY <2>w DEF Working, OpenRaw, Launch, LaunchFails, AdapterReturns, AdapterRaises,
              BeginFallback
  <2>c. ~CheckOutcome(p) /\ ~CheckTool(p) /\ ~CreateVerdict(p)
    BY <2>w DEF Working, CheckOutcome, CheckTool, CreateVerdict
  <2>1. \/ Validate(p) \/ CreateAttempt(p) \/ WriteAttempt(p) \/ Execute(p)
        \/ WriteVerdict(p)
    BY <1>6, <2>s, <2>a, <2>c, Zenon DEF CallerStep
  <2>2. CASE Validate(p) \/ CreateAttempt(p) \/ WriteAttempt(p) \/ Execute(p)
    <3>1. \/ file' = file
          \/ file' = [file EXCEPT !["attempt"] = Torn]
          \/ file' = [file EXCEPT !["attempt"] = Attempt(p)]
      BY <2>2 DEF Validate, CreateAttempt, WriteAttempt, Execute
    <3>2. QED  BY <1>5, <3>1, NamesApart
  <2>3. CASE WriteVerdict(p)
    <3>1. file["verdict"].is # "verdict"  BY <1>v, <2>3 DEF WriteVerdict
    <3>2. PICK class, stage : \/ file' = [file EXCEPT !["verdict"] = Verdict(p, class, stage)]
                              \/ file' = file
      BY <2>3, Zenon DEF WriteVerdict
    <3>3. Verdict(p, class, stage) # Absent  BY DEF Verdict, Absent
    <3>4. QED  BY <1>5, <3>1, <3>2, <3>3, NamesApart
  <2>4. QED  BY <2>1, <2>2, <2>3
<1>7. ASSUME NEW p \in Caller, NEW s \in Stream, Emit(p, s) PROVE Same
  BY <1>5, <1>7, NamesApart DEF Emit
<1>8. ASSUME NEW p \in Caller, Die(p) \/ ReadersEnd(p) PROVE Same
  BY <1>8 DEF Die, ReadersEnd
<1>9. CASE ReplaceTool  BY <1>9 DEF ReplaceTool
<1>10. CASE UNCHANGED gateVars  BY <1>10 DEF gateVars
<1>11. QED  BY <1>3, <1>4, <1>6, <1>7, <1>8, <1>9, <1>10 DEF Next

\* Alterations from outside are counted and never forgotten.
LEMMA DamageGrows == ASSUME GateInv, Next, damage' = 0 PROVE damage = 0
<1>1. damage \in Nat  BY GateAssumption DEF GateInv, Types, WorldOK
<1>2. \A f \in Complete : ~Damage(f)  BY <1>1 DEF Damage
<1>3. ASSUME NEW p \in Caller, CallerStep(p) PROVE damage' = damage
  BY <1>3
  DEF CallerStep, Validate, CreateAttempt, WriteAttempt, Execute, OpenRaw, Launch,
      LaunchFails, AdapterReturns, AdapterRaises, BeginFallback, TakeSize, TakeHash,
      CheckOutcome, CheckTool, CreateVerdict, WriteVerdict
<1>4. QED
  BY <1>2, <1>3 DEF Next, Die, ReadersEnd, Emit, ReplaceTool, LeaveFile

\* When the verdict was listed, it is still there, and a file that does not
\* belong was listed with it or never comes; a whole verdict that was read is
\* still the directory's; and a finished archive is what was listed and read.
NamedTogether ==
    damage = 0 /\ "verdict" \in listed =>
        file["verdict"] # Absent /\ ("stray" \in listed \/ file["stray"] = Absent)
ReadVerdict ==
    damage = 0 /\ "verdict" \in DOMAIN manifest
    /\ manifest["verdict"].data.is = "verdict"
    => file["verdict"] = manifest["verdict"].data
Taken ==
    /\ DOMAIN manifest \subseteq listed
    /\ "stray" \in DOMAIN manifest => manifest["stray"].data # Absent
    /\ archiver = "created" =>
           /\ DOMAIN tar = listed /\ listed \subseteq DOMAIN manifest
           /\ \A f \in listed : tar[f] = manifest[f].data
    /\ archiver = "adding" => listed \subseteq DOMAIN manifest
    /\ archiver = "idle" => DOMAIN manifest = {}
ArchiveInv == GateInv /\ NamedTogether /\ ReadVerdict /\ Taken

\* What an entry of the manifest says.
LEMMA EntryMeans == \A n, d : [size |-> n, data |-> d].data = d
OBVIOUS

\* A step of the gate beside the archive keeps this.
LEMMA GateBesideArchive ==
  ASSUME ArchiveInv, UNCHANGED archiveVars, [Next]_gateVars PROVE ArchiveInv'
<1>1. GateInv'  BY NextInv DEF ArchiveInv
<1>2. UNCHANGED <<archiver, listed, manifest, tar>>  BY DEF archiveVars
<1>3. damage' = 0 => damage = 0
  <2>1. CASE UNCHANGED gateVars  BY <2>1 DEF gateVars
  <2>2. CASE Next  BY <2>2, DamageGrows DEF ArchiveInv
  <2>3. QED  BY <2>1, <2>2
<1>4. NamedTogether'
  <2> SUFFICES ASSUME damage' = 0, "verdict" \in listed
               PROVE  /\ file'["verdict"] # Absent
                      /\ "stray" \in listed \/ file'["stray"] = Absent
    BY <1>2 DEF NamedTogether
  <2>1. damage = 0  BY <1>3
  <2>2. file["verdict"] # Absent /\ ("stray" \in listed \/ file["stray"] = Absent)
    BY <2>1 DEF ArchiveInv, NamedTogether
  <2>3. QED  BY <2>1, <2>2, VerdictStays DEF ArchiveInv
<1>5. ReadVerdict'
  <2> SUFFICES ASSUME damage' = 0, "verdict" \in DOMAIN manifest,
                      manifest["verdict"].data.is = "verdict"
               PROVE  file'["verdict"] = manifest["verdict"].data
    BY <1>2 DEF ReadVerdict
  <2>1. damage = 0  BY <1>3
  <2>2. "verdict" \in listed /\ file["verdict"] = manifest["verdict"].data
    BY <2>1 DEF ArchiveInv, ReadVerdict, Taken
  <2>3. file["verdict"] # Absent /\ file["verdict"].is = "verdict"
    BY <2>1, <2>2 DEF ArchiveInv, NamedTogether
  <2>4. QED  BY <2>1, <2>2, <2>3, VerdictStays DEF ArchiveInv
<1>6. Taken'  BY <1>2 DEF ArchiveInv, Taken
<1>7. QED  BY <1>1, <1>4, <1>5, <1>6 DEF ArchiveInv

\* Steps of the archiver and of the gate keep this.
LEMMA ArchiveKeeps ==
  ASSUME ArchiveInv, [ArchiveNext]_<<gateVars, archiveVars>> PROVE ArchiveInv'
<1>1. ASSUME UNCHANGED gateVars, ArchiveStep PROVE ArchiveInv'
  <2>1. file' = file /\ damage' = damage  BY <1>1 DEF gateVars
  <2>2. GateInv'  BY <1>1, NextInv DEF ArchiveInv
  <2>3. CASE ListNames
    <3>1. /\ listed' = {f \in Names : file[f] # Absent} /\ archiver' = "recording"
          /\ manifest' = manifest /\ DOMAIN manifest = {}
      BY <2>3 DEF ListNames, ArchiveInv, Taken
    <3>2. "stray" \in Names /\ "verdict" \in Names  BY DEF Names, Complete
    <3>3. NamedTogether'  BY <2>1, <3>1, <3>2 DEF NamedTogether
    <3>4. ReadVerdict' /\ Taken'  BY <3>1 DEF ReadVerdict, Taken
    <3>5. QED  BY <2>2, <3>3, <3>4 DEF ArchiveInv
  <2>4. CASE OpenTar
    <3>1. /\ listed' = listed /\ manifest' = manifest /\ listed \subseteq DOMAIN manifest
          /\ archiver' \in {"adding", "failed"}
      BY <2>4 DEF OpenTar, Hashed
    <3>2. QED
      BY <2>1, <2>2, <3>1 DEF ArchiveInv, NamedTogether, ReadVerdict, Taken
  <2>5. CASE Verify
    <3>1. /\ listed' = listed /\ manifest' = manifest /\ tar' = tar
          /\ listed \subseteq DOMAIN manifest /\ DOMAIN tar = listed
          /\ \/ archiver' = "failed"
             \/ /\ archiver' = "created"
                /\ \A f \in listed : tar[f] = manifest[f].data
      BY <2>5 DEF Verify, ArchiveInv, Taken
    <3>2. QED
      BY <2>1, <2>2, <3>1 DEF ArchiveInv, NamedTogether, ReadVerdict, Taken
  <2>6. ASSUME NEW f \in Names, RecordSize(f) PROVE ArchiveInv'
    <3>1. /\ archiver = "recording" /\ archiver' \in {"recording", "failed"}
          /\ listed' = listed /\ f \in listed
          /\ \/ manifest' = manifest
             \/ \E n : manifest' = With(manifest, f, [size |-> n, data |-> Unread])
      BY <2>6 DEF RecordSize, NextOf
    <3>2. CASE manifest' = manifest
      BY <2>1, <2>2, <3>1, <3>2 DEF ArchiveInv, NamedTogether, ReadVerdict, Taken
    <3>3. ASSUME NEW n, manifest' = With(manifest, f, [size |-> n, data |-> Unread])
          PROVE  ArchiveInv'
      <4>1. Unread # Absent /\ Unread.is # "verdict"  BY DEF Unread, Absent
      <4>2. ASSUME NEW g \in DOMAIN manifest'
            PROVE  \/ g = f /\ manifest'[g].data = Unread
                   \/ g \in DOMAIN manifest /\ manifest'[g] = manifest[g]
        <5>1. PICK e : e = [size |-> n, data |-> Unread]  OBVIOUS
        <5>2. e.data = Unread  BY <5>1, EntryMeans
        <5>3. manifest' = [h \in DOMAIN manifest \cup {f} |->
                             IF h = f THEN e ELSE manifest[h]]
          BY <3>3, <5>1 DEF With
        <5>4. QED  BY <5>2, <5>3
      <4>3. NamedTogether'  BY <2>1, <3>1 DEF ArchiveInv, NamedTogether
      <4>4. ReadVerdict'  BY <2>1, <3>1, <4>1, <4>2 DEF ArchiveInv, ReadVerdict
      <4>5. Taken'  BY <3>1, <4>1, <4>2 DEF ArchiveInv, Taken
      <4>6. QED  BY <2>2, <4>3, <4>4, <4>5 DEF ArchiveInv
    <3>4. QED  BY <3>1, <3>2, <3>3
  <2>7. ASSUME NEW f \in Names, RecordDigest(f) PROVE ArchiveInv'
    <3>1. /\ archiver = "recording" /\ archiver' \in {"recording", "failed"}
          /\ listed' = listed /\ f \in DOMAIN manifest
          /\ \/ manifest' = manifest
             \/ /\ file[f] # Absent
                /\ \E n : manifest' = With(manifest, f, [size |-> n, data |-> file[f]])
      BY <2>7 DEF RecordDigest
    <3>2. CASE manifest' = manifest
      BY <2>1, <2>2, <3>1, <3>2 DEF ArchiveInv, NamedTogether, ReadVerdict, Taken
    <3>3. ASSUME NEW n, file[f] # Absent,
                 manifest' = With(manifest, f, [size |-> n, data |-> file[f]])
          PROVE  ArchiveInv'
      <4>e. PICK e : e = [size |-> n, data |-> file[f]]  OBVIOUS
      <4>a. e.data = file[f]  BY <4>e, EntryMeans
      <4>b. manifest' = [h \in DOMAIN manifest \cup {f} |-> IF h = f THEN e ELSE manifest[h]]
        BY <3>3, <4>e DEF With
      <4>1. /\ DOMAIN manifest' = DOMAIN manifest
            /\ \A g \in DOMAIN manifest : g # f => manifest'[g] = manifest[g]
        BY <3>1, <4>b
      <4>2. manifest'[f].data = file[f]
        <5>1. manifest'[f] = e  BY <4>b
        <5>2. QED  BY <4>a, <5>1
      <4>3. NamedTogether'  BY <2>1, <3>1 DEF ArchiveInv, NamedTogether
      <4>4. ReadVerdict'
        BY <2>1, <3>1, <4>1, <4>2 DEF ArchiveInv, ReadVerdict
      <4>5. Taken'  BY <3>1, <3>3, <4>1, <4>2 DEF ArchiveInv, Taken
      <4>6. QED  BY <2>2, <4>3, <4>4, <4>5 DEF ArchiveInv
    <3>4. QED  BY <3>1, <3>2, <3>3
  <2>8. ASSUME NEW f \in Names, Add(f) PROVE ArchiveInv'
    <3>1. /\ archiver = "adding" /\ archiver' \in {"adding", "failed"}
          /\ listed' = listed /\ manifest' = manifest
      BY <2>8 DEF Add
    <3>2. QED
      BY <2>1, <2>2, <3>1 DEF ArchiveInv, NamedTogether, ReadVerdict, Taken
  <2>9. QED  BY <1>1, <2>3, <2>4, <2>5, <2>6, <2>7, <2>8 DEF ArchiveStep
<1>2. ASSUME UNCHANGED archiveVars, [Next]_gateVars PROVE ArchiveInv'
  BY <1>2, GateBesideArchive
<1>3. CASE UNCHANGED <<gateVars, archiveVars>>  BY <1>2, <1>3
<1>4. QED  BY <1>1, <1>2, <1>3 DEF ArchiveNext

\* What the unpacked archive answers is what its files say.
LEMMA UnpackedMeans ==
  ASSUME Unpacked!Audit.state = "complete"
  PROVE  /\ "verdict" \in DOMAIN tar /\ tar["verdict"].is = "verdict"
         /\ "stray" \in DOMAIN tar => tar["stray"] = Absent
         /\ Unpacked!Audit = Answered("complete", tar["verdict"].status)
<1> DEFINE un == [n \in Names |-> IF n \in DOMAIN tar THEN tar[n] ELSE Absent]
<1>1. Unpacked!WholeVerdict /\ Unpacked!VerdictHolds(un["verdict"])
      /\ Unpacked!Audit = Unpacked!Answered("complete", un["verdict"].status)
  BY DEF Unpacked!Audit, Unpacked!Incomplete, Unpacked!Answered
<1>2. "verdict" \in Names /\ "stray" \in Names  BY DEF Names, Complete
<1>3. un["verdict"].is = "verdict" /\ un["stray"] = Absent
  BY <1>1 DEF Unpacked!WholeVerdict, Unpacked!VerdictHolds, Unpacked!Absent, Absent
<1>4. "verdict" \in DOMAIN tar  BY <1>2, <1>3 DEF Absent
<1>5. un["verdict"] = tar["verdict"]  BY <1>2, <1>4
<1>6. "stray" \in DOMAIN tar => tar["stray"] = Absent  BY <1>2, <1>3
<1>7. QED  BY <1>1, <1>3, <1>4, <1>5, <1>6 DEF Unpacked!Answered, Answered

(* An archive that was made while callers went on - its names enumerated at   *)
(* one moment, every size, digest and copy read at another - answers what the *)
(* directory answers as soon as it answers at all (create_archive,            *)
(* _archive_inventory and verify_archive against execute).                    *)
THEOREM ArchiveTellsTheTruth == ArchiveSpec => []ArchivedNeverAhead
<1>1. ArchiveInit => ArchiveInv
  <2>1. ArchiveInit => /\ DOMAIN manifest = {} /\ archiver = "idle" /\ listed = {}
    BY DEF ArchiveInit, Nothing
  <2>2. QED
    BY <2>1, InitInv DEF ArchiveInit, ArchiveInv, NamedTogether, ReadVerdict, Taken
<1>2. ArchiveInv /\ [ArchiveNext]_<<gateVars, archiveVars>> => ArchiveInv'
  BY ArchiveKeeps
<1>3. ArchiveInv => ArchivedNeverAhead
  <2> SUFFICES ASSUME ArchiveInv, archiver = "created", damage = 0, ~late,
                      Unpacked!Audit.state = "complete"
               PROVE  Unpacked!Audit = Audit
    BY DEF ArchivedNeverAhead
  <2>1. /\ DOMAIN tar = listed /\ listed \subseteq DOMAIN manifest
        /\ \A f \in listed : tar[f] = manifest[f].data
        /\ "stray" \in DOMAIN manifest => manifest["stray"].data # Absent
    BY DEF ArchiveInv, Taken
  <2>2. /\ "verdict" \in listed /\ tar["verdict"].is = "verdict"
        /\ "stray" \in listed => tar["stray"] = Absent
        /\ Unpacked!Audit = Answered("complete", tar["verdict"].status)
    BY <2>1, UnpackedMeans
  <2>3. file["verdict"] = tar["verdict"]
    BY <2>1, <2>2 DEF ArchiveInv, ReadVerdict
  <2>4. file["stray"] = Absent
    BY <2>1, <2>2 DEF ArchiveInv, NamedTogether
  <2>5. Audit = Answered("complete", file["verdict"].status)
    BY <2>2, <2>3, <2>4, VerdictImplied DEF ArchiveInv, VerdictAudits
  <2>6. QED  BY <2>2, <2>3, <2>5
<1>4. QED  BY <1>1, <1>2, <1>3, PTL DEF ArchiveSpec

-----------------------------------------------------------------------------
(* The outer entry.  Its main thread may be anywhere when the monitor fires,  *)
(* so the invariant says of every step of it what the files, the draft and    *)
(* the record are: a success is drafted only behind an armed run, a verdict   *)
(* is written only with what was recorded, and what changes after a whole     *)
(* verdict is there is the recount of an output that fits its cap.            *)

Inners == {"none", "unused", "consumed", "success", "failure"}
Early  == {"start", "delivered", "marking", "opening"}
Judging == {"summary", "create", "writing", "returned"}
Failed == {"failing", "fail record", "fail create"}

Attempts == {Outer!Absent, Outer!Torn} \cup {Outer!Whole(w) : w \in Outer!Flaws}

\* The shapes of TypeOK, with the sets of steps and sizes written out.
OuterShapes ==
    /\ attempt \in Attempts
    /\ verdict.is \in {"absent", "torn", "verdict"}
    /\ raw \in 0..(OutCap + 2)
    /\ inner \in Inners
    /\ armed \in 0..1 /\ ran \in BOOLEAN
    /\ draft.status \in {"success", "failure"}
    /\ monitor \in {"off", "watching", "fired", "stopped"}
    /\ bound \in {"none", "timeout", "output"} /\ pending \in BOOLEAN
    /\ code \in {"none", "0", "1", "124", "dead"}
OuterSteps ==
    {"start", "delivered", "marking", "opening", "identity", "plan", "compile", "outer-launcher", "chain",
     "authority", "inner", "adapter", "adapted", "answered", "detach", "bound", "summary",
     "create", "writing", "returned", "failing", "fail record", "fail create",
     "fail writing", "over"}

\* Which file is there at which step of the main thread, and what is in it.
OuterFiles ==
    /\ outerPc \in {"start", "delivered"} => attempt = Outer!Absent
    /\ outerPc = "marking" => attempt = Outer!Torn
    /\ outerPc \notin {"start", "delivered", "marking", "over"} => attempt.is = "attempt"
    /\ attempt.is # "attempt" => raw = Outer!NoRaw
    /\ outerPc \in Early => raw = Outer!NoRaw
    /\ outerPc \notin Early \cup {"over"} => raw # Outer!NoRaw
    /\ raw = Outer!NoRaw => inner = "none" /\ ~ran /\ armed = 0 /\ verdict = Outer!Absent
    /\ verdict.is = "absent" => verdict = Outer!Absent
    /\ outerPc \in Early \cup Outer!Stages \cup Outer!InnerTry
             \cup {"detach", "bound", "summary", "create"} => verdict = Outer!Absent
    /\ outerPc \in {"writing", "fail writing"} => verdict = Outer!Torn
    /\ outerPc = "returned" => verdict.is = "verdict"

\* The monitor, its interrupt and its reason; the exit code.
OuterThreads ==
    /\ pending => bound # "none"
    /\ monitor \in {"off", "watching"} => bound = "none"
    /\ outerPc \in Early => monitor = "off"
    /\ code # "none" <=> outerPc = "over"
    /\ code = "0" => verdict.is = "verdict" /\ verdict.status = "success"

\* How far the inner gate is.
InnerAt ==
    /\ outerPc \in Early \cup Outer!Stages \cup {"chain", "authority"} => inner = "none"
    /\ outerPc \in Early \cup Outer!Stages \cup {"chain", "authority", "inner"} =>
           ~ran /\ armed = 0
    /\ outerPc = "inner" => inner = "unused"
    /\ outerPc = "adapter" => inner = "consumed"
    /\ outerPc = "answered" => inner \in {"success", "failure"}
    /\ outerPc # "adapted"
    /\ inner = "success" => ran

\* What is going to be the status: a success only after an armed run that
\* succeeded, and a failure of the inner stage unless a bound was reached.
DraftHolds ==
    /\ draft.status = "success" =>
           /\ draft.class = "success" /\ armed = 1 /\ inner = "success"
           /\ outerPc \notin Early \cup Outer!Stages \cup Outer!InnerTry
    /\ draft.status = "failure" => draft.class # "success"
    /\ /\ outerPc \in {"detach", "bound"} \cup Judging
       /\ draft.status = "failure" /\ bound = "none"
       /\ outerPc \in Judging => ~Outer!Cut
       => draft.class = "inner_failure"
    /\ outerPc \in Judging /\ draft.status = "success" => ~Outer!Cut

\* The failure path has no success to record.
FailureHolds ==
    /\ \/ outerPc \in Failed /\ verdict = Outer!Absent
       \/ outerPc = "fail writing"
       => draft.status = "failure"
    /\ outerPc \in {"fail record", "fail create", "fail writing"} => record.inner = "none"

\* What is going to be recorded of the output and of the inner gate.
RecordHolds ==
    /\ record \in [seen : Nat, size : Nat, inner : Inners]
    /\ outerPc \in {"bound", "fail create", "fail writing"} \cup Judging =>
           record.size = raw /\ raw = Outer!Kept(record.seen)
    /\ outerPc \in {"create", "writing", "returned"} => record.inner = inner

\* What a whole verdict says is so.
VerdictTrue ==
    verdict.is = "verdict" =>
        /\ verdict.status \in {"success", "failure"}
        /\ verdict.rec \in [seen : Nat, size : Nat, inner : Inners]
        /\ raw = verdict.rec.size /\ raw = Outer!Kept(verdict.rec.seen)
        /\ verdict.status = "success" =>
               /\ verdict.class = "success" /\ verdict.armed = 1 /\ armed = 1
               /\ inner = "success" /\ verdict.rec.inner = inner
               /\ verdict.rec.seen <= OutCap
        /\ verdict.status = "failure" => verdict.class # "success"
        /\ record.seen = verdict.rec.seen \/ record.seen <= OutCap
        /\ bound = "none" => /\ outerPc \in {"returned", "over"} /\ record = verdict.rec
                             /\ /\ verdict.rec.seen <= OutCap
                                /\ verdict.rec.inner = "none" => inner = "none"
                                => Outer!InnerAgrees(verdict)
        /\ outerPc = "returned" => verdict.status = draft.status

\* Behind the launcher's check the attempt has no flaw, and no success is written
\* over one that has.
Trust ==
    /\ outerPc \in Outer!InnerTry \cup {"detach", "bound"} \cup Judging
       => Outer!WholeOuterAttempt
    /\ verdict.is = "verdict" /\ verdict.status = "success" => Outer!WholeOuterAttempt

OuterInv == /\ OuterShapes /\ outerPc \in OuterSteps
            /\ OuterFiles /\ OuterThreads /\ InnerAt /\ DraftHolds
            /\ FailureHolds /\ RecordHolds /\ VerdictTrue

\* No output reaches the number that means no file.
LEMMA NoRawMeans == OutCap \in Nat /\ Outer!NoRaw = OutCap + 2
BY OuterAssumption DEF Outer!OutCapAssumption, Outer!NoRaw

\* A failure and its class.
LEMMA FailureMeans ==
  \A c : Outer!Failure(c).status = "failure" /\ Outer!Failure(c).class = c
BY DEF Outer!Failure

\* The states of a file that is no verdict.
LEMMA FilesApart ==
  /\ Outer!Absent # Outer!Torn
  /\ Outer!Absent.is = "absent" /\ Outer!Torn.is = "torn"
  /\ \A w : Outer!Whole(w).is = "attempt" /\ Outer!Whole(w).flaw = w
BY DEF Outer!Absent, Outer!Torn, Outer!Whole

\* Together they say what TypeOK says.
LEMMA ShapesAreTypes == ASSUME OuterShapes, outerPc \in OuterSteps PROVE Outer!TypeOK
<1>1. raw \in 0..(OutCap + 1) \cup {Outer!NoRaw}
  BY OuterAssumption DEF OuterShapes, Outer!NoRaw, Outer!OutCapAssumption
<1>2. outerPc \in Outer!Stages \cup Outer!InnerTry \cup Outer!RunTry \cup
              {"start", "delivered", "marking", "opening", "failing", "fail record",
               "fail create", "fail writing", "over"}
  BY DEF OuterSteps, Outer!Stages, Outer!InnerTry, Outer!RunTry
<1>3. QED  BY <1>1, <1>2 DEF OuterShapes, Outer!TypeOK, Inners, Attempts

\* The fields of a verdict.
LEMMA VerdictMeans ==
  \A d, rec : LET v == Outer!OuterVerdict(d, rec) IN
      /\ v.is = "verdict" /\ v.status = d.status /\ v.class = d.class /\ v.rec = rec
      /\ v.armed = IF rec.inner = "none" THEN 0 ELSE armed
BY DEF Outer!OuterVerdict

\* Nothing is written for a delivery, whether it is accepted or refused.
LEMMA ParseDeliveryInv == ASSUME OuterInv, Outer!ParseDelivery PROVE OuterInv'
<1>1. /\ outerPc = "start"
      /\ \/ outerPc' = "delivered" /\ code' = code
         \/ outerPc' = "over" /\ code' = "1"
      /\ UNCHANGED <<attempt, verdict, raw, inner, armed, ran, draft, record, monitor,
                     bound, pending>>
  BY DEF Outer!ParseDelivery, Outer!Goto, Outer!Exit
<1>2. OuterShapes'  BY <1>1, NoRawMeans, FilesApart DEF OuterInv, OuterShapes, Inners
<1>3. (outerPc \in OuterSteps)'
  BY <1>1 DEF OuterInv, OuterSteps, Outer!InnerTry, Outer!RunTry, Outer!Stages, Failed
<1>4. OuterFiles'
  BY <1>1, NoRawMeans, FilesApart
     DEF OuterInv, OuterShapes, OuterFiles, Early, Outer!Stages, Outer!InnerTry
<1>5. OuterThreads'
  BY <1>1, NoRawMeans, FilesApart
     DEF OuterInv, OuterFiles, OuterThreads, VerdictTrue, Early
<1>6. InnerAt'
  BY <1>1, NoRawMeans, FilesApart DEF OuterInv, OuterFiles, InnerAt, Early, Outer!Stages
<1>7. DraftHolds'
  BY <1>1, NoRawMeans, FilesApart
     DEF OuterInv, OuterShapes, OuterThreads, InnerAt, DraftHolds, Early, Outer!Stages,
         Outer!InnerTry, Judging, Outer!Cut
<1>8. FailureHolds'
  BY <1>1, NoRawMeans, FilesApart
     DEF OuterInv, OuterShapes, OuterFiles, OuterThreads, InnerAt, DraftHolds,
         FailureHolds, Early, Outer!Stages, Outer!InnerTry, Outer!RunTry, Failed
<1>9. RecordHolds'
  BY <1>1, NoRawMeans, FilesApart
     DEF OuterInv, OuterShapes, OuterFiles, RecordHolds, Judging, Inners, Outer!InnerTry
<1>10. VerdictTrue'
  BY <1>1, NoRawMeans, FilesApart
     DEF OuterInv, OuterFiles, VerdictTrue, Early, Outer!Stages, Outer!InnerTry
<1>11. QED  BY <1>2, <1>3, <1>4, <1>5, <1>6, <1>7, <1>8, <1>9, <1>10 DEF OuterInv

\* The outer attempt is created while there is no other file.
LEMMA CreateOuterAttemptInv == ASSUME OuterInv, Outer!CreateOuterAttempt PROVE OuterInv'
<1>1. /\ outerPc = "delivered"
      /\ \/ outerPc' = "marking" /\ code' = code /\ attempt' = Outer!Torn
         \/ outerPc' = "over" /\ code' = "1" /\ attempt' = attempt
      /\ UNCHANGED <<verdict, raw, inner, armed, ran, draft, record, monitor, bound,
                     pending>>
  BY DEF Outer!CreateOuterAttempt, Outer!Goto, Outer!Exit
<1>a. attempt' \in Attempts  BY <1>1 DEF OuterInv, OuterShapes, Attempts
<1>2. OuterShapes'  BY <1>1, <1>a DEF OuterInv, OuterShapes
<1>3. (outerPc \in OuterSteps)'
  BY <1>1 DEF OuterInv, OuterSteps, Outer!InnerTry, Outer!RunTry, Outer!Stages, Failed
<1>4. OuterFiles'
  BY <1>1, NoRawMeans, FilesApart
     DEF OuterInv, OuterShapes, OuterFiles, Early, Outer!Stages, Outer!InnerTry
<1>5. OuterThreads'
  BY <1>1, NoRawMeans, FilesApart
     DEF OuterInv, OuterFiles, OuterThreads, VerdictTrue, Early
<1>6. InnerAt'
  BY <1>1, NoRawMeans, FilesApart DEF OuterInv, OuterFiles, InnerAt, Early, Outer!Stages
<1>7. DraftHolds'
  BY <1>1, NoRawMeans, FilesApart
     DEF OuterInv, OuterShapes, OuterThreads, InnerAt, DraftHolds, Early, Outer!Stages,
         Outer!InnerTry, Judging, Outer!Cut
<1>8. FailureHolds'
  BY <1>1, NoRawMeans, FilesApart
     DEF OuterInv, OuterShapes, OuterFiles, OuterThreads, InnerAt, DraftHolds,
         FailureHolds, Early, Outer!Stages, Outer!InnerTry, Outer!RunTry, Failed
<1>9. RecordHolds'
  BY <1>1, NoRawMeans, FilesApart
     DEF OuterInv, OuterShapes, OuterFiles, RecordHolds, Judging, Inners, Outer!InnerTry
<1>10. VerdictTrue'
  BY <1>1, NoRawMeans, FilesApart
     DEF OuterInv, OuterFiles, VerdictTrue, Early, Outer!Stages, Outer!InnerTry
<1>11. QED  BY <1>2, <1>3, <1>4, <1>5, <1>6, <1>7, <1>8, <1>9, <1>10 DEF OuterInv

\* The attempt is whole before anything else is done.
LEMMA WriteOuterAttemptInv == ASSUME OuterInv, Outer!WriteOuterAttempt PROVE OuterInv'
<1>1. /\ outerPc = "marking" /\ outerPc' = "opening"
      /\ \E w \in Outer!Flaws : attempt' = Outer!Whole(w)
      /\ UNCHANGED <<verdict, raw, inner, armed, ran, draft, record, monitor, bound,
                     pending, code>>
  BY DEF Outer!WriteOuterAttempt, Outer!Goto
<1>a. attempt' \in Attempts /\ attempt'.is = "attempt"  BY <1>1, FilesApart DEF Attempts
<1>2. OuterShapes'  BY <1>1, <1>a DEF OuterInv, OuterShapes
<1>3. (outerPc \in OuterSteps)'
  BY <1>1 DEF OuterInv, OuterSteps, Outer!InnerTry, Outer!RunTry, Outer!Stages, Failed
<1>4. OuterFiles'
  BY <1>1, <1>a, NoRawMeans, FilesApart
     DEF OuterInv, OuterShapes, OuterFiles, Early, Outer!Stages, Outer!InnerTry
<1>5. OuterThreads'
  BY <1>1, NoRawMeans, FilesApart
     DEF OuterInv, OuterFiles, OuterThreads, VerdictTrue, Early
<1>6. InnerAt'
  BY <1>1, NoRawMeans, FilesApart DEF OuterInv, OuterFiles, InnerAt, Early, Outer!Stages
<1>7. DraftHolds'
  BY <1>1, NoRawMeans, FilesApart
     DEF OuterInv, OuterShapes, OuterThreads, InnerAt, DraftHolds, Early, Outer!Stages,
         Outer!InnerTry, Judging, Outer!Cut
<1>8. FailureHolds'
  BY <1>1, NoRawMeans, FilesApart
     DEF OuterInv, OuterShapes, OuterFiles, OuterThreads, InnerAt, DraftHolds,
         FailureHolds, Early, Outer!Stages, Outer!InnerTry, Outer!RunTry, Failed
<1>9. RecordHolds'
  BY <1>1, NoRawMeans, FilesApart
     DEF OuterInv, OuterShapes, OuterFiles, RecordHolds, Judging, Inners, Outer!InnerTry
<1>10. VerdictTrue'
  BY <1>1, NoRawMeans, FilesApart
     DEF OuterInv, OuterFiles, VerdictTrue, Early, Outer!Stages, Outer!InnerTry
<1>11. QED  BY <1>2, <1>3, <1>4, <1>5, <1>6, <1>7, <1>8, <1>9, <1>10 DEF OuterInv

\* The raw output begins empty, and the monitor with it.
LEMMA OpenOuterRawInv == ASSUME OuterInv, Outer!OpenOuterRaw PROVE OuterInv'
<1>1. /\ outerPc = "opening" /\ outerPc' = "identity" /\ raw' = 0 /\ monitor' = "watching"
      /\ UNCHANGED <<attempt, verdict, inner, armed, ran, draft, record, bound, pending,
                     code>>
  BY DEF Outer!OpenOuterRaw, Outer!Goto
<1>2. OuterShapes'  BY <1>1, NoRawMeans, FilesApart DEF OuterInv, OuterShapes, Inners
<1>3. (outerPc \in OuterSteps)'
  BY <1>1 DEF OuterInv, OuterSteps, Outer!InnerTry, Outer!RunTry, Outer!Stages, Failed
<1>4. OuterFiles'
  BY <1>1, NoRawMeans, FilesApart
     DEF OuterInv, OuterShapes, OuterFiles, Early, Outer!Stages, Outer!InnerTry
<1>5. OuterThreads'
  BY <1>1, NoRawMeans, FilesApart
     DEF OuterInv, OuterFiles, OuterThreads, VerdictTrue, Early
<1>6. InnerAt'
  BY <1>1, NoRawMeans, FilesApart DEF OuterInv, OuterFiles, InnerAt, Early, Outer!Stages
<1>7. DraftHolds'
  BY <1>1, NoRawMeans, FilesApart
     DEF OuterInv, OuterShapes, OuterThreads, InnerAt, DraftHolds, Early, Outer!Stages,
         Outer!InnerTry, Judging, Outer!Cut
<1>8. FailureHolds'
  BY <1>1, NoRawMeans, FilesApart
     DEF OuterInv, OuterShapes, OuterFiles, OuterThreads, InnerAt, DraftHolds,
         FailureHolds, Early, Outer!Stages, Outer!InnerTry, Outer!RunTry, Failed
<1>9. RecordHolds'
  BY <1>1, NoRawMeans, FilesApart
     DEF OuterInv, OuterShapes, OuterFiles, RecordHolds, Judging, Inners, Outer!InnerTry
<1>10. VerdictTrue'
  BY <1>1, NoRawMeans, FilesApart
     DEF OuterInv, OuterFiles, VerdictTrue, Early, Outer!Stages, Outer!InnerTry
<1>11. QED  BY <1>2, <1>3, <1>4, <1>5, <1>6, <1>7, <1>8, <1>9, <1>10 DEF OuterInv

\* A stage that fails leaves a failure as the draft.
LEMMA CheckIdentityInv == ASSUME OuterInv, Outer!CheckIdentity PROVE OuterInv'
<1>1. /\ outerPc = "identity"
      /\ \/ outerPc' = "plan" /\ draft' = draft
         \/ outerPc' = "failing" /\ draft'.status = "failure" /\ draft'.class = "identity"
      /\ UNCHANGED <<attempt, verdict, raw, inner, armed, ran, record, monitor, bound,
                     pending, code>>
  BY FailureMeans DEF Outer!CheckIdentity, Outer!Stage, Outer!Goto
<1>2. OuterShapes'  BY <1>1, NoRawMeans, FilesApart DEF OuterInv, OuterShapes, Inners
<1>3. (outerPc \in OuterSteps)'
  BY <1>1 DEF OuterInv, OuterSteps, Outer!InnerTry, Outer!RunTry, Outer!Stages, Failed
<1>4. OuterFiles'
  BY <1>1, NoRawMeans, FilesApart
     DEF OuterInv, OuterShapes, OuterFiles, Early, Outer!Stages, Outer!InnerTry
<1>5. OuterThreads'
  BY <1>1, NoRawMeans, FilesApart
     DEF OuterInv, OuterFiles, OuterThreads, VerdictTrue, Early
<1>6. InnerAt'
  BY <1>1, NoRawMeans, FilesApart DEF OuterInv, OuterFiles, InnerAt, Early, Outer!Stages
<1>7. DraftHolds'
  BY <1>1, NoRawMeans, FilesApart
     DEF OuterInv, OuterShapes, OuterThreads, InnerAt, DraftHolds, Early, Outer!Stages,
         Outer!InnerTry, Judging, Outer!Cut
<1>8. FailureHolds'
  BY <1>1, NoRawMeans, FilesApart
     DEF OuterInv, OuterShapes, OuterFiles, OuterThreads, InnerAt, DraftHolds,
         FailureHolds, Early, Outer!Stages, Outer!InnerTry, Outer!RunTry, Failed
<1>9. RecordHolds'
  BY <1>1, NoRawMeans, FilesApart
     DEF OuterInv, OuterShapes, OuterFiles, RecordHolds, Judging, Inners, Outer!InnerTry
<1>10. VerdictTrue'
  BY <1>1, NoRawMeans, FilesApart
     DEF OuterInv, OuterFiles, VerdictTrue, Early, Outer!Stages, Outer!InnerTry
<1>11. QED  BY <1>2, <1>3, <1>4, <1>5, <1>6, <1>7, <1>8, <1>9, <1>10 DEF OuterInv

\* So does the plan,
LEMMA ReadPlanInv == ASSUME OuterInv, Outer!ReadPlan PROVE OuterInv'
<1>1. /\ outerPc = "plan"
      /\ \/ outerPc' = "compile" /\ draft' = draft
         \/ outerPc' = "failing" /\ draft'.status = "failure" /\ draft'.class = "plan"
      /\ UNCHANGED <<attempt, verdict, raw, inner, armed, ran, record, monitor, bound,
                     pending, code>>
  BY FailureMeans DEF Outer!ReadPlan, Outer!Stage, Outer!Goto
<1>2. OuterShapes'  BY <1>1, NoRawMeans, FilesApart DEF OuterInv, OuterShapes, Inners
<1>3. (outerPc \in OuterSteps)'
  BY <1>1 DEF OuterInv, OuterSteps, Outer!InnerTry, Outer!RunTry, Outer!Stages, Failed
<1>4. OuterFiles'
  BY <1>1, NoRawMeans, FilesApart
     DEF OuterInv, OuterShapes, OuterFiles, Early, Outer!Stages, Outer!InnerTry
<1>5. OuterThreads'
  BY <1>1, NoRawMeans, FilesApart
     DEF OuterInv, OuterFiles, OuterThreads, VerdictTrue, Early
<1>6. InnerAt'
  BY <1>1, NoRawMeans, FilesApart DEF OuterInv, OuterFiles, InnerAt, Early, Outer!Stages
<1>7. DraftHolds'
  BY <1>1, NoRawMeans, FilesApart
     DEF OuterInv, OuterShapes, OuterThreads, InnerAt, DraftHolds, Early, Outer!Stages,
         Outer!InnerTry, Judging, Outer!Cut
<1>8. FailureHolds'
  BY <1>1, NoRawMeans, FilesApart
     DEF OuterInv, OuterShapes, OuterFiles, OuterThreads, InnerAt, DraftHolds,
         FailureHolds, Early, Outer!Stages, Outer!InnerTry, Outer!RunTry, Failed
<1>9. RecordHolds'
  BY <1>1, NoRawMeans, FilesApart
     DEF OuterInv, OuterShapes, OuterFiles, RecordHolds, Judging, Inners, Outer!InnerTry
<1>10. VerdictTrue'
  BY <1>1, NoRawMeans, FilesApart
     DEF OuterInv, OuterFiles, VerdictTrue, Early, Outer!Stages, Outer!InnerTry
<1>11. QED  BY <1>2, <1>3, <1>4, <1>5, <1>6, <1>7, <1>8, <1>9, <1>10 DEF OuterInv

\* and the compilation of the launcher.
LEMMA CompileLauncherInv == ASSUME OuterInv, Outer!CompileLauncher PROVE OuterInv'
<1>1. /\ outerPc = "compile"
      /\ \/ outerPc' = "outer-launcher" /\ draft' = draft
         \/ outerPc' = "failing" /\ draft'.status = "failure" /\ draft'.class = "compile"
      /\ UNCHANGED <<attempt, verdict, raw, inner, armed, ran, record, monitor, bound,
                     pending, code>>
  BY FailureMeans DEF Outer!CompileLauncher, Outer!Stage, Outer!Goto
<1>2. OuterShapes'  BY <1>1, NoRawMeans, FilesApart DEF OuterInv, OuterShapes, Inners
<1>3. (outerPc \in OuterSteps)'
  BY <1>1 DEF OuterInv, OuterSteps, Outer!InnerTry, Outer!RunTry, Outer!Stages, Failed
<1>4. OuterFiles'
  BY <1>1, NoRawMeans, FilesApart
     DEF OuterInv, OuterShapes, OuterFiles, Early, Outer!Stages, Outer!InnerTry
<1>5. OuterThreads'
  BY <1>1, NoRawMeans, FilesApart
     DEF OuterInv, OuterFiles, OuterThreads, VerdictTrue, Early
<1>6. InnerAt'
  BY <1>1, NoRawMeans, FilesApart DEF OuterInv, OuterFiles, InnerAt, Early, Outer!Stages
<1>7. DraftHolds'
  BY <1>1, NoRawMeans, FilesApart
     DEF OuterInv, OuterShapes, OuterThreads, InnerAt, DraftHolds, Early, Outer!Stages,
         Outer!InnerTry, Judging, Outer!Cut
<1>8. FailureHolds'
  BY <1>1, NoRawMeans, FilesApart
     DEF OuterInv, OuterShapes, OuterFiles, OuterThreads, InnerAt, DraftHolds,
         FailureHolds, Early, Outer!Stages, Outer!InnerTry, Outer!RunTry, Failed
<1>9. RecordHolds'
  BY <1>1, NoRawMeans, FilesApart
     DEF OuterInv, OuterShapes, OuterFiles, RecordHolds, Judging, Inners, Outer!InnerTry
<1>10. VerdictTrue'
  BY <1>1, NoRawMeans, FilesApart
     DEF OuterInv, OuterFiles, VerdictTrue, Early, Outer!Stages, Outer!InnerTry
<1>11. QED  BY <1>2, <1>3, <1>4, <1>5, <1>6, <1>7, <1>8, <1>9, <1>10 DEF OuterInv

\* and what the launcher says of the attempt.
LEMMA CheckOuterAttemptInv == ASSUME OuterInv, Outer!CheckOuterAttempt PROVE OuterInv'
<1>1. /\ outerPc = "outer-launcher"
      /\ \/ outerPc' = "chain" /\ draft' = draft
         \/ outerPc' = "failing" /\ draft'.status = "failure" /\ draft'.class = "outer-launcher"
      /\ UNCHANGED <<attempt, verdict, raw, inner, armed, ran, record, monitor, bound,
                     pending, code>>
  BY FailureMeans DEF Outer!CheckOuterAttempt, Outer!Goto
<1>2. OuterShapes'  BY <1>1, NoRawMeans, FilesApart DEF OuterInv, OuterShapes, Inners
<1>3. (outerPc \in OuterSteps)'
  BY <1>1 DEF OuterInv, OuterSteps, Outer!InnerTry, Outer!RunTry, Outer!Stages, Failed
<1>4. OuterFiles'
  BY <1>1, NoRawMeans, FilesApart
     DEF OuterInv, OuterShapes, OuterFiles, Early, Outer!Stages, Outer!InnerTry
<1>5. OuterThreads'
  BY <1>1, NoRawMeans, FilesApart
     DEF OuterInv, OuterFiles, OuterThreads, VerdictTrue, Early
<1>6. InnerAt'
  BY <1>1, NoRawMeans, FilesApart DEF OuterInv, OuterFiles, InnerAt, Early, Outer!Stages
<1>7. DraftHolds'
  BY <1>1, NoRawMeans, FilesApart
     DEF OuterInv, OuterShapes, OuterThreads, InnerAt, DraftHolds, Early, Outer!Stages,
         Outer!InnerTry, Judging, Outer!Cut
<1>8. FailureHolds'
  BY <1>1, NoRawMeans, FilesApart
     DEF OuterInv, OuterShapes, OuterFiles, OuterThreads, InnerAt, DraftHolds,
         FailureHolds, Early, Outer!Stages, Outer!InnerTry, Outer!RunTry, Failed
<1>9. RecordHolds'
  BY <1>1, NoRawMeans, FilesApart
     DEF OuterInv, OuterShapes, OuterFiles, RecordHolds, Judging, Inners, Outer!InnerTry
<1>10. VerdictTrue'
  BY <1>1, NoRawMeans, FilesApart
     DEF OuterInv, OuterFiles, VerdictTrue, Early, Outer!Stages, Outer!InnerTry
<1>11. QED  BY <1>2, <1>3, <1>4, <1>5, <1>6, <1>7, <1>8, <1>9, <1>10 DEF OuterInv

\* A plan that is refused is a failure of the inner stage, without an inner gate.
LEMMA CheckPlanInv == ASSUME OuterInv, Outer!CheckPlan PROVE OuterInv'
<1>1. /\ outerPc = "chain"
      /\ \/ outerPc' = "authority" /\ draft' = draft
         \/ /\ outerPc' = "detach" /\ draft'.status = "failure"
            /\ draft'.class = "inner_failure"
      /\ UNCHANGED <<attempt, verdict, raw, inner, armed, ran, record, monitor, bound,
                     pending, code>>
  BY FailureMeans DEF Outer!CheckPlan, Outer!InnerRaises, Outer!Goto
<1>2. OuterShapes'  BY <1>1, NoRawMeans, FilesApart DEF OuterInv, OuterShapes, Inners
<1>3. (outerPc \in OuterSteps)'
  BY <1>1 DEF OuterInv, OuterSteps, Outer!InnerTry, Outer!RunTry, Outer!Stages, Failed
<1>4. OuterFiles'
  BY <1>1, NoRawMeans, FilesApart
     DEF OuterInv, OuterShapes, OuterFiles, Early, Outer!Stages, Outer!InnerTry
<1>5. OuterThreads'
  BY <1>1, NoRawMeans, FilesApart
     DEF OuterInv, OuterFiles, OuterThreads, VerdictTrue, Early
<1>6. InnerAt'
  BY <1>1, NoRawMeans, FilesApart DEF OuterInv, OuterFiles, InnerAt, Early, Outer!Stages
<1>7. DraftHolds'
  BY <1>1, NoRawMeans, FilesApart
     DEF OuterInv, OuterShapes, OuterThreads, InnerAt, DraftHolds, Early, Outer!Stages,
         Outer!InnerTry, Judging, Outer!Cut
<1>8. FailureHolds'
  BY <1>1, NoRawMeans, FilesApart
     DEF OuterInv, OuterShapes, OuterFiles, OuterThreads, InnerAt, DraftHolds,
         FailureHolds, Early, Outer!Stages, Outer!InnerTry, Outer!RunTry, Failed
<1>9. RecordHolds'
  BY <1>1, NoRawMeans, FilesApart
     DEF OuterInv, OuterShapes, OuterFiles, RecordHolds, Judging, Inners, Outer!InnerTry
<1>10. VerdictTrue'
  BY <1>1, NoRawMeans, FilesApart
     DEF OuterInv, OuterFiles, VerdictTrue, Early, Outer!Stages, Outer!InnerTry
<1>11. QED  BY <1>2, <1>3, <1>4, <1>5, <1>6, <1>7, <1>8, <1>9, <1>10 DEF OuterInv

\* The inner directory is made while the attempt is whole.
LEMMA MakeInnerInv == ASSUME OuterInv, Outer!MakeInner PROVE OuterInv'
<1>1. /\ outerPc = "authority"
      /\ \/ outerPc' = "inner" /\ draft' = draft /\ inner' = "unused"
         \/ /\ outerPc' = "detach" /\ draft'.status = "failure"
            /\ draft'.class = "inner_failure"
            /\ inner' = inner
      /\ UNCHANGED <<attempt, verdict, raw, armed, ran, record, monitor, bound, pending,
                     code>>
  BY FailureMeans DEF Outer!MakeInner, Outer!InnerRaises, Outer!Goto
<1>2. OuterShapes'  BY <1>1, NoRawMeans, FilesApart DEF OuterInv, OuterShapes, Inners
<1>3. (outerPc \in OuterSteps)'
  BY <1>1 DEF OuterInv, OuterSteps, Outer!InnerTry, Outer!RunTry, Outer!Stages, Failed
<1>4. OuterFiles'
  BY <1>1, NoRawMeans, FilesApart
     DEF OuterInv, OuterShapes, OuterFiles, Early, Outer!Stages, Outer!InnerTry
<1>5. OuterThreads'
  BY <1>1, NoRawMeans, FilesApart
     DEF OuterInv, OuterFiles, OuterThreads, VerdictTrue, Early
<1>6. InnerAt'
  BY <1>1, NoRawMeans, FilesApart DEF OuterInv, OuterFiles, InnerAt, Early, Outer!Stages
<1>7. DraftHolds'
  BY <1>1, NoRawMeans, FilesApart
     DEF OuterInv, OuterShapes, OuterThreads, InnerAt, DraftHolds, Early, Outer!Stages,
         Outer!InnerTry, Judging, Outer!Cut
<1>8. FailureHolds'
  BY <1>1, NoRawMeans, FilesApart
     DEF OuterInv, OuterShapes, OuterFiles, OuterThreads, InnerAt, DraftHolds,
         FailureHolds, Early, Outer!Stages, Outer!InnerTry, Outer!RunTry, Failed
<1>9. RecordHolds'
  BY <1>1, NoRawMeans, FilesApart
     DEF OuterInv, OuterShapes, OuterFiles, RecordHolds, Judging, Inners, Outer!InnerTry
<1>10. VerdictTrue'
  BY <1>1, NoRawMeans, FilesApart
     DEF OuterInv, OuterFiles, VerdictTrue, Early, Outer!Stages, Outer!InnerTry
<1>11. QED  BY <1>2, <1>3, <1>4, <1>5, <1>6, <1>7, <1>8, <1>9, <1>10 DEF OuterInv

\* The inner gate is consumed once.
LEMMA PrepareInnerInv == ASSUME OuterInv, Outer!PrepareInner PROVE OuterInv'
<1>1. /\ outerPc = "inner" /\ ran' = ran
      /\ \/ outerPc' = "adapter" /\ draft' = draft /\ inner' = "consumed"
         \/ /\ outerPc' = "detach" /\ draft'.status = "failure"
            /\ draft'.class = "inner_failure"
            /\ inner' = inner
      /\ UNCHANGED <<attempt, verdict, raw, armed, record, monitor, bound, pending, code>>
  BY FailureMeans
     DEF Outer!PrepareInner, Outer!InnerRaises, Outer!Goto, Outer!Gate!Consume
<1>2. OuterShapes'  BY <1>1, NoRawMeans, FilesApart DEF OuterInv, OuterShapes, Inners
<1>3. (outerPc \in OuterSteps)'
  BY <1>1 DEF OuterInv, OuterSteps, Outer!InnerTry, Outer!RunTry, Outer!Stages, Failed
<1>4. OuterFiles'
  BY <1>1, NoRawMeans, FilesApart
     DEF OuterInv, OuterShapes, OuterFiles, Early, Outer!Stages, Outer!InnerTry
<1>5. OuterThreads'
  BY <1>1, NoRawMeans, FilesApart
     DEF OuterInv, OuterFiles, OuterThreads, VerdictTrue, Early
<1>6. InnerAt'
  BY <1>1, NoRawMeans, FilesApart DEF OuterInv, OuterFiles, InnerAt, Early, Outer!Stages
<1>7. DraftHolds'
  BY <1>1, NoRawMeans, FilesApart
     DEF OuterInv, OuterShapes, OuterThreads, InnerAt, DraftHolds, Early, Outer!Stages,
         Outer!InnerTry, Judging, Outer!Cut
<1>8. FailureHolds'
  BY <1>1, NoRawMeans, FilesApart
     DEF OuterInv, OuterShapes, OuterFiles, OuterThreads, InnerAt, DraftHolds,
         FailureHolds, Early, Outer!Stages, Outer!InnerTry, Outer!RunTry, Failed
<1>9. RecordHolds'
  BY <1>1, NoRawMeans, FilesApart
     DEF OuterInv, OuterShapes, OuterFiles, RecordHolds, Judging, Inners, Outer!InnerTry
<1>10. VerdictTrue'
  BY <1>1, NoRawMeans, FilesApart
     DEF OuterInv, OuterFiles, VerdictTrue, Early, Outer!Stages, Outer!InnerTry
<1>11. QED  BY <1>2, <1>3, <1>4, <1>5, <1>6, <1>7, <1>8, <1>9, <1>10 DEF OuterInv

\* The handshake is counted before the target runs.
LEMMA ArmInv == ASSUME OuterInv, Outer!Arm PROVE OuterInv'
<1>1. /\ outerPc = "adapter" /\ outerPc' = outerPc /\ armed' = 1
      /\ UNCHANGED <<attempt, verdict, raw, inner, ran, draft, record, monitor, bound,
                     pending, code>>
  BY DEF Outer!Arm
<1>2. OuterShapes'  BY <1>1, NoRawMeans, FilesApart DEF OuterInv, OuterShapes, Inners
<1>3. (outerPc \in OuterSteps)'
  BY <1>1 DEF OuterInv, OuterSteps, Outer!InnerTry, Outer!RunTry, Outer!Stages, Failed
<1>4. OuterFiles'
  BY <1>1, NoRawMeans, FilesApart
     DEF OuterInv, OuterShapes, OuterFiles, Early, Outer!Stages, Outer!InnerTry
<1>5. OuterThreads'
  BY <1>1, NoRawMeans, FilesApart
     DEF OuterInv, OuterFiles, OuterThreads, VerdictTrue, Early
<1>6. InnerAt'
  BY <1>1, NoRawMeans, FilesApart DEF OuterInv, OuterFiles, InnerAt, Early, Outer!Stages
<1>7. DraftHolds'
  BY <1>1, NoRawMeans, FilesApart
     DEF OuterInv, OuterShapes, OuterThreads, InnerAt, DraftHolds, Early, Outer!Stages,
         Outer!InnerTry, Judging, Outer!Cut
<1>8. FailureHolds'
  BY <1>1, NoRawMeans, FilesApart
     DEF OuterInv, OuterShapes, OuterFiles, OuterThreads, InnerAt, DraftHolds,
         FailureHolds, Early, Outer!Stages, Outer!InnerTry, Outer!RunTry, Failed
<1>9. RecordHolds'
  BY <1>1, NoRawMeans, FilesApart
     DEF OuterInv, OuterShapes, OuterFiles, RecordHolds, Judging, Inners, Outer!InnerTry
<1>10. VerdictTrue'
  BY <1>1, NoRawMeans, FilesApart
     DEF OuterInv, OuterFiles, VerdictTrue, Early, Outer!Stages, Outer!InnerTry
<1>11. QED  BY <1>2, <1>3, <1>4, <1>5, <1>6, <1>7, <1>8, <1>9, <1>10 DEF OuterInv

\* The target runs after the handshake, and only once.
LEMMA ReleaseInv == ASSUME OuterInv, Outer!Release PROVE OuterInv'
<1>1. /\ outerPc = "adapter" /\ outerPc' = outerPc /\ inner' = inner /\ ran' = TRUE
      /\ UNCHANGED <<attempt, verdict, raw, armed, draft, record, monitor, bound,
                     pending, code>>
  BY DEF Outer!Release, Outer!Gate!Start
<1>2. OuterShapes'  BY <1>1, NoRawMeans, FilesApart DEF OuterInv, OuterShapes, Inners
<1>3. (outerPc \in OuterSteps)'
  BY <1>1 DEF OuterInv, OuterSteps, Outer!InnerTry, Outer!RunTry, Outer!Stages, Failed
<1>4. OuterFiles'
  BY <1>1, NoRawMeans, FilesApart
     DEF OuterInv, OuterShapes, OuterFiles, Early, Outer!Stages, Outer!InnerTry
<1>5. OuterThreads'
  BY <1>1, NoRawMeans, FilesApart
     DEF OuterInv, OuterFiles, OuterThreads, VerdictTrue, Early
<1>6. InnerAt'
  BY <1>1, NoRawMeans, FilesApart DEF OuterInv, OuterFiles, InnerAt, Early, Outer!Stages
<1>7. DraftHolds'
  BY <1>1, NoRawMeans, FilesApart
     DEF OuterInv, OuterShapes, OuterThreads, InnerAt, DraftHolds, Early, Outer!Stages,
         Outer!InnerTry, Judging, Outer!Cut
<1>8. FailureHolds'
  BY <1>1, NoRawMeans, FilesApart
     DEF OuterInv, OuterShapes, OuterFiles, OuterThreads, InnerAt, DraftHolds,
         FailureHolds, Early, Outer!Stages, Outer!InnerTry, Outer!RunTry, Failed
<1>9. RecordHolds'
  BY <1>1, NoRawMeans, FilesApart
     DEF OuterInv, OuterShapes, OuterFiles, RecordHolds, Judging, Inners, Outer!InnerTry
<1>10. VerdictTrue'
  BY <1>1, NoRawMeans, FilesApart
     DEF OuterInv, OuterFiles, VerdictTrue, Early, Outer!Stages, Outer!InnerTry
<1>11. QED  BY <1>2, <1>3, <1>4, <1>5, <1>6, <1>7, <1>8, <1>9, <1>10 DEF OuterInv

\* An inner success is one of a target that ran.
LEMMA AnswerInnerInv == ASSUME OuterInv, Outer!AnswerInner PROVE OuterInv'
<1>1. /\ outerPc = "adapter" /\ outerPc' = "answered" /\ ran' = ran
      /\ \/ inner' = "failure"
         \/ inner' = "success" /\ ran
      /\ UNCHANGED <<attempt, verdict, raw, armed, draft, record, monitor, bound,
                     pending, code>>
  BY DEF Outer!AnswerInner, Outer!Goto, Outer!Gate!Answer
<1>2. OuterShapes'  BY <1>1, NoRawMeans, FilesApart DEF OuterInv, OuterShapes, Inners
<1>3. (outerPc \in OuterSteps)'
  BY <1>1 DEF OuterInv, OuterSteps, Outer!InnerTry, Outer!RunTry, Outer!Stages, Failed
<1>4. OuterFiles'
  BY <1>1, NoRawMeans, FilesApart
     DEF OuterInv, OuterShapes, OuterFiles, Early, Outer!Stages, Outer!InnerTry
<1>5. OuterThreads'
  BY <1>1, NoRawMeans, FilesApart
     DEF OuterInv, OuterFiles, OuterThreads, VerdictTrue, Early
<1>6. InnerAt'
  BY <1>1, NoRawMeans, FilesApart DEF OuterInv, OuterFiles, InnerAt, Early, Outer!Stages
<1>7. DraftHolds'
  BY <1>1, NoRawMeans, FilesApart
     DEF OuterInv, OuterShapes, OuterThreads, InnerAt, DraftHolds, Early, Outer!Stages,
         Outer!InnerTry, Judging, Outer!Cut
<1>8. FailureHolds'
  BY <1>1, NoRawMeans, FilesApart
     DEF OuterInv, OuterShapes, OuterFiles, OuterThreads, InnerAt, DraftHolds,
         FailureHolds, Early, Outer!Stages, Outer!InnerTry, Outer!RunTry, Failed
<1>9. RecordHolds'
  BY <1>1, NoRawMeans, FilesApart
     DEF OuterInv, OuterShapes, OuterFiles, RecordHolds, Judging, Inners, Outer!InnerTry
<1>10. VerdictTrue'
  BY <1>1, NoRawMeans, FilesApart
     DEF OuterInv, OuterFiles, VerdictTrue, Early, Outer!Stages, Outer!InnerTry
<1>11. QED  BY <1>2, <1>3, <1>4, <1>5, <1>6, <1>7, <1>8, <1>9, <1>10 DEF OuterInv

\* An interrupt that the adapter catches is an inner failure.
LEMMA AdapterCatchesInv == ASSUME OuterInv, Outer!AdapterCatches PROVE OuterInv'
<1>1. /\ outerPc = "adapter" /\ outerPc' = "answered" /\ inner' = "failure"
      /\ pending' = FALSE
      /\ UNCHANGED <<attempt, verdict, raw, armed, ran, draft, record, monitor, bound,
                     code>>
  BY DEF Outer!AdapterCatches, Outer!Goto
<1>2. OuterShapes'
  <2>1. inner' \in Inners  BY <1>1 DEF Inners
  <2>2. raw' \in 0..(OutCap + 2) /\ armed' \in 0..1  BY <1>1 DEF OuterInv, OuterShapes
  <2>3. QED  BY <1>1, <2>1, <2>2 DEF OuterInv, OuterShapes
<1>3. (outerPc \in OuterSteps)'
  BY <1>1 DEF OuterInv, OuterSteps, Outer!InnerTry, Outer!RunTry, Outer!Stages, Failed
<1>4. OuterFiles'
  BY <1>1, NoRawMeans, FilesApart
     DEF OuterInv, OuterShapes, OuterFiles, Early, Outer!Stages, Outer!InnerTry
<1>5. OuterThreads'
  BY <1>1, NoRawMeans, FilesApart
     DEF OuterInv, OuterFiles, OuterThreads, VerdictTrue, Early
<1>6. InnerAt'
  BY <1>1, NoRawMeans, FilesApart DEF OuterInv, OuterFiles, InnerAt, Early, Outer!Stages
<1>7. DraftHolds'
  BY <1>1, NoRawMeans, FilesApart
     DEF OuterInv, OuterShapes, OuterThreads, InnerAt, DraftHolds, Early, Outer!Stages,
         Outer!InnerTry, Judging, Outer!Cut
<1>8. FailureHolds'
  BY <1>1, NoRawMeans, FilesApart
     DEF OuterInv, OuterShapes, OuterFiles, OuterThreads, InnerAt, DraftHolds,
         FailureHolds, Early, Outer!Stages, Outer!InnerTry, Outer!RunTry, Failed
<1>9. RecordHolds'
  BY <1>1, NoRawMeans, FilesApart
     DEF OuterInv, OuterShapes, OuterFiles, RecordHolds, Judging, Inners, Outer!InnerTry
<1>10. VerdictTrue'
  BY <1>1, NoRawMeans, FilesApart
     DEF OuterInv, OuterFiles, VerdictTrue, Early, Outer!Stages, Outer!InnerTry
<1>11. QED  BY <1>2, <1>3, <1>4, <1>5, <1>6, <1>7, <1>8, <1>9, <1>10 DEF OuterInv

\* The draft is a success exactly when the gate says so and was armed.
LEMMA TakeAnswerInv == ASSUME OuterInv, Outer!TakeAnswer PROVE OuterInv'
<1>1. /\ outerPc = "answered" /\ outerPc' = "detach"
      /\ \/ /\ armed = 1 /\ inner = "success"
            /\ draft'.status = "success" /\ draft'.class = "success"
         \/ draft'.status = "failure" /\ draft'.class = "inner_failure"
      /\ UNCHANGED <<attempt, verdict, raw, inner, armed, ran, record, monitor, bound,
                     pending, code>>
  BY FailureMeans DEF Outer!TakeAnswer, Outer!Goto, OuterInv
<1>2. OuterShapes'  BY <1>1, NoRawMeans, FilesApart DEF OuterInv, OuterShapes, Inners
<1>3. (outerPc \in OuterSteps)'
  BY <1>1 DEF OuterInv, OuterSteps, Outer!InnerTry, Outer!RunTry, Outer!Stages, Failed
<1>4. OuterFiles'
  BY <1>1, NoRawMeans, FilesApart
     DEF OuterInv, OuterShapes, OuterFiles, Early, Outer!Stages, Outer!InnerTry
<1>5. OuterThreads'
  BY <1>1, NoRawMeans, FilesApart
     DEF OuterInv, OuterFiles, OuterThreads, VerdictTrue, Early
<1>6. InnerAt'
  BY <1>1, NoRawMeans, FilesApart DEF OuterInv, OuterFiles, InnerAt, Early, Outer!Stages
<1>7. DraftHolds'
  BY <1>1, NoRawMeans, FilesApart
     DEF OuterInv, OuterShapes, OuterThreads, InnerAt, DraftHolds, Early, Outer!Stages,
         Outer!InnerTry, Judging, Outer!Cut
<1>8. FailureHolds'
  BY <1>1, NoRawMeans, FilesApart
     DEF OuterInv, OuterShapes, OuterFiles, OuterThreads, InnerAt, DraftHolds,
         FailureHolds, Early, Outer!Stages, Outer!InnerTry, Outer!RunTry, Failed
<1>9. RecordHolds'
  BY <1>1, NoRawMeans, FilesApart
     DEF OuterInv, OuterShapes, OuterFiles, RecordHolds, Judging, Inners, Outer!InnerTry
<1>10. VerdictTrue'
  BY <1>1, NoRawMeans, FilesApart
     DEF OuterInv, OuterFiles, VerdictTrue, Early, Outer!Stages, Outer!InnerTry
<1>11. QED  BY <1>2, <1>3, <1>4, <1>5, <1>6, <1>7, <1>8, <1>9, <1>10 DEF OuterInv

\* The output is cut before its size is recorded; what a whole verdict says of
\* it stays so, as what it kept is within the cap.
LEMMA RecordRawInv == ASSUME OuterInv, Outer!RecordRaw PROVE OuterInv'
<1>a. raw \in Nat /\ Outer!Kept(raw) \in 0..OutCap
  <2>1. raw \in Nat  BY NoRawMeans DEF OuterInv, OuterShapes
  <2>2. QED  BY <2>1, NoRawMeans DEF Outer!Kept
<1>b. raw' = Outer!Kept(raw)  BY DEF Outer!RecordRaw
<1>1. /\ \/ outerPc = "detach" /\ outerPc' = "bound"
         \/ outerPc = "fail record" /\ outerPc' = "fail create"
      /\ raw' \in 0..OutCap /\ raw' \in 0..(OutCap + 2) /\ raw' # Outer!NoRaw
      /\ raw # Outer!NoRaw
      /\ record'.seen = raw /\ record'.size = raw' /\ record'.inner = record.inner
      /\ record' \in [seen : Nat, size : Nat, inner : Inners]
      /\ UNCHANGED <<attempt, verdict, inner, armed, ran, draft, monitor, bound,
                     pending, code>>
  <2>1. PICK k \in Nat : k = Outer!Kept(raw)  BY <1>a
  <2>a. record' = [record EXCEPT !.seen = raw, !.size = k]  BY <2>1 DEF Outer!RecordRaw
  <2>2. record \in [seen : Nat, size : Nat, inner : Inners]  BY DEF OuterInv, RecordHolds
  <2>3. /\ record'.seen = raw /\ record'.size = Outer!Kept(raw)
        /\ record'.inner = record.inner
        /\ record' \in [seen : Nat, size : Nat, inner : Inners]
    BY <1>a, <2>1, <2>a, <2>2
  <2>4. /\ raw' \in 0..OutCap /\ raw' \in 0..(OutCap + 2) /\ raw' # Outer!NoRaw
    BY <1>a, <1>b, NoRawMeans
  <2>5. raw # Outer!NoRaw  BY DEF Outer!RecordRaw, OuterInv, OuterFiles, Early
  <2>6. record'.size = raw'  BY <1>b, <2>3
  <2>7. QED  BY <2>3, <2>4, <2>5, <2>6 DEF Outer!RecordRaw, Outer!Goto
<1>c. /\ raw' \in 0..(OutCap + 2)
      /\ UNCHANGED <<attempt, verdict, inner, armed, ran, draft, monitor, bound,
                     pending, code>>
  BY <1>1
<1>2. OuterShapes'  BY <1>c DEF OuterInv, OuterShapes
<1>3. (outerPc \in OuterSteps)'
  BY <1>1 DEF OuterInv, OuterSteps, Outer!InnerTry, Outer!RunTry, Outer!Stages, Failed
<1>4. OuterFiles'
  BY <1>1, NoRawMeans, FilesApart
     DEF OuterInv, OuterShapes, OuterFiles, Early, Outer!Stages, Outer!InnerTry
<1>5. OuterThreads'
  BY <1>1, NoRawMeans, FilesApart
     DEF OuterInv, OuterFiles, OuterThreads, VerdictTrue, Early
<1>6. InnerAt'
  BY <1>1, NoRawMeans, FilesApart DEF OuterInv, OuterFiles, InnerAt, Early, Outer!Stages
<1>7. DraftHolds'
  BY <1>1, NoRawMeans, FilesApart
     DEF OuterInv, OuterShapes, OuterThreads, InnerAt, DraftHolds, Early, Outer!Stages,
         Outer!InnerTry, Judging, Outer!Cut
<1>8. FailureHolds'
  BY <1>1, NoRawMeans, FilesApart
     DEF OuterInv, OuterShapes, OuterFiles, OuterThreads, InnerAt, DraftHolds,
         FailureHolds, Early, Outer!Stages, Outer!InnerTry, Outer!RunTry, Failed
<1>9. RecordHolds'
  BY <1>1, <1>b, NoRawMeans, FilesApart
     DEF OuterInv, OuterShapes, OuterFiles, RecordHolds, Judging, Inners, Outer!InnerTry
<1>10. VerdictTrue'
  <2>1. CASE verdict.is = "verdict"
    <3>1. outerPc = "fail record"  BY <1>1, <2>1, FilesApart DEF OuterInv, OuterFiles
    <3>2. /\ raw = Outer!Kept(verdict.rec.seen)
          /\ verdict.rec \in [seen : Nat, size : Nat, inner : Inners]
      BY <2>1 DEF OuterInv, VerdictTrue
    <3>3. raw <= OutCap  BY <3>2, NoRawMeans DEF Outer!Kept
    <3>4. raw' = raw  BY <1>a, <1>b, <3>3 DEF Outer!Kept
    <3>5. QED
      BY <1>1, <2>1, <3>1, <3>3, <3>4 DEF OuterInv, VerdictTrue, Outer!InnerAgrees
  <2>2. QED  BY <1>1, <2>1 DEF VerdictTrue
<1>11. QED  BY <1>2, <1>3, <1>4, <1>5, <1>6, <1>7, <1>8, <1>9, <1>10 DEF OuterInv

\* A transaction that cannot be sealed becomes a failure, or is left without a
\* verdict; what a whole verdict says of the output stays so.
LEMMA SealingFailsInv == ASSUME OuterInv, Outer!SealingFails PROVE OuterInv'
<1>a. raw \in Nat /\ Outer!Kept(raw) \in 0..OutCap
  <2>1. raw \in Nat  BY NoRawMeans DEF OuterInv, OuterShapes
  <2>2. QED  BY <2>1, NoRawMeans DEF Outer!Kept
<1>b. raw' = raw \/ raw' = Outer!Kept(raw)  BY DEF Outer!SealingFails
<1>1. /\ \/ /\ outerPc \in {"detach", "summary", "create"} /\ outerPc' = "failing"
            /\ draft'.status = "failure" /\ draft'.class = "outer-launcher"
            /\ code' = code
         \/ /\ outerPc \in {"fail record", "fail create"} /\ outerPc' = "over"
            /\ code' = "1" /\ draft' = draft
      /\ raw # Outer!NoRaw /\ raw' # Outer!NoRaw /\ raw' \in 0..(OutCap + 2)
      /\ UNCHANGED <<attempt, verdict, inner, armed, ran, record, monitor, bound, pending>>
  <2>1. raw # Outer!NoRaw  BY DEF Outer!SealingFails, OuterInv, OuterFiles, Early
  <2>2. raw' # Outer!NoRaw /\ raw' \in 0..(OutCap + 2)
    BY <1>a, <1>b, <2>1, NoRawMeans DEF OuterInv, OuterShapes
  <2>3. QED
    BY <2>1, <2>2, FailureMeans DEF Outer!SealingFails, Outer!Goto, Outer!Exit
<1>2. OuterShapes'
  <2>1. draft'.status \in {"success", "failure"} /\ code' \in {"none", "0", "1", "124", "dead"}
    BY <1>1 DEF OuterInv, OuterShapes
  <2>2. QED  BY <1>1, <2>1 DEF OuterInv, OuterShapes
<1>3. (outerPc \in OuterSteps)'
  BY <1>1 DEF OuterInv, OuterSteps, Outer!InnerTry, Outer!RunTry, Outer!Stages, Failed
<1>4. OuterFiles'
  BY <1>1, NoRawMeans, FilesApart
     DEF OuterInv, OuterShapes, OuterFiles, Early, Outer!Stages, Outer!InnerTry
<1>5. OuterThreads'
  BY <1>1, NoRawMeans, FilesApart
     DEF OuterInv, OuterFiles, OuterThreads, VerdictTrue, Early
<1>6. InnerAt'
  BY <1>1, NoRawMeans, FilesApart DEF OuterInv, OuterFiles, InnerAt, Early, Outer!Stages
<1>7. DraftHolds'
  BY <1>1, NoRawMeans, FilesApart
     DEF OuterInv, OuterShapes, OuterThreads, InnerAt, DraftHolds, Early, Outer!Stages,
         Outer!InnerTry, Judging, Outer!Cut
<1>8. FailureHolds'
  BY <1>1, NoRawMeans, FilesApart
     DEF OuterInv, OuterShapes, OuterFiles, OuterThreads, InnerAt, DraftHolds,
         FailureHolds, Early, Outer!Stages, Outer!InnerTry, Outer!RunTry, Failed
<1>9. RecordHolds'
  BY <1>1, NoRawMeans, FilesApart
     DEF OuterInv, OuterShapes, OuterFiles, RecordHolds, Judging, Inners, Outer!InnerTry
<1>10. VerdictTrue'
  <2>1. CASE verdict.is = "verdict"
    <3>1. outerPc \in {"fail record", "fail create"}
      BY <1>1, <2>1, FilesApart DEF OuterInv, OuterFiles
    <3>2. /\ raw = Outer!Kept(verdict.rec.seen) /\ bound # "none"
          /\ verdict.rec \in [seen : Nat, size : Nat, inner : Inners]
      BY <2>1, <3>1 DEF OuterInv, VerdictTrue
    <3>3. raw <= OutCap  BY <3>2, NoRawMeans DEF Outer!Kept
    <3>4. raw' = raw  BY <1>a, <1>b, <3>3 DEF Outer!Kept
    <3>5. QED
      BY <1>1, <2>1, <3>1, <3>2, <3>4 DEF OuterInv, VerdictTrue, Outer!InnerAgrees
  <2>2. QED  BY <1>1, <2>1 DEF VerdictTrue
<1>11. QED  BY <1>2, <1>3, <1>4, <1>5, <1>6, <1>7, <1>8, <1>9, <1>10 DEF OuterInv

\* A bound or a cut makes the draft a failure before a verdict is written.
LEMMA SampleBoundInv == ASSUME OuterInv, Outer!SampleBound PROVE OuterInv'
<1>1. /\ outerPc = "bound" /\ outerPc' = "summary"
      /\ \/ bound = "none" /\ ~Outer!Cut /\ draft' = draft
         \/ /\ bound # "none" \/ Outer!Cut
            /\ draft'.status = "failure" /\ draft'.class # "success"
      /\ UNCHANGED <<attempt, verdict, raw, inner, armed, ran, record, monitor, bound,
                     pending, code>>
  BY FailureMeans DEF Outer!SampleBound, Outer!Goto, OuterInv, OuterShapes
<1>2. OuterShapes'  BY <1>1, NoRawMeans, FilesApart DEF OuterInv, OuterShapes, Inners
<1>3. (outerPc \in OuterSteps)'
  BY <1>1 DEF OuterInv, OuterSteps, Outer!InnerTry, Outer!RunTry, Outer!Stages, Failed
<1>4. OuterFiles'
  BY <1>1, NoRawMeans, FilesApart
     DEF OuterInv, OuterShapes, OuterFiles, Early, Outer!Stages, Outer!InnerTry
<1>5. OuterThreads'
  BY <1>1, NoRawMeans, FilesApart
     DEF OuterInv, OuterFiles, OuterThreads, VerdictTrue, Early
<1>6. InnerAt'
  BY <1>1, NoRawMeans, FilesApart DEF OuterInv, OuterFiles, InnerAt, Early, Outer!Stages
<1>7. DraftHolds'
  BY <1>1, NoRawMeans, FilesApart
     DEF OuterInv, OuterShapes, OuterThreads, InnerAt, DraftHolds, Early, Outer!Stages,
         Outer!InnerTry, Judging, Outer!Cut
<1>8. FailureHolds'
  BY <1>1, NoRawMeans, FilesApart
     DEF OuterInv, OuterShapes, OuterFiles, OuterThreads, InnerAt, DraftHolds,
         FailureHolds, Early, Outer!Stages, Outer!InnerTry, Outer!RunTry, Failed
<1>9. RecordHolds'
  BY <1>1, NoRawMeans, FilesApart
     DEF OuterInv, OuterShapes, OuterFiles, RecordHolds, Judging, Inners, Outer!InnerTry
<1>10. VerdictTrue'
  BY <1>1, NoRawMeans, FilesApart
     DEF OuterInv, OuterFiles, VerdictTrue, Early, Outer!Stages, Outer!InnerTry
<1>11. QED  BY <1>2, <1>3, <1>4, <1>5, <1>6, <1>7, <1>8, <1>9, <1>10 DEF OuterInv

\* The inner evidence that is recorded is the one of now, and it stays.
LEMMA SummariseInv == ASSUME OuterInv, Outer!Summarise PROVE OuterInv'
<1>1. /\ outerPc = "summary" /\ outerPc' = "create"
      /\ record' = [seen |-> record.seen, size |-> record.size, inner |-> inner]
      /\ UNCHANGED <<attempt, verdict, raw, inner, armed, ran, draft, monitor, bound,
                     pending, code>>
  BY DEF Outer!Summarise, Outer!Goto, OuterInv, RecordHolds
<1>2. OuterShapes'  BY <1>1, NoRawMeans, FilesApart DEF OuterInv, OuterShapes, Inners
<1>3. (outerPc \in OuterSteps)'
  BY <1>1 DEF OuterInv, OuterSteps, Outer!InnerTry, Outer!RunTry, Outer!Stages, Failed
<1>4. OuterFiles'
  BY <1>1, NoRawMeans, FilesApart
     DEF OuterInv, OuterShapes, OuterFiles, Early, Outer!Stages, Outer!InnerTry
<1>5. OuterThreads'
  BY <1>1, NoRawMeans, FilesApart
     DEF OuterInv, OuterFiles, OuterThreads, VerdictTrue, Early
<1>6. InnerAt'
  BY <1>1, NoRawMeans, FilesApart DEF OuterInv, OuterFiles, InnerAt, Early, Outer!Stages
<1>7. DraftHolds'
  BY <1>1, NoRawMeans, FilesApart
     DEF OuterInv, OuterShapes, OuterThreads, InnerAt, DraftHolds, Early, Outer!Stages,
         Outer!InnerTry, Judging, Outer!Cut
<1>8. FailureHolds'
  BY <1>1, NoRawMeans, FilesApart
     DEF OuterInv, OuterShapes, OuterFiles, OuterThreads, InnerAt, DraftHolds,
         FailureHolds, Early, Outer!Stages, Outer!InnerTry, Outer!RunTry, Failed
<1>9. RecordHolds'
  BY <1>1, NoRawMeans, FilesApart
     DEF OuterInv, OuterShapes, OuterFiles, RecordHolds, Judging, Inners, Outer!InnerTry
<1>10. VerdictTrue'
  BY <1>1, NoRawMeans, FilesApart
     DEF OuterInv, OuterFiles, VerdictTrue, Early, Outer!Stages, Outer!InnerTry
<1>11. QED  BY <1>2, <1>3, <1>4, <1>5, <1>6, <1>7, <1>8, <1>9, <1>10 DEF OuterInv

\* The verdict is created once.
LEMMA CreateOuterVerdictInv == ASSUME OuterInv, Outer!CreateOuterVerdict PROVE OuterInv'
<1>1. /\ outerPc \in {"create", "fail create"}
      /\ \/ /\ verdict = Outer!Absent /\ verdict' = Outer!Torn /\ code' = code
            /\ outerPc' = IF outerPc = "create" THEN "writing" ELSE "fail writing"
         \/ /\ verdict # Outer!Absent /\ verdict' = verdict /\ outerPc' = "over"
            /\ code' = "1"
      /\ UNCHANGED <<attempt, raw, inner, armed, ran, draft, record, monitor, bound,
                     pending>>
  BY DEF Outer!CreateOuterVerdict, Outer!Goto, Outer!Exit
<1>2. OuterShapes'
  <2>1. verdict'.is \in {"absent", "torn", "verdict"} /\ code' \in {"none", "0", "1", "124", "dead"}
    BY <1>1, FilesApart DEF OuterInv, OuterShapes
  <2>2. QED  BY <1>1, <2>1 DEF OuterInv, OuterShapes
<1>3. (outerPc \in OuterSteps)'
  BY <1>1 DEF OuterInv, OuterSteps, Outer!InnerTry, Outer!RunTry, Outer!Stages, Failed
<1>4. OuterFiles'
  BY <1>1, NoRawMeans, FilesApart
     DEF OuterInv, OuterShapes, OuterFiles, Early, Outer!Stages, Outer!InnerTry
<1>5. OuterThreads'
  BY <1>1, NoRawMeans, FilesApart
     DEF OuterInv, OuterFiles, OuterThreads, VerdictTrue, Early
<1>6. InnerAt'
  BY <1>1, NoRawMeans, FilesApart DEF OuterInv, OuterFiles, InnerAt, Early, Outer!Stages
<1>7. DraftHolds'
  BY <1>1, NoRawMeans, FilesApart
     DEF OuterInv, OuterShapes, OuterThreads, InnerAt, DraftHolds, Early, Outer!Stages,
         Outer!InnerTry, Judging, Outer!Cut
<1>8. FailureHolds'
  BY <1>1, NoRawMeans, FilesApart
     DEF OuterInv, OuterShapes, OuterFiles, OuterThreads, InnerAt, DraftHolds,
         FailureHolds, Early, Outer!Stages, Outer!InnerTry, Outer!RunTry, Failed
<1>9. RecordHolds'
  BY <1>1, NoRawMeans, FilesApart
     DEF OuterInv, OuterShapes, OuterFiles, RecordHolds, Judging, Inners, Outer!InnerTry
<1>10. VerdictTrue'
  BY <1>1, NoRawMeans, FilesApart
     DEF OuterInv, OuterFiles, VerdictTrue, Early, Outer!Stages, Outer!InnerTry
<1>11. QED  BY <1>2, <1>3, <1>4, <1>5, <1>6, <1>7, <1>8, <1>9, <1>10 DEF OuterInv

\* What the launcher writes is so.
LEMMA WriteOuterVerdictInv == ASSUME OuterInv, Outer!WriteOuterVerdict PROVE OuterInv'
<1>1. /\ outerPc = "writing"
      /\ \/ outerPc' = "failing" /\ verdict' = verdict
         \/ /\ outerPc' = "returned" /\ verdict'.is = "verdict"
            /\ verdict'.status = draft.status /\ verdict'.class = draft.class
            /\ verdict'.rec = record
            /\ verdict'.armed = IF record.inner = "none" THEN 0 ELSE armed
      /\ UNCHANGED <<attempt, raw, inner, armed, ran, draft, record, monitor, bound,
                     pending, code>>
  BY VerdictMeans DEF Outer!WriteOuterVerdict, Outer!Goto
<1>2. OuterShapes'  BY <1>1, NoRawMeans, FilesApart DEF OuterInv, OuterShapes, Inners
<1>3. (outerPc \in OuterSteps)'
  BY <1>1 DEF OuterInv, OuterSteps, Outer!InnerTry, Outer!RunTry, Outer!Stages, Failed
<1>4. OuterFiles'
  BY <1>1, NoRawMeans, FilesApart
     DEF OuterInv, OuterShapes, OuterFiles, Early, Outer!Stages, Outer!InnerTry
<1>5. OuterThreads'
  BY <1>1, NoRawMeans, FilesApart
     DEF OuterInv, OuterFiles, OuterThreads, VerdictTrue, Early
<1>6. InnerAt'
  BY <1>1, NoRawMeans, FilesApart DEF OuterInv, OuterFiles, InnerAt, Early, Outer!Stages
<1>7. DraftHolds'
  BY <1>1, NoRawMeans, FilesApart
     DEF OuterInv, OuterShapes, OuterThreads, InnerAt, DraftHolds, Early, Outer!Stages,
         Outer!InnerTry, Judging, Outer!Cut
<1>8. FailureHolds'
  BY <1>1, NoRawMeans, FilesApart
     DEF OuterInv, OuterShapes, OuterFiles, OuterThreads, InnerAt, DraftHolds,
         FailureHolds, Early, Outer!Stages, Outer!InnerTry, Outer!RunTry, Failed
<1>9. RecordHolds'
  BY <1>1, NoRawMeans, FilesApart
     DEF OuterInv, OuterShapes, OuterFiles, RecordHolds, Judging, Inners, Outer!InnerTry
<1>10. VerdictTrue'
  <2>1. CASE outerPc' = "failing"
    BY <1>1, <2>1, FilesApart DEF OuterInv, OuterFiles, VerdictTrue
  <2>2. CASE outerPc' = "returned"
    <3>1. /\ record.size = raw /\ raw = Outer!Kept(record.seen) /\ record.inner = inner
          /\ record \in [seen : Nat, size : Nat, inner : Inners]
      BY <1>1 DEF OuterInv, RecordHolds, Judging
    <3>2. /\ draft.status = "success" =>
               /\ draft.class = "success" /\ armed = 1 /\ inner = "success"
               /\ record.seen <= OutCap
          /\ draft.status = "failure" => draft.class # "success"
          /\ draft.status = "failure" /\ bound = "none" /\ record.seen <= OutCap
             => draft.class = "inner_failure"
          /\ draft.status \in {"success", "failure"}
      BY <1>1, <3>1, NoRawMeans
         DEF OuterInv, DraftHolds, OuterShapes, Judging, Outer!Cut, Outer!Kept
    <3>3. QED
      BY <1>1, <2>2, <3>1, <3>2 DEF OuterInv, VerdictTrue, Outer!InnerAgrees, InnerAt
  <2>3. QED  BY <1>1, <2>1, <2>2
<1>11. QED  BY <1>2, <1>3, <1>4, <1>5, <1>6, <1>7, <1>8, <1>9, <1>10 DEF OuterInv

\* The process exits 0 only behind a verdict that says success.
LEMMA ReturnOuterInv == ASSUME OuterInv, Outer!ReturnOuter PROVE OuterInv'
<1>1. /\ outerPc = "returned" /\ outerPc' = "over" /\ monitor' = "stopped"
      /\ \/ draft.status = "success" /\ code' = "0"
         \/ draft.status # "success" /\ code' = "1"
      /\ UNCHANGED <<attempt, verdict, raw, inner, armed, ran, draft, record, bound,
                     pending>>
  BY DEF Outer!ReturnOuter, Outer!Exit, Outer!Goto
<1>2. OuterShapes'  BY <1>1, NoRawMeans, FilesApart DEF OuterInv, OuterShapes, Inners
<1>3. (outerPc \in OuterSteps)'
  BY <1>1 DEF OuterInv, OuterSteps, Outer!InnerTry, Outer!RunTry, Outer!Stages, Failed
<1>4. OuterFiles'
  BY <1>1, NoRawMeans, FilesApart
     DEF OuterInv, OuterShapes, OuterFiles, Early, Outer!Stages, Outer!InnerTry
<1>5. OuterThreads'
  BY <1>1, NoRawMeans, FilesApart
     DEF OuterInv, OuterFiles, OuterThreads, VerdictTrue, Early
<1>6. InnerAt'
  BY <1>1, NoRawMeans, FilesApart DEF OuterInv, OuterFiles, InnerAt, Early, Outer!Stages
<1>7. DraftHolds'
  BY <1>1, NoRawMeans, FilesApart
     DEF OuterInv, OuterShapes, OuterThreads, InnerAt, DraftHolds, Early, Outer!Stages,
         Outer!InnerTry, Judging, Outer!Cut
<1>8. FailureHolds'
  BY <1>1, NoRawMeans, FilesApart
     DEF OuterInv, OuterShapes, OuterFiles, OuterThreads, InnerAt, DraftHolds,
         FailureHolds, Early, Outer!Stages, Outer!InnerTry, Outer!RunTry, Failed
<1>9. RecordHolds'
  BY <1>1, NoRawMeans, FilesApart
     DEF OuterInv, OuterShapes, OuterFiles, RecordHolds, Judging, Inners, Outer!InnerTry
<1>10. VerdictTrue'  BY <1>1 DEF OuterInv, VerdictTrue, Outer!InnerAgrees
<1>11. QED  BY <1>2, <1>3, <1>4, <1>5, <1>6, <1>7, <1>8, <1>9, <1>10 DEF OuterInv

\* The failure path records nothing of the inner gate.
LEMMA BeginFailureInv == ASSUME OuterInv, Outer!BeginFailure PROVE OuterInv'
<1>1. /\ outerPc = "failing" /\ outerPc' = "fail record" /\ monitor' = "stopped"
      /\ record' = [seen |-> record.seen, size |-> record.size, inner |-> "none"]
      /\ UNCHANGED <<attempt, verdict, raw, inner, armed, ran, draft, bound, pending,
                     code>>
  BY DEF Outer!BeginFailure, Outer!Goto, OuterInv, RecordHolds
<1>2. OuterShapes'
  <2>1. monitor' \in {"off", "watching", "fired", "stopped"}  BY <1>1
  <2>2. QED  BY <1>1, <2>1 DEF OuterInv, OuterShapes
<1>3. (outerPc \in OuterSteps)'
  BY <1>1 DEF OuterInv, OuterSteps, Outer!InnerTry, Outer!RunTry, Outer!Stages, Failed
<1>4. OuterFiles'
  BY <1>1, NoRawMeans, FilesApart
     DEF OuterInv, OuterShapes, OuterFiles, Early, Outer!Stages, Outer!InnerTry
<1>5. OuterThreads'
  BY <1>1, NoRawMeans, FilesApart
     DEF OuterInv, OuterFiles, OuterThreads, VerdictTrue, Early
<1>6. InnerAt'
  BY <1>1, NoRawMeans, FilesApart DEF OuterInv, OuterFiles, InnerAt, Early, Outer!Stages
<1>7. DraftHolds'
  BY <1>1, NoRawMeans, FilesApart
     DEF OuterInv, OuterShapes, OuterThreads, InnerAt, DraftHolds, Early, Outer!Stages,
         Outer!InnerTry, Judging, Outer!Cut
<1>8. FailureHolds'
  BY <1>1, NoRawMeans, FilesApart
     DEF OuterInv, OuterShapes, OuterFiles, OuterThreads, InnerAt, DraftHolds,
         FailureHolds, Early, Outer!Stages, Outer!InnerTry, Outer!RunTry, Failed
<1>9. RecordHolds'
  BY <1>1, NoRawMeans, FilesApart
     DEF OuterInv, OuterShapes, OuterFiles, RecordHolds, Judging, Inners, Outer!InnerTry
<1>10. VerdictTrue'
  BY <1>1, NoRawMeans, FilesApart
     DEF OuterInv, OuterFiles, VerdictTrue, Early, Outer!Stages, Outer!InnerTry
<1>11. QED  BY <1>2, <1>3, <1>4, <1>5, <1>6, <1>7, <1>8, <1>9, <1>10 DEF OuterInv

\* What the failure path writes is so: it says failure, and nothing of an inner
\* gate.
LEMMA WriteFailureInv == ASSUME OuterInv, Outer!WriteFailure PROVE OuterInv'
<1>1. /\ outerPc = "fail writing" /\ outerPc' = "over" /\ code' = "1"
      /\ verdict'.is = "verdict" /\ verdict'.rec = record
      /\ verdict'.status = "failure" /\ verdict'.class # "success"
      /\ verdict'.armed = IF record.inner = "none" THEN 0 ELSE armed
      /\ UNCHANGED <<attempt, raw, inner, armed, ran, draft, record, monitor, bound,
                     pending>>
  <2>1. PICK d : /\ d.status = "failure" /\ d.class # "success"
                 /\ verdict' = Outer!OuterVerdict(d, record)
    BY FailureMeans DEF Outer!WriteFailure, OuterInv, FailureHolds, DraftHolds
  <2>2. /\ verdict'.is = "verdict" /\ verdict'.rec = record
        /\ verdict'.status = "failure" /\ verdict'.class # "success"
        /\ verdict'.armed = IF record.inner = "none" THEN 0 ELSE armed
    BY <2>1, VerdictMeans
  <2>3. QED  BY <2>2 DEF Outer!WriteFailure, Outer!Exit, Outer!Goto
<1>2. OuterShapes'
  <2>1. verdict'.is \in {"absent", "torn", "verdict"} /\ code' \in {"none", "0", "1", "124", "dead"}
    BY <1>1
  <2>2. QED  BY <1>1, <2>1 DEF OuterInv, OuterShapes
<1>3. (outerPc \in OuterSteps)'
  BY <1>1 DEF OuterInv, OuterSteps, Outer!InnerTry, Outer!RunTry, Outer!Stages, Failed
<1>4. OuterFiles'
  BY <1>1, NoRawMeans, FilesApart
     DEF OuterInv, OuterShapes, OuterFiles, Early, Outer!Stages, Outer!InnerTry
<1>5. OuterThreads'
  BY <1>1, NoRawMeans, FilesApart
     DEF OuterInv, OuterFiles, OuterThreads, VerdictTrue, Early
<1>6. InnerAt'
  BY <1>1, NoRawMeans, FilesApart DEF OuterInv, OuterFiles, InnerAt, Early, Outer!Stages
<1>7. DraftHolds'
  BY <1>1, NoRawMeans, FilesApart
     DEF OuterInv, OuterShapes, OuterThreads, InnerAt, DraftHolds, Early, Outer!Stages,
         Outer!InnerTry, Judging, Outer!Cut
<1>8. FailureHolds'
  BY <1>1, NoRawMeans, FilesApart
     DEF OuterInv, OuterShapes, OuterFiles, OuterThreads, InnerAt, DraftHolds,
         FailureHolds, Early, Outer!Stages, Outer!InnerTry, Outer!RunTry, Failed
<1>9. RecordHolds'
  BY <1>1, NoRawMeans, FilesApart
     DEF OuterInv, OuterShapes, OuterFiles, RecordHolds, Judging, Inners, Outer!InnerTry
<1>10. VerdictTrue'
  <2>1. /\ record.size = raw /\ raw = Outer!Kept(record.seen) /\ record.inner = "none"
        /\ record \in [seen : Nat, size : Nat, inner : Inners]
    BY <1>1 DEF OuterInv, RecordHolds, FailureHolds
  <2>2. QED  BY <1>1, <2>1 DEF VerdictTrue, Outer!InnerAgrees
<1>11. QED  BY <1>2, <1>3, <1>4, <1>5, <1>6, <1>7, <1>8, <1>9, <1>10 DEF OuterInv

\* An interrupt is there only when a bound was reached.
LEMMA InterruptedInv == ASSUME OuterInv, Outer!Interrupted PROVE OuterInv'
<1>a. code = "none" /\ outerPc # "over" /\ pending /\ bound # "none"
  BY DEF Outer!Interrupted, Outer!Running, OuterInv, OuterThreads
<1>1. /\ outerPc # "over" /\ bound # "none" /\ pending' = FALSE
      /\ \/ /\ outerPc \in Outer!InnerTry /\ outerPc' = "detach" /\ code' = code
            /\ draft'.status = "failure" /\ draft'.class # "success"
         \/ /\ outerPc \in Outer!RunTry /\ outerPc' = "failing" /\ code' = code
            /\ draft'.status = "failure" /\ draft'.class # "success"
         \/ /\ outerPc \in Failed \cup {"fail writing"} /\ outerPc' = "over"
            /\ code' = "1"
            /\ draft' = draft
      /\ UNCHANGED <<attempt, verdict, raw, inner, armed, ran, record, monitor, bound>>
  <2>1. CASE outerPc \in Outer!InnerTry /\ Outer!InnerRaises /\ UNCHANGED code
    BY <1>a, <2>1, FailureMeans DEF Outer!Interrupted, Outer!InnerRaises, Outer!Goto
  <2>2. CASE /\ outerPc \in Outer!RunTry /\ Outer!Goto("failing") /\ UNCHANGED code
             /\ draft' = Outer!Failure(IF outerPc \in Outer!Stages THEN outerPc
                                 ELSE "outer-launcher")
    <3>1. (IF outerPc \in Outer!Stages THEN outerPc ELSE "outer-launcher") # "success"
      BY DEF Outer!Stages
    <3>2. QED  BY <1>a, <2>2, <3>1, FailureMeans DEF Outer!Interrupted, Outer!Goto
  <2>3. CASE /\ outerPc \in {"failing", "fail record", "fail create", "fail writing"}
             /\ Outer!Exit("1") /\ UNCHANGED draft
    BY <1>a, <2>3 DEF Outer!Interrupted, Outer!Exit, Outer!Goto, Failed
  <2>4. QED  BY <2>1, <2>2, <2>3 DEF Outer!Interrupted
<1>2. OuterShapes'
  <2>1. /\ draft'.status \in {"success", "failure"}
        /\ code' \in {"none", "0", "1", "124", "dead"} /\ pending' \in BOOLEAN
        /\ monitor' \in {"off", "watching", "fired", "stopped"}
    BY <1>1 DEF OuterInv, OuterShapes
  <2>2. QED  BY <1>1, <2>1 DEF OuterInv, OuterShapes
<1>3. (outerPc \in OuterSteps)'
  BY <1>1 DEF OuterInv, OuterSteps, Outer!InnerTry, Outer!RunTry, Outer!Stages, Failed
<1>4. OuterFiles'
  BY <1>1, NoRawMeans, FilesApart
     DEF OuterInv, OuterShapes, OuterFiles, Early, Outer!Stages, Outer!InnerTry,
                                                   Outer!RunTry, Failed
<1>5. OuterThreads'
  BY <1>1, NoRawMeans, FilesApart
     DEF OuterInv, OuterFiles, OuterThreads, VerdictTrue, Early
<1>6. InnerAt'
  BY <1>1, NoRawMeans, FilesApart DEF OuterInv, OuterFiles, InnerAt, Early, Outer!Stages
<1>7. DraftHolds'
  BY <1>1, NoRawMeans, FilesApart
     DEF OuterInv, OuterShapes, OuterThreads, InnerAt, DraftHolds, Early, Outer!Stages,
         Outer!InnerTry, Judging, Outer!Cut
<1>8. FailureHolds'
  BY <1>1, NoRawMeans, FilesApart
     DEF OuterInv, OuterShapes, OuterFiles, OuterThreads, InnerAt, DraftHolds,
         FailureHolds, Early, Outer!Stages, Outer!InnerTry, Outer!RunTry, Failed
<1>9. RecordHolds'
  BY <1>1, NoRawMeans, FilesApart
     DEF OuterInv, OuterShapes, OuterFiles, RecordHolds, Judging, Inners, Outer!InnerTry
<1>10. VerdictTrue'
  BY <1>1, FilesApart DEF OuterInv, OuterThreads, VerdictTrue, Outer!InnerTry
<1>11. QED  BY <1>2, <1>3, <1>4, <1>5, <1>6, <1>7, <1>8, <1>9, <1>10 DEF OuterInv

\* The monitor records the bound before it interrupts.
LEMMA FireInv == ASSUME OuterInv, Outer!Fire PROVE OuterInv'
<1>1. /\ outerPc' = outerPc /\ code = "none" /\ monitor = "watching"
      /\ monitor' = "fired" /\ pending' = TRUE
      /\ bound' \in {"timeout", "output"}
      /\ UNCHANGED <<attempt, verdict, raw, inner, armed, ran, draft, record, code>>
  BY DEF Outer!Fire, Outer!Running
<1>2. OuterShapes'  BY <1>1, NoRawMeans, FilesApart DEF OuterInv, OuterShapes, Inners
<1>3. (outerPc \in OuterSteps)'
  BY <1>1 DEF OuterInv, OuterSteps, Outer!InnerTry, Outer!RunTry, Outer!Stages, Failed
<1>4. OuterFiles'
  BY <1>1, NoRawMeans, FilesApart
     DEF OuterInv, OuterShapes, OuterFiles, Early, Outer!Stages, Outer!InnerTry
<1>5. OuterThreads'
  BY <1>1, NoRawMeans, FilesApart
     DEF OuterInv, OuterFiles, OuterThreads, VerdictTrue, Early
<1>6. InnerAt'
  BY <1>1, NoRawMeans, FilesApart DEF OuterInv, OuterFiles, InnerAt, Early, Outer!Stages
<1>7. DraftHolds'
  BY <1>1, NoRawMeans, FilesApart
     DEF OuterInv, OuterShapes, OuterThreads, InnerAt, DraftHolds, Early, Outer!Stages,
         Outer!InnerTry, Judging, Outer!Cut
<1>8. FailureHolds'
  BY <1>1, NoRawMeans, FilesApart
     DEF OuterInv, OuterShapes, OuterFiles, OuterThreads, InnerAt, DraftHolds,
         FailureHolds, Early, Outer!Stages, Outer!InnerTry, Outer!RunTry, Failed
<1>9. RecordHolds'
  BY <1>1, NoRawMeans, FilesApart
     DEF OuterInv, OuterShapes, OuterFiles, RecordHolds, Judging, Inners, Outer!InnerTry
<1>10. VerdictTrue'
  BY <1>1, NoRawMeans, FilesApart
     DEF OuterInv, OuterFiles, VerdictTrue, Early, Outer!Stages, Outer!InnerTry
<1>11. QED  BY <1>2, <1>3, <1>4, <1>5, <1>6, <1>7, <1>8, <1>9, <1>10 DEF OuterInv

\* A hard exit changes no evidence.
LEMMA HardExitInv == ASSUME OuterInv, Outer!HardExit PROVE OuterInv'
<1>1. /\ outerPc # "over" /\ outerPc' = "over" /\ code' = "124"
      /\ UNCHANGED <<attempt, verdict, raw, inner, armed, ran, draft, record, monitor,
                     bound, pending>>
  BY DEF Outer!HardExit, Outer!Exit, Outer!Goto, Outer!Running, OuterInv, OuterThreads
<1>2. OuterShapes'  BY <1>1, NoRawMeans, FilesApart DEF OuterInv, OuterShapes, Inners
<1>3. (outerPc \in OuterSteps)'
  BY <1>1 DEF OuterInv, OuterSteps, Outer!InnerTry, Outer!RunTry, Outer!Stages, Failed
<1>4. OuterFiles'
  BY <1>1, NoRawMeans, FilesApart
     DEF OuterInv, OuterShapes, OuterFiles, Early, Outer!Stages, Outer!InnerTry
<1>5. OuterThreads'
  BY <1>1, NoRawMeans, FilesApart
     DEF OuterInv, OuterFiles, OuterThreads, VerdictTrue, Early
<1>6. InnerAt'
  BY <1>1, NoRawMeans, FilesApart DEF OuterInv, OuterFiles, InnerAt, Early, Outer!Stages
<1>7. DraftHolds'
  BY <1>1, NoRawMeans, FilesApart
     DEF OuterInv, OuterShapes, OuterThreads, InnerAt, DraftHolds, Early, Outer!Stages,
         Outer!InnerTry, Judging, Outer!Cut
<1>8. FailureHolds'
  BY <1>1, NoRawMeans, FilesApart
     DEF OuterInv, OuterShapes, OuterFiles, OuterThreads, InnerAt, DraftHolds,
         FailureHolds, Early, Outer!Stages, Outer!InnerTry, Outer!RunTry, Failed
<1>9. RecordHolds'
  BY <1>1, NoRawMeans, FilesApart
     DEF OuterInv, OuterShapes, OuterFiles, RecordHolds, Judging, Inners, Outer!InnerTry
<1>10. VerdictTrue'  BY <1>1 DEF OuterInv, VerdictTrue, Outer!InnerAgrees
<1>11. QED  BY <1>2, <1>3, <1>4, <1>5, <1>6, <1>7, <1>8, <1>9, <1>10 DEF OuterInv

\* Neither does a crash.
LEMMA DieInv == ASSUME OuterInv, Outer!Die PROVE OuterInv'
<1>1. /\ outerPc # "over" /\ outerPc' = "over" /\ code' = "dead"
      /\ UNCHANGED <<attempt, verdict, raw, inner, armed, ran, draft, record, monitor,
                     bound, pending>>
  BY DEF Outer!Die, Outer!Exit, Outer!Goto, Outer!Running, OuterInv, OuterThreads
<1>2. OuterShapes'  BY <1>1, NoRawMeans, FilesApart DEF OuterInv, OuterShapes, Inners
<1>3. (outerPc \in OuterSteps)'
  BY <1>1 DEF OuterInv, OuterSteps, Outer!InnerTry, Outer!RunTry, Outer!Stages, Failed
<1>4. OuterFiles'
  BY <1>1, NoRawMeans, FilesApart
     DEF OuterInv, OuterShapes, OuterFiles, Early, Outer!Stages, Outer!InnerTry
<1>5. OuterThreads'
  BY <1>1, NoRawMeans, FilesApart
     DEF OuterInv, OuterFiles, OuterThreads, VerdictTrue, Early
<1>6. InnerAt'
  BY <1>1, NoRawMeans, FilesApart DEF OuterInv, OuterFiles, InnerAt, Early, Outer!Stages
<1>7. DraftHolds'
  BY <1>1, NoRawMeans, FilesApart
     DEF OuterInv, OuterShapes, OuterThreads, InnerAt, DraftHolds, Early, Outer!Stages,
         Outer!InnerTry, Judging, Outer!Cut
<1>8. FailureHolds'
  BY <1>1, NoRawMeans, FilesApart
     DEF OuterInv, OuterShapes, OuterFiles, OuterThreads, InnerAt, DraftHolds,
         FailureHolds, Early, Outer!Stages, Outer!InnerTry, Outer!RunTry, Failed
<1>9. RecordHolds'
  BY <1>1, NoRawMeans, FilesApart
     DEF OuterInv, OuterShapes, OuterFiles, RecordHolds, Judging, Inners, Outer!InnerTry
<1>10. VerdictTrue'  BY <1>1 DEF OuterInv, VerdictTrue, Outer!InnerAgrees
<1>11. QED  BY <1>2, <1>3, <1>4, <1>5, <1>6, <1>7, <1>8, <1>9, <1>10 DEF OuterInv

\* Output is counted while the streams are attached.
LEMMA OutputInv == ASSUME OuterInv, Outer!Output PROVE OuterInv'
<1>1. /\ outerPc' = outerPc
      /\ \/ outerPc \in Outer!Stages \cup Outer!InnerTry
         \/ outerPc = "fail record" /\ verdict = Outer!Absent
      /\ raw \in 0..OutCap /\ raw' = raw + 1 /\ raw # Outer!NoRaw /\ raw' # Outer!NoRaw
      /\ UNCHANGED <<attempt, verdict, inner, armed, ran, draft, record, monitor, bound,
                     pending, code>>
  <2>1. raw <= OutCap /\ raw' = raw + 1  BY DEF Outer!Output
  <2>2. raw \in 0..(OutCap + 2)  BY DEF OuterInv, OuterShapes
  <2>3. raw \in 0..OutCap /\ raw # Outer!NoRaw /\ raw' # Outer!NoRaw
    BY <2>1, <2>2, NoRawMeans
  <2>4. QED  BY <2>1, <2>3 DEF Outer!Output
<1>a. raw' \in 0..(OutCap + 2)
  <2>1. raw \in 0..OutCap /\ raw' = raw + 1  BY <1>1
  <2>2. QED  BY <2>1, NoRawMeans
<1>2. OuterShapes'  BY <1>1, <1>a DEF OuterInv, OuterShapes
<1>3. (outerPc \in OuterSteps)'
  BY <1>1 DEF OuterInv, OuterSteps, Outer!InnerTry, Outer!RunTry, Outer!Stages, Failed
<1>4. OuterFiles'
  BY <1>1, NoRawMeans, FilesApart
     DEF OuterInv, OuterShapes, OuterFiles, Early, Outer!Stages, Outer!InnerTry
<1>5. OuterThreads'
  BY <1>1, NoRawMeans, FilesApart
     DEF OuterInv, OuterFiles, OuterThreads, VerdictTrue, Early
<1>6. InnerAt'
  BY <1>1, NoRawMeans, FilesApart DEF OuterInv, OuterFiles, InnerAt, Early, Outer!Stages
<1>7. DraftHolds'
  BY <1>1, NoRawMeans, FilesApart
     DEF OuterInv, OuterShapes, OuterThreads, InnerAt, DraftHolds, Early, Outer!Stages,
         Outer!InnerTry, Judging, Outer!Cut
<1>8. FailureHolds'
  BY <1>1, NoRawMeans, FilesApart
     DEF OuterInv, OuterShapes, OuterFiles, OuterThreads, InnerAt, DraftHolds,
         FailureHolds, Early, Outer!Stages, Outer!InnerTry, Outer!RunTry, Failed
<1>9. RecordHolds'
  BY <1>1 DEF OuterInv, RecordHolds, Outer!Stages, Outer!InnerTry, Judging
<1>10. VerdictTrue'
  BY <1>1, NoRawMeans, FilesApart
     DEF OuterInv, OuterFiles, VerdictTrue, Early, Outer!Stages, Outer!InnerTry
<1>11. QED  BY <1>2, <1>3, <1>4, <1>5, <1>6, <1>7, <1>8, <1>9, <1>10 DEF OuterInv


\* No step breaks the invariant.
LEMMA OuterKeeps == ASSUME OuterInv, [Outer!Next]_(Outer!outerVars) PROVE OuterInv'
<1>1. CASE UNCHANGED Outer!outerVars
  <2>1. /\ outerPc' = outerPc /\ code' = code
        /\ UNCHANGED <<attempt, verdict, raw, inner, armed, ran, draft, record, monitor,
                       bound, pending>>
    BY <1>1 DEF Outer!outerVars
  <2>2. OuterShapes' /\ (outerPc \in OuterSteps)'  BY <2>1 DEF OuterInv, OuterShapes
  <2>3. OuterFiles' /\ OuterThreads' /\ InnerAt'
    <3>1. OuterFiles'  BY <2>1 DEF OuterInv, OuterFiles
    <3>2. OuterThreads' /\ InnerAt'  BY <2>1 DEF OuterInv, OuterThreads, InnerAt
    <3>3. QED  BY <3>1, <3>2
  <2>4. DraftHolds' /\ FailureHolds'
    BY <2>1 DEF OuterInv, DraftHolds, FailureHolds, Outer!Cut
  <2>5. RecordHolds'  BY <2>1 DEF OuterInv, RecordHolds
  <2>6. VerdictTrue'  BY <2>1 DEF OuterInv, VerdictTrue, Outer!InnerAgrees
  <2>7. QED  BY <2>2, <2>3, <2>4, <2>5, <2>6 DEF OuterInv
<1>2. CASE Outer!MainStep
  BY <1>2, ParseDeliveryInv, CreateOuterAttemptInv, WriteOuterAttemptInv, OpenOuterRawInv,
     CheckIdentityInv, ReadPlanInv, CompileLauncherInv, CheckOuterAttemptInv, CheckPlanInv, MakeInnerInv,
     PrepareInnerInv, ReleaseInv, AnswerInnerInv, AdapterCatchesInv, TakeAnswerInv,
     ArmInv, RecordRawInv, SealingFailsInv, SampleBoundInv, SummariseInv, CreateOuterVerdictInv,
     WriteOuterVerdictInv, ReturnOuterInv, BeginFailureInv, WriteFailureInv,
     InterruptedInv DEF Outer!MainStep
<1>3. CASE Outer!MonitorStep \/ Outer!Output \/ Outer!Die
  BY <1>3, FireInv, HardExitInv, OutputInv, DieInv DEF Outer!MonitorStep
<1>4. QED  BY <1>1, <1>2, <1>3 DEF Outer!Next

\* The outer entry begins with nothing.
LEMMA OuterBegins == ASSUME Outer!Init PROVE OuterInv
<1>1. OuterShapes /\ outerPc \in OuterSteps
  <2>1. raw \in 0..(OutCap + 2)  BY NoRawMeans DEF Outer!Init
  <2>2. draft.status = "failure"  BY FailureMeans DEF Outer!Init
  <2>3. /\ outerPc = "start" /\ attempt = Outer!Absent /\ verdict = Outer!Absent
        /\ inner = "none"
        /\ armed = 0 /\ ran = FALSE /\ monitor = "off" /\ bound = "none"
        /\ pending = FALSE /\ code = "none"
    BY DEF Outer!Init
  <2>4. verdict.is = "absent" /\ outerPc \in OuterSteps
    BY <2>3, FilesApart DEF OuterSteps
  <2>5. armed \in 0..1  BY <2>3
  <2>6. ran \in BOOLEAN /\ pending \in BOOLEAN  BY <2>3, Zenon
  <2>7. QED  BY <2>1, <2>2, <2>3, <2>4, <2>5, <2>6 DEF OuterShapes, Inners, Attempts
<1>2. OuterFiles /\ OuterThreads /\ InnerAt
  BY NoRawMeans, FilesApart
     DEF Outer!Init, OuterFiles, OuterThreads, InnerAt, Early, Outer!Stages,
         Outer!InnerTry
<1>3. DraftHolds /\ FailureHolds
  BY FailureMeans DEF Outer!Init, DraftHolds, FailureHolds, Failed, Judging
<1>4. RecordHolds /\ VerdictTrue
  BY FilesApart DEF Outer!Init, RecordHolds, VerdictTrue, Judging, Inners
<1>5. QED  BY <1>1, <1>2, <1>3, <1>4 DEF OuterInv

\* The attempt is written before any of this, and nobody passes the check of the
\* launcher but with one that has no flaw.
LEMMA TrustKeeps == ASSUME OuterInv, Trust, [Outer!Next]_(Outer!outerVars) PROVE Trust'
<1> DEFINE Behind == Outer!InnerTry \cup {"detach", "bound"} \cup Judging
<1>a. Behind = {"chain", "authority", "inner", "adapter", "adapted", "answered", "detach",
                "bound", "summary", "create", "writing", "returned"}
  BY DEF Outer!InnerTry, Judging
<1>1. CASE Outer!CreateOuterAttempt \/ Outer!WriteOuterAttempt
  <2>1. verdict = Outer!Absent /\ verdict' = verdict
    BY <1>1 DEF Outer!CreateOuterAttempt, Outer!WriteOuterAttempt, OuterInv, OuterFiles,
                Early
  <2>2. outerPc' \in {"marking", "over", "opening"}
    BY <1>1 DEF Outer!CreateOuterAttempt, Outer!WriteOuterAttempt, Outer!Goto, Outer!Exit
  <2>3. QED  BY <1>a, <2>1, <2>2, FilesApart DEF Trust
<1>2. CASE Outer!CheckOuterAttempt
  <2>1. /\ attempt' = attempt /\ verdict' = verdict
        /\ Outer!WholeOuterAttempt \/ outerPc' = "failing"
    BY <1>2 DEF Outer!CheckOuterAttempt, Outer!Goto
  <2>2. QED  BY <1>a, <2>1 DEF Trust, Outer!WholeOuterAttempt
<1>3. CASE Outer!WriteOuterVerdict
  <2>1. outerPc \in Behind /\ attempt' = attempt
    BY <1>a, <1>3 DEF Outer!WriteOuterVerdict
  <2>2. QED  BY <2>1 DEF Trust, Outer!WholeOuterAttempt
<1>4. CASE Outer!WriteFailure
  <2>1. /\ verdict'.status = "failure" /\ attempt' = attempt /\ outerPc' = "over"
    <3>1. PICK d : d.status = "failure" /\ verdict' = Outer!OuterVerdict(d, record)
      BY <1>4, FailureMeans DEF Outer!WriteFailure, OuterInv, FailureHolds
    <3>2. verdict'.status = "failure"  BY <3>1, VerdictMeans
    <3>3. QED  BY <1>4, <3>2 DEF Outer!WriteFailure, Outer!Exit, Outer!Goto
  <2>2. QED  BY <1>a, <2>1 DEF Trust
<1>5. CASE Outer!CreateOuterVerdict
  <2>1. /\ attempt' = attempt
        /\ verdict' = verdict \/ verdict' = Outer!Torn
        /\ outerPc' \in Behind => outerPc \in Behind
    BY <1>a, <1>5 DEF Outer!CreateOuterVerdict, Outer!Goto, Outer!Exit
  <2>2. QED  BY <2>1, FilesApart DEF Trust, Outer!WholeOuterAttempt
<1>6. ASSUME UNCHANGED <<attempt, verdict>>, outerPc' \in Behind => outerPc \in Behind
      PROVE  Trust'
  BY <1>6 DEF Trust, Outer!WholeOuterAttempt
<1>7. CASE \/ Outer!ParseDelivery \/ Outer!OpenOuterRaw \/ Outer!CheckIdentity
           \/ Outer!ReadPlan \/ Outer!CompileLauncher \/ Outer!CheckPlan
           \/ Outer!MakeInner \/ Outer!PrepareInner \/ Outer!Arm \/ Outer!Release
  <2>1. /\ UNCHANGED <<attempt, verdict>>
        /\ outerPc' \in Behind => outerPc \in Behind
    BY <1>a, <1>7
       DEF Outer!ParseDelivery, Outer!OpenOuterRaw, Outer!CheckIdentity, Outer!ReadPlan,
           Outer!CompileLauncher, Outer!Stage, Outer!CheckPlan, Outer!MakeInner,
           Outer!PrepareInner, Outer!Arm, Outer!Release, Outer!Goto, Outer!Exit
  <2>2. QED  BY <1>6, <2>1
<1>8. CASE \/ Outer!AnswerInner \/ Outer!AdapterCatches \/ Outer!TakeAnswer
           \/ Outer!RecordRaw \/ Outer!SealingFails \/ Outer!SampleBound
           \/ Outer!Summarise \/ Outer!ReturnOuter \/ Outer!BeginFailure
           \/ Outer!Interrupted
  <2>1. /\ UNCHANGED <<attempt, verdict>>
        /\ outerPc' \in Behind => outerPc \in Behind
    BY <1>a, <1>8
       DEF Outer!AnswerInner, Outer!AdapterCatches, Outer!TakeAnswer, Outer!RecordRaw,
           Outer!SealingFails, Outer!SampleBound, Outer!Summarise, Outer!ReturnOuter,
           Outer!BeginFailure, Outer!Interrupted, Outer!InnerRaises, Outer!InnerTry,
           Outer!Goto, Outer!Exit
  <2>2. QED  BY <1>6, <2>1
<1>9. CASE Outer!MonitorStep \/ Outer!Output \/ Outer!Die
  <2>1. /\ UNCHANGED <<attempt, verdict>>
        /\ outerPc' \in Behind => outerPc \in Behind
    BY <1>a, <1>9
       DEF Outer!MonitorStep, Outer!Fire, Outer!HardExit, Outer!Output, Outer!Die,
           Outer!Exit, Outer!Goto
  <2>2. QED  BY <1>6, <2>1
<1>10. CASE UNCHANGED Outer!outerVars
  BY <1>6, <1>10 DEF Outer!outerVars
<1>11. QED
  BY <1>1, <1>2, <1>3, <1>4, <1>5, <1>7, <1>8, <1>9, <1>10 DEF Outer!Next, Outer!MainStep

\* What the audit answers under the invariant.
LEMMA OuterAuditHolds == ASSUME OuterInv, Trust PROVE Outer!OuterAuditIsTrue
<1>1. Outer!TypeOK  BY ShapesAreTypes DEF OuterInv
<1>2. Outer!WholeOuterAttempt => attempt # Outer!Absent
  BY FilesApart DEF Outer!WholeOuterAttempt
<1>3. Outer!OuterSuccessIsTrue
  <2> SUFFICES ASSUME Outer!OuterAudit = Outer!Answered("complete", "success")
               PROVE  inner = "success" /\ ran /\ armed = 1 /\ raw <= OutCap /\ ~Outer!Cut
    BY DEF Outer!OuterSuccessIsTrue
  <2>1. /\ verdict.is = "verdict" /\ verdict.status = "success"
    BY DEF Outer!OuterAudit, Outer!Answered
  <2>2. /\ inner = "success" /\ armed = 1 /\ raw = Outer!Kept(verdict.rec.seen)
        /\ verdict.rec.seen <= OutCap
        /\ record.seen = verdict.rec.seen \/ record.seen <= OutCap
        /\ verdict.rec.seen \in Nat /\ record.seen \in Nat
    BY <2>1 DEF OuterInv, VerdictTrue, RecordHolds
  <2>3. ran  BY <2>2 DEF OuterInv, InnerAt
  <2>4. QED  BY <2>2, <2>3, NoRawMeans DEF Outer!Kept, Outer!Cut
<1>4. Outer!ZeroIsAudited
  <2> SUFFICES ASSUME code = "0" PROVE Outer!OuterAudit = Outer!Answered("complete",
     "success")
    BY DEF Outer!ZeroIsAudited
  <2>1. verdict.is = "verdict" /\ verdict.status = "success"
    BY DEF OuterInv, OuterThreads
  <2>2. /\ verdict.class = "success" /\ verdict.armed = 1
        /\ inner = "success" /\ verdict.rec.inner = inner
        /\ raw = verdict.rec.size /\ raw = Outer!Kept(verdict.rec.seen)
    BY <2>1 DEF OuterInv, VerdictTrue
  <2>3. Outer!InnerAgrees(verdict)  BY <2>1, <2>2 DEF Outer!InnerAgrees
  <2>4. Outer!WholeOuterAttempt  BY <2>1 DEF Trust
  <2>5. QED  BY <1>2, <2>1, <2>2, <2>3, <2>4 DEF Outer!OuterAudit
<1>5. Outer!RejectedForReason
  <2> SUFFICES ASSUME verdict.is = "verdict", bound = "none", ~Outer!Cut,
                      Outer!WholeOuterAttempt,
                      verdict.rec.inner = "none" => inner = "none"
               PROVE  Outer!OuterAudit = Outer!Answered("complete", verdict.status)
    BY DEF Outer!RejectedForReason
  <2>1. /\ verdict.rec = record /\ verdict.rec.seen \in Nat
        /\ verdict.rec.seen <= OutCap => Outer!InnerAgrees(verdict)
        /\ verdict.status \in {"success", "failure"}
        /\ raw = verdict.rec.size /\ raw = Outer!Kept(verdict.rec.seen)
        /\ verdict.status = "success" => verdict.class = "success" /\ verdict.armed = 1
        /\ verdict.status = "failure" => verdict.class # "success"
    BY DEF OuterInv, VerdictTrue
  <2>2. Outer!InnerAgrees(verdict)  BY <2>1, NoRawMeans DEF Outer!Cut
  <2>3. QED  BY <1>2, <2>1, <2>2 DEF Outer!OuterAudit
<1>6. QED  BY <1>1, <1>3, <1>4, <1>5 DEF Outer!OuterAuditIsTrue

(* Whatever the stages do, whenever the monitor fires and wherever its        *)
(* interrupt arrives: the exit code, the verdict and the audit of an outer    *)
(* transaction agree with what happened in it (run_outer_entry, _run, the     *)
(* monitor thread and audit_outer).  Nothing is assumed of the main thread.   *)
THEOREM OuterTellsTheTruth == Outer!MonitorSpec => []OuterAuditIsTrue
<1>1. OuterInv /\ Trust /\ [Outer!Next]_(Outer!outerVars) => OuterInv' /\ Trust'
  BY OuterKeeps, TrustKeeps
<1>2. Outer!Init => OuterInv /\ Trust
  BY OuterBegins, FilesApart DEF Outer!Init, Trust, Outer!InnerTry, Judging
<1>3. OuterInv /\ Trust => OuterAuditIsTrue  BY OuterAuditHolds DEF OuterAuditIsTrue
<1>4. QED  BY <1>1, <1>2, <1>3, PTL DEF Outer!MonitorSpec

\* A step of the outer entry is a step of the promise, or changes nothing of it.
LEMMA OuterStepKept ==
  ASSUME OuterInv, [Outer!Next]_(Outer!outerVars) PROVE
     [Outer!OuterPromise!Next]_(Outer!OuterPromise!vars)
<1> USE FilesApart
<1> USE DEF Outer!OuterPromise!vars
<1>1. CASE UNCHANGED <<attempt, verdict, ran>>  BY <1>1
<1>2. CASE Outer!CreateOuterAttempt
  <2>1. /\ attempt = Outer!Absent /\ verdict = Outer!Absent /\ UNCHANGED <<verdict, ran>>
        /\ attempt' = Outer!Torn \/ attempt' = attempt
    BY <1>2 DEF Outer!CreateOuterAttempt, OuterInv, OuterFiles, Early
  <2>2. QED  BY <2>1 DEF Outer!OuterPromise!Next, Outer!OuterPromise!Consume
<1>3. CASE Outer!WriteOuterAttempt
  BY <1>3 DEF Outer!WriteOuterAttempt, OuterInv, OuterFiles
<1>4. CASE Outer!Release
  <2>1. /\ verdict = Outer!Absent /\ attempt.is = "attempt" /\ ~ran /\ ran'
        /\ UNCHANGED <<attempt, verdict>>
    BY <1>4 DEF Outer!Release, Outer!Gate!Start, OuterInv, OuterFiles, Outer!InnerTry
  <2>2. QED
    BY <2>1, <1>4
       DEF Outer!OuterPromise!Next, Outer!OuterPromise!Start, Outer!Release,
           Outer!Gate!Start
<1>5. CASE Outer!CreateOuterVerdict
  <2>1. attempt.is = "attempt"  BY <1>5 DEF Outer!CreateOuterVerdict, OuterInv, OuterFiles
  <2>2. QED  BY <1>5, <2>1 DEF Outer!CreateOuterVerdict
<1>6. CASE Outer!WriteOuterVerdict
  <2>1. /\ verdict = Outer!Torn /\ attempt.is = "attempt" /\ UNCHANGED <<attempt, ran>>
        /\ \/ verdict' = verdict
           \/ verdict'.is = "verdict" /\ verdict'.status = draft.status
    BY <1>6, VerdictMeans DEF Outer!WriteOuterVerdict, OuterInv, OuterFiles
  <2>2. \/ draft.status = "failure"
        \/ draft.status = "success" /\ ran
    <3>1. draft.status \in {"success", "failure"}  BY DEF OuterInv, OuterShapes
    <3>2. draft.status = "success" => inner = "success"  BY DEF OuterInv, DraftHolds
    <3>3. inner = "success" => ran  BY DEF OuterInv, InnerAt
    <3>4. QED  BY <3>1, <3>2, <3>3
  <2>3. QED  BY <2>1, <2>2 DEF Outer!OuterPromise!Next, Outer!OuterPromise!Answer
<1>7. CASE Outer!WriteFailure
  <2>1. verdict = Outer!Torn /\ attempt.is = "attempt" /\ UNCHANGED <<attempt, ran>>
    BY <1>7 DEF Outer!WriteFailure, OuterInv, OuterFiles
  <2>2. verdict'.is = "verdict" /\ verdict'.status = "failure"
    <3>1. PICK d : d.status = "failure" /\ verdict' = Outer!OuterVerdict(d, record)
      BY <1>7, FailureMeans DEF Outer!WriteFailure, OuterInv, FailureHolds
    <3>2. QED  BY <3>1, VerdictMeans
  <2>3. QED  BY <2>1, <2>2 DEF Outer!OuterPromise!Next, Outer!OuterPromise!Answer
<1>8. QED
  <2>1. CASE \/ Outer!ParseDelivery \/ Outer!OpenOuterRaw \/ Outer!CheckIdentity
             \/ Outer!ReadPlan \/ Outer!CompileLauncher \/ Outer!CheckOuterAttempt
             \/ Outer!CheckPlan \/ Outer!SealingFails
             \/ Outer!MakeInner \/ Outer!AdapterCatches \/ Outer!TakeAnswer \/ Outer!Arm
             \/ Outer!RecordRaw \/ Outer!SampleBound \/ Outer!Summarise
             \/ Outer!ReturnOuter \/ Outer!BeginFailure \/ Outer!Interrupted
    <3>1. UNCHANGED <<attempt, verdict, ran>>
      BY <2>1
         DEF Outer!ParseDelivery, Outer!OpenOuterRaw, Outer!CheckIdentity, Outer!ReadPlan,
             Outer!CompileLauncher, Outer!Stage, Outer!CheckOuterAttempt,
             Outer!CheckPlan, Outer!SealingFails, Outer!MakeInner, Outer!AdapterCatches,
             Outer!TakeAnswer, Outer!Arm, Outer!RecordRaw, Outer!SampleBound,
             Outer!Summarise, Outer!ReturnOuter, Outer!BeginFailure, Outer!Interrupted
    <3>2. QED  BY <1>1, <3>1
  <2>2. CASE Outer!PrepareInner \/ Outer!AnswerInner
    <3>1. UNCHANGED <<attempt, verdict, ran>>
      BY <2>2
         DEF Outer!PrepareInner, Outer!AnswerInner, Outer!Gate!Consume, Outer!Gate!Answer
    <3>2. QED  BY <1>1, <3>1
  <2>3. CASE Outer!MonitorStep \/ Outer!Output \/ Outer!Die
    <3>1. UNCHANGED <<attempt, verdict, ran>>
      BY <2>3 DEF Outer!MonitorStep, Outer!Fire, Outer!HardExit, Outer!Output, Outer!Die
    <3>2. QED  BY <1>1, <3>1
  <2>4. CASE UNCHANGED Outer!outerVars  BY <1>1, <2>4 DEF Outer!outerVars
  <2>5. QED
    BY <1>2, <1>3, <1>4, <1>5, <1>6, <1>7, <2>1, <2>2, <2>3, <2>4
       DEF Outer!Next, Outer!MainStep

(* The outer directory keeps the promise of a one-shot gate: it is consumed   *)
(* once, the target is released once at most, and the answer is final.        *)
THEOREM OuterKeepsPromise == Outer!MonitorSpec => OuterPromiseKept
<1>1. Outer!Init => Outer!OuterPromise!Init
  BY FilesApart DEF Outer!Init, Outer!OuterPromise!Init
<1>2. OuterInv /\ [Outer!Next]_(Outer!outerVars) =>
   [Outer!OuterPromise!Next]_(Outer!OuterPromise!vars)
  BY OuterStepKept
<1>3. OuterInv /\ [Outer!Next]_(Outer!outerVars) => OuterInv'  BY OuterKeeps
<1>4. Outer!Init => OuterInv  BY OuterBegins
<1>5. QED
  BY <1>1, <1>2, <1>3, <1>4, PTL
     DEF Outer!MonitorSpec, OuterPromiseKept, Outer!OuterPromiseKept,
                             Outer!OuterPromise!Spec
=============================================================================
