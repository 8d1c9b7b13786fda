---------------------------- MODULE Bench_proofs ----------------------------
(* Proofs about the bench harness.  The isolation of the runtime object: the  *)
(* developer's object is never lost, however often file calls fail and        *)
(* wherever a harness dies, and what the isolation says of an invocation is   *)
(* so.  The harness runs: run.py and combine.py, which decide the sample      *)
(* policy with different code, agree; a run that exits with 0 has sampled     *)
(* every lane in full; a combined baseline is whole, and honest runs are      *)
(* combined.                                                                  *)
EXTENDS MC_Bench, TLAPS, FiniteSetTheorems, WellFoundedInduction

-----------------------------------------------------------------------------
(* The isolation of the runtime object (RunnerRuntime).  One run is at work   *)
(* at a time; the object it found at the root is in its backup or, while that *)
(* is empty, at the root.                                                     *)

\* The errors a record may name.
Notices == {"restore failed", "cleanup failed", "backup gone", "staging kept",
            "not materialized", "replaced prepared", "not restored"}
RunRecord == [orig : Runtime!Contents, pre : Runtime!Contents, post : Runtime!Contents,
              begun : BOOLEAN, raised : BOOLEAN, errors : SUBSET Notices]

\* TypeOK, with the record of an invocation field by field.
RuntimeTypes ==
    /\ root \in Runtime!Contents
    /\ backup \in [Runtime!Tokens -> Runtime!Contents]
    /\ staging \in [Runtime!Tokens -> Runtime!Contents]
    /\ mode \in [Runs -> {"cold", "warm"}]
    /\ original \in [Runs -> Runtime!Contents]
    /\ sample \in [Runs -> 1 .. MaxSamples]
    /\ runtimePhase \in [Runs -> Runtime!Phases]
    /\ moved \in [Runs -> BOOLEAN]
    /\ rec \in [Runs -> RunRecord]
    /\ faults \in Nat /\ faults <= MaxFaults
    /\ crashes \in Nat /\ crashes <= MaxCrashes

AtWork(r) == runtimePhase[r] \notin {"idle", "begin", "ended", "aborted", "crashed"}
OneAtWork == \A q, r \in Runs : Runtime!Active(q) /\ Runtime!Active(r) => q = r

\* What a sample's lane declares to be at the root when it is measured.
Declared(r) == IF mode[r] = "cold" THEN Runtime!NoFile ELSE Runtime!Prepared(r)
Wanted(r)   == IF mode[r] = "cold" THEN Runtime!Built(r) ELSE Runtime!Prepared(r)

Aside == {"stage", "install", "pre", "measure", "post", "putback"}
Begun == {"measure", "post", "putback", "judge", "judged"}

\* The original of the run at work is in its backup or, while that is empty,
\* at the root; nobody else's object is mistaken for the developer's.
Held(r) == AtWork(r) =>
    /\ rec[r].orig = original[r]
    /\ \/ Runtime!AtBackup(r) = original[r]
       \/ Runtime!AtBackup(r) = Runtime!NoFile /\ root = original[r]
    /\ root = Runtime!User => original[r] = Runtime!User

\* Where the files are at each step.
Placed(r) ==
    /\ runtimePhase[r] = "move" =>
          root = original[r] /\ Runtime!AtBackup(r) = Runtime!NoFile /\ ~moved[r]
    /\ runtimePhase[r] \in Aside =>
           /\ Runtime!AtBackup(r) = original[r]
           /\ original[r] # Runtime!NoFile => moved[r]
    /\ runtimePhase[r] = "stage" => root = Runtime!NoFile
    /\ runtimePhase[r] = "install" =>
           mode[r] = "warm" /\ root = Runtime!NoFile /\ Runtime!AtStaging(r) = Runtime!Prepared(r)
    /\ runtimePhase[r] \in {"pre", "measure"} => root = Declared(r)
    /\ runtimePhase[r] = "post" => root \in {Declared(r), Runtime!Built(r), Runtime!NoFile}
    /\ runtimePhase[r] = "rollback" /\ ~moved[r] /\ Runtime!AtBackup(r) # Runtime!NoFile =>
          root = Runtime!NoFile

\* What the record says of the measurement.
Noted(r) ==
    /\ runtimePhase[r] \in {"move", "stage", "install", "pre", "rollback"} => ~rec[r].begun
    /\ runtimePhase[r] \in Begun => rec[r].begun
    /\ runtimePhase[r] \in Begun \cup {"unstage"} /\ rec[r].begun => rec[r].pre = Declared(r)
    /\ /\ runtimePhase[r] \in {"putback", "unstage", "judge", "judged"} /\ rec[r].begun
       /\ ~rec[r].raised /\ rec[r].errors = {}
       => rec[r].post = Wanted(r)
    /\ runtimePhase[r] = "judged" => ~rec[r].raised

\* What it means that no error was noted.
Clear(r) == rec[r].errors = {} =>
    /\ runtimePhase[r] \in {"unstage", "judge", "judged"} => Runtime!AtBackup(r) =
                            Runtime!NoFile
    /\ runtimePhase[r] \in {"judge", "judged"} => Runtime!AtStaging(r) = Runtime!NoFile
    /\ runtimePhase[r] = "unstage" /\ ~rec[r].begun => root = original[r]
    /\ runtimePhase[r] = "judged" => root = original[r]

RunHolds(r) == Held(r) /\ Placed(r) /\ Noted(r) /\ Clear(r)
RuntimeInv  == /\ RuntimeTypes /\ OneAtWork /\ Runtime!OriginalKept
               /\ \A r \in Runs : RunHolds(r)

\* The contents of a file are told apart by their first component.
LEMMA ContentsApart ==
  ASSUME NEW r \in Runs
  PROVE  /\ {Runtime!NoFile, Runtime!User, Runtime!Partial, Runtime!Prepared(r),
             Runtime!Built(r)} \subseteq Runtime!Contents
         /\ Runtime!NoFile # Runtime!User /\ Runtime!NoFile # Runtime!Prepared(r)
         /\ Runtime!NoFile # Runtime!Built(r)
         /\ Runtime!User # Runtime!Prepared(r) /\ Runtime!User # Runtime!Built(r)
         /\ Runtime!Prepared(r) # Runtime!Built(r)
<1>1. /\ Runtime!NoFile[1] = "none" /\ Runtime!User[1] = "user"
      /\ Runtime!Prepared(r)[1] = "prepared"
      /\ Runtime!Built(r)[1] = "built"
  BY DEF Runtime!NoFile, Runtime!User, Runtime!Prepared, Runtime!Built
<1>2. {Runtime!NoFile, Runtime!User, Runtime!Partial, Runtime!Prepared(r), Runtime!Built(r)}
       \subseteq Runtime!Contents
  BY DEF Runtime!Contents
<1>3. QED  BY <1>1, <1>2

\* Where a run at work keeps its files.
LEMMA OwnToken == ASSUME RuntimeTypes, NEW r \in Runs PROVE Runtime!Tok(r) \in Runtime!Tokens
BY DEF RuntimeTypes, Runtime!Tok, Runtime!Tokens

\* A write of one backup or staging file leaves the others alone.
LEMMA BackupMeans ==
  ASSUME RuntimeTypes, NEW r \in Runs, NEW c \in Runtime!Contents, Runtime!SetsBackup(r, c),
         UNCHANGED sample
  PROVE  /\ backup' \in [Runtime!Tokens -> Runtime!Contents] /\ Runtime!AtBackup(r)' = c
         /\ \A t \in Runtime!Tokens \ {Runtime!Tok(r)} : backup'[t] = backup[t]
<1>1. PICK k \in Runtime!Tokens : k = Runtime!Tok(r)  BY OwnToken
<1>2. backup \in [Runtime!Tokens -> Runtime!Contents] /\ backup' = [backup EXCEPT ![k] = c]
  BY <1>1 DEF RuntimeTypes, Runtime!SetsBackup
<1>3. Runtime!Tok(r)' = k  BY <1>1 DEF Runtime!Tok
<1>4. QED  BY <1>1, <1>2, <1>3 DEF Runtime!AtBackup

\* So does a write of a staging file.
LEMMA StagingMeans ==
  ASSUME RuntimeTypes, NEW r \in Runs, NEW c \in Runtime!Contents, Runtime!SetsStaging(r, c),
         UNCHANGED sample
  PROVE  staging' \in [Runtime!Tokens -> Runtime!Contents] /\ Runtime!AtStaging(r)' = c
<1>1. PICK k \in Runtime!Tokens : k = Runtime!Tok(r)  BY OwnToken
<1>2. staging \in [Runtime!Tokens -> Runtime!Contents] /\ staging' = [staging EXCEPT ![k] = c]
  BY <1>1 DEF RuntimeTypes, Runtime!SetsStaging
<1>3. Runtime!Tok(r)' = k  BY <1>1 DEF Runtime!Tok
<1>4. QED  BY <1>1, <1>2, <1>3 DEF Runtime!AtStaging

\* Files that are not written stay.
LEMMA SameBackup ==
  ASSUME NEW r \in Runs, UNCHANGED <<backup, sample>>
  PROVE  /\ Runtime!AtBackup(r)' = Runtime!AtBackup(r)
         /\ \A t \in Runtime!Tokens : backup'[t] = backup[t]
BY DEF Runtime!AtBackup, Runtime!Tok

\* The same for the staging file.
LEMMA SameStaging ==
  ASSUME NEW r \in Runs, UNCHANGED <<staging, sample>>
  PROVE  Runtime!AtStaging(r)' = Runtime!AtStaging(r)
BY DEF Runtime!AtStaging, Runtime!Tok

\* The files of a run are contents.
LEMMA FilesTyped ==
  ASSUME RuntimeTypes, NEW r \in Runs
  PROVE  Runtime!AtBackup(r) \in Runtime!Contents /\ Runtime!AtStaging(r) \in Runtime!Contents
BY OwnToken DEF RuntimeTypes, Runtime!AtBackup, Runtime!AtStaging

\* A note is added to the errors of the record.
LEMMA NotesMeans ==
  ASSUME RuntimeTypes, NEW r \in Runs, NEW S \in SUBSET Notices, Runtime!Notes(r, S)
  PROVE  /\ rec' \in [Runs -> RunRecord]
         /\ rec'[r].orig = rec[r].orig /\ rec'[r].pre = rec[r].pre
         /\ rec'[r].post = rec[r].post /\ rec'[r].begun = rec[r].begun
         /\ rec'[r].raised = rec[r].raised /\ rec'[r].errors = rec[r].errors \cup S
<1>1. rec \in [Runs -> RunRecord]  BY DEF RuntimeTypes
<1>2. rec' = [rec EXCEPT ![r] = [rec[r] EXCEPT !.errors = rec[r].errors \cup S]]
  BY DEF Runtime!Notes
<1>3. rec[r] \in RunRecord  BY <1>1
<1>4. PICK E \in SUBSET Notices : E = rec[r].errors \cup S
  BY <1>3 DEF RunRecord
<1>5. PICK w \in RunRecord : w = [rec[r] EXCEPT !.errors = E]  BY <1>3 DEF RunRecord
<1>6. /\ w.orig = rec[r].orig /\ w.pre = rec[r].pre /\ w.post = rec[r].post
      /\ w.begun = rec[r].begun /\ w.raised = rec[r].raised /\ w.errors = E
  BY <1>3, <1>5 DEF RunRecord
<1>7. rec' = [rec EXCEPT ![r] = w]  BY <1>2, <1>4, <1>5
<1>8. QED  BY <1>1, <1>4, <1>6, <1>7

\* A file call that fails is counted.
LEMMA FaultsCounted ==
  ASSUME RuntimeTypes, NEW o, Runtime!Happens(o) PROVE faults' \in Nat /\ faults' <= MaxFaults
BY RuntimeAssumption DEF Runtime!BoundsAssumption, RuntimeTypes, Runtime!Happens

\* The run that is at work is the only one, and stays so.
LEMMA Alone ==
  ASSUME RuntimeInv, NEW r \in Runs, Runtime!Active(r), NEW q \in Runs, q # r
  PROVE  ~Runtime!Active(q)
BY DEF RuntimeInv, OneAtWork

\* The step of a run from one step to the next.
LEMMA GoesMeans ==
  ASSUME RuntimeTypes, NEW r \in Runs, NEW p \in Runtime!Phases, Runtime!Goes(r, p)
  PROVE  /\ runtimePhase' \in [Runs -> Runtime!Phases] /\ runtimePhase'[r] = p
         /\ \A q \in Runs : q # r => runtimePhase'[q] = runtimePhase[q]
BY DEF RuntimeTypes, Runtime!Goes

\* A step of the run at work keeps the invariant when it keeps the types and
\* the run's own part, and writes no backup but the run's.
LEMMA Lands ==
  ASSUME RuntimeInv, NEW r \in Runs, Runtime!Active(r), RuntimeTypes', RunHolds(r)',
         UNCHANGED original,
         \A q \in Runs : q # r => runtimePhase'[q] = runtimePhase[q],
         \/ UNCHANGED <<root, backup>>
         \/ /\ AtWork(r) /\ AtWork(r)' /\ UNCHANGED sample
            /\ \A t \in Runtime!Tokens \ {Runtime!Tok(r)} : backup'[t] = backup[t]
  PROVE  RuntimeInv'
<1>1. \A q \in Runs : q # r => ~Runtime!Active(q) /\ ~Runtime!Active(q)'
  BY Alone DEF Runtime!Active
<1>2. OneAtWork'  BY <1>1 DEF OneAtWork
<1>3. \A q \in Runs : RunHolds(q)'
  <2> SUFFICES ASSUME NEW q \in Runs, q # r PROVE RunHolds(q)'
    OBVIOUS
  <2>1. runtimePhase'[q] \in {"idle", "ended", "aborted", "crashed"}
    BY <1>1 DEF Runtime!Active, Runtime!Over
  <2>2. QED
    BY <2>1 DEF RunHolds, Held, AtWork, Placed, Noted, Clear, Aside, Begun
<1>4. Runtime!OriginalKept'
  <2> SUFFICES ASSUME NEW q \in Runs, runtimePhase'[q] # "idle", original[q] = Runtime!User
               PROVE  root' = Runtime!User \/ \E t \in Runtime!Tokens : backup'[t] = Runtime!User
    BY DEF Runtime!OriginalKept
  <2>1. runtimePhase[q] # "idle"  BY DEF Runtime!Active
  <2>2. root = Runtime!User \/ \E t \in Runtime!Tokens : backup[t] = Runtime!User
    BY <2>1 DEF RuntimeInv, Runtime!OriginalKept
  <2>3. CASE UNCHANGED <<root, backup>>  BY <2>2, <2>3
  <2>4. CASE /\ AtWork(r) /\ AtWork(r)' /\ UNCHANGED sample
             /\ \A t \in Runtime!Tokens \ {Runtime!Tok(r)} : backup'[t] = backup[t]
    <3>1. Held(r) /\ Held(r)'  BY DEF RuntimeInv, RunHolds
    <3>2. Runtime!Tok(r) \in Runtime!Tokens  BY OwnToken DEF RuntimeInv
    <3>3. CASE original[r] = Runtime!User
      <4>1. Runtime!AtBackup(r)' = Runtime!User \/ root' = Runtime!User
        BY <2>4, <3>1, <3>3 DEF Held
      <4>2. Runtime!AtBackup(r)' = backup'[Runtime!Tok(r)]
        BY <2>4 DEF Runtime!AtBackup, Runtime!Tok
      <4>3. QED  BY <3>2, <4>1, <4>2
    <3>4. CASE original[r] # Runtime!User
      <4>1. root # Runtime!User  BY <2>4, <3>1, <3>4 DEF Held
      <4>2. backup[Runtime!Tok(r)] # Runtime!User
        BY <2>4, <3>1, <3>4, ContentsApart DEF Held, Runtime!AtBackup
      <4>3. PICK t \in Runtime!Tokens : backup[t] = Runtime!User  BY <2>2, <4>1
      <4>4. t # Runtime!Tok(r)  BY <4>2, <4>3
      <4>5. QED  BY <2>4, <4>3, <4>4
    <3>5. QED  BY <3>3, <3>4
  <2>5. QED  BY <2>3, <2>4
<1>5. QED  BY <1>2, <1>3, <1>4 DEF RuntimeInv

\* Nothing is claimed of a run that is at rest.
LEMMA Resting ==
  ASSUME NEW q \in Runs, runtimePhase'[q] \in {"idle", "begin", "ended", "aborted", "crashed"}
  PROVE  RunHolds(q)'
BY DEF RunHolds, Held, AtWork, Placed, Noted, Clear, Aside, Begun

\* A harness that starts takes what the root holds for the original: if that is
\* the developer's object, it is there.
LEMMA CaptureInv == ASSUME RuntimeInv, NEW r \in Runs, Runtime!Capture(r) PROVE RuntimeInv'
<1>1. /\ \A q \in Runs : ~Runtime!Active(q)
      /\ original' = [original EXCEPT ![r] = root] /\ Runtime!Goes(r, "begin")
      /\ UNCHANGED <<root, backup, staging, sample, moved, rec, faults, crashes>>
  BY DEF Runtime!Capture
<1>2. PICK m \in {"cold", "warm"} : mode' = [mode EXCEPT ![r] = m]  BY DEF Runtime!Capture
<1>3. RuntimeTypes  BY DEF RuntimeInv
<1>4. /\ runtimePhase' \in [Runs -> Runtime!Phases] /\ runtimePhase'[r] = "begin"
      /\ \A q \in Runs : q # r => runtimePhase'[q] = runtimePhase[q]
  BY <1>1, <1>3, GoesMeans DEF Runtime!Phases
<1>5. RuntimeTypes'  BY <1>1, <1>2, <1>3, <1>4 DEF RuntimeTypes
<1>6. \A q \in Runs : q # r => ~Runtime!Active(q)'  BY <1>1, <1>4 DEF Runtime!Active
<1>7. OneAtWork'  BY <1>6 DEF OneAtWork
<1>8. \A q \in Runs : RunHolds(q)'
  BY <1>4, <1>6, Resting DEF Runtime!Active, Runtime!Over
<1>9. Runtime!OriginalKept'
  <2>1. \A q \in Runs : q # r => original'[q] = original[q]
    BY <1>1, <1>3 DEF RuntimeTypes
  <2>2. original'[r] = root  BY <1>1, <1>3 DEF RuntimeTypes
  <2>3. Runtime!OriginalKept  BY DEF RuntimeInv
  <2>4. QED  BY <1>1, <1>4, <2>1, <2>2, <2>3 DEF Runtime!OriginalKept
<1>10. QED  BY <1>5, <1>7, <1>8, <1>9 DEF RuntimeInv

\* What an isolation finds is what it will bring back, or it is refused.
LEMMA BeginInv == ASSUME RuntimeInv, NEW r \in Runs, Runtime!Begin(r) PROVE RuntimeInv'
<1>1. /\ runtimePhase[r] = "begin"
      /\ rec' = [rec EXCEPT ![r] = [Runtime!FreshRecord EXCEPT !.orig = root]]
      /\ moved' = [moved EXCEPT ![r] = FALSE]
      /\ UNCHANGED <<root, backup, staging, mode, original, sample, faults, crashes>>
  BY DEF Runtime!Begin
<1>2. RuntimeTypes  BY DEF RuntimeInv
<1>3. PICK p \in {"aborted", "move"} :
         /\ Runtime!Goes(r, p)
         /\ p = "move" => Runtime!AtBackup(r) = Runtime!NoFile /\ root = original[r]
  BY DEF Runtime!Begin
<1>4. /\ runtimePhase' \in [Runs -> Runtime!Phases] /\ runtimePhase'[r] = p
      /\ \A q \in Runs : q # r => runtimePhase'[q] = runtimePhase[q]
  BY <1>2, <1>3, GoesMeans DEF Runtime!Phases
<1>5. PICK w \in RunRecord :
         /\ w = [Runtime!FreshRecord EXCEPT !.orig = root]
         /\ w.orig = root /\ w.begun = FALSE /\ w.raised = FALSE /\ w.errors = {}
  <2>1. PICK c \in Runtime!Contents : c = root  BY <1>2 DEF RuntimeTypes
  <2>2. PICK F \in RunRecord : F = Runtime!FreshRecord
    BY ContentsApart DEF Runtime!FreshRecord, RunRecord
  <2>3. F.begun = FALSE /\ F.raised = FALSE /\ F.errors = {}  BY <2>2 DEF Runtime!FreshRecord
  <2>4. PICK w \in RunRecord : w = [F EXCEPT !.orig = c]  BY DEF RunRecord
  <2>5. /\ w.orig = c /\ w.begun = F.begun /\ w.raised = F.raised
        /\ w.errors = F.errors
    BY <2>4 DEF RunRecord
  <2>6. QED  BY <2>1, <2>2, <2>3, <2>4, <2>5
<1>6. rec' \in [Runs -> RunRecord] /\ rec'[r] = w
  BY <1>1, <1>2, <1>5 DEF RuntimeTypes
<1>7. moved' \in [Runs -> BOOLEAN] /\ ~moved'[r]  BY <1>1, <1>2 DEF RuntimeTypes
<1>8. RuntimeTypes'  BY <1>1, <1>2, <1>4, <1>6, <1>7 DEF RuntimeTypes
<1>9. RunHolds(r)'
  <2>1. CASE p = "aborted"  BY <1>4, <2>1, Resting
  <2>2. CASE p = "move"
    <3>1. Runtime!AtBackup(r)' = Runtime!NoFile  BY <1>1, <1>3, <2>2, SameBackup
    <3>2. runtimePhase'[r] = "move" /\ root' = original'[r] /\ rec'[r].orig = original'[r]
          /\ ~rec'[r].begun /\ rec'[r].raised = FALSE
      BY <1>1, <1>3, <1>4, <1>5, <1>6, <2>2
    <3>3. Held(r)'  BY <3>1, <3>2 DEF Held
    <3>4. Placed(r)'  BY <1>7, <3>1, <3>2 DEF Placed, Aside
    <3>5. Noted(r)' /\ Clear(r)'  BY <3>2 DEF Noted, Clear, Begun
    <3>6. QED  BY <3>3, <3>4, <3>5 DEF RunHolds
  <2>3. QED  BY <2>1, <2>2
<1>10. Runtime!Active(r)  BY <1>1 DEF Runtime!Active, Runtime!Over
<1>11. QED  BY <1>1, <1>4, <1>8, <1>9, <1>10, Lands

\* The original is in the backup exactly when the rename took effect, whether
\* or not it was reported.
LEMMA MoveAsideInv == ASSUME RuntimeInv, NEW r \in Runs, Runtime!MoveAside(r) PROVE RuntimeInv'
<1>1. runtimePhase[r] = "move" /\ UNCHANGED <<staging, mode, original, sample, rec, crashes>>
  BY DEF Runtime!MoveAside
<1>2. RuntimeTypes /\ RunHolds(r)  BY DEF RuntimeInv
<1>3. /\ root = original[r] /\ Runtime!AtBackup(r) = Runtime!NoFile /\ ~moved[r]
      /\ rec[r].orig = original[r] /\ ~rec[r].begun
      /\ root \in Runtime!Contents
  BY <1>1, <1>2 DEF RunHolds, Held, AtWork, Placed, Noted, RuntimeTypes
<1>4. PICK p \in {"stage", "rollback"} :
      /\ Runtime!Goes(r, p)
      /\ \/ /\ original[r] = Runtime!NoFile /\ p = "stage"
            /\ UNCHANGED <<root, backup, moved, faults>>
         \/ \E o \in Runtime!Outcomes :
               /\ original[r] # Runtime!NoFile /\ Runtime!Happens(o)
               /\ IF o = "failed" THEN UNCHANGED <<root, backup>>
                  ELSE root' = Runtime!NoFile /\ Runtime!SetsBackup(r, root)
               /\ moved' = [moved EXCEPT ![r] = (o = "ok")]
               /\ p = IF o = "ok" THEN "stage" ELSE "rollback"
  BY <1>3 DEF Runtime!MoveAside
<1>5. /\ runtimePhase' \in [Runs -> Runtime!Phases] /\ runtimePhase'[r] = p
      /\ \A q \in Runs : q # r => runtimePhase'[q] = runtimePhase[q]
  BY <1>2, <1>4, GoesMeans DEF Runtime!Phases
<1>6. /\ root' \in Runtime!Contents /\ backup' \in [Runtime!Tokens -> Runtime!Contents]
      /\ moved' \in [Runs -> BOOLEAN]
      /\ faults' \in Nat /\ faults' <= MaxFaults
      /\ \A t \in Runtime!Tokens \ {Runtime!Tok(r)} : backup'[t] = backup[t]
      /\ \/ /\ p = "stage" /\ root' = Runtime!NoFile /\ Runtime!AtBackup(r)' = original[r]
            /\ original[r] # Runtime!NoFile => moved'[r]
         \/ /\ p = "rollback" /\ root' = Runtime!NoFile /\ Runtime!AtBackup(r)' = original[r]
         \/ /\ p = "rollback" /\ root' = original[r] /\ Runtime!AtBackup(r)' = Runtime!NoFile
  <2>1. CASE /\ original[r] = Runtime!NoFile /\ p = "stage"
             /\ UNCHANGED <<root, backup, moved, faults>>
    BY <1>1, <1>2, <1>3, <2>1, SameBackup DEF RuntimeTypes
  <2>2. CASE original[r] # Runtime!NoFile
    <3>1. PICK o \in Runtime!Outcomes :
               /\ Runtime!Happens(o)
               /\ IF o = "failed" THEN UNCHANGED <<root, backup>>
                  ELSE root' = Runtime!NoFile /\ Runtime!SetsBackup(r, root)
               /\ moved' = [moved EXCEPT ![r] = (o = "ok")]
               /\ p = IF o = "ok" THEN "stage" ELSE "rollback"
      BY <1>4, <2>2
    <3>2. faults' \in Nat /\ faults' <= MaxFaults  BY <1>2, <3>1, FaultsCounted
    <3>3. moved' \in [Runs -> BOOLEAN] /\ (o = "ok" => moved'[r])
      BY <1>2, <3>1 DEF RuntimeTypes
    <3>4. CASE o = "failed"
      <4>1. root' = root /\ Runtime!AtBackup(r)' = Runtime!AtBackup(r) /\ UNCHANGED backup
        BY <1>1, <3>1, <3>4, SameBackup
      <4>2. QED  BY <1>2, <1>3, <3>1, <3>2, <3>3, <3>4, <4>1 DEF RuntimeTypes
    <3>5. CASE o # "failed"
      <4>1. /\ root' = Runtime!NoFile /\ backup' \in [Runtime!Tokens -> Runtime!Contents]
            /\ Runtime!AtBackup(r)' = root
            /\ \A t \in Runtime!Tokens \ {Runtime!Tok(r)} : backup'[t] = backup[t]
        BY <1>1, <1>2, <1>3, <3>1, <3>5, BackupMeans
      <4>2. QED  BY <1>3, <3>1, <3>2, <3>3, <3>5, <4>1, ContentsApart
    <3>6. QED  BY <3>4, <3>5
  <2>3. QED  BY <1>4, <2>1, <2>2
<1>7. RuntimeTypes'  BY <1>1, <1>2, <1>5, <1>6 DEF RuntimeTypes
<1>8. RunHolds(r)'
  <2>1. Held(r)'  BY <1>1, <1>3, <1>6, ContentsApart DEF Held
  <2>2. Placed(r)'  BY <1>1, <1>3, <1>5, <1>6 DEF Placed, Aside
  <2>3. Noted(r)' /\ Clear(r)'  BY <1>1, <1>3, <1>5 DEF Noted, Clear, Begun
  <2>4. QED  BY <2>1, <2>2, <2>3 DEF RunHolds
<1>9. Runtime!Active(r) /\ AtWork(r) /\ AtWork(r)'
  BY <1>1, <1>5 DEF Runtime!Active, Runtime!Over, AtWork
<1>10. QED  BY <1>1, <1>5, <1>6, <1>7, <1>8, <1>9, Lands

\* A copy that fails leaves a part in the staging file, never at the root.
LEMMA StageInv == ASSUME RuntimeInv, NEW r \in Runs, Runtime!Stage(r) PROVE RuntimeInv'
<1>1. /\ runtimePhase[r] = "stage"
      /\ UNCHANGED <<root, backup, mode, original, sample, moved, rec, crashes>>
  BY DEF Runtime!Stage
<1>2. RuntimeTypes /\ RunHolds(r)  BY DEF RuntimeInv
<1>3. /\ root = Runtime!NoFile /\ Runtime!AtBackup(r) = original[r]
      /\ (original[r] # Runtime!NoFile => moved[r])
      /\ rec[r].orig = original[r] /\ ~rec[r].begun
  BY <1>1, <1>2 DEF RunHolds, Held, AtWork, Placed, Aside, Noted
<1>4. PICK p \in {"pre", "install", "rollback"} :
      /\ Runtime!Goes(r, p)
      /\ staging' \in [Runtime!Tokens -> Runtime!Contents] /\ faults' \in Nat
      /\ faults' <= MaxFaults
      /\ p = "pre" => mode[r] = "cold"
      /\ p = "install" => mode[r] = "warm" /\ Runtime!AtStaging(r)' = Runtime!Prepared(r)
  <2>1. CASE mode[r] = "cold" /\ Runtime!Goes(r, "pre") /\ UNCHANGED <<staging, faults>>
    BY <1>2, <2>1 DEF RuntimeTypes
  <2>2. CASE mode[r] # "cold"
    <3>1. PICK o \in Runtime!Outcomes :
            /\ mode[r] = "warm" /\ Runtime!Happens(o)
            /\ Runtime!SetsStaging(r, CASE o = "ok" -> Runtime!Prepared(r)
                                [] o = "failed" -> Runtime!NoFile
                                [] o = "late" -> Runtime!Partial)
            /\ Runtime!Goes(r, IF o = "ok" THEN "install" ELSE "rollback")
      BY <1>2, <2>2 DEF Runtime!Stage
    <3>2. PICK c \in Runtime!Contents : /\ Runtime!SetsStaging(r, c)
                                        /\ o = "ok" => c = Runtime!Prepared(r)
      BY <3>1, ContentsApart DEF Runtime!Outcomes
    <3>3. staging' \in [Runtime!Tokens -> Runtime!Contents] /\ Runtime!AtStaging(r)' = c
      BY <1>1, <1>2, <3>2, StagingMeans
    <3>4. faults' \in Nat /\ faults' <= MaxFaults  BY <1>2, <3>1, FaultsCounted
    <3>5. QED  BY <3>1, <3>2, <3>3, <3>4
  <2>3. CASE mode[r] = "cold"
    <3>1. Runtime!Goes(r, "pre") /\ UNCHANGED <<staging, faults>>  BY <2>3 DEF Runtime!Stage
    <3>2. QED  BY <2>1, <2>3, <3>1
  <2>4. QED  BY <2>2, <2>3
<1>5. /\ runtimePhase' \in [Runs -> Runtime!Phases] /\ runtimePhase'[r] = p
      /\ \A q \in Runs : q # r => runtimePhase'[q] = runtimePhase[q]
  BY <1>2, <1>4, GoesMeans DEF Runtime!Phases
<1>6. Runtime!AtBackup(r)' = Runtime!AtBackup(r)  BY <1>1, SameBackup
<1>7. RuntimeTypes'  BY <1>1, <1>2, <1>4, <1>5 DEF RuntimeTypes
<1>8. RunHolds(r)'
  <2>1. Held(r)'  BY <1>1, <1>3, <1>6, ContentsApart DEF Held
  <2>2. Placed(r)'
    <3>1. Declared(r)' = IF mode[r] = "cold" THEN Runtime!NoFile ELSE Runtime!Prepared(r)
      BY <1>1 DEF Declared
    <3>2. QED  BY <1>1, <1>3, <1>4, <1>5, <1>6, <3>1 DEF Placed, Aside
  <2>3. Noted(r)' /\ Clear(r)'  BY <1>1, <1>3, <1>5 DEF Noted, Clear, Begun
  <2>4. QED  BY <2>1, <2>2, <2>3 DEF RunHolds
<1>9. Runtime!Active(r)  BY <1>1 DEF Runtime!Active, Runtime!Over
<1>10. QED  BY <1>1, <1>5, <1>7, <1>8, <1>9, Lands

\* What is put at the root of a warm sample is what was prepared for it.
LEMMA InstallInv == ASSUME RuntimeInv, NEW r \in Runs, Runtime!Install(r) PROVE RuntimeInv'
<1>1. runtimePhase[r] = "install" /\ UNCHANGED <<backup, mode, original, sample, moved, rec,
                                                 crashes>>
  BY DEF Runtime!Install
<1>2. RuntimeTypes /\ RunHolds(r)  BY DEF RuntimeInv
<1>3. /\ root = Runtime!NoFile /\ Runtime!AtBackup(r) = original[r]
      /\ (original[r] # Runtime!NoFile => moved[r])
      /\ rec[r].orig = original[r] /\ ~rec[r].begun
      /\ mode[r] = "warm" /\ Runtime!AtStaging(r) = Runtime!Prepared(r)
  BY <1>1, <1>2 DEF RunHolds, Held, AtWork, Placed, Aside, Noted
<1>4. PICK p \in {"pre", "rollback"} :
      /\ Runtime!Goes(r, p)
      /\ staging' \in [Runtime!Tokens -> Runtime!Contents] /\ faults' \in Nat
      /\ faults' <= MaxFaults
      /\ root' \in {Runtime!NoFile, Runtime!Prepared(r)}
      /\ p = "pre" => root' = Runtime!Prepared(r)
  <2>1. PICK o \in Runtime!Outcomes :
           /\ Runtime!Happens(o)
           /\ IF o = "failed" THEN UNCHANGED <<root, staging>>
              ELSE root' = Runtime!AtStaging(r) /\ Runtime!SetsStaging(r, Runtime!NoFile)
           /\ Runtime!Goes(r, IF o = "ok" THEN "pre" ELSE "rollback")
    BY DEF Runtime!Install
  <2>2. faults' \in Nat /\ faults' <= MaxFaults  BY <1>2, <2>1, FaultsCounted
  <2>3. staging' \in [Runtime!Tokens -> Runtime!Contents]
    BY <1>1, <1>2, <2>1, StagingMeans, ContentsApart DEF RuntimeTypes
  <2>4. QED  BY <1>3, <2>1, <2>2, <2>3
<1>5. /\ runtimePhase' \in [Runs -> Runtime!Phases] /\ runtimePhase'[r] = p
      /\ \A q \in Runs : q # r => runtimePhase'[q] = runtimePhase[q]
  BY <1>2, <1>4, GoesMeans DEF Runtime!Phases
<1>6. /\ Runtime!AtBackup(r)' = Runtime!AtBackup(r)
      /\ \A t \in Runtime!Tokens \ {Runtime!Tok(r)} : backup'[t] = backup[t]
  BY <1>1, SameBackup
<1>7. RuntimeTypes'  BY <1>1, <1>2, <1>4, <1>5, ContentsApart DEF RuntimeTypes
<1>8. RunHolds(r)'
  <2>1. Held(r)'  BY <1>1, <1>3, <1>4, <1>6, ContentsApart DEF Held
  <2>2. Placed(r)'
    <3>1. Declared(r)' = Runtime!Prepared(r)  BY <1>1, <1>3 DEF Declared
    <3>2. QED  BY <1>1, <1>3, <1>4, <1>5, <1>6, <3>1 DEF Placed, Aside
  <2>3. Noted(r)' /\ Clear(r)'  BY <1>1, <1>3, <1>5 DEF Noted, Clear, Begun
  <2>4. QED  BY <2>1, <2>2, <2>3 DEF RunHolds
<1>9. Runtime!Active(r) /\ AtWork(r) /\ AtWork(r)'
  BY <1>1, <1>5 DEF Runtime!Active, Runtime!Over, AtWork
<1>10. QED  BY <1>1, <1>5, <1>6, <1>7, <1>8, <1>9, Lands

\* The measurement begins from what the lane declares.
LEMMA PreInv == ASSUME RuntimeInv, NEW r \in Runs, Runtime!Pre(r) PROVE RuntimeInv'
<1>1. /\ runtimePhase[r] = "pre"
      /\ UNCHANGED <<root, backup, staging, mode, original, sample, moved, crashes>>
  BY DEF Runtime!Pre
<1>2. RuntimeTypes /\ RunHolds(r)  BY DEF RuntimeInv
<1>3. /\ root = Declared(r) /\ Runtime!AtBackup(r) = original[r]
      /\ (original[r] # Runtime!NoFile => moved[r])
      /\ (root = Runtime!User => original[r] = Runtime!User)
      /\ rec[r].orig = original[r] /\ ~rec[r].begun
  BY <1>1, <1>2 DEF RunHolds, Held, AtWork, Placed, Aside, Noted
<1>4. PICK o \in Runtime!Outcomes :
         /\ Runtime!Happens(o)
         /\ rec' = [rec EXCEPT ![r].pre = root, ![r].begun = (o = "ok")]
         /\ Runtime!Goes(r, IF o = "ok" THEN "measure" ELSE "rollback")
  BY DEF Runtime!Pre, Runtime!Reads
<1>5. PICK p \in {"measure", "rollback"} : Runtime!Goes(r, p) /\ (p = "measure" <=> o = "ok")
  BY <1>4
<1>6. /\ runtimePhase' \in [Runs -> Runtime!Phases] /\ runtimePhase'[r] = p
      /\ \A q \in Runs : q # r => runtimePhase'[q] = runtimePhase[q]
  BY <1>2, <1>5, GoesMeans DEF Runtime!Phases
<1>7. /\ rec' \in [Runs -> RunRecord] /\ rec'[r].orig = rec[r].orig
      /\ rec'[r].pre = root /\ rec'[r].begun = (p = "measure")
  <2>1. rec \in [Runs -> RunRecord] /\ rec[r] \in RunRecord  BY <1>2 DEF RuntimeTypes
  <2>2. PICK c \in Runtime!Contents : c = root  BY <1>2 DEF RuntimeTypes
  <2>3. PICK b \in BOOLEAN : b = (p = "measure")  OBVIOUS
  <2>4. PICK w \in RunRecord : w = [rec[r] EXCEPT !.pre = c, !.begun = b]
    BY <2>1 DEF RunRecord
  <2>5. w.orig = rec[r].orig /\ w.pre = c /\ w.begun = b  BY <2>1, <2>4 DEF RunRecord
  <2>6. rec' = [rec EXCEPT ![r] = w]  BY <1>4, <1>5, <2>1, <2>2, <2>3, <2>4
  <2>7. QED  BY <2>1, <2>2, <2>3, <2>5, <2>6
<1>8. faults' \in Nat /\ faults' <= MaxFaults  BY <1>2, <1>4, FaultsCounted
<1>9. RuntimeTypes'  BY <1>1, <1>2, <1>6, <1>7, <1>8 DEF RuntimeTypes
<1>10. Runtime!AtBackup(r)' = Runtime!AtBackup(r) /\ Declared(r)' = Declared(r)
  BY <1>1, SameBackup DEF Declared
<1>11. RunHolds(r)'
  <2>1. Held(r)'  BY <1>1, <1>3, <1>7, <1>10 DEF Held
  <2>2. Placed(r)'  BY <1>1, <1>3, <1>6, <1>10 DEF Placed, Aside
  <2>3. Noted(r)' /\ Clear(r)'  BY <1>1, <1>3, <1>6, <1>7, <1>10 DEF Noted, Clear, Begun
  <2>4. QED  BY <2>1, <2>2, <2>3 DEF RunHolds
<1>12. Runtime!Active(r)  BY <1>1 DEF Runtime!Active, Runtime!Over
<1>13. QED  BY <1>1, <1>6, <1>9, <1>11, <1>12, Lands

\* What the measured runner leaves is what was there, its own object or nothing.
LEMMA RunnerRunsInv ==
  ASSUME RuntimeInv, NEW r \in Runs, Runtime!RunnerRuns(r)
  PROVE  RuntimeInv'
<1>1. /\ runtimePhase[r] = "measure" /\ Runtime!Goes(r, "post")
      /\ root' \in {root, Runtime!Built(r), Runtime!NoFile}
      /\ UNCHANGED <<backup, staging, mode, original, sample, moved, rec, faults, crashes>>
  BY DEF Runtime!RunnerRuns
<1>2. RuntimeTypes /\ RunHolds(r)  BY DEF RuntimeInv
<1>3. /\ root = Declared(r) /\ Runtime!AtBackup(r) = original[r]
      /\ (original[r] # Runtime!NoFile => moved[r])
      /\ (root = Runtime!User => original[r] = Runtime!User)
      /\ rec[r].orig = original[r] /\ rec[r].begun /\ rec[r].pre = Declared(r)
  BY <1>1, <1>2 DEF RunHolds, Held, AtWork, Placed, Aside, Noted, Begun
<1>4. /\ runtimePhase' \in [Runs -> Runtime!Phases] /\ runtimePhase'[r] = "post"
      /\ \A q \in Runs : q # r => runtimePhase'[q] = runtimePhase[q]
  BY <1>1, <1>2, GoesMeans DEF Runtime!Phases
<1>5. root' \in Runtime!Contents  BY <1>1, <1>2, ContentsApart DEF RuntimeTypes
<1>6. RuntimeTypes'  BY <1>1, <1>2, <1>4, <1>5 DEF RuntimeTypes
<1>7. /\ Runtime!AtBackup(r)' = Runtime!AtBackup(r) /\ Declared(r)' = Declared(r)
      /\ \A t \in Runtime!Tokens \ {Runtime!Tok(r)} : backup'[t] = backup[t]
  BY <1>1, SameBackup DEF Declared
<1>8. RunHolds(r)'
  <2>1. Held(r)'  BY <1>1, <1>3, <1>7, ContentsApart DEF Held
  <2>2. Placed(r)'  BY <1>1, <1>3, <1>4, <1>7 DEF Placed, Aside
  <2>3. Noted(r)' /\ Clear(r)'  BY <1>1, <1>3, <1>4, <1>7 DEF Noted, Clear, Begun
  <2>4. QED  BY <2>1, <2>2, <2>3 DEF RunHolds
<1>9. Runtime!Active(r) /\ AtWork(r) /\ AtWork(r)'
  BY <1>1, <1>4 DEF Runtime!Active, Runtime!Over, AtWork
<1>10. QED  BY <1>1, <1>4, <1>6, <1>7, <1>8, <1>9, Lands

\* The record keeps what it says, and loses no error.
RecordKept(r) ==
    /\ rec' \in [Runs -> RunRecord]
    /\ rec'[r].orig = rec[r].orig /\ rec'[r].pre = rec[r].pre
    /\ rec'[r].post = rec[r].post /\ rec'[r].begun = rec[r].begun
    /\ rec'[r].raised = rec[r].raised
    /\ rec'[r].errors = {} => rec[r].errors = {}

\* How the arms of a rollback and of a restoration leave the two files.
BroughtBack(r) ==
    /\ root' \in Runtime!Contents /\ backup' \in [Runtime!Tokens -> Runtime!Contents]
    /\ \A t \in Runtime!Tokens \ {Runtime!Tok(r)} : backup'[t] = backup[t]
    /\ faults' \in Nat /\ faults' <= MaxFaults
    /\ RecordKept(r)
    /\ \/ Runtime!AtBackup(r)' = original[r]
       \/ Runtime!AtBackup(r)' = Runtime!NoFile /\ root' = original[r]
    /\ root' = Runtime!User => original[r] = Runtime!User
    /\ rec'[r].errors = {} => Runtime!AtBackup(r)' = Runtime!NoFile /\ root' = original[r]

\* Nothing changes in the record when nothing is noted.
LEMMA SameRecord ==
  ASSUME RuntimeTypes, NEW r \in Runs, rec' = rec PROVE RecordKept(r)
BY DEF RuntimeTypes, RecordKept

\* What is noted is added.
LEMMA NoteKept ==
  ASSUME RuntimeTypes, NEW r \in Runs, NEW S \in SUBSET Notices, Runtime!Notes(r, S)
  PROVE  RecordKept(r) /\ rec'[r].errors = rec[r].errors \cup S
<1>1. rec'[r].errors = rec[r].errors \cup S  BY NotesMeans
<1>2. rec'[r].errors = {} => rec[r].errors = {}  BY <1>1
<1>3. QED  BY <1>1, <1>2, NotesMeans DEF RecordKept

\* The backup is renamed over the root: it is there or still in the backup.
LEMMA RestoreMeans ==
  ASSUME RuntimeTypes, NEW r \in Runs, NEW what \in Notices, Runtime!Restore(r, what),
         UNCHANGED sample,
         Runtime!AtBackup(r) = original[r], root = Runtime!User => original[r] = Runtime!User
  PROVE  BroughtBack(r)
<1>1. PICK o \in Runtime!Outcomes :
         /\ Runtime!Happens(o)
         /\ IF o = "failed" THEN UNCHANGED <<root, backup>>
            ELSE root' = Runtime!AtBackup(r) /\ Runtime!SetsBackup(r, Runtime!NoFile)
         /\ Runtime!Notes(r, IF o = "ok" THEN {} ELSE {what})
  BY DEF Runtime!Restore
<1>2. faults' \in Nat /\ faults' <= MaxFaults  BY <1>1, FaultsCounted
<1>3. PICK S \in SUBSET Notices : S = IF o = "ok" THEN {} ELSE {what}  OBVIOUS
<1>4. RecordKept(r) /\ rec'[r].errors = rec[r].errors \cup S  BY <1>1, <1>3, NoteKept
<1>5. rec'[r].errors = {} => o = "ok"  BY <1>3, <1>4
<1>6. CASE o = "failed"
  <2>1. /\ root' = root /\ backup' = backup /\ Runtime!AtBackup(r)' = Runtime!AtBackup(r)
        /\ \A t \in Runtime!Tokens : backup'[t] = backup[t]
    BY <1>1, <1>6, SameBackup
  <2>2. QED  BY <1>2, <1>4, <1>5, <1>6, <2>1 DEF BroughtBack, RuntimeTypes
<1>7. CASE o # "failed"
  <2>1. /\ root' = original[r] /\ backup' \in [Runtime!Tokens -> Runtime!Contents]
        /\ Runtime!AtBackup(r)' = Runtime!NoFile
        /\ \A t \in Runtime!Tokens \ {Runtime!Tok(r)} : backup'[t] = backup[t]
    BY <1>1, <1>7, BackupMeans, ContentsApart
  <2>2. original[r] \in Runtime!Contents  BY DEF RuntimeTypes
  <2>3. QED  BY <1>2, <1>4, <2>1, <2>2 DEF BroughtBack
<1>8. QED  BY <1>6, <1>7

\* An unlink is of an object that is not the original.
LEMMA UnlinkMeans ==
  ASSUME RuntimeTypes, NEW r \in Runs, NEW what \in Notices, Runtime!Unlink(r, what),
         UNCHANGED sample, original[r] = Runtime!NoFile, Runtime!AtBackup(r) = Runtime!NoFile,
         root = Runtime!User => original[r] = Runtime!User
  PROVE  BroughtBack(r)
<1>1. PICK o \in Runtime!Outcomes :
         /\ Runtime!Happens(o)
         /\ root' = IF o = "failed" THEN root ELSE Runtime!NoFile
         /\ Runtime!Notes(r, IF o = "ok" THEN {} ELSE {what})
         /\ UNCHANGED backup
  BY DEF Runtime!Unlink
<1>2. faults' \in Nat /\ faults' <= MaxFaults  BY <1>1, FaultsCounted
<1>3. PICK S \in SUBSET Notices : S = IF o = "ok" THEN {} ELSE {what}  OBVIOUS
<1>4. RecordKept(r) /\ rec'[r].errors = rec[r].errors \cup S  BY <1>1, <1>3, NoteKept
<1>5. rec'[r].errors = {} => o = "ok"  BY <1>3, <1>4
<1>6. /\ Runtime!AtBackup(r)' = Runtime!NoFile /\ \A t \in Runtime!Tokens : backup'[t] = backup[t]
      /\ backup' \in [Runtime!Tokens -> Runtime!Contents]
  BY <1>1, SameBackup DEF RuntimeTypes
<1>7. root' \in Runtime!Contents /\ (root' = Runtime!User => original[r] = Runtime!User)
  BY <1>1, ContentsApart DEF RuntimeTypes
<1>8. o = "ok" => root' = original[r]  BY <1>1
<1>9. QED  BY <1>2, <1>4, <1>5, <1>6, <1>7, <1>8 DEF BroughtBack

\* Files that are left alone are left alone.
LEMMA LeftAlone ==
  ASSUME RuntimeTypes, NEW r \in Runs, UNCHANGED <<root, backup, sample, faults>>,
         RecordKept(r),
         \/ Runtime!AtBackup(r) = original[r] /\ (rec'[r].errors # {} \/ root = Runtime!NoFile)
         \/ Runtime!AtBackup(r) = Runtime!NoFile /\ root = original[r],
         Runtime!AtBackup(r) = original[r] /\ rec'[r].errors = {} => original[r] = Runtime!NoFile,
         root = Runtime!User => original[r] = Runtime!User
  PROVE  BroughtBack(r)
<1>1. Runtime!AtBackup(r)' = Runtime!AtBackup(r) /\ \A t \in Runtime!Tokens : backup'[t] = backup[t]
  BY SameBackup
<1>2. QED  BY <1>1 DEF BroughtBack, RuntimeTypes

\* What both arms lead to.
LEMMA ToUnstage ==
  ASSUME RuntimeInv, NEW r \in Runs, runtimePhase[r] \in {"rollback", "putback"},
         BroughtBack(r), Runtime!Goes(r, "unstage"),
         UNCHANGED <<staging, mode, original, sample, moved, crashes>>
  PROVE  RuntimeInv'
<1>1. RuntimeTypes /\ RunHolds(r)  BY DEF RuntimeInv
<1>2. /\ runtimePhase' \in [Runs -> Runtime!Phases] /\ runtimePhase'[r] = "unstage"
      /\ \A q \in Runs : q # r => runtimePhase'[q] = runtimePhase[q]
  BY <1>1, GoesMeans DEF Runtime!Phases
<1>3. RuntimeTypes'  BY <1>1, <1>2 DEF RuntimeTypes, BroughtBack, RecordKept
<1>4. rec[r].orig = original[r]  BY <1>1 DEF RunHolds, Held, AtWork
<1>5. /\ rec[r].begun => rec[r].pre = Declared(r)
      /\ rec[r].begun /\ ~rec[r].raised /\ rec[r].errors = {} => rec[r].post = Wanted(r)
  BY <1>1 DEF RunHolds, Noted, Begun
<1>6. Declared(r)' = Declared(r) /\ Wanted(r)' = Wanted(r)  BY DEF Declared, Wanted
<1>7. RunHolds(r)'
  <2>1. Held(r)'  BY <1>2, <1>4 DEF Held, BroughtBack, RecordKept
  <2>2. Placed(r)'  BY <1>2 DEF Placed, Aside
  <2>3. Noted(r)'  BY <1>2, <1>5, <1>6 DEF Noted, Begun, BroughtBack, RecordKept
  <2>4. Clear(r)'  BY <1>2 DEF Clear, BroughtBack
  <2>5. QED  BY <2>1, <2>2, <2>3, <2>4 DEF RunHolds
<1>8. Runtime!Active(r) /\ AtWork(r) /\ AtWork(r)'
  BY <1>2 DEF Runtime!Active, Runtime!Over, AtWork
<1>9. \A t \in Runtime!Tokens \ {Runtime!Tok(r)} : backup'[t] = backup[t]  BY DEF BroughtBack
<1>10. QED  BY <1>2, <1>3, <1>7, <1>8, <1>9, Lands

\* A rollback brings the original back, or says that it did not.
LEMMA RollBackInv == ASSUME RuntimeInv, NEW r \in Runs, Runtime!RollBack(r) PROVE RuntimeInv'
<1>1. /\ runtimePhase[r] = "rollback" /\ Runtime!Goes(r, "unstage")
      /\ UNCHANGED <<staging, mode, original, sample, moved, crashes>>
  BY DEF Runtime!RollBack
<1>2. RuntimeTypes /\ RunHolds(r)  BY DEF RuntimeInv
<1>3. /\ rec[r].orig = original[r] /\ (root = Runtime!User => original[r] = Runtime!User)
      /\ \/ Runtime!AtBackup(r) = original[r]
         \/ Runtime!AtBackup(r) = Runtime!NoFile /\ root = original[r]
      /\ ~moved[r] /\ Runtime!AtBackup(r) # Runtime!NoFile => root = Runtime!NoFile
  BY <1>1, <1>2 DEF RunHolds, Held, AtWork, Placed
<1>4. CASE Runtime!WasMoved(r) /\ Runtime!AtBackup(r) # Runtime!NoFile
  <2>1. Runtime!Restore(r, "restore failed") /\ "restore failed" \in Notices
    BY <1>4 DEF Runtime!RollBack, Notices
  <2>2. Runtime!AtBackup(r) = original[r]  BY <1>3, <1>4
  <2>3. BroughtBack(r)  BY <1>1, <1>2, <1>3, <2>1, <2>2, RestoreMeans
  <2>4. QED  BY <1>1, <2>3, ToUnstage
<1>5. CASE Runtime!WasMoved(r) /\ Runtime!AtBackup(r) = Runtime!NoFile
  <2>1. Runtime!Notes(r, {"backup gone"}) /\ UNCHANGED <<root, backup, faults>>
    BY <1>5 DEF Runtime!RollBack
  <2>a. {"backup gone"} \in SUBSET Notices  BY DEF Notices
  <2>2. RecordKept(r) /\ rec'[r].errors # {}
    <3>1. RecordKept(r) /\ rec'[r].errors = rec[r].errors \cup {"backup gone"}
      BY <1>2, <2>1, <2>a, NoteKept
    <3>2. QED  BY <3>1
  <2>3. BroughtBack(r)  BY <1>1, <1>2, <1>3, <1>5, <2>1, <2>2, LeftAlone
  <2>4. QED  BY <1>1, <2>3, ToUnstage
<1>6. CASE ~Runtime!WasMoved(r) /\ rec[r].orig = Runtime!NoFile /\ root # Runtime!NoFile
  <2>1. Runtime!Unlink(r, "cleanup failed") /\ "cleanup failed" \in Notices
    BY <1>6 DEF Runtime!RollBack, Notices
  <2>2. BroughtBack(r)  BY <1>1, <1>2, <1>3, <1>6, <2>1, UnlinkMeans
  <2>3. QED  BY <1>1, <2>2, ToUnstage
<1>7. CASE ~Runtime!WasMoved(r) /\ ~(rec[r].orig = Runtime!NoFile /\ root # Runtime!NoFile)
  <2>1. UNCHANGED <<root, backup, rec, faults>>  BY <1>7 DEF Runtime!RollBack
  <2>2. Runtime!AtBackup(r) = original[r] => original[r] = Runtime!NoFile /\ root = Runtime!NoFile
    BY <1>3, <1>7 DEF Runtime!WasMoved
  <2>3. RecordKept(r)  BY <1>2, <2>1, SameRecord
  <2>4. BroughtBack(r)  BY <1>1, <1>2, <1>3, <2>1, <2>2, <2>3, LeftAlone
  <2>5. QED  BY <1>1, <2>4, ToUnstage
<1>8. QED  BY <1>4, <1>5, <1>6, <1>7

\* So does the restoration after a measurement.
LEMMA PutBackInv == ASSUME RuntimeInv, NEW r \in Runs, Runtime!PutBack(r) PROVE RuntimeInv'
<1>1. /\ runtimePhase[r] = "putback" /\ Runtime!Goes(r, "unstage")
      /\ UNCHANGED <<staging, mode, original, sample, moved, crashes>>
  BY DEF Runtime!PutBack
<1>2. RuntimeTypes /\ RunHolds(r)  BY DEF RuntimeInv
<1>3. /\ rec[r].orig = original[r] /\ (root = Runtime!User => original[r] = Runtime!User)
      /\ Runtime!AtBackup(r) = original[r]
  BY <1>1, <1>2 DEF RunHolds, Held, AtWork, Placed, Aside
<1>4. CASE original[r] # Runtime!NoFile
  <2>1. Runtime!Restore(r, "restore failed") /\ "restore failed" \in Notices
    BY <1>3, <1>4 DEF Runtime!PutBack, Notices
  <2>2. BroughtBack(r)  BY <1>1, <1>2, <1>3, <2>1, RestoreMeans
  <2>3. QED  BY <1>1, <2>2, ToUnstage
<1>5. CASE original[r] = Runtime!NoFile /\ root # Runtime!NoFile
  <2>1. Runtime!Unlink(r, "cleanup failed") /\ "cleanup failed" \in Notices
    BY <1>3, <1>5 DEF Runtime!PutBack, Notices
  <2>2. BroughtBack(r)  BY <1>1, <1>2, <1>3, <1>5, <2>1, UnlinkMeans
  <2>3. QED  BY <1>1, <2>2, ToUnstage
<1>6. CASE original[r] = Runtime!NoFile /\ root = Runtime!NoFile
  <2>1. UNCHANGED <<root, backup, rec, faults>>  BY <1>3, <1>6 DEF Runtime!PutBack
  <2>2. RecordKept(r)  BY <1>2, <2>1, SameRecord
  <2>3. BroughtBack(r)  BY <1>1, <1>2, <1>3, <1>6, <2>1, <2>2, LeftAlone
  <2>4. QED  BY <1>1, <2>3, ToUnstage
<1>7. QED  BY <1>4, <1>5, <1>6

\* The staging file goes, or the error says that it stayed.
LEMMA UnstageMeans ==
  ASSUME RuntimeInv, NEW r \in Runs, Runtime!Unstage(r)
  PROVE  /\ runtimePhase[r] = "unstage"
         /\ Runtime!Goes(r, IF rec[r].begun THEN "judge" ELSE "aborted")
         /\ UNCHANGED <<root, backup, mode, original, sample, moved, crashes>>
         /\ staging' \in [Runtime!Tokens -> Runtime!Contents] /\ faults' \in Nat
         /\ faults' <= MaxFaults
         /\ RecordKept(r)
         /\ rec'[r].errors = {} => Runtime!AtStaging(r)' = Runtime!NoFile
<1>1. /\ runtimePhase[r] = "unstage"
      /\ Runtime!Goes(r, IF rec[r].begun THEN "judge" ELSE "aborted")
      /\ UNCHANGED <<root, backup, mode, original, sample, moved, crashes>>
  BY DEF Runtime!Unstage
<1>2. RuntimeTypes  BY DEF RuntimeInv
<1>3. CASE Runtime!AtStaging(r) = Runtime!NoFile /\ UNCHANGED <<staging, rec, faults>>
  <2>1. Runtime!AtStaging(r)' = Runtime!NoFile  BY <1>1, <1>3, SameStaging
  <2>2. RecordKept(r)  BY <1>2, <1>3, SameRecord
  <2>3. QED  BY <1>1, <1>2, <1>3, <2>1, <2>2 DEF RuntimeTypes
<1>4. CASE ~(Runtime!AtStaging(r) = Runtime!NoFile /\ UNCHANGED <<staging, rec, faults>>)
  <2>1. PICK o \in Runtime!Outcomes :
           /\ Runtime!Happens(o)
           /\ Runtime!SetsStaging(r, IF o = "failed" THEN Runtime!AtStaging(r) ELSE Runtime!NoFile)
           /\ Runtime!Notes(r, IF o = "ok" THEN {} ELSE {"staging kept"})
    BY <1>4 DEF Runtime!Unstage
  <2>2. PICK S \in SUBSET Notices : S = IF o = "ok" THEN {} ELSE {"staging kept"}
    <3>1. {"staging kept"} \in SUBSET Notices  BY DEF Notices
    <3>2. QED  BY <3>1
  <2>3. RecordKept(r) /\ rec'[r].errors = rec[r].errors \cup S
    BY <1>2, <2>1, <2>2, NoteKept
  <2>4. PICK c \in Runtime!Contents :
         c = IF o = "failed" THEN Runtime!AtStaging(r) ELSE Runtime!NoFile
    BY <1>2, FilesTyped, ContentsApart
  <2>5. staging' \in [Runtime!Tokens -> Runtime!Contents] /\ Runtime!AtStaging(r)' = c
    BY <1>1, <1>2, <2>1, <2>4, StagingMeans
  <2>6. faults' \in Nat /\ faults' <= MaxFaults  BY <1>2, <2>1, FaultsCounted
  <2>7. rec'[r].errors = {} => o = "ok"  BY <2>2, <2>3
  <2>8. QED  BY <1>1, <2>3, <2>4, <2>5, <2>6, <2>7
<1>5. QED  BY <1>3, <1>4

\* The staging file is removed, or its removal failed and is noted.
LEMMA UnstageInv == ASSUME RuntimeInv, NEW r \in Runs, Runtime!Unstage(r) PROVE RuntimeInv'
<1>1. /\ runtimePhase[r] = "unstage"
      /\ Runtime!Goes(r, IF rec[r].begun THEN "judge" ELSE "aborted")
      /\ UNCHANGED <<root, backup, mode, original, sample, moved, crashes>>
      /\ staging' \in [Runtime!Tokens -> Runtime!Contents] /\ faults' \in Nat
      /\ faults' <= MaxFaults
      /\ RecordKept(r)
      /\ rec'[r].errors = {} => Runtime!AtStaging(r)' = Runtime!NoFile
  BY UnstageMeans
<1>2. RuntimeTypes /\ RunHolds(r)  BY DEF RuntimeInv
<1>3. PICK p \in {"judge", "aborted"} : Runtime!Goes(r, p) /\ (p = "judge" => rec[r].begun)
  BY <1>1
<1>4. /\ runtimePhase' \in [Runs -> Runtime!Phases] /\ runtimePhase'[r] = p
      /\ \A q \in Runs : q # r => runtimePhase'[q] = runtimePhase[q]
  BY <1>2, <1>3, GoesMeans DEF Runtime!Phases
<1>5. RuntimeTypes'  BY <1>1, <1>2, <1>4 DEF RuntimeTypes, RecordKept
<1>6. RunHolds(r)'
  <2>1. CASE p = "aborted"  BY <1>4, <2>1, Resting
  <2>2. CASE p = "judge"
    <3>1. /\ rec[r].begun /\ rec[r].orig = original[r] /\ rec[r].pre = Declared(r)
          /\ ~rec[r].raised /\ rec[r].errors = {} => rec[r].post = Wanted(r)
          /\ rec[r].errors = {} => Runtime!AtBackup(r) = Runtime!NoFile
          /\ \/ Runtime!AtBackup(r) = original[r]
             \/ Runtime!AtBackup(r) = Runtime!NoFile /\ root = original[r]
          /\ root = Runtime!User => original[r] = Runtime!User
      BY <1>1, <1>2, <1>3, <2>2 DEF RunHolds, Held, AtWork, Noted, Clear, Begun
    <3>2. /\ Runtime!AtBackup(r)' = Runtime!AtBackup(r) /\ Declared(r)' = Declared(r)
          /\ Wanted(r)' = Wanted(r)
      BY <1>1, SameBackup DEF Declared, Wanted
    <3>3. Held(r)'  BY <1>1, <3>1, <3>2 DEF Held, RecordKept
    <3>4. Placed(r)'  BY <1>4, <2>2 DEF Placed, Aside
    <3>5. Noted(r)'  BY <1>1, <1>4, <2>2, <3>1, <3>2 DEF Noted, Begun, RecordKept
    <3>6. Clear(r)'  BY <1>1, <1>4, <2>2, <3>1, <3>2 DEF Clear, RecordKept
    <3>7. QED  BY <3>3, <3>4, <3>5, <3>6 DEF RunHolds
  <2>3. QED  BY <2>1, <2>2
<1>7. Runtime!Active(r)  BY <1>1 DEF Runtime!Active, Runtime!Over
<1>8. QED  BY <1>1, <1>4, <1>5, <1>6, <1>7, Lands

\* An error is noted when the runner did not leave what a sample of its lane
\* leaves, and a hash that fails is raised.
LEMMA PostInv == ASSUME RuntimeInv, NEW r \in Runs, Runtime!Post(r) PROVE RuntimeInv'
<1>1. /\ runtimePhase[r] = "post" /\ Runtime!Goes(r, "putback")
      /\ UNCHANGED <<root, backup, staging, mode, original, sample, moved, crashes>>
  BY DEF Runtime!Post
<1>2. RuntimeTypes /\ RunHolds(r)  BY DEF RuntimeInv
<1>3. /\ root \in {Declared(r), Runtime!Built(r), Runtime!NoFile}
      /\ Runtime!AtBackup(r) = original[r]
      /\ (original[r] # Runtime!NoFile => moved[r])
      /\ (root = Runtime!User => original[r] = Runtime!User)
      /\ rec[r].orig = original[r] /\ rec[r].begun /\ rec[r].pre = Declared(r)
  BY <1>1, <1>2 DEF RunHolds, Held, AtWork, Placed, Aside, Noted, Begun
<1>4. /\ runtimePhase' \in [Runs -> Runtime!Phases] /\ runtimePhase'[r] = "putback"
      /\ \A q \in Runs : q # r => runtimePhase'[q] = runtimePhase[q]
  BY <1>1, <1>2, GoesMeans DEF Runtime!Phases
<1>5. PICK missing \in SUBSET Notices :
         missing = IF root = Runtime!NoFile THEN {"not materialized"} ELSE {}
  <2>1. {"not materialized"} \in SUBSET Notices  BY DEF Notices
  <2>2. QED  BY <2>1
<1>6. PICK swapped \in SUBSET Notices :
         swapped = IF mode[r] = "warm" /\ root \notin {Runtime!NoFile, Runtime!Prepared(r)}
                   THEN {"replaced prepared"} ELSE {}
  <2>1. {"replaced prepared"} \in SUBSET Notices  BY DEF Notices
  <2>2. QED  BY <2>1
<1>7. PICK o \in Runtime!Outcomes :
         /\ Runtime!Happens(o)
         /\ rec' = IF o = "failed" THEN [rec EXCEPT ![r].raised = TRUE]
                   ELSE [rec EXCEPT ![r].post = root,
                                    ![r].errors = @ \cup missing \cup swapped]
  BY <1>5, <1>6 DEF Runtime!Post, Runtime!Reads
<1>8. /\ rec' \in [Runs -> RunRecord] /\ rec'[r].orig = rec[r].orig
      /\ rec'[r].pre = rec[r].pre /\ rec'[r].begun = rec[r].begun
      /\ ~rec'[r].raised /\ rec'[r].errors = {}
         => rec'[r].post = root /\ missing = {} /\ swapped = {}
  <2>1. rec \in [Runs -> RunRecord] /\ rec[r] \in RunRecord  BY <1>2 DEF RuntimeTypes
  <2>2. CASE o = "failed"
    <3>1. PICK w \in RunRecord : w = [rec[r] EXCEPT !.raised = TRUE]
      BY <2>1 DEF RunRecord
    <3>2. /\ w.orig = rec[r].orig /\ w.pre = rec[r].pre /\ w.begun = rec[r].begun
          /\ w.raised = TRUE
      BY <2>1, <3>1 DEF RunRecord
    <3>3. rec' = [rec EXCEPT ![r] = w]  BY <1>7, <2>1, <2>2, <3>1
    <3>4. QED  BY <2>1, <3>2, <3>3
  <2>3. CASE o # "failed"
    <3>1. PICK c \in Runtime!Contents : c = root  BY <1>2 DEF RuntimeTypes
    <3>2. PICK E \in SUBSET Notices : E = rec[r].errors \cup missing \cup swapped
      BY <2>1 DEF RunRecord
    <3>3. PICK w \in RunRecord : w = [rec[r] EXCEPT !.post = c, !.errors = E]
      BY <2>1 DEF RunRecord
    <3>4. /\ w.orig = rec[r].orig /\ w.pre = rec[r].pre /\ w.begun = rec[r].begun
          /\ w.post = c /\ w.errors = E
      BY <2>1, <3>3 DEF RunRecord
    <3>5. rec' = [rec EXCEPT ![r] = w]  BY <1>7, <2>1, <2>3, <3>1, <3>2, <3>3
    <3>6. E = {} => missing = {} /\ swapped = {}  BY <3>2
    <3>7. QED  BY <2>1, <3>1, <3>4, <3>5, <3>6
  <2>4. QED  BY <2>2, <2>3
<1>9. missing = {} /\ swapped = {} => root = Wanted(r)
  BY <1>2, <1>3, <1>5, <1>6 DEF RuntimeTypes, Declared, Wanted
<1>10. faults' \in Nat /\ faults' <= MaxFaults  BY <1>2, <1>7, FaultsCounted
<1>11. RuntimeTypes'  BY <1>1, <1>2, <1>4, <1>8, <1>10 DEF RuntimeTypes
<1>12. /\ Runtime!AtBackup(r)' = Runtime!AtBackup(r) /\ Declared(r)' = Declared(r)
       /\ Wanted(r)' = Wanted(r)
  BY <1>1, SameBackup DEF Declared, Wanted
<1>13. RunHolds(r)'
  <2>1. Held(r)'  BY <1>1, <1>3, <1>8, <1>12 DEF Held
  <2>2. Placed(r)'  BY <1>1, <1>3, <1>4, <1>12 DEF Placed, Aside
  <2>3. Noted(r)'  BY <1>1, <1>3, <1>4, <1>8, <1>9, <1>12 DEF Noted, Begun
  <2>4. Clear(r)'  BY <1>4 DEF Clear
  <2>5. QED  BY <2>1, <2>2, <2>3, <2>4 DEF RunHolds
<1>14. Runtime!Active(r)  BY <1>1 DEF Runtime!Active, Runtime!Over
<1>15. QED  BY <1>1, <1>4, <1>11, <1>13, <1>14, Lands

\* An invocation that is judged without an error ends where it began.
LEMMA JudgeInv == ASSUME RuntimeInv, NEW r \in Runs, Runtime!Judge(r) PROVE RuntimeInv'
<1>1. /\ runtimePhase[r] = "judge"
      /\ UNCHANGED <<root, backup, staging, mode, original, sample, moved, crashes>>
  BY DEF Runtime!Judge
<1>2. RuntimeTypes /\ RunHolds(r)  BY DEF RuntimeInv
<1>3. /\ rec[r].orig = original[r] /\ rec[r].begun /\ rec[r].pre = Declared(r)
      /\ ~rec[r].raised /\ rec[r].errors = {} => rec[r].post = Wanted(r)
      /\ rec[r].errors = {} => Runtime!AtBackup(r) = Runtime!NoFile /\ Runtime!AtStaging(r) =
                          Runtime!NoFile
      /\ \/ Runtime!AtBackup(r) = original[r]
         \/ Runtime!AtBackup(r) = Runtime!NoFile /\ root = original[r]
      /\ root = Runtime!User => original[r] = Runtime!User
  BY <1>1, <1>2 DEF RunHolds, Held, AtWork, Noted, Clear, Begun
<1>4. PICK o \in Runtime!Outcomes :
         /\ Runtime!Happens(o)
         /\ Runtime!Notes(r, IF o = "ok" /\ Runtime!NotRestored(r) THEN {"not restored"} ELSE {})
         /\ Runtime!Goes(r, IF o = "failed" \/ rec[r].raised THEN "aborted" ELSE "judged")
         /\ o \in {"ok", "failed"}
  BY DEF Runtime!Judge, Runtime!Reads
<1>5. PICK p \in {"aborted", "judged"} :
         Runtime!Goes(r, p) /\ (p = "judged" => o = "ok" /\ ~rec[r].raised)
  BY <1>4
<1>6. PICK S \in SUBSET Notices :
         S = IF o = "ok" /\ Runtime!NotRestored(r) THEN {"not restored"} ELSE {}
  <2>1. {"not restored"} \in SUBSET Notices  BY DEF Notices
  <2>2. QED  BY <2>1
<1>7. RecordKept(r) /\ rec'[r].errors = rec[r].errors \cup S
  BY <1>2, <1>4, <1>6, NoteKept
<1>8. rec'[r].errors = {} /\ o = "ok" => root = original[r]
  BY <1>3, <1>6, <1>7 DEF Runtime!NotRestored
<1>9. /\ runtimePhase' \in [Runs -> Runtime!Phases] /\ runtimePhase'[r] = p
      /\ \A q \in Runs : q # r => runtimePhase'[q] = runtimePhase[q]
  BY <1>2, <1>5, GoesMeans DEF Runtime!Phases
<1>10. faults' \in Nat /\ faults' <= MaxFaults  BY <1>2, <1>4, FaultsCounted
<1>11. RuntimeTypes'  BY <1>1, <1>2, <1>7, <1>9, <1>10 DEF RuntimeTypes, RecordKept
<1>12. RunHolds(r)'
  <2>1. CASE p = "aborted"  BY <1>9, <2>1, Resting
  <2>2. CASE p = "judged"
    <3>1. /\ Runtime!AtBackup(r)' = Runtime!AtBackup(r)
          /\ Runtime!AtStaging(r)' = Runtime!AtStaging(r)
          /\ Declared(r)' = Declared(r) /\ Wanted(r)' = Wanted(r)
      BY <1>1, SameBackup, SameStaging DEF Declared, Wanted
    <3>2. Held(r)'  BY <1>1, <1>3, <1>7, <3>1 DEF Held, RecordKept
    <3>3. Placed(r)'  BY <1>9, <2>2 DEF Placed, Aside
    <3>4. Noted(r)'  BY <1>1, <1>3, <1>5, <1>7, <1>9, <2>2, <3>1 DEF Noted, Begun, RecordKept
    <3>5. Clear(r)'  BY <1>1, <1>3, <1>5, <1>7, <1>8, <1>9, <2>2, <3>1 DEF Clear, RecordKept
    <3>6. QED  BY <3>2, <3>3, <3>4, <3>5 DEF RunHolds
  <2>3. QED  BY <2>1, <2>2
<1>13. Runtime!Active(r)  BY <1>1 DEF Runtime!Active, Runtime!Over
<1>14. QED  BY <1>1, <1>9, <1>11, <1>12, <1>13, Lands

\* Between two invocations, after the last one and after a crash nothing is
\* claimed but that the developer's object is somewhere.
LEMMA RowInv == ASSUME RuntimeInv, NEW r \in Runs, Runtime!Row(r) PROVE RuntimeInv'
<1>1. /\ runtimePhase[r] = "judged"
      /\ UNCHANGED <<root, backup, staging, mode, original, moved, rec, faults, crashes>>
  BY DEF Runtime!Row
<1>2. RuntimeTypes  BY DEF RuntimeInv
<1>3. PICK p \in {"aborted", "begin", "ended"} :
         Runtime!Goes(r, p) /\ sample' \in [Runs -> 1 .. MaxSamples]
  <2>1. CASE UNCHANGED sample
    BY <1>2, <2>1 DEF Runtime!Row, RuntimeTypes
  <2>2. CASE /\ Runtime!Another(r) /\ Runtime!Goes(r, "begin")
             /\ sample' = [sample EXCEPT ![r] = @ + 1]
    <3>1. sample[r] \in 1 .. MaxSamples /\ sample[r] < MaxSamples
      BY <1>2, <2>2 DEF RuntimeTypes, Runtime!Another
    <3>2. sample[r] + 1 \in 1 .. MaxSamples
      BY <3>1, RuntimeAssumption DEF Runtime!BoundsAssumption
    <3>3. QED  BY <1>2, <2>2, <3>2 DEF RuntimeTypes
  <2>3. QED  BY <2>1, <2>2 DEF Runtime!Row
<1>4. /\ runtimePhase' \in [Runs -> Runtime!Phases] /\ runtimePhase'[r] = p
      /\ \A q \in Runs : q # r => runtimePhase'[q] = runtimePhase[q]
  BY <1>2, <1>3, GoesMeans DEF Runtime!Phases
<1>5. RuntimeTypes'  BY <1>1, <1>2, <1>3, <1>4 DEF RuntimeTypes
<1>6. RunHolds(r)'  BY <1>4, Resting
<1>7. Runtime!Active(r)  BY <1>1 DEF Runtime!Active, Runtime!Over
<1>8. QED  BY <1>1, <1>4, <1>5, <1>6, <1>7, Lands

\* A harness that dies leaves the files where they are.
LEMMA CrashInv == ASSUME RuntimeInv, NEW r \in Runs, Runtime!Crash(r) PROVE RuntimeInv'
<1>1. /\ Runtime!Active(r) /\ Runtime!Goes(r, "crashed") /\ crashes < MaxCrashes
      /\ crashes' = crashes + 1
      /\ UNCHANGED <<root, backup, staging, mode, original, sample, moved, rec, faults>>
  BY DEF Runtime!Crash
<1>2. RuntimeTypes  BY DEF RuntimeInv
<1>3. /\ runtimePhase' \in [Runs -> Runtime!Phases] /\ runtimePhase'[r] = "crashed"
      /\ \A q \in Runs : q # r => runtimePhase'[q] = runtimePhase[q]
  BY <1>1, <1>2, GoesMeans DEF Runtime!Phases
<1>4. crashes' \in Nat /\ crashes' <= MaxCrashes
  BY <1>1, <1>2, RuntimeAssumption DEF Runtime!BoundsAssumption, RuntimeTypes
<1>5. RuntimeTypes'  BY <1>1, <1>2, <1>3, <1>4 DEF RuntimeTypes
<1>6. RunHolds(r)'  BY <1>3, Resting
<1>7. QED  BY <1>1, <1>3, <1>5, <1>6, Lands

\* The checkout begins without a harness.
LEMMA RuntimeBegins == ASSUME Runtime!Init PROVE RuntimeInv
<1>1. RuntimeTypes
  <2>1. root \in Runtime!Contents  BY DEF Runtime!Init, Runtime!Contents
  <2>2. Runtime!NoFile \in Runtime!Contents  BY DEF Runtime!Contents
  <2>3. Runtime!FreshRecord \in RunRecord  BY <2>2 DEF Runtime!FreshRecord, RunRecord
  <2>4. 1 \in 1 .. MaxSamples /\ 0 <= MaxFaults /\ 0 <= MaxCrashes
    BY RuntimeAssumption DEF Runtime!BoundsAssumption
  <2>5. runtimePhase \in [Runs -> Runtime!Phases]  BY DEF Runtime!Init, Runtime!Phases
  <2>6. /\ backup \in [Runtime!Tokens -> Runtime!Contents]
        /\ staging \in [Runtime!Tokens -> Runtime!Contents]
        /\ original \in [Runs -> Runtime!Contents]
    BY <2>2 DEF Runtime!Init
  <2>7. sample \in [Runs -> 1 .. MaxSamples]  BY <2>4 DEF Runtime!Init
  <2>8. mode \in [Runs -> {"cold", "warm"}] /\ moved \in [Runs -> BOOLEAN]  BY DEF Runtime!Init
  <2>9. rec \in [Runs -> RunRecord]  BY <2>3 DEF Runtime!Init
  <2>10. QED  BY <2>1, <2>4, <2>5, <2>6, <2>7, <2>8, <2>9 DEF Runtime!Init, RuntimeTypes
<1>2. \A r \in Runs : runtimePhase[r] = "idle"  BY DEF Runtime!Init
<1>3. OneAtWork /\ Runtime!OriginalKept
  BY <1>2 DEF OneAtWork, Runtime!OriginalKept, Runtime!Active
<1>4. \A r \in Runs : RunHolds(r)
  BY <1>2 DEF RunHolds, Held, AtWork, Placed, Noted, Clear, Aside, Begun
<1>5. QED  BY <1>1, <1>3, <1>4 DEF RuntimeInv

\* No step breaks the invariant.
LEMMA RuntimeKeeps == ASSUME RuntimeInv, [Runtime!Next]_(Runtime!vars) PROVE RuntimeInv'
<1>1. CASE Runtime!Next
  BY <1>1, CaptureInv, BeginInv, MoveAsideInv, StageInv, InstallInv, PreInv, RollBackInv,
     UnstageInv, RunnerRunsInv, PostInv, PutBackInv, JudgeInv, RowInv, CrashInv
     DEF Runtime!Next, Runtime!Step
<1>2. CASE UNCHANGED Runtime!vars
  <2>1. UNCHANGED <<root, backup, staging, mode, original, sample, runtimePhase, moved, rec,
                    faults, crashes>>
    BY <1>2 DEF Runtime!vars
  <2>2. RuntimeTypes' /\ OneAtWork' /\ Runtime!OriginalKept'
    BY <2>1 DEF RuntimeInv, RuntimeTypes, OneAtWork, Runtime!Active, Runtime!OriginalKept
  <2>3. \A r \in Runs : RunHolds(r)'
    <3> SUFFICES ASSUME NEW r \in Runs PROVE RunHolds(r)'  OBVIOUS
    <3>1. RunHolds(r)  BY DEF RuntimeInv
    <3>2. Runtime!AtBackup(r)' = Runtime!AtBackup(r) /\ Runtime!AtStaging(r)' = Runtime!AtStaging(r)
      BY <2>1, SameBackup, SameStaging
    <3>3. Held(r)'  BY <2>1, <3>1, <3>2 DEF RunHolds, Held, AtWork
    <3>4. Placed(r)'  BY <2>1, <3>1, <3>2 DEF RunHolds, Placed, Declared
    <3>5. Noted(r)'  BY <2>1, <3>1 DEF RunHolds, Noted, Declared, Wanted
    <3>6. Clear(r)'  BY <2>1, <3>1, <3>2 DEF RunHolds, Clear
    <3>7. QED  BY <3>3, <3>4, <3>5, <3>6 DEF RunHolds
  <2>4. QED  BY <2>2, <2>3 DEF RuntimeInv
<1>3. QED  BY <1>1, <1>2

\* The invariant says what TypeOK says.
LEMMA RuntimeTyped == ASSUME RuntimeInv PROVE Runtime!TypeOK
<1>1. RuntimeTypes  BY DEF RuntimeInv
<1>2. \A r \in Runs : /\ {rec[r].orig, rec[r].pre, rec[r].post} \subseteq Runtime!Contents
                      /\ {rec[r].begun, rec[r].raised} \subseteq BOOLEAN
  BY <1>1 DEF RuntimeTypes, RunRecord
<1>3. faults \in 0 .. MaxFaults /\ crashes \in 0 .. MaxCrashes
  BY <1>1, RuntimeAssumption DEF Runtime!BoundsAssumption, RuntimeTypes
<1>4. QED  BY <1>1, <1>2, <1>3 DEF RuntimeTypes, Runtime!TypeOK

\* The record of the isolation, its files and its bounds have their types in
\* every state.
THEOREM RuntimeIsTyped == Runtime!Spec => []Runtime!TypeOK
<1>1. RuntimeInv /\ [Runtime!Next]_(Runtime!vars) => RuntimeInv'  BY RuntimeKeeps
<1>2. Runtime!Init => RuntimeInv  BY RuntimeBegins
<1>3. RuntimeInv => Runtime!TypeOK  BY RuntimeTyped
<1>4. QED  BY <1>1, <1>2, <1>3, PTL DEF Runtime!Spec

(* However often a file call fails, before or after it took effect, and       *)
(* wherever a harness dies: the object that a run found at the root, if it is *)
(* the developer's, is at the root or in a backup.                            *)
THEOREM OriginalIsKept == Runtime!Spec => []OriginalKept
<1>1. RuntimeInv /\ [Runtime!Next]_(Runtime!vars) => RuntimeInv'  BY RuntimeKeeps
<1>2. Runtime!Init => RuntimeInv  BY RuntimeBegins
<1>3. RuntimeInv => OriginalKept  BY DEF RuntimeInv, OriginalKept
<1>4. QED  BY <1>1, <1>2, <1>3, PTL DEF Runtime!Spec

\* A row without errors, under the invariant.
LEMMA CleanHolds == ASSUME RuntimeInv PROVE Runtime!CleanRowIsClean
<1> SUFFICES ASSUME NEW r \in Runs, runtimePhase[r] = "judged", rec[r].errors = {}
             PROVE  /\ rec[r].pre = (IF mode[r] = "cold" THEN Runtime!NoFile
                                   ELSE Runtime!Prepared(r))
                    /\ rec[r].post = (IF mode[r] = "cold" THEN Runtime!Built(r)
                                    ELSE Runtime!Prepared(r))
                    /\ root = original[r]
                    /\ Runtime!AtBackup(r) = Runtime!NoFile
                    /\ Runtime!AtStaging(r) = Runtime!NoFile
  BY DEF Runtime!CleanRowIsClean
<1>1. Noted(r) /\ Clear(r)  BY DEF RuntimeInv, RunHolds
<1>2. QED  BY <1>1 DEF Noted, Clear, Begun, Declared, Wanted

\* A rollback without errors, under the invariant.
LEMMA RollbackHolds ==
  ASSUME RuntimeInv, [Runtime!Next]_(Runtime!vars), NEW r \in Runs,
         runtimePhase[r] = "unstage", runtimePhase'[r] = "aborted", ~rec[r].begun,
         rec'[r].errors = {}
  PROVE  /\ root' = original[r] /\ Runtime!AtBackup(r)' = Runtime!NoFile
         /\ Runtime!AtStaging(r)' = Runtime!NoFile
<1>1. RuntimeTypes /\ RunHolds(r)  BY DEF RuntimeInv
<1>2. PICK q \in Runs : Runtime!Step(q) \/ Runtime!Crash(q)  BY DEF Runtime!vars, Runtime!Next
<1>3. \A p \in Runtime!Phases, s \in Runs : Runtime!Goes(s, p) => runtimePhase'[s] = p
                              /\ \A t \in Runs : t # s => runtimePhase'[t] = runtimePhase[t]
  BY <1>1, GoesMeans
<1>4. q = r
  <2> SUFFICES ASSUME q # r PROVE FALSE  OBVIOUS
  <2>1. ~Runtime!Active(q)  BY Alone DEF Runtime!Active, Runtime!Over
  <2>2. Runtime!Capture(q)
    BY <1>2, <2>1
       DEF Runtime!Step, Runtime!Crash, Runtime!Begin, Runtime!MoveAside, Runtime!Stage,
           Runtime!Install, Runtime!Pre, Runtime!RollBack, Runtime!Unstage, Runtime!RunnerRuns,
           Runtime!Post, Runtime!PutBack, Runtime!Judge, Runtime!Row, Runtime!Active, Runtime!Over
  <2>3. ~Runtime!Active(r)  BY <2>2 DEF Runtime!Capture
  <2>4. QED  BY <2>3 DEF Runtime!Active, Runtime!Over
<1>5. Runtime!Unstage(r)
  <2>1. ~Runtime!Crash(r)  BY <1>3 DEF Runtime!Crash, Runtime!Phases
  <2>2. QED
    BY <1>2, <1>4, <2>1
       DEF Runtime!Step, Runtime!Capture, Runtime!Begin, Runtime!MoveAside, Runtime!Stage,
           Runtime!Install, Runtime!Pre, Runtime!RollBack, Runtime!RunnerRuns, Runtime!Post,
           Runtime!PutBack, Runtime!Judge, Runtime!Row
<1>6. /\ UNCHANGED <<root, backup, sample>> /\ RecordKept(r)
      /\ Runtime!AtStaging(r)' = Runtime!NoFile
  BY <1>5, UnstageMeans
<1>7. Runtime!AtBackup(r) = Runtime!NoFile /\ root = original[r]
  BY <1>1, <1>6 DEF RunHolds, Clear, RecordKept
<1>8. QED  BY <1>6, <1>7, SameBackup

(* What the isolation says of an invocation is so: a rollback that reports no *)
(* error has left the disk as it was, and a row without errors was measured   *)
(* from the declared state and left none of the transaction's files behind.   *)
LEMMA RollbackIsSafe == Runtime!Spec => Runtime!SafelyRolledBack
<1> DEFINE A == \A r \in Runs :
                  (/\ runtimePhase[r] = "unstage" /\ runtimePhase'[r] = "aborted"
                   /\ ~rec[r].begun /\ rec'[r].errors = {})
                  => /\ root' = original[r]
                     /\ Runtime!AtBackup(r)' = Runtime!NoFile /\ Runtime!AtStaging(r)' = Runtime!NoFile
<1>1. RuntimeInv /\ [Runtime!Next]_(Runtime!vars) => RuntimeInv'  BY RuntimeKeeps
<1>2. Runtime!Init => RuntimeInv  BY RuntimeBegins
<1>3. RuntimeInv /\ [Runtime!Next]_(Runtime!vars) => A  BY RollbackHolds
<1>4. QED  BY <1>1, <1>2, <1>3, PTL DEF Runtime!Spec, Runtime!SafelyRolledBack

\* So has a row without errors.
LEMMA CleanIsClean == Runtime!Spec => []Runtime!CleanRowIsClean
<1>1. RuntimeInv /\ [Runtime!Next]_(Runtime!vars) => RuntimeInv'  BY RuntimeKeeps
<1>2. Runtime!Init => RuntimeInv  BY RuntimeBegins
<1>3. RuntimeInv => Runtime!CleanRowIsClean  BY CleanHolds
<1>4. QED  BY <1>1, <1>2, <1>3, PTL DEF Runtime!Spec

(* What the isolation says of an invocation is so, in every step of every     *)
(* behaviour: a row without errors was measured from the declared state and   *)
(* left nothing of the transaction behind, and so did a rollback without.     *)
THEOREM IsolationTellsTheTruth == Runtime!Spec => IsolationIsTrue
<1>1. Runtime!Spec => Runtime!SafelyRolledBack  BY RollbackIsSafe
<1>2. Runtime!Spec => []Runtime!CleanRowIsClean  BY CleanIsClean
<1>3. QED  BY <1>1, <1>2, PTL DEF IsolationIsTrue

-----------------------------------------------------------------------------
(* Sets of numbers.                                                           *)

\* A set of numbers that is not empty has a least one.
LEMMA Smallest ==
  ASSUME NEW S, S \subseteq Nat, S # {}
  PROVE  \E i \in S : \A j \in S : i <= j
<1> DEFINE Less == {p \in Nat \X Nat : p[1] < p[2]}
<1>1. IsWellFoundedOn(Less, Nat)
  <2>1. OpToRel(<, Nat) = Less  BY DEF OpToRel
  <2>2. QED  BY <2>1, NatLessThanWellFounded
<1>2. PICK i \in S : \A j \in S : ~(<<j, i>> \in Less)
  <2> HIDE DEF Less
  <2>1. QED  BY <1>1, WFMin
<1>3. ASSUME NEW j \in S, j < i PROVE FALSE
  <2>1. <<j, i>> \in Less  BY <1>3
  <2>2. QED  BY <1>2, <2>1
<1>4. \A j \in S : i \in Nat /\ j \in Nat /\ ~(j < i)  BY <1>3
<1>5. \A j \in S : i <= j  BY <1>4
<1>6. QED  BY <1>5

\* The least and the greatest member of a set of numbers, when there is one.
LEMMA MinIs ==
  ASSUME NEW S, S \subseteq Nat, NEW v \in S, \A y \in S : v <= y
  PROVE  Min(S) = v
<1>1. Min(S) \in S /\ \A y \in S : Min(S) <= y  BY DEF Min
<1>2. Min(S) \in Nat /\ v \in Nat /\ Min(S) <= v /\ v <= Min(S)  BY <1>1
<1>3. QED  BY <1>2

\* The greatest member is the maximum.
LEMMA MaxIs ==
  ASSUME NEW S, S \subseteq Nat, NEW v \in S, \A y \in S : v >= y
  PROVE  Max(S) = v
<1>1. Max(S) \in S /\ \A y \in S : Max(S) >= y  BY DEF Max
<1>2. Max(S) \in Nat /\ v \in Nat /\ Max(S) >= v /\ v >= Max(S)  BY <1>1
<1>3. QED  BY <1>2

\* The minimum is a member, and no other is less.
LEMMA MinMeans ==
  ASSUME NEW S, S \subseteq Nat, S # {}
  PROVE  Min(S) \in S /\ \A y \in S : Min(S) <= y
<1>1. PICK v \in S : \A y \in S : v <= y  BY Smallest
<1>2. Min(S) = v  BY <1>1, MinIs
<1>3. QED  BY <1>1, <1>2

\* The numbers below m.
LEMMA UpTo ==
  ASSUME NEW m \in Nat
  PROVE  IsFiniteSet(0 .. (m - 1)) /\ Cardinality(0 .. (m - 1)) = m
<1>1. 0 \in Int /\ m - 1 \in Int  OBVIOUS
<1>2. /\ IsFiniteSet(0 .. (m - 1))
      /\ Cardinality(0 .. (m - 1)) = IF 0 > m - 1 THEN 0 ELSE (m - 1) - 0 + 1
  BY <1>1, FS_Interval
<1>3. (IF 0 > m - 1 THEN 0 ELSE (m - 1) - 0 + 1) = m  OBVIOUS
<1>4. QED  BY <1>2, <1>3

-----------------------------------------------------------------------------
(* The sample schedule, with the numbers of a policy as parameters: W warm-up *)
(* rows, S rows of a lane whose first valid row is short, L of one whose      *)
(* first is long (the same number where the policy makes no difference), E    *)
(* attempts more than that.                                                   *)

\* What derive_invalid_reason makes of a row, as far as the schedule goes.
RowsFit(rs, W) ==
    /\ IsFiniteSet(DOMAIN rs) /\ DOMAIN rs \subseteq Nat
    /\ \A i \in DOMAIN rs :
          /\ i < W => ~Included(rs[i]) /\ ~Replaceable(rs[i].reason)
          /\ i >= W => rs[i].reason # "warmup"

GoodEnough(reason) == reason \in {None, "warmup"} \/ Replaceable(reason)
Goal(rs, S, L) == IF Valid(rs) # {} /\ rs[Min(Valid(rs))].slow THEN L ELSE S
GoesOn(rs, W, S, L, E) ==
  LET n == Cardinality(DOMAIN rs)
  IN  /\ n > 0 => GoodEnough(rs[n - 1].reason)
      /\ n >= W => /\ Cardinality(Valid(rs)) < Goal(rs, S, L)
                   /\ n - W < Goal(rs, S, L) + E
\* run_lane's account of a complete lane ...
RowByRow(rs, W, S, L, E) ==
    /\ Contiguous(rs)
    /\ \A n \in DOMAIN rs : GoesOn(Before(rs, n), W, S, L, E)
    /\ ~GoesOn(rs, W, S, L, E)
    /\ Cardinality(Valid(rs)) = Goal(rs, S, L)
\* ... and _validate_lane_schedule's.
AllAtOnce(rs, W, S, L, E) ==
  LET n == Cardinality(DOMAIN rs)
      measured == {i \in DOMAIN rs : i >= W}
      warm == {i \in DOMAIN rs : rs[i].reason = "warmup"}
  IN  /\ Contiguous(rs)
      /\ Cardinality(warm) = W
      /\ \A i \in measured : Included(rs[i]) \/ Replaceable(rs[i].reason)
      /\ Cardinality(Valid(rs) \cap measured) = Goal(rs, S, L)
      /\ measured # {} /\ Included(rs[Max(measured)])
      /\ n <= Goal(rs, S, L) + E + W
Numbers(W, S, L, E) == /\ W \in Nat /\ S \in Nat \ {0} /\ L \in Nat \ {0} /\ E \in Nat
                       /\ L = S \/ L # 1

\* The valid rows are measured ones, and finitely many.
LEMMA ValidRows ==
  ASSUME NEW rs, NEW W \in Nat, RowsFit(rs, W)
  PROVE  /\ Valid(rs) \subseteq {i \in DOMAIN rs : i >= W}
         /\ Valid(rs) \subseteq DOMAIN rs /\ Valid(rs) \subseteq Nat
         /\ IsFiniteSet(Valid(rs)) /\ Cardinality(Valid(rs)) \in Nat
         /\ Cardinality(DOMAIN rs) \in Nat
<1>1. /\ Valid(rs) \subseteq {i \in DOMAIN rs : i >= W}
      /\ Valid(rs) \subseteq DOMAIN rs /\ Valid(rs) \subseteq Nat
  BY DEF RowsFit, Valid
<1>2. IsFiniteSet(DOMAIN rs)  BY DEF RowsFit
<1>3. IsFiniteSet(Valid(rs))  BY <1>1, <1>2, FS_Subset
<1>4. QED  BY <1>1, <1>2, <1>3, FS_CardinalityType

\* The goal is a number of rows.
LEMMA GoalType ==
  ASSUME NEW rs, NEW W, NEW S, NEW L, NEW E, Numbers(W, S, L, E)
  PROVE  Goal(rs, S, L) \in {S, L} /\ Goal(rs, S, L) \in Nat \ {0}
BY DEF Numbers, Goal

\* The first m rows of a lane without gaps.
LEMMA BeforeMeans ==
  ASSUME NEW rs, NEW W \in Nat, RowsFit(rs, W), NEW n \in Nat, DOMAIN rs = 0 .. (n - 1),
         NEW m \in 0 .. n
  PROVE  /\ DOMAIN Before(rs, m) = 0 .. (m - 1)
         /\ \A i \in 0 .. (m - 1) : Before(rs, m)[i] = rs[i]
         /\ Cardinality(DOMAIN Before(rs, m)) = m
         /\ RowsFit(Before(rs, m), W)
         /\ Valid(Before(rs, m)) = {i \in Valid(rs) : i < m}
<1>1. DOMAIN rs \cap 0 .. (m - 1) = 0 .. (m - 1)  OBVIOUS
<1>2. /\ DOMAIN Before(rs, m) = 0 .. (m - 1)
      /\ \A i \in 0 .. (m - 1) : Before(rs, m)[i] = rs[i]
  BY <1>1 DEF Before
<1>3. IsFiniteSet(0 .. (m - 1)) /\ Cardinality(0 .. (m - 1)) = m  BY UpTo
<1>4. RowsFit(Before(rs, m), W)
  <2>1. \A i \in 0 .. (m - 1) : /\ i \in DOMAIN rs /\ i \in Nat
    OBVIOUS
  <2>2. QED  BY <1>2, <1>3, <2>1 DEF RowsFit
<1>5. Valid(Before(rs, m)) = {i \in Valid(rs) : i < m}
  <2>1. Valid(Before(rs, m)) = {i \in 0 .. (m - 1) : Included(rs[i])}
    BY <1>2 DEF Valid
  <2>2. Valid(rs) = {i \in 0 .. (n - 1) : Included(rs[i])}  BY DEF Valid
  <2>3. QED  BY <2>1, <2>2
<1>6. QED  BY <1>2, <1>3, <1>4, <1>5

\* Once there is a valid row, the goal is decided.
LEMMA GoalStays ==
  ASSUME NEW rs, NEW W, NEW S, NEW L, NEW E, Numbers(W, S, L, E), RowsFit(rs, W),
         NEW n \in Nat, DOMAIN rs = 0 .. (n - 1), NEW m \in 0 .. n,
         \/ Valid(Before(rs, m)) # {}
         \/ Valid(rs) = {}
         \/ L = S
  PROVE  Goal(Before(rs, m), S, L) = Goal(rs, S, L)
<1>0. W \in Nat  BY DEF Numbers
<1>1. /\ \A i \in 0 .. (m - 1) : Before(rs, m)[i] = rs[i]
      /\ Valid(Before(rs, m)) = {i \in Valid(rs) : i < m}
  BY <1>0, BeforeMeans
<1>2. CASE Valid(rs) = {}  BY <1>1, <1>2 DEF Goal
<1>3. CASE L = S  BY <1>3 DEF Goal
<1>4. CASE Valid(Before(rs, m)) # {}
  <2>1. Valid(rs) \subseteq Nat  BY <1>0, ValidRows
  <2>2. Valid(Before(rs, m)) \subseteq Nat  BY <1>1, <2>1
  <2>3. PICK v \in Valid(Before(rs, m)) : \A y \in Valid(Before(rs, m)) : v <= y
    BY <1>4, <2>2, Smallest
  <2>4. v \in Valid(rs) /\ v \in 0 .. (m - 1)  BY <1>1, <2>1, <2>3
  <2>5. \A y \in Valid(rs) : v <= y
    <3> SUFFICES ASSUME NEW y \in Valid(rs) PROVE v <= y  OBVIOUS
    <3>1. CASE y < m  BY <1>1, <2>3, <3>1
    <3>2. CASE ~(y < m)  BY <2>1, <2>4, <3>2
    <3>3. QED  BY <3>1, <3>2
  <2>6. Min(Valid(Before(rs, m))) = v  BY <2>2, <2>3, MinIs
  <2>7. Min(Valid(rs)) = v  BY <2>1, <2>4, <2>5, MinIs
  <2>8. Before(rs, m)[v] = rs[v]  BY <1>1, <2>4
  <2>9. QED  BY <1>4, <2>4, <2>6, <2>7, <2>8 DEF Goal
<1>5. QED  BY <1>2, <1>3, <1>4

\* The row before the end decides whether run_lane goes on.
LEMMA GoesOnMeans ==
  ASSUME NEW rs, NEW W, NEW S, NEW L, NEW E, Numbers(W, S, L, E), RowsFit(rs, W),
         NEW n \in Nat, DOMAIN rs = 0 .. (n - 1), NEW m \in 0 .. n
  PROVE  GoesOn(Before(rs, m), W, S, L, E) <=>
            /\ m > 0 => GoodEnough(rs[m - 1].reason)
            /\ m >= W => /\ Cardinality(Valid(Before(rs, m))) < Goal(Before(rs, m), S, L)
                         /\ m - W < Goal(Before(rs, m), S, L) + E
<1>0. W \in Nat  BY DEF Numbers
<1>1. /\ \A i \in 0 .. (m - 1) : Before(rs, m)[i] = rs[i]
      /\ Cardinality(DOMAIN Before(rs, m)) = m
  BY <1>0, BeforeMeans
<1>2. m > 0 => Before(rs, m)[m - 1] = rs[m - 1]
  <2>1. m > 0 => m - 1 \in 0 .. (m - 1)  OBVIOUS
  <2>2. QED  BY <1>1, <2>1
<1>3. QED  BY <1>1, <1>2 DEF GoesOn

\* A row that run_lane goes on behind: before the measured ones a warm-up that
\* ran well, and then a valid one or one that it replaces.
LEMMA GoodRow ==
  ASSUME NEW rs, NEW W \in Nat, RowsFit(rs, W), NEW i \in DOMAIN rs
  PROVE  GoodEnough(rs[i].reason) <=>
            /\ i < W => rs[i].reason = "warmup"
            /\ i >= W => Included(rs[i]) \/ Replaceable(rs[i].reason)
<1>1. i \in Nat /\ (i < W \/ i >= W) /\ ~(i < W /\ i >= W)  BY DEF RowsFit
<1>2. /\ i < W => ~Included(rs[i]) /\ ~Replaceable(rs[i].reason)
      /\ i >= W => rs[i].reason # "warmup"
  BY DEF RowsFit
<1>3. Included(rs[i]) <=> rs[i].reason = None  BY DEF Included
<1>4. QED  BY <1>1, <1>2, <1>3 DEF GoodEnough

\* The warm-up rows of a lane all of whose rows are good.
LEMMA WarmRows ==
  ASSUME NEW rs, NEW W \in Nat, RowsFit(rs, W), NEW n \in Nat, DOMAIN rs = 0 .. (n - 1),
         n >= W
  PROVE  Cardinality({i \in DOMAIN rs : rs[i].reason = "warmup"}) = W
            <=> \A i \in 0 .. (W - 1) : rs[i].reason = "warmup"
<1> DEFINE warm == {i \in DOMAIN rs : rs[i].reason = "warmup"}
<1>1. \A i \in DOMAIN rs : i \in Nat /\ (i >= W => rs[i].reason # "warmup")
  BY DEF RowsFit
<1>2. warm \subseteq 0 .. (W - 1)
  <2> SUFFICES ASSUME NEW i \in DOMAIN rs, rs[i].reason = "warmup" PROVE i \in 0 .. (W - 1)
    OBVIOUS
  <2>1. i \in Nat /\ ~(i >= W)  BY <1>1
  <2>2. QED  BY <2>1
<1>3. IsFiniteSet(0 .. (W - 1)) /\ Cardinality(0 .. (W - 1)) = W  BY UpTo
<1>4. 0 .. (W - 1) \subseteq DOMAIN rs  OBVIOUS
<1>5. ASSUME Cardinality(warm) = W PROVE warm = 0 .. (W - 1)
  <2> HIDE DEF warm
  <2>1. QED  BY <1>2, <1>3, <1>5, FS_Subset
<1>6. ASSUME \A i \in 0 .. (W - 1) : rs[i].reason = "warmup" PROVE warm = 0 .. (W - 1)
  BY <1>2, <1>4, <1>6
<1>7. Cardinality(warm) = W => \A i \in 0 .. (W - 1) : rs[i].reason = "warmup"
  BY <1>5
<1>8. QED  BY <1>3, <1>6, <1>7

\* The measured rows reach to the last one.
LEMMA LastRow ==
  ASSUME NEW W \in Nat, NEW n \in Nat, n > W
  PROVE  /\ {i \in 0 .. (n - 1) : i >= W} # {}
         /\ Max({i \in 0 .. (n - 1) : i >= W}) = n - 1
<1> DEFINE measured == {i \in 0 .. (n - 1) : i >= W}
<1>1. n - 1 \in measured /\ measured \subseteq Nat /\ \A y \in measured : n - 1 >= y
  OBVIOUS
<1>2. Max(measured) = n - 1
  <2> HIDE DEF measured
  <2>1. QED  BY <1>1, MaxIs
<1>3. QED  BY <1>1, <1>2

\* The good rows, at the two ends that the two programs look at.
RowsGood(rs, n, W) ==
    /\ \A i \in 0 .. (W - 1) : rs[i].reason = "warmup"
    /\ \A i \in 0 .. (n - 1) : i >= W => Included(rs[i]) \/ Replaceable(rs[i].reason)

\* A complete lane, in so many words.
Whole(rs, n, W, S, L, E) ==
    /\ n > W /\ DOMAIN rs = 0 .. (n - 1)
    /\ RowsGood(rs, n, W)
    /\ n - 1 \in Valid(rs) /\ Cardinality(Valid(rs)) = Goal(rs, S, L)
    /\ n <= Goal(rs, S, L) + E + W

\* combine.py's judgement comes to that,
LEMMA AllAtOnceMeans ==
  ASSUME NEW rs, NEW W, NEW S, NEW L, NEW E, Numbers(W, S, L, E), RowsFit(rs, W)
  PROVE  AllAtOnce(rs, W, S, L, E) <=> Whole(rs, Cardinality(DOMAIN rs), W, S, L, E)
<1> DEFINE n == Cardinality(DOMAIN rs)
           measured == {i \in DOMAIN rs : i >= W}
           warm == {i \in DOMAIN rs : rs[i].reason = "warmup"}
<1>1. n \in Nat /\ W \in Nat
  BY ValidRows DEF Numbers
<1>2. Valid(rs) \cap measured = Valid(rs)  BY <1>1, ValidRows
<1>3. Goal(rs, S, L) \in Nat \ {0}  BY GoalType
<1>4. ASSUME DOMAIN rs = 0 .. (n - 1), n > W
      PROVE  AllAtOnce(rs, W, S, L, E) <=> Whole(rs, n, W, S, L, E)
  <2> HIDE DEF n
  <2>1. measured = {i \in 0 .. (n - 1) : i >= W}  BY <1>4
  <2>2. measured # {} /\ Max(measured) = n - 1 /\ n - 1 \in DOMAIN rs
    BY <1>1, <1>4, <2>1, LastRow
  <2>3. Cardinality(warm) = W <=> \A i \in 0 .. (W - 1) : rs[i].reason = "warmup"
    <3>1. n >= W  BY <1>1, <1>4
    <3>2. QED  BY <1>1, <1>4, <3>1, WarmRows
  <2>4. (\A i \in measured : Included(rs[i]) \/ Replaceable(rs[i].reason))
          <=> \A i \in 0 .. (n - 1) : i >= W => Included(rs[i]) \/ Replaceable(rs[i].reason)
    BY <2>1
  <2>5. Included(rs[n - 1]) <=> n - 1 \in Valid(rs)  BY <2>2 DEF Valid
  <2>6. Contiguous(rs)  BY <1>4 DEF Contiguous, n
  <2>7. AllAtOnce(rs, W, S, L, E) <=>
           /\ Cardinality(warm) = W
           /\ \A i \in measured : Included(rs[i]) \/ Replaceable(rs[i].reason)
           /\ Cardinality(Valid(rs)) = Goal(rs, S, L)
           /\ Included(rs[n - 1]) /\ n <= Goal(rs, S, L) + E + W
    <3> HIDE DEF warm
    <3>1. QED  BY <1>2, <2>2, <2>6 DEF AllAtOnce, n, warm
  <2>8. Whole(rs, n, W, S, L, E) <=>
           /\ RowsGood(rs, n, W)
           /\ n - 1 \in Valid(rs) /\ Cardinality(Valid(rs)) = Goal(rs, S, L)
           /\ n <= Goal(rs, S, L) + E + W
    BY <1>4 DEF Whole
  <2>9. QED  BY <2>3, <2>4, <2>5, <2>7, <2>8 DEF RowsGood
<1>5. ASSUME AllAtOnce(rs, W, S, L, E) PROVE DOMAIN rs = 0 .. (n - 1) /\ n > W
  <2>1. DOMAIN rs = 0 .. (n - 1)  BY <1>5 DEF AllAtOnce, Contiguous
  <2>2. measured # {}  BY <1>5 DEF AllAtOnce
  <2> HIDE DEF n
  <2>3. PICK i \in 0 .. (n - 1) : i >= W  BY <2>1, <2>2
  <2>4. QED  BY <1>1, <2>1, <2>3
<1>6. ASSUME Whole(rs, n, W, S, L, E) PROVE DOMAIN rs = 0 .. (n - 1) /\ n > W
  BY <1>6 DEF Whole
<1>7. QED  BY <1>4, <1>5, <1>6

\* and run.py's account of a complete lane comes to it too: the last row is a
\* valid one, since with the valid rows complete before it run_lane would have
\* stopped there, and it was within the budget when that row was taken.
LEMMA RowByRowIsWhole ==
  ASSUME NEW rs, NEW W, NEW S, NEW L, NEW E, Numbers(W, S, L, E), RowsFit(rs, W),
         RowByRow(rs, W, S, L, E)
  PROVE  Whole(rs, Cardinality(DOMAIN rs), W, S, L, E)
<1>1. PICK n \in Nat : n = Cardinality(DOMAIN rs)  BY ValidRows DEF Numbers
<1>2. W \in Nat /\ E \in Nat  BY DEF Numbers
<1>3. DOMAIN rs = 0 .. (n - 1)  BY <1>1 DEF RowByRow, Contiguous
<1>4. PICK T \in Nat \ {0} : T = Goal(rs, S, L)  BY GoalType
<1>5. Cardinality(Valid(rs)) = T  BY <1>4 DEF RowByRow
<1>6. /\ Valid(rs) \subseteq {i \in 0 .. (n - 1) : i >= W}
      /\ IsFiniteSet(Valid(rs)) /\ Valid(rs) \subseteq Nat
  BY <1>2, <1>3, ValidRows
<1>7. Valid(rs) # {}  BY <1>5, FS_EmptySet
<1>8. n > W
  <2>1. PICK i \in 0 .. (n - 1) : i >= W  BY <1>6, <1>7
  <2>2. QED  BY <1>2, <2>1
<1>9. GoesOn(Before(rs, n - 1), W, S, L, E)
  <2>1. n - 1 \in DOMAIN rs  BY <1>2, <1>3, <1>8
  <2>2. QED  BY <2>1 DEF RowByRow
<1>10. /\ Cardinality(Valid(Before(rs, n - 1))) < Goal(Before(rs, n - 1), S, L)
       /\ (n - 1) - W < Goal(Before(rs, n - 1), S, L) + E
  <2>1. n - 1 \in 0 .. n /\ n - 1 >= W  BY <1>2, <1>8
  <2>2. QED  BY <1>3, <1>9, <2>1, GoesOnMeans
<1>11. Valid(Before(rs, n - 1)) = {i \in Valid(rs) : i < n - 1}
  <2>1. n - 1 \in 0 .. n  BY <1>2, <1>8
  <2>2. QED  BY <1>2, <1>3, <2>1, BeforeMeans
<1>12. Valid(Before(rs, n - 1)) # {} => Goal(Before(rs, n - 1), S, L) = T
  <2>1. n - 1 \in 0 .. n  BY <1>2, <1>8
  <2>2. QED  BY <1>3, <1>4, <2>1, GoalStays
<1>13. n - 1 \in Valid(rs)
  <2> SUFFICES ASSUME n - 1 \notin Valid(rs) PROVE FALSE  OBVIOUS
  <2>1. \A i \in Valid(rs) : i < n - 1  BY <1>6
  <2>2. Valid(Before(rs, n - 1)) = Valid(rs)  BY <1>11, <2>1
  <2>3. T < T  BY <1>5, <1>7, <1>10, <1>12, <2>2
  <2>4. QED  BY <2>3
<1>14. n <= T + E + W
  <2>1. CASE Valid(Before(rs, n - 1)) # {}
    <3>1. (n - 1) - W < T + E  BY <1>10, <1>12, <2>1
    <3>2. QED  BY <1>2, <1>4, <3>1
  <2>2. CASE Valid(Before(rs, n - 1)) = {}
    <3>1. Valid(rs) = {n - 1}  BY <1>6, <1>11, <1>13, <2>2
    <3>2. T = 1  BY <1>5, <3>1, FS_Singleton
    <3>3. S = T
      <4>1. T \in {S, L}  BY <1>4, GoalType
      <4>2. QED  BY <3>2, <4>1 DEF Numbers
    <3>4. Goal(Before(rs, n - 1), S, L) = S  BY <2>2 DEF Goal
    <3>5. (n - 1) - W < T + E  BY <1>10, <3>3, <3>4
    <3>6. QED  BY <1>2, <1>4, <3>5
  <2>3. QED  BY <2>1, <2>2
<1>15. ASSUME NEW i \in 0 .. (n - 1) PROVE GoodEnough(rs[i].reason)
  <2>1. CASE i = n - 1
    <3>1. rs[i].reason = None  BY <1>13, <2>1 DEF Valid, Included
    <3>2. QED  BY <3>1 DEF GoodEnough
  <2>2. CASE i # n - 1
    <3>1. i + 1 \in DOMAIN rs /\ i + 1 \in 0 .. n /\ i + 1 > 0 /\ (i + 1) - 1 = i
      BY <1>3, <2>2
    <3>2. GoesOn(Before(rs, i + 1), W, S, L, E)  BY <3>1 DEF RowByRow
    <3>3. i + 1 > 0 => GoodEnough(rs[(i + 1) - 1].reason)
      BY <1>3, <3>1, <3>2, GoesOnMeans
    <3>4. QED  BY <3>1, <3>3
  <2>3. QED  BY <2>1, <2>2
<1>16. RowsGood(rs, n, W)
  <2>1. \A i \in 0 .. (n - 1) : /\ i < W => rs[i].reason = "warmup"
                                /\ i >= W => Included(rs[i]) \/ Replaceable(rs[i].reason)
    BY <1>2, <1>3, <1>15, GoodRow
  <2>2. \A i \in 0 .. (W - 1) : i \in 0 .. (n - 1) /\ i < W  BY <1>2, <1>8
  <2>3. QED  BY <2>1, <2>2 DEF RowsGood
<1>17. QED  BY <1>1, <1>3, <1>4, <1>5, <1>8, <1>13, <1>14, <1>16 DEF Whole

\* Conversely run_lane would have taken every one of the rows of a whole lane:
\* each time the rows before were too few and within the budget.
LEMMA WholeIsRowByRow ==
  ASSUME NEW rs, NEW W, NEW S, NEW L, NEW E, Numbers(W, S, L, E), RowsFit(rs, W),
         Whole(rs, Cardinality(DOMAIN rs), W, S, L, E)
  PROVE  RowByRow(rs, W, S, L, E)
<1>1. PICK n \in Nat : n = Cardinality(DOMAIN rs)  BY ValidRows DEF Numbers
<1>2. W \in Nat /\ E \in Nat /\ S \in Nat  BY DEF Numbers
<1>3. PICK T \in Nat \ {0} : T = Goal(rs, S, L)  BY GoalType
<1>4. /\ n > W /\ DOMAIN rs = 0 .. (n - 1) /\ RowsGood(rs, n, W)
      /\ n - 1 \in Valid(rs) /\ Cardinality(Valid(rs)) = T /\ n <= T + E + W
  BY <1>1, <1>3 DEF Whole
<1>5. /\ Valid(rs) \subseteq {i \in 0 .. (n - 1) : i >= W}
      /\ IsFiniteSet(Valid(rs)) /\ Valid(rs) \subseteq Nat
  BY <1>2, <1>4, ValidRows
<1>6. \A i \in DOMAIN rs : GoodEnough(rs[i].reason)
  <2> SUFFICES ASSUME NEW i \in DOMAIN rs PROVE GoodEnough(rs[i].reason)  OBVIOUS
  <2>1. i < W => i \in 0 .. (W - 1)  BY <1>2, <1>4
  <2>2. /\ i < W => rs[i].reason = "warmup"
        /\ i >= W => Included(rs[i]) \/ Replaceable(rs[i].reason)
    BY <1>4, <2>1 DEF RowsGood
  <2>3. QED  BY <1>2, <2>2, GoodRow
<1>7. ASSUME NEW m \in DOMAIN rs PROVE GoesOn(Before(rs, m), W, S, L, E)
  <2>1. m \in 0 .. n /\ m \in Nat /\ m <= n - 1  BY <1>4
  <2>2. m > 0 => GoodEnough(rs[m - 1].reason)
    <3>1. m > 0 => m - 1 \in DOMAIN rs  BY <1>4
    <3>2. QED  BY <1>6, <3>1
  <2>3. Valid(Before(rs, m)) = {i \in Valid(rs) : i < m}
    BY <1>2, <1>4, <2>1, BeforeMeans
  <2>4. ASSUME m >= W, Valid(Before(rs, m)) = {}
        PROVE  /\ Cardinality(Valid(Before(rs, m))) < Goal(Before(rs, m), S, L)
               /\ m - W < Goal(Before(rs, m), S, L) + E
    <3>1. Goal(Before(rs, m), S, L) = S /\ S > 0  BY <1>2, <2>4 DEF Goal, Numbers
    <3>2. Cardinality(Valid(Before(rs, m))) = 0  BY <2>4, FS_EmptySet
    <3>3. Valid(rs) \subseteq m .. (n - 1)
      <4> SUFFICES ASSUME NEW i \in Valid(rs) PROVE i \in m .. (n - 1)  OBVIOUS
      <4>1. ~(i < m)  BY <2>3, <2>4
      <4>2. QED  BY <1>5, <2>1, <4>1
    <3>4. IsFiniteSet(m .. (n - 1)) /\ Cardinality(m .. (n - 1)) = n - m
      <4>1. m \in Int /\ n - 1 \in Int /\ ~(m > n - 1)  BY <2>1
      <4>2. Cardinality(m .. (n - 1)) = (n - 1) - m + 1 /\ IsFiniteSet(m .. (n - 1))
        BY <4>1, FS_Interval
      <4>3. (n - 1) - m + 1 = n - m  BY <2>1
      <4>4. QED  BY <4>2, <4>3
    <3>5. T <= n - m  BY <1>4, <3>3, <3>4, FS_Subset
    <3>6. m - W < S + E  BY <1>2, <1>4, <2>1, <3>1, <3>5
    <3>7. QED  BY <3>1, <3>2, <3>6
  <2>5. ASSUME Valid(Before(rs, m)) # {}
        PROVE  /\ Cardinality(Valid(Before(rs, m))) < Goal(Before(rs, m), S, L)
               /\ m - W < Goal(Before(rs, m), S, L) + E
    <3>1. Goal(Before(rs, m), S, L) = T  BY <1>3, <1>4, <2>1, <2>5, GoalStays
    <3>2. Valid(Before(rs, m)) \subseteq Valid(rs) \ {n - 1}
      BY <1>5, <2>1, <2>3
    <3>3. IsFiniteSet(Valid(rs) \ {n - 1}) /\ Cardinality(Valid(rs) \ {n - 1}) = T - 1
      BY <1>4, <1>5, FS_RemoveElement
    <3>4. /\ Cardinality(Valid(Before(rs, m))) <= T - 1
          /\ IsFiniteSet(Valid(Before(rs, m)))
      BY <3>2, <3>3, FS_Subset
    <3>5. Cardinality(Valid(Before(rs, m))) \in Nat  BY <3>4, FS_CardinalityType
    <3>6. Cardinality(Valid(Before(rs, m))) < T  BY <3>4, <3>5
    <3>7. m - W < T + E  BY <1>2, <1>4, <2>1
    <3>8. QED  BY <3>1, <3>6, <3>7
  <2>6. QED  BY <1>4, <2>1, <2>2, <2>4, <2>5, GoesOnMeans
<1>8. ~GoesOn(rs, W, S, L, E)
  <2>1. n >= W /\ ~(T < T)  BY <1>2, <1>4
  <2>2. QED  BY <1>1, <1>3, <1>4, <2>1 DEF GoesOn
<1>9. Contiguous(rs)  BY <1>1, <1>4 DEF Contiguous
<1>10. QED  BY <1>3, <1>4, <1>7, <1>8, <1>9 DEF RowByRow

\* So run.py and combine.py say the same of every lane.
LEMMA SameSchedule ==
  ASSUME NEW rs, NEW W, NEW S, NEW L, NEW E, Numbers(W, S, L, E), RowsFit(rs, W)
  PROVE  AllAtOnce(rs, W, S, L, E) <=> RowByRow(rs, W, S, L, E)
BY AllAtOnceMeans, RowByRowIsWhole, WholeIsRowByRow

-----------------------------------------------------------------------------
(* The policies, in these numbers.                                            *)

ShortOf(p) == CASE p = "direct_short" -> DirectTarget
                [] p = "full_gate" -> FullTarget
                [] p = "adaptive" -> ShortTarget
LongOf(p)  == CASE p = "direct_short" -> DirectTarget
                [] p = "full_gate" -> FullTarget
                [] p = "adaptive" -> LongTarget
Schedule(p) == Numbers(WarmupsOf(p), ShortOf(p), LongOf(p), MaxExtra)

\* Every policy has its numbers.
LEMMA PolicyNumbers == ASSUME NEW p \in Policies PROVE Schedule(p) /\ WarmupsOf(p) \in Nat
<1>1. /\ {DirectTarget, ShortTarget, FullTarget} \subseteq Nat \ {0}
      /\ LongTarget \in Nat \ {0, 1} /\ {Warmups, MaxExtra} \subseteq Nat
  BY ScheduleAssumption
<1>2. p = "direct_short" \/ p = "adaptive" \/ p = "full_gate"  BY DEF Policies
<1>3. CASE p = "direct_short"
  BY <1>1, <1>3 DEF Schedule, Numbers, WarmupsOf, ShortOf, LongOf
<1>4. CASE p = "adaptive"
  BY <1>1, <1>4 DEF Schedule, Numbers, WarmupsOf, ShortOf, LongOf
<1>5. CASE p = "full_gate"
  BY <1>1, <1>5 DEF Schedule, Numbers, WarmupsOf, ShortOf, LongOf
<1>6. QED  BY <1>2, <1>3, <1>4, <1>5

\* run_lane's target, decision and account of a lane.
LEMMA TargetMeans ==
  ASSUME NEW p \in Policies, NEW rs PROVE Target(p, rs) = Goal(rs, ShortOf(p), LongOf(p))
<1>1. p = "direct_short" \/ p = "adaptive" \/ p = "full_gate"  BY DEF Policies
<1>2. CASE p = "direct_short"  BY <1>2 DEF Target, Goal, ShortOf, LongOf
<1>3. CASE p = "adaptive"  BY <1>3 DEF Target, Goal, ShortOf, LongOf
<1>4. CASE p = "full_gate"  BY <1>4 DEF Target, Goal, ShortOf, LongOf
<1>5. QED  BY <1>1, <1>2, <1>3, <1>4

\* When it goes on.
LEMMA ContinuesMeans ==
  ASSUME NEW p \in Policies, NEW rs
  PROVE  Continues(p, rs) <=> GoesOn(rs, WarmupsOf(p), ShortOf(p), LongOf(p), MaxExtra)
<1>1. Target(p, rs) = Goal(rs, ShortOf(p), LongOf(p))  BY TargetMeans
<1>2. QED  BY <1>1 DEF Continues, GoesOn, GoodEnough

\* What it calls a complete lane.
LEMMA ProducedMeans ==
  ASSUME NEW p \in Policies, NEW rs
  PROVE  Produced(p, rs) <=> RowByRow(rs, WarmupsOf(p), ShortOf(p), LongOf(p), MaxExtra)
<1>1. Target(p, rs) = Goal(rs, ShortOf(p), LongOf(p))  BY TargetMeans
<1>2. /\ Continues(p, rs) <=> GoesOn(rs, WarmupsOf(p), ShortOf(p), LongOf(p), MaxExtra)
      /\ \A n \in DOMAIN rs :
           Continues(p, Before(rs, n))
             <=> GoesOn(Before(rs, n), WarmupsOf(p), ShortOf(p), LongOf(p), MaxExtra)
  BY ContinuesMeans
<1>3. QED  BY <1>1, <1>2 DEF Produced, RowByRow, Complete

\* What combine.py accepts; a lane that reaches its goal has a valid row.
LEMMA ScheduleOKMeans ==
  ASSUME NEW p \in Policies, NEW rs, RowsFit(rs, WarmupsOf(p))
  PROVE  ScheduleOK(p, rs)
           <=> AllAtOnce(rs, WarmupsOf(p), ShortOf(p), LongOf(p), MaxExtra)
<1>1. Target(p, rs) = Goal(rs, ShortOf(p), LongOf(p))  BY TargetMeans
<1>2. AllAtOnce(rs, WarmupsOf(p), ShortOf(p), LongOf(p), MaxExtra) => HasTarget(p, rs)
  <2>1. Goal(rs, ShortOf(p), LongOf(p)) \in Nat \ {0}
    BY PolicyNumbers, GoalType DEF Schedule
  <2>2. Valid(rs) = {} => Cardinality(Valid(rs) \cap {i \in DOMAIN rs : i >= WarmupsOf(p)}) = 0
    BY FS_EmptySet
  <2>3. QED  BY <2>1, <2>2 DEF AllAtOnce, HasTarget
<1>3. QED  BY <1>1, <1>2 DEF ScheduleOK, AllAtOnce

\* Of rows as derive_invalid_reason leaves them, combine.py accepts exactly
\* those of a complete run_lane.
THEOREM Agreement ==
  ASSUME NEW p \in Policies, NEW rs, RowsFit(rs, WarmupsOf(p))
  PROVE  ScheduleOK(p, rs) <=> Produced(p, rs)
<1>1. Schedule(p)  BY PolicyNumbers
<1>2. QED  BY <1>1, SameSchedule, ProducedMeans, ScheduleOKMeans DEF Schedule

\* derive_invalid_reason's answer for an early row, a warm-up, and for another.
ReasonAt(early, d) ==
  LET all == d \cup IF early THEN {"warmup"} ELSE {}
      hits == {k \in DOMAIN Order : Order[k] \in all}
  IN  IF hits = {} THEN None ELSE Order[Min(hits)]

\* As far as the schedule goes, it tells them apart.
LEMMA ReasonFits ==
  ASSUME NEW early, NEW d, "warmup" \notin d
  PROVE  /\ early => ReasonAt(early, d) # None /\ ~Replaceable(ReasonAt(early, d))
         /\ ~early => ReasonAt(early, d) # "warmup"
<1> DEFINE all == d \cup IF early THEN {"warmup"} ELSE {}
           hits == {k \in DOMAIN Order : Order[k] \in all}
<1>1. /\ DOMAIN Order = 1 .. 11 /\ hits \subseteq Nat
      /\ Order[1] = "invocation_error" /\ Order[2] = "timeout"
      /\ Order[3] = "unexpected_exit" /\ Order[4] = "runner_runtime_invalid"
      /\ Order[5] = "runner_summary_missing" /\ Order[6] = "artifact_missing"
      /\ Order[7] = "phase_trace_invalid" /\ Order[8] = "warmup"
      /\ Order[9] = "missing_exact_metrics" /\ Order[10] = "measurement_errors"
      /\ Order[11] = "rss_incomplete"
  BY DEF Order
<1>2. ReasonAt(early, d) = IF hits = {} THEN None ELSE Order[Min(hits)]
  BY DEF ReasonAt
<1>4. ASSUME hits # {} PROVE Min(hits) \in hits /\ \A k \in hits : Min(hits) <= k
  BY <1>1, <1>4, MinMeans
<1>5. ASSUME early
      PROVE  ReasonAt(early, d) # None /\ ~Replaceable(ReasonAt(early, d))
  <2>1. 8 \in hits  BY <1>1, <1>5
  <2>2. Min(hits) \in 1 .. 8
    <3>1. Min(hits) \in hits /\ Min(hits) <= 8  BY <1>4, <2>1
    <3>2. Min(hits) \in 1 .. 11  BY <1>1, <3>1
    <3>3. QED  BY <3>1, <3>2
  <2>3. ReasonAt(early, d) = Order[Min(hits)]  BY <1>2, <2>1
  <2> HIDE DEF hits
  <2>4. PICK k \in 1 .. 8 : k = Min(hits)  BY <2>2
  <2>5. k \in {1, 2, 3, 4, 5, 6, 7, 8}  BY <2>4
  <2>6. ReasonAt(early, d) \in {"invocation_error", "timeout", "unexpected_exit",
           "runner_runtime_invalid", "runner_summary_missing", "artifact_missing",
           "phase_trace_invalid", "warmup"}
    BY <1>1, <2>3, <2>4, <2>5
  <2>7. QED  BY <2>6 DEF None, Replaceable
<1>6. ASSUME ~early, ReasonAt(early, d) = "warmup" PROVE FALSE
  <2>1. all = d  BY <1>6
  <2>2. hits # {}  BY <1>2, <1>6 DEF None
  <2>3. Order[Min(hits)] = "warmup"  BY <1>2, <1>6, <2>2
  <2>4. Min(hits) \in hits  BY <1>4, <2>2
  <2>5. QED  BY <2>1, <2>3, <2>4
<1>7. QED  BY <1>5, <1>6

\* A row that is written behind the rows of a lane fits them.
LEMMA RowFits ==
  ASSUME NEW p \in Policies, NEW rs, RowsFit(rs, WarmupsOf(p)),
         NEW i \in Nat, NEW d, "warmup" \notin d, NEW slow, NEW ss,
         DOMAIN ss = DOMAIN rs \cup {i},
         \A j \in DOMAIN ss : ss[j] = IF j = i THEN Row(p, i, d, slow) ELSE rs[j]
  PROVE  RowsFit(ss, WarmupsOf(p))
<1>1. IsFiniteSet(DOMAIN ss) /\ DOMAIN ss \subseteq Nat
  BY FS_AddElement DEF RowsFit
<1>2. Reason(p, i, d) = ReasonAt(i < WarmupsOf(p), d)  BY DEF Reason, ReasonAt
<1>3. /\ i < WarmupsOf(p) => /\ Reason(p, i, d) # None
                             /\ ~Replaceable(Reason(p, i, d))
      /\ ~(i < WarmupsOf(p)) => Reason(p, i, d) # "warmup"
  BY <1>2, ReasonFits
<1>4. Row(p, i, d, slow).reason = Reason(p, i, d)  BY DEF Row
<1>5. WarmupsOf(p) \in Nat  BY PolicyNumbers
<1>6. ASSUME NEW j \in DOMAIN ss
      PROVE  /\ j < WarmupsOf(p) => ~Included(ss[j]) /\ ~Replaceable(ss[j].reason)
             /\ j >= WarmupsOf(p) => ss[j].reason # "warmup"
  <2>1. CASE j = i
    <3>1. ss[j].reason = Reason(p, i, d)  BY <1>4, <2>1
    <3>2. i >= WarmupsOf(p) => ~(i < WarmupsOf(p))  BY <1>5
    <3>3. QED  BY <1>3, <2>1, <3>1, <3>2 DEF Included
  <2>2. CASE j # i
    <3>1. j \in DOMAIN rs /\ ss[j] = rs[j]  BY <2>2
    <3>2. QED  BY <3>1 DEF RowsFit
  <2>3. QED  BY <2>1, <2>2
<1>7. QED  BY <1>1, <1>6 DEF RowsFit

-----------------------------------------------------------------------------
(* Rows as combine.py may find them (RetainedRows), whose numbers are the     *)
(* ones this instance gives it.                                               *)

KeptShort(p) == CASE p = "direct_short" -> 4 [] p = "full_gate" -> 3 [] p = "adaptive" -> 5
KeptLong(p)  == CASE p = "direct_short" -> 4 [] p = "full_gate" -> 3 [] p = "adaptive" -> 3
KeptWarm(p)  == IF p = "direct_short" THEN 1 ELSE 0

\* The operators that the instance takes from the library are those of the library.
LEMMA SameLibrary ==
  ASSUME NEW set
  PROVE  Retained!Cardinality(set) = Cardinality(set) /\ Retained!Max(set) = Max(set)
<1>1. Retained!Cardinality(set) = Cardinality(set)
  BY DEF Retained!Cardinality, Cardinality
<1>2. Retained!Max(set) = Max(set)  BY DEF Retained!Max, Max
<1>3. QED  BY <1>1, <1>2

\* The operators on rows do not depend on the numbers.
LEMMA SameOperators ==
  ASSUME NEW rs, NEW n, NEW p
  PROVE  /\ Retained!Valid(rs) = Valid(rs) /\ Retained!None = None
         /\ Retained!Before(rs, n) = Before(rs, n)
         /\ Retained!Contiguous(rs) <=> Contiguous(rs)
         /\ Retained!WarmupsOf(p) = KeptWarm(p)
         /\ \A row : /\ Retained!Included(row) <=> Included(row)
                     /\ Retained!Replaceable(row) <=> Replaceable(row)
<1>1. /\ Retained!None = None
      /\ \A row : /\ Retained!Included(row) <=> Included(row)
                  /\ Retained!Replaceable(row) <=> Replaceable(row)
  BY DEF Retained!None, None, Retained!Included, Included, Retained!Replaceable, Replaceable
<1>2. Retained!Valid(rs) = Valid(rs)  BY <1>1 DEF Retained!Valid, Valid
<1>3. Retained!Before(rs, n) = Before(rs, n)  BY DEF Retained!Before, Before
<1>4. Retained!Contiguous(rs) <=> Contiguous(rs)
  BY SameLibrary DEF Retained!Contiguous, Contiguous
<1>5. Retained!WarmupsOf(p) = KeptWarm(p)  BY DEF Retained!WarmupsOf, KeptWarm
<1>6. QED  BY <1>1, <1>2, <1>3, <1>4, <1>5

\* Its policies have their numbers too,
LEMMA KeptNumbers ==
  ASSUME NEW p \in Policies
  PROVE  Numbers(KeptWarm(p), KeptShort(p), KeptLong(p), 2) /\ KeptWarm(p) \in Nat
BY DEF Policies, Numbers, KeptWarm, KeptShort, KeptLong

\* its targets,
LEMMA KeptTarget ==
  ASSUME NEW p \in Policies, NEW rs
  PROVE  Retained!Target(p, rs) = Goal(rs, KeptShort(p), KeptLong(p))
<1>1. Retained!Valid(rs) = Valid(rs)  BY SameOperators
<1>2. p = "direct_short" \/ p = "adaptive" \/ p = "full_gate"  BY DEF Policies
<1>3. CASE p = "direct_short"  BY <1>1, <1>3 DEF Retained!Target, Goal, KeptShort, KeptLong
<1>4. CASE p = "adaptive"  BY <1>1, <1>4 DEF Retained!Target, Goal, KeptShort, KeptLong
<1>5. CASE p = "full_gate"  BY <1>1, <1>5 DEF Retained!Target, Goal, KeptShort, KeptLong
<1>6. QED  BY <1>2, <1>3, <1>4, <1>5

\* its decision after each row,
LEMMA KeptContinues ==
  ASSUME NEW p \in Policies, NEW rs
  PROVE  Retained!Continues(p, rs)
           <=> GoesOn(rs, KeptWarm(p), KeptShort(p), KeptLong(p), 2)
<1>1. Retained!Target(p, rs) = Goal(rs, KeptShort(p), KeptLong(p))  BY KeptTarget
<1>2. /\ Retained!Valid(rs) = Valid(rs) /\ Retained!None = None
      /\ Retained!WarmupsOf(p) = KeptWarm(p)
      /\ \A row : Retained!Replaceable(row) <=> Replaceable(row)
  BY SameOperators
<1>3. Retained!Cardinality(DOMAIN rs) = Cardinality(DOMAIN rs)
      /\ Retained!Cardinality(Valid(rs)) = Cardinality(Valid(rs))
  BY SameLibrary
<1>4. QED  BY <1>1, <1>2, <1>3 DEF Retained!Continues, GoesOn, GoodEnough

\* and its two accounts of a lane.
LEMMA KeptJudgement ==
  ASSUME NEW p \in Policies, NEW rs, RowsFit(rs, KeptWarm(p))
  PROVE  Retained!ScheduleOK(p, rs) <=> Retained!Produced(p, rs)
<1>1. Retained!Target(p, rs) = Goal(rs, KeptShort(p), KeptLong(p))  BY KeptTarget
<1>2. /\ Retained!Valid(rs) = Valid(rs)
      /\ Retained!WarmupsOf(p) = KeptWarm(p)
      /\ Retained!Contiguous(rs) <=> Contiguous(rs)
      /\ \A row : /\ Retained!Included(row) <=> Included(row)
                  /\ Retained!Replaceable(row) <=> Replaceable(row)
  BY SameOperators
<1>3. \A n : Retained!Before(rs, n) = Before(rs, n)  BY SameOperators
<1>4. \A n \in DOMAIN rs :
         Retained!Continues(p, Retained!Before(rs, n))
           <=> GoesOn(Before(rs, n), KeptWarm(p), KeptShort(p), KeptLong(p), 2)
  BY <1>3, KeptContinues
<1>5. Retained!Produced(p, rs)
        <=> RowByRow(rs, KeptWarm(p), KeptShort(p), KeptLong(p), 2)
  <2>1. Retained!Complete(p, rs)
          <=> Cardinality(Valid(rs)) = Goal(rs, KeptShort(p), KeptLong(p))
    BY <1>1, <1>2, SameLibrary DEF Retained!Complete
  <2>2. QED  BY <1>2, <1>4, <2>1, KeptContinues DEF Retained!Produced, RowByRow
<1>6. AllAtOnce(rs, KeptWarm(p), KeptShort(p), KeptLong(p), 2)
        => Retained!HasTarget(p, rs)
  <2>1. Goal(rs, KeptShort(p), KeptLong(p)) \in Nat \ {0}  BY KeptNumbers, GoalType
  <2>2. Valid(rs) = {} => Cardinality(Valid(rs) \cap {i \in DOMAIN rs : i >= KeptWarm(p)}) = 0
    BY FS_EmptySet
  <2>3. QED  BY <1>2, <2>1, <2>2 DEF AllAtOnce, Retained!HasTarget
<1>7. Retained!ScheduleOK(p, rs)
        <=> AllAtOnce(rs, KeptWarm(p), KeptShort(p), KeptLong(p), 2)
  <2> DEFINE measured == {i \in DOMAIN rs : i >= KeptWarm(p)}
             warm == {i \in DOMAIN rs : rs[i].reason = "warmup"}
  <2>1. /\ Retained!Cardinality(DOMAIN rs) = Cardinality(DOMAIN rs)
        /\ Retained!Cardinality(warm) = Cardinality(warm)
        /\ Retained!Cardinality(Valid(rs) \cap measured) = Cardinality(Valid(rs) \cap measured)
        /\ Retained!Max(measured) = Max(measured)
    BY SameLibrary
  <2>2. Retained!ScheduleOK(p, rs) <=>
           /\ Retained!HasTarget(p, rs)
           /\ Contiguous(rs)
           /\ Retained!Cardinality(warm) = KeptWarm(p)
           /\ \A i \in measured : Included(rs[i]) \/ Replaceable(rs[i].reason)
           /\ Retained!Cardinality(Valid(rs) \cap measured)
                = Goal(rs, KeptShort(p), KeptLong(p))
           /\ measured # {} /\ Included(rs[Retained!Max(measured)])
           /\ Retained!Cardinality(DOMAIN rs)
                <= Goal(rs, KeptShort(p), KeptLong(p)) + 2 + KeptWarm(p)
    BY <1>1, <1>2 DEF Retained!ScheduleOK
  <2>3. AllAtOnce(rs, KeptWarm(p), KeptShort(p), KeptLong(p), 2) <=>
           /\ Contiguous(rs)
           /\ Cardinality(warm) = KeptWarm(p)
           /\ \A i \in measured : Included(rs[i]) \/ Replaceable(rs[i].reason)
           /\ Cardinality(Valid(rs) \cap measured) = Goal(rs, KeptShort(p), KeptLong(p))
           /\ measured # {} /\ Included(rs[Max(measured)])
           /\ Cardinality(DOMAIN rs) <= Goal(rs, KeptShort(p), KeptLong(p)) + 2 + KeptWarm(p)
    BY DEF AllAtOnce
  <2> HIDE DEF measured, warm
  <2>4. QED  BY <1>6, <2>1, <2>2, <2>3
<1>8. QED  BY <1>5, <1>7, KeptNumbers, SameSchedule

\* The rows of a run directory fit the policy, whatever else they are.
KeptInv == policy \in Policies /\ RowsFit(keptRows, KeptWarm(policy))

\* A row that is put there fits.
LEMMA PutRowKept == ASSUME KeptInv, Retained!PutRow PROVE KeptInv'
<1>1. PICK i \in (0 .. MaxRows - 1) \ DOMAIN keptRows, d \in DefectSets, slow \in BOOLEAN :
         /\ keptRows' = [j \in DOMAIN keptRows \cup {i} |->
                IF j = i THEN Retained!Row(policy, i, d, slow) ELSE keptRows[j]]
         /\ policy' = policy
  BY DEF Retained!PutRow
<1>2. policy \in Policies /\ RowsFit(keptRows, KeptWarm(policy))  BY DEF KeptInv
<1>3. i \in Nat  BY <1>1
<1>4. /\ DOMAIN keptRows' = DOMAIN keptRows \cup {i}
      /\ \A j \in DOMAIN keptRows' :
            keptRows'[j] = IF j = i THEN Retained!Row(policy, i, d, slow) ELSE keptRows[j]
  BY <1>1
<1>5. IsFiniteSet(DOMAIN keptRows') /\ DOMAIN keptRows' \subseteq Nat
  BY <1>2, <1>3, <1>4, FS_AddElement DEF RowsFit
<1>6. Retained!Reason(policy, i, d) = ReasonAt(i < KeptWarm(policy), d)
  BY SameOperators DEF Retained!Reason, ReasonAt, Retained!Order, Order, Retained!Min, Min
<1>7. "warmup" \notin d  BY DefectAssumption
<1>8. KeptWarm(policy) \in Nat  BY <1>2, KeptNumbers
<1>9. /\ i < KeptWarm(policy) => /\ Retained!Reason(policy, i, d) # None
                                 /\ ~Replaceable(Retained!Reason(policy, i, d))
      /\ i >= KeptWarm(policy) => Retained!Reason(policy, i, d) # "warmup"
  <2>1. i >= KeptWarm(policy) => ~(i < KeptWarm(policy))  BY <1>3, <1>8
  <2>2. QED  BY <1>6, <1>7, <2>1, ReasonFits
<1>10. Retained!Row(policy, i, d, slow).reason = Retained!Reason(policy, i, d)
  BY DEF Retained!Row
<1>11. ASSUME NEW j \in DOMAIN keptRows'
       PROVE  /\ j < KeptWarm(policy) => /\ ~Included(keptRows'[j])
                                         /\ ~Replaceable(keptRows'[j].reason)
              /\ j >= KeptWarm(policy) => keptRows'[j].reason # "warmup"
  <2>1. CASE j = i
    <3>1. keptRows'[j].reason = Retained!Reason(policy, i, d)  BY <1>4, <1>10, <2>1
    <3>2. QED  BY <1>9, <2>1, <3>1 DEF Included
  <2>2. CASE j # i
    <3>1. j \in DOMAIN keptRows /\ keptRows'[j] = keptRows[j]  BY <1>4, <2>2
    <3>2. QED  BY <1>2, <3>1 DEF RowsFit
  <2>3. QED  BY <2>1, <2>2
<1>12. RowsFit(keptRows', KeptWarm(policy))  BY <1>5, <1>11 DEF RowsFit
<1>13. QED  BY <1>1, <1>2, <1>12 DEF KeptInv

\* The judgements agree on whatever rows there are.
LEMMA RetainedAgree == Retained!Spec => []Retained!SameJudgement
<1>1. Retained!Init => KeptInv
  <2> SUFFICES ASSUME Retained!Init PROVE KeptInv  OBVIOUS
  <2>1. policy \in Policies /\ DOMAIN keptRows = {}
    BY DEF Retained!Init, Retained!Policies, Policies
  <2>2. QED  BY <2>1, FS_EmptySet DEF KeptInv, RowsFit
<1>2. KeptInv /\ [Retained!Next]_(Retained!vars) => KeptInv'
  <2>1. ASSUME KeptInv, Retained!Next PROVE KeptInv'
    BY <2>1, PutRowKept DEF Retained!Next
  <2>2. ASSUME KeptInv, UNCHANGED Retained!vars PROVE KeptInv'
    <3>1. policy' = policy /\ keptRows' = keptRows  BY <2>2 DEF Retained!vars
    <3>2. QED  BY <2>2, <3>1 DEF KeptInv
  <2>3. QED  BY <2>1, <2>2
<1>3. KeptInv => Retained!SameJudgement
  BY KeptJudgement DEF KeptInv, Retained!SameJudgement
<1>4. QED  BY <1>1, <1>2, <1>3, PTL DEF Retained!Spec

-----------------------------------------------------------------------------
(* The harness runs (BenchRun).                                               *)

\* TypeOK up to the lanes, with the shape of the functions.
RunTypes ==
    /\ phase \in [Runs -> {"fresh", "running", "stopping", "done", "dead"}]
    /\ todo \in [Runs -> SUBSET Lanes]
    /\ lane \in [Runs -> Lanes \cup {NoLane}]
    /\ machine \in [Runs -> Machines]
    /\ exit \in [Runs -> {NoExit, 0, 1, 2}]
    /\ combined \subseteq SUBSET Runs
    /\ DOMAIN rows = Runs /\ rows = [r \in Runs |-> rows[r]]
    /\ \A r \in Runs : DOMAIN rows[r] = Lanes /\ rows[r] = [l \in Lanes |-> rows[r][l]]
    /\ made \in [Runs -> [Lanes -> Nat]]
    /\ DOMAIN lanes = Runs /\ lanes = [r \in Runs |-> lanes[r]]
    /\ \A r \in Runs : DOMAIN lanes[r] \subseteq Lanes

\* The rows of a lane are rows that run_lane took, one after the other.
Taken(p, rs) ==
    /\ RowsFit(rs, WarmupsOf(p))
    /\ Contiguous(rs) /\ rs = [i \in DOMAIN rs |-> rs[i]]
    /\ \A m \in DOMAIN rs : Continues(p, Before(rs, m))

\* One invocation more than the rows, at most, and never more than the budget.
Budget(p) == WarmupsOf(p) + MaxExtra + Max({DirectTarget, ShortTarget, LongTarget, FullTarget})
Counted(r, l) ==
    /\ Cardinality(DOMAIN rows[r][l]) <= made[r][l]
    /\ made[r][l] <= Budget(PolicyOf[l])
    /\ phase[r] # "dead" => made[r][l] = Cardinality(DOMAIN rows[r][l])

\* A lane is either waiting, or measured now, or measured and summed up, or
\* not selected; and its summary is what its rows say.
Filed(r, l) ==
    /\ l \in todo[r] => /\ rows[r][l] = NoRows /\ l \notin DOMAIN lanes[r]
                        /\ l # lane[r]
    /\ l = lane[r] => l \notin DOMAIN lanes[r]
    /\ l \in DOMAIN lanes[r] => /\ ~Continues(PolicyOf[l], rows[r][l])
                                /\ lanes[r][l] = Complete(PolicyOf[l], rows[r][l])
    /\ rows[r][l] # NoRows => l = lane[r] \/ l \in DOMAIN lanes[r]
LaneHolds(r, l) == /\ Taken(PolicyOf[l], rows[r][l])
                   /\ Counted(r, l) /\ Filed(r, l)

\* Where a run stands; a run that stops has left no lane out if it is complete.
RunStands(r) ==
    /\ phase[r] = "fresh" => /\ lane[r] = NoLane /\ DOMAIN lanes[r] = {}
                             /\ \A l \in Lanes : rows[r][l] = NoRows
    /\ phase[r] \in {"stopping", "done"} =>
          lane[r] = NoLane /\ (Completion(lanes[r]) => todo[r] = {})
    /\ exit[r] = 0 => phase[r] = "done" /\ Completion(lanes[r])

BenchInv ==
    /\ RunTypes
    /\ \A r \in Runs : RunStands(r) /\ \A l \in Lanes : LaneHolds(r, l)
    /\ \A S \in combined : Accepts(S)

\* The largest of the targets.
LEMMA BudgetMeans ==
  ASSUME NEW p \in Policies
  PROVE  /\ Budget(p) \in Nat
         /\ \A rs : WarmupsOf(p) + Target(p, rs) + MaxExtra <= Budget(p)
<1> DEFINE four == {DirectTarget, ShortTarget, LongTarget, FullTarget}
           a == IF DirectTarget >= ShortTarget THEN DirectTarget ELSE ShortTarget
           b == IF LongTarget >= FullTarget THEN LongTarget ELSE FullTarget
           v == IF a >= b THEN a ELSE b
<1>1. four \subseteq Nat /\ WarmupsOf(p) \in Nat /\ MaxExtra \in Nat
  BY ScheduleAssumption, PolicyNumbers
<1>2. v \in four /\ \A y \in four : v >= y  BY <1>1
<1>3. Max(four) = v
  <2> HIDE DEF four, v
  <2>1. QED  BY <1>1, <1>2, MaxIs
<1>4. v \in Nat  BY <1>1, <1>2
<1>5. Budget(p) = WarmupsOf(p) + MaxExtra + v  BY <1>3 DEF Budget
<1>6. ASSUME NEW rs PROVE Target(p, rs) \in Nat /\ Target(p, rs) <= v
  <2>1. Target(p, rs) \in {ShortOf(p), LongOf(p)}  BY TargetMeans DEF Goal
  <2>2. ShortOf(p) \in four /\ LongOf(p) \in four
    <3>1. p = "direct_short" \/ p = "adaptive" \/ p = "full_gate"  BY DEF Policies
    <3>2. QED  BY <3>1 DEF ShortOf, LongOf
  <2> HIDE DEF four, v
  <2>3. QED  BY <1>1, <1>2, <2>1, <2>2
<1> HIDE DEF v
<1>7. Budget(p) \in Nat  BY <1>1, <1>4, <1>5
<1>8. ASSUME NEW rs PROVE WarmupsOf(p) + Target(p, rs) + MaxExtra <= Budget(p)
  BY <1>1, <1>4, <1>5, <1>6
<1>9. QED  BY <1>7, <1>8

\* How many rows there are.
LEMMA TakenCount ==
  ASSUME NEW p \in Policies, NEW rs, Taken(p, rs)
  PROVE  /\ Cardinality(DOMAIN rs) \in Nat
         /\ DOMAIN rs = 0 .. (Cardinality(DOMAIN rs) - 1)
<1>1. RowsFit(rs, WarmupsOf(p)) /\ WarmupsOf(p) \in Nat  BY PolicyNumbers DEF Taken
<1>2. QED  BY <1>1, ValidRows DEF Taken, Contiguous

\* While run_lane goes on the budget is not used up.
LEMMA WithinBudget ==
  ASSUME NEW p \in Policies, NEW rs, Taken(p, rs), Continues(p, rs)
  PROVE  Cardinality(DOMAIN rs) + 1 <= Budget(p)
<1>1. PICK n \in Nat : n = Cardinality(DOMAIN rs)  BY TakenCount
<1>2. PICK W \in Nat : W = WarmupsOf(p)  BY PolicyNumbers
<1>3. PICK T \in Nat : T = Target(p, rs)
  <2>1. Goal(rs, ShortOf(p), LongOf(p)) \in Nat
    BY PolicyNumbers, GoalType DEF Schedule
  <2>2. QED  BY <2>1, TargetMeans
<1>4. n >= W => n - W < T + MaxExtra
  BY <1>1, <1>2, <1>3 DEF Continues
<1>5. W + T + MaxExtra <= Budget(p) /\ Budget(p) \in Nat  BY <1>2, <1>3, BudgetMeans
<1>6. MaxExtra \in Nat  BY ScheduleAssumption
<1>7. n + 1 <= W + T + MaxExtra  BY <1>2, <1>3, <1>4, <1>6
<1>8. QED  BY <1>1, <1>2, <1>3, <1>5, <1>6, <1>7

\* A row more, while run_lane goes on.
LEMMA TakenMore ==
  ASSUME NEW p \in Policies, NEW rs, Taken(p, rs), Continues(p, rs),
         NEW d, "warmup" \notin d, NEW slow, NEW n \in Nat, n = Cardinality(DOMAIN rs),
         NEW ss, DOMAIN ss = 0 .. n, ss = [i \in DOMAIN ss |-> ss[i]],
         \A i \in 0 .. n : ss[i] = IF i = n THEN Row(p, n, d, slow) ELSE rs[i]
  PROVE  Taken(p, ss) /\ Cardinality(DOMAIN ss) = n + 1
<1>1. DOMAIN rs = 0 .. (n - 1) /\ rs = [i \in DOMAIN rs |-> rs[i]]
  BY TakenCount DEF Taken
<1>2. DOMAIN ss = 0 .. n /\ DOMAIN ss = DOMAIN rs \cup {n}
  BY <1>1
<1>3. Cardinality(DOMAIN ss) = n + 1
  <2>1. n + 1 \in Nat /\ (n + 1) - 1 = n  OBVIOUS
  <2>2. Cardinality(0 .. ((n + 1) - 1)) = n + 1  BY <2>1, UpTo
  <2>3. QED  BY <1>2, <2>1, <2>2
<1>4. Contiguous(ss) /\ ss = [i \in DOMAIN ss |-> ss[i]]
  <2>1. (n + 1) - 1 = n  OBVIOUS
  <2>2. QED  BY <1>2, <1>3, <2>1 DEF Contiguous
<1>5. RowsFit(ss, WarmupsOf(p))
  <2>1. RowsFit(rs, WarmupsOf(p))  BY DEF Taken
  <2>2. \A j \in DOMAIN ss : ss[j] = IF j = n THEN Row(p, n, d, slow) ELSE rs[j]
    BY <1>2
  <2>3. n \in Nat /\ "warmup" \notin d /\ DOMAIN ss = DOMAIN rs \cup {n}  BY <1>2
  <2>4. QED  BY <2>1, <2>2, <2>3, RowFits
<1>6. ASSUME NEW m \in DOMAIN ss PROVE Continues(p, Before(ss, m))
  <2>1. m \in 0 .. n  BY <1>2
  <2>2. \A i \in 0 .. (m - 1) : i \in 0 .. n /\ i \in 0 .. (n - 1) /\ ss[i] = rs[i]
    BY <2>1
  <2>3. DOMAIN ss \cap 0 .. (m - 1) = 0 .. (m - 1) /\ DOMAIN rs \cap 0 .. (m - 1) = 0 .. (m - 1)
    BY <1>1, <1>2, <2>2
  <2>4. Before(ss, m) = Before(rs, m)  BY <2>2, <2>3 DEF Before
  <2>5. CASE m = n
    <3>1. Before(rs, n) = rs  BY <1>1, <2>3, <2>5 DEF Before
    <3>2. QED  BY <2>4, <2>5, <3>1
  <2>6. CASE m # n
    <3>1. m \in DOMAIN rs  BY <1>1, <2>1, <2>6
    <3>2. QED  BY <2>4, <3>1 DEF Taken
  <2>7. QED  BY <2>5, <2>6
<1>7. QED  BY <1>3, <1>4, <1>5, <1>6 DEF Taken

\* A complete lane has the sample that its policy asks for,
LEMMA CompleteIsSampled ==
  ASSUME NEW p \in Policies, NEW rs, Taken(p, rs), Complete(p, rs)
  PROVE  Sampled(p, rs)
<1>1. Cardinality(Valid(rs)) = Target(p, rs)  BY DEF Complete
<1>2. Target(p, rs) \in Nat \ {0}
  BY PolicyNumbers, GoalType, TargetMeans DEF Schedule
<1>3. Valid(rs) # {}  BY <1>1, <1>2, FS_EmptySet
<1>4. Valid(rs) \subseteq Nat  BY PolicyNumbers, ValidRows DEF Taken
<1>5. Min(Valid(rs)) \in Valid(rs) /\ \A j \in Valid(rs) : Min(Valid(rs)) <= j
  BY <1>3, <1>4, MinMeans
<1>6. p = "direct_short" \/ p = "adaptive" \/ p = "full_gate"  BY DEF Policies
<1>7. CASE p = "direct_short"  BY <1>1, <1>7 DEF Target, Sampled
<1>8. CASE p = "adaptive"  BY <1>1, <1>3, <1>5, <1>8 DEF Target, Sampled
<1>9. CASE p = "full_gate"  BY <1>1, <1>9 DEF Target, Sampled
<1>10. QED  BY <1>6, <1>7, <1>8, <1>9

\* and combine.py accepts it.
LEMMA CompleteIsAccepted ==
  ASSUME NEW p \in Policies, NEW rs, Taken(p, rs), ~Continues(p, rs), Complete(p, rs)
  PROVE  ScheduleOK(p, rs)
<1>1. RowsFit(rs, WarmupsOf(p)) /\ Produced(p, rs)  BY DEF Taken, Produced
<1>2. QED  BY <1>1, Agreement

\* A run that does nothing.
Idle(q) ==
    /\ phase'[q] = phase[q] /\ todo'[q] = todo[q] /\ lane'[q] = lane[q]
    /\ rows'[q] = rows[q] /\ made'[q] = made[q] /\ lanes'[q] = lanes[q]
    /\ exit'[q] = exit[q]
RunHoldsUp(r) == RunStands(r) /\ \A l \in Lanes : LaneHolds(r, l)

\* It keeps what holds of it.
LEMMA IdleKept == ASSUME NEW q, RunHoldsUp(q), Idle(q) PROVE RunHoldsUp(q)'
<1>1. RunStands(q)'  BY DEF Idle, RunHoldsUp, RunStands
<1>2. ASSUME NEW l \in Lanes PROVE LaneHolds(q, l)'
  <2>1. LaneHolds(q, l)  BY DEF RunHoldsUp
  <2>2. Taken(PolicyOf[l], rows[q][l])'  BY <2>1 DEF Idle, LaneHolds, Taken
  <2>3. Counted(q, l)'  BY <2>1 DEF Idle, LaneHolds, Counted
  <2>4. Filed(q, l)'  BY <2>1 DEF Idle, LaneHolds, Filed
  <2>5. QED  BY <2>2, <2>3, <2>4 DEF LaneHolds
<1>3. QED  BY <1>1, <1>2 DEF RunHoldsUp

\* What combine.py accepted stays acceptable while the runs in it do nothing.
LEMMA StillAccepted ==
  ASSUME NEW S, Accepts(S), UNCHANGED machine, \A q \in S : Idle(q)
  PROVE  Accepts(S)'
<1>1. \A q \in S : /\ phase'[q] = phase[q] /\ lanes'[q] = lanes[q] /\ rows'[q] = rows[q]
  BY DEF Idle
<1>2. \A q \in S : Loads(q)
  BY DEF Accepts
<1>3. \A q \in S : Loads(q)'
  <2> SUFFICES ASSUME NEW q \in S PROVE Loads(q)'  OBVIOUS
  <2>1. Loads(q) /\ phase'[q] = phase[q] /\ lanes'[q] = lanes[q] /\ rows'[q] = rows[q]
    BY <1>1, <1>2
  <2>2. QED  BY <2>1 DEF Loads
<1>4. UNION {DOMAIN lanes'[q] : q \in S} = UNION {DOMAIN lanes[q] : q \in S}
  BY <1>1
<1>5. S # {} /\ \A q, r \in S : machine'[q] = machine'[r]  BY DEF Accepts
<1>6. \A q, r \in S : q # r => DOMAIN lanes'[q] \cap DOMAIN lanes'[r] = {}
  BY <1>1 DEF Accepts
<1>7. UNION {DOMAIN lanes[q] : q \in S} = Lanes  BY DEF Accepts
<1>8. QED  BY <1>3, <1>4, <1>5, <1>6, <1>7 DEF Accepts

\* A step of one run that is not done keeps the invariant when it keeps the
\* types and what holds of that run.
LEMMA OneRunMoves ==
  ASSUME BenchInv, NEW r \in Runs, phase[r] # "done", RunTypes', RunHoldsUp(r)',
         \A q \in Runs \ {r} : Idle(q), UNCHANGED <<machine, combined>>
  PROVE  BenchInv'
<1>1. \A q \in Runs : RunHoldsUp(q)'
  <2> SUFFICES ASSUME NEW q \in Runs \ {r} PROVE RunHoldsUp(q)'  OBVIOUS
  <2>1. RunHoldsUp(q)  BY DEF BenchInv, RunHoldsUp
  <2>2. QED  BY <2>1, IdleKept
<1>2. ASSUME NEW S \in combined PROVE Accepts(S)'
  <2>1. Accepts(S) /\ S \subseteq Runs  BY DEF BenchInv, RunTypes
  <2>2. r \notin S  BY <2>1 DEF Accepts, Loads
  <2>3. \A q \in S : Idle(q)  BY <2>1, <2>2
  <2>4. QED  BY <2>1, <2>3, StillAccepted
<1>3. QED  BY <1>1, <1>2 DEF BenchInv, RunHoldsUp

\* The lanes of a run are marked off before they are measured.
LEMMA StartKept == ASSUME BenchInv, NEW r \in Runs, Start(r) PROVE BenchInv'
<1>1. PICK S \in SUBSET Lanes :
         /\ phase[r] = "fresh" /\ todo' = [todo EXCEPT ![r] = S]
         /\ phase' = [phase EXCEPT ![r] = "running"]
         /\ UNCHANGED <<lane, rows, made, lanes, machine, exit, combined>>
  BY DEF Start
<1>2. RunTypes /\ RunStands(r) /\ \A l \in Lanes : LaneHolds(r, l)  BY DEF BenchInv
<1>3. RunTypes'  BY <1>1, <1>2 DEF RunTypes
<1>4. /\ phase'[r] = "running" /\ todo'[r] = S
      /\ \A q \in Runs \ {r} : phase'[q] = phase[q] /\ todo'[q] = todo[q]
  BY <1>1, <1>2 DEF RunTypes
<1>5. /\ lane[r] = NoLane /\ DOMAIN lanes[r] = {} /\ \A l \in Lanes : rows[r][l] = NoRows
      /\ exit[r] # 0
  BY <1>1, <1>2 DEF RunStands
<1>6. RunStands(r)'  BY <1>1, <1>4, <1>5 DEF RunStands
<1>7. ASSUME NEW l \in Lanes PROVE LaneHolds(r, l)'
  <2>1. LaneHolds(r, l)  BY <1>2
  <2>2. Taken(PolicyOf[l], rows[r][l])'  BY <1>1, <2>1 DEF LaneHolds, Taken
  <2>3. Counted(r, l)'  BY <1>1, <1>4, <2>1 DEF LaneHolds, Counted
  <2>4. l # NoLane  BY RunAssumption
  <2>5. Filed(r, l)'  BY <1>1, <1>4, <1>5, <2>4 DEF Filed
  <2>6. QED  BY <2>2, <2>3, <2>5 DEF LaneHolds
<1>8. \A q \in Runs \ {r} : Idle(q)  BY <1>1, <1>4 DEF Idle
<1>9. RunHoldsUp(r)'  BY <1>6, <1>7 DEF RunHoldsUp
<1>10. phase[r] # "done"  BY <1>1
<1>11. QED  BY <1>1, <1>3, <1>8, <1>9, <1>10, OneRunMoves

\* A lane that is begun is no longer waiting.
LEMMA BeginLaneKept == ASSUME BenchInv, NEW r \in Runs, BeginLane(r) PROVE BenchInv'
<1>1. PICK k \in todo[r] :
         /\ phase[r] = "running" /\ lane[r] = NoLane
         /\ lane' = [lane EXCEPT ![r] = k]
         /\ todo' = [todo EXCEPT ![r] = todo[r] \ {k}]
         /\ UNCHANGED <<phase, rows, made, lanes, machine, exit, combined>>
  BY DEF BeginLane
<1>2. RunTypes /\ RunStands(r) /\ \A l \in Lanes : LaneHolds(r, l)  BY DEF BenchInv
<1>3. k \in Lanes  BY <1>2 DEF RunTypes
<1>4. RunTypes'  BY <1>1, <1>2, <1>3 DEF RunTypes
<1>5. /\ lane'[r] = k /\ todo'[r] = todo[r] \ {k}
      /\ \A q \in Runs \ {r} : lane'[q] = lane[q] /\ todo'[q] = todo[q]
  BY <1>1, <1>2 DEF RunTypes
<1>6. RunStands(r)'  BY <1>1, <1>2 DEF RunStands
<1>7. k \notin DOMAIN lanes[r]  BY <1>2, <1>3 DEF LaneHolds, Filed
<1>8. ASSUME NEW l \in Lanes PROVE LaneHolds(r, l)'
  <2>1. LaneHolds(r, l)  BY <1>2
  <2>2. Taken(PolicyOf[l], rows[r][l])'  BY <1>1, <2>1 DEF LaneHolds, Taken
  <2>3. Counted(r, l)'  BY <1>1, <2>1 DEF LaneHolds, Counted
  <2>4. l # NoLane  BY RunAssumption
  <2>5. Filed(r, l)'  BY <1>1, <1>5, <1>7, <2>1, <2>4 DEF LaneHolds, Filed
  <2>6. QED  BY <2>2, <2>3, <2>5 DEF LaneHolds
<1>9. \A q \in Runs \ {r} : Idle(q)  BY <1>1, <1>5 DEF Idle
<1>10. RunHoldsUp(r)'  BY <1>6, <1>8 DEF RunHoldsUp
<1>11. phase[r] # "done"  BY <1>1
<1>12. QED  BY <1>1, <1>4, <1>9, <1>10, <1>11, OneRunMoves

\* A row that is taken is one more row of the lane that is measured.
LEMMA AttemptKept == ASSUME BenchInv, NEW r \in Runs, Attempt(r) PROVE BenchInv'
<1>1. PICK k : k = lane[r]  OBVIOUS
<1>2. /\ phase[r] = "running" /\ k # NoLane /\ Continues(PolicyOf[k], rows[r][k])
      /\ UNCHANGED <<phase, todo, lane, lanes, machine, exit, combined>>
  BY <1>1 DEF Attempt, Measures
<1>3. RunTypes /\ RunStands(r) /\ \A l \in Lanes : LaneHolds(r, l)  BY DEF BenchInv
<1>4. k \in Lanes  BY <1>1, <1>2, <1>3 DEF RunTypes
<1>5. PolicyOf[k] \in Policies  BY <1>4, RunAssumption
<1>6. Taken(PolicyOf[k], rows[r][k]) /\ Counted(r, k) /\ Filed(r, k)
  BY <1>3, <1>4 DEF LaneHolds
<1>7. PICK n \in Nat : n = Cardinality(DOMAIN rows[r][k])  BY <1>5, <1>6, TakenCount
<1>8. PICK d \in DefectSets, slow \in BOOLEAN :
         /\ rows' = [rows EXCEPT ![r][lane[r]] =
              [i \in 0 .. Cardinality(DOMAIN rows[r][lane[r]]) |->
                 IF i = Cardinality(DOMAIN rows[r][lane[r]])
                 THEN Row(PolicyOf[lane[r]], Cardinality(DOMAIN rows[r][lane[r]]), d, slow)
                 ELSE rows[r][lane[r]][i]]]
         /\ made' = [made EXCEPT ![r][lane[r]] = made[r][lane[r]] + 1]
  BY DEF Attempt
<1>s. PICK ss : ss = [i \in 0 .. Cardinality(DOMAIN rows[r][lane[r]]) |->
                 IF i = Cardinality(DOMAIN rows[r][lane[r]])
                 THEN Row(PolicyOf[lane[r]], Cardinality(DOMAIN rows[r][lane[r]]), d, slow)
                 ELSE rows[r][lane[r]][i]]
  OBVIOUS
<1>t. /\ DOMAIN ss = 0 .. n /\ ss = [i \in DOMAIN ss |-> ss[i]]
      /\ \A i \in 0 .. n : ss[i] = IF i = n THEN Row(PolicyOf[k], n, d, slow)
                                  ELSE rows[r][k][i]
      /\ rows' = [rows EXCEPT ![r] = [rows[r] EXCEPT ![k] = ss]]
      /\ made' = [made EXCEPT ![r] = [made[r] EXCEPT ![k] = made[r][k] + 1]]
  <2>3. rows' = [rows EXCEPT ![r] = [rows[r] EXCEPT ![k] = ss]]  BY <1>1, <1>8, <1>s
  <2>4. made' = [made EXCEPT ![r] = [made[r] EXCEPT ![k] = made[r][k] + 1]]  BY <1>1, <1>8
  <2>5. DOMAIN ss = 0 .. n /\ ss = [i \in DOMAIN ss |-> ss[i]]  BY <1>1, <1>7, <1>s
  <2>6. \A i \in 0 .. n : ss[i] = IF i = n THEN Row(PolicyOf[k], n, d, slow)
                                 ELSE rows[r][k][i]
    BY <1>1, <1>7, <1>s
  <2>7. QED  BY <2>3, <2>4, <2>5, <2>6
<1>f. PICK f : f = [rows[r] EXCEPT ![k] = ss]  OBVIOUS
<1>g. PICK g : g = [made[r] EXCEPT ![k] = made[r][k] + 1]  OBVIOUS
<1>9. "warmup" \notin d  BY DefectAssumption
<1>10. Taken(PolicyOf[k], ss) /\ Cardinality(DOMAIN ss) = n + 1
  BY <1>2, <1>5, <1>6, <1>7, <1>t, <1>f, <1>g, <1>9, TakenMore
<1>11. made[r][k] = n /\ made[r] \in [Lanes -> Nat]
  BY <1>2, <1>3, <1>6, <1>7 DEF Counted, RunTypes
<1>12. n + 1 <= Budget(PolicyOf[k])  BY <1>2, <1>5, <1>6, <1>7, WithinBudget
<1>13. /\ rows'[r][k] = ss /\ made'[r][k] = n + 1
       /\ \A l \in Lanes \ {k} : rows'[r][l] = rows[r][l] /\ made'[r][l] = made[r][l]
       /\ \A q \in Runs \ {r} : rows'[q] = rows[q] /\ made'[q] = made[q]
       /\ rows'[r] = f /\ made'[r] = g
  <2>1. DOMAIN rows = Runs /\ DOMAIN rows[r] = Lanes /\ made \in [Runs -> [Lanes -> Nat]]
    BY <1>3 DEF RunTypes
  <2>2. /\ rows'[r] = f /\ made'[r] = g
        /\ \A q \in Runs \ {r} : rows'[q] = rows[q] /\ made'[q] = made[q]
    BY <1>t, <1>f, <1>g, <2>1
  <2>3. /\ f[k] = ss /\ g[k] = n + 1
        /\ \A l \in Lanes \ {k} : f[l] = rows[r][l] /\ g[l] = made[r][l]
    BY <1>4, <1>t, <1>f, <1>g, <1>11, <2>1
  <2>4. QED  BY <2>2, <2>3
<1>14. RunTypes'
  <2>1. made' \in [Runs -> [Lanes -> Nat]]
    <3>1. g \in [Lanes -> Nat]  BY <1>4, <1>t, <1>f, <1>g, <1>11
    <3>2. QED  BY <1>3, <1>t, <1>f, <1>g, <3>1 DEF RunTypes
  <2>2. DOMAIN f = Lanes /\ f = [l \in Lanes |-> f[l]]
    BY <1>3, <1>4, <1>t, <1>f, <1>g DEF RunTypes
  <2>3. DOMAIN rows' = Runs /\ rows' = [q \in Runs |-> rows'[q]]
    BY <1>3, <1>t, <1>f, <1>g DEF RunTypes
  <2>4. ASSUME NEW q \in Runs
        PROVE  DOMAIN rows'[q] = Lanes /\ rows'[q] = [l \in Lanes |-> rows'[q][l]]
    <3>1. CASE q = r  BY <1>13, <2>2, <3>1
    <3>2. CASE q # r
      <4>1. PICK h : h = rows[q]  OBVIOUS
      <4>2. DOMAIN h = Lanes /\ h = [l \in Lanes |-> h[l]]  BY <1>3, <4>1 DEF RunTypes
      <4>3. rows'[q] = h  BY <1>13, <3>2, <4>1
      <4>4. QED  BY <4>2, <4>3
    <3>3. QED  BY <3>1, <3>2
  <2>5. QED  BY <1>2, <1>3, <2>1, <2>3, <2>4 DEF RunTypes
<1>15. RunStands(r)'  BY <1>2, <1>3 DEF RunStands
<1>16. ASSUME NEW l \in Lanes \ {k} PROVE LaneHolds(r, l)'
  <2>1. LaneHolds(r, l) /\ rows'[r][l] = rows[r][l] /\ made'[r][l] = made[r][l]
    BY <1>3, <1>13
  <2>2. Taken(PolicyOf[l], rows[r][l])'  BY <2>1 DEF LaneHolds, Taken
  <2>3. Counted(r, l)'  BY <1>2, <2>1 DEF LaneHolds, Counted
  <2>4. Filed(r, l)'  BY <1>2, <2>1 DEF LaneHolds, Filed
  <2>5. QED  BY <2>2, <2>3, <2>4 DEF LaneHolds
<1>17. LaneHolds(r, k)'
  <2>1. Taken(PolicyOf[k], rows[r][k])'  BY <1>10, <1>13 DEF Taken
  <2>2. Counted(r, k)'  BY <1>10, <1>12, <1>13 DEF Counted
  <2>3. Filed(r, k)'  BY <1>1, <1>2, <1>6 DEF Filed
  <2>4. QED  BY <2>1, <2>2, <2>3 DEF LaneHolds
<1>18. \A q \in Runs \ {r} : Idle(q)  BY <1>2, <1>13 DEF Idle
<1>19. RunHoldsUp(r)'  BY <1>15, <1>16, <1>17 DEF RunHoldsUp
<1>20. phase[r] # "done"  BY <1>2
<1>21. QED  BY <1>2, <1>14, <1>18, <1>19, <1>20, OneRunMoves

\* An invocation that raises leaves no row, and the run dead.
LEMMA HardErrorKept == ASSUME BenchInv, NEW r \in Runs, HardError(r) PROVE BenchInv'
<1>1. PICK k : k = lane[r]  OBVIOUS
<1>2. /\ phase[r] = "running" /\ k # NoLane /\ Continues(PolicyOf[k], rows[r][k])
      /\ made' = [made EXCEPT ![r] = [made[r] EXCEPT ![k] = made[r][k] + 1]]
      /\ phase' = [phase EXCEPT ![r] = "dead"] /\ exit' = [exit EXCEPT ![r] = 2]
      /\ UNCHANGED <<todo, lane, rows, lanes, machine, combined>>
  BY <1>1 DEF HardError, Measures
<1>3. RunTypes /\ RunStands(r) /\ \A l \in Lanes : LaneHolds(r, l)  BY DEF BenchInv
<1>4. k \in Lanes  BY <1>1, <1>2, <1>3 DEF RunTypes
<1>5. PolicyOf[k] \in Policies  BY <1>4, RunAssumption
<1>6. Taken(PolicyOf[k], rows[r][k]) /\ Counted(r, k)  BY <1>3, <1>4 DEF LaneHolds
<1>7. PICK n \in Nat : n = Cardinality(DOMAIN rows[r][k])  BY <1>5, <1>6, TakenCount
<1>8. made[r][k] = n /\ made[r] \in [Lanes -> Nat]
  BY <1>2, <1>3, <1>6, <1>7 DEF Counted, RunTypes
<1>9. n + 1 <= Budget(PolicyOf[k])  BY <1>2, <1>5, <1>6, <1>7, WithinBudget
<1>10. /\ made'[r][k] = n + 1 /\ phase'[r] = "dead" /\ exit'[r] = 2
       /\ \A l \in Lanes \ {k} : made'[r][l] = made[r][l]
       /\ \A q \in Runs \ {r} : /\ made'[q] = made[q] /\ phase'[q] = phase[q]
                                /\ exit'[q] = exit[q]
  BY <1>2, <1>3, <1>4, <1>8 DEF RunTypes
<1>11. RunTypes'
  <2>1. made' \in [Runs -> [Lanes -> Nat]]
    <3>1. [made[r] EXCEPT ![k] = made[r][k] + 1] \in [Lanes -> Nat]  BY <1>4, <1>8
    <3>2. QED  BY <1>2, <1>3, <3>1 DEF RunTypes
  <2>2. QED  BY <1>2, <1>3, <2>1 DEF RunTypes
<1>12. RunStands(r)'  BY <1>10 DEF RunStands
<1>13. ASSUME NEW l \in Lanes PROVE LaneHolds(r, l)'
  <2>1. LaneHolds(r, l)  BY <1>3
  <2>2. Taken(PolicyOf[l], rows[r][l])'  BY <1>2, <2>1 DEF LaneHolds, Taken
  <2>3. Counted(r, l)'
    <3>1. CASE l = k  BY <1>2, <1>7, <1>9, <1>10, <3>1 DEF Counted
    <3>2. CASE l # k  BY <1>2, <1>10, <2>1, <3>2 DEF LaneHolds, Counted
    <3>3. QED  BY <3>1, <3>2
  <2>4. Filed(r, l)'  BY <1>2, <2>1 DEF LaneHolds, Filed
  <2>5. QED  BY <2>2, <2>3, <2>4 DEF LaneHolds
<1>14. \A q \in Runs \ {r} : Idle(q)  BY <1>2, <1>10 DEF Idle
<1>15. RunHoldsUp(r)'  BY <1>12, <1>13 DEF RunHoldsUp
<1>16. phase[r] # "done"  BY <1>2
<1>17. QED  BY <1>2, <1>11, <1>14, <1>15, <1>16, OneRunMoves

\* A lane that run_lane leaves is filed with what its rows say; with no lane left
\* out, unless it is one that makes the run incomplete.
LEMMA EndLaneKept == ASSUME BenchInv, NEW r \in Runs, EndLane(r) PROVE BenchInv'
<1>1. PICK k : k = lane[r]  OBVIOUS
<1>2. PICK complete \in BOOLEAN : complete = Complete(PolicyOf[k], rows[r][k])
  BY DEF Complete
<1>3. PICK p : p = IF complete /\ todo[r] # {} THEN "running" ELSE "stopping"
  OBVIOUS
<1>4. PICK sums : sums = [l \in DOMAIN lanes[r] \cup {k} |->
                            IF l = k THEN complete ELSE lanes[r][l]]
  OBVIOUS
<1>5. /\ phase[r] = "running" /\ k # NoLane /\ ~Continues(PolicyOf[k], rows[r][k])
      /\ lanes' = [lanes EXCEPT ![r] = sums]
      /\ phase' = [phase EXCEPT ![r] = p] /\ lane' = [lane EXCEPT ![r] = NoLane]
      /\ UNCHANGED <<todo, rows, made, machine, exit, combined>>
  BY <1>1, <1>2, <1>3, <1>4 DEF EndLane
<1>6. RunTypes /\ RunStands(r) /\ \A l \in Lanes : LaneHolds(r, l)  BY DEF BenchInv
<1>7. k \in Lanes  BY <1>1, <1>5, <1>6 DEF RunTypes
<1>8. /\ lanes'[r] = sums /\ phase'[r] = p /\ lane'[r] = NoLane
      /\ \A q \in Runs \ {r} : /\ lanes'[q] = lanes[q] /\ phase'[q] = phase[q]
                               /\ lane'[q] = lane[q]
  BY <1>5, <1>6 DEF RunTypes
<1>9. /\ DOMAIN sums = DOMAIN lanes[r] \cup {k} /\ sums[k] = complete
      /\ \A l \in DOMAIN lanes[r] \ {k} : sums[l] = lanes[r][l]
  BY <1>4
<1>10. RunTypes'
  <2>1. p \in {"running", "stopping"}  BY <1>3
  <2>2. phase' \in [Runs -> {"fresh", "running", "stopping", "done", "dead"}]
        /\ lane' \in [Runs -> Lanes \cup {NoLane}]
    BY <1>5, <1>6, <2>1 DEF RunTypes
  <2>3. DOMAIN lanes' = Runs /\ lanes' = [q \in Runs |-> lanes'[q]]
    BY <1>5, <1>6 DEF RunTypes
  <2>4. \A q \in Runs : DOMAIN lanes'[q] \subseteq Lanes
    <3> SUFFICES ASSUME NEW q \in Runs PROVE DOMAIN lanes'[q] \subseteq Lanes  OBVIOUS
    <3>1. DOMAIN lanes[q] \subseteq Lanes /\ DOMAIN lanes[r] \subseteq Lanes
      BY <1>6 DEF RunTypes
    <3>2. q = r => DOMAIN lanes'[q] = DOMAIN lanes[r] \cup {k}  BY <1>8, <1>9
    <3>3. q # r => lanes'[q] = lanes[q]  BY <1>8
    <3>4. QED  BY <1>7, <3>1, <3>2, <3>3
  <2>5. QED  BY <1>5, <1>6, <2>2, <2>3, <2>4 DEF RunTypes
<1>11. RunStands(r)'
  <2>1. exit[r] # 0  BY <1>5, <1>6 DEF RunStands
  <2>2. p \in {"running", "stopping"}  BY <1>3
  <2>3. p = "stopping" /\ Completion(sums) => todo[r] = {}
    BY <1>3, <1>9 DEF Completion
  <2>4. QED  BY <1>5, <1>8, <2>1, <2>2, <2>3 DEF RunStands
<1>12. ASSUME NEW l \in Lanes PROVE LaneHolds(r, l)'
  <2>1. LaneHolds(r, l) /\ l # NoLane  BY <1>6, RunAssumption
  <2>2. Taken(PolicyOf[l], rows[r][l])'  BY <1>5, <2>1 DEF LaneHolds, Taken
  <2>3. Counted(r, l)'
    <3>1. p # "dead" /\ phase[r] # "dead"  BY <1>3, <1>5
    <3>2. QED  BY <1>5, <1>8, <2>1, <3>1 DEF LaneHolds, Counted
  <2>4. Filed(r, l)'
    <3>1. CASE l = k
      <4>1. l \notin todo[r]  BY <1>1, <2>1, <3>1 DEF LaneHolds, Filed
      <4>2. QED  BY <1>2, <1>5, <1>8, <1>9, <2>1, <3>1, <4>1 DEF Filed
    <3>2. CASE l # k
      <4>1. /\ l \in DOMAIN sums <=> l \in DOMAIN lanes[r]
            /\ l \in DOMAIN lanes[r] => sums[l] = lanes[r][l]
        BY <1>9, <3>2
      <4>2. Filed(r, l) /\ rows'[r][l] = rows[r][l] /\ todo'[r] = todo[r]
            /\ l # lane[r] /\ l # lane'[r] /\ lanes'[r] = sums
        BY <1>1, <1>5, <1>8, <2>1, <3>2 DEF LaneHolds
      <4>3. QED  BY <4>1, <4>2 DEF Filed
    <3>3. QED  BY <3>1, <3>2
  <2>5. QED  BY <2>2, <2>3, <2>4 DEF LaneHolds
<1>13. \A q \in Runs \ {r} : Idle(q)  BY <1>5, <1>8 DEF Idle
<1>14. RunHoldsUp(r)'  BY <1>11, <1>12 DEF RunHoldsUp
<1>15. phase[r] # "done"  BY <1>5
<1>16. QED  BY <1>5, <1>10, <1>13, <1>14, <1>15, OneRunMoves

\* A run ends with 0 only with every lane in its summary complete.
LEMMA FinishKept == ASSUME BenchInv, NEW r \in Runs, Finish(r) PROVE BenchInv'
<1>1. PICK e : e = IF Completion(lanes[r]) THEN 0 ELSE 1  OBVIOUS
<1>2. /\ phase[r] = "stopping" /\ phase' = [phase EXCEPT ![r] = "done"]
      /\ exit' = [exit EXCEPT ![r] = e]
      /\ UNCHANGED <<todo, lane, rows, made, lanes, machine, combined>>
  BY <1>1 DEF Finish
<1>3. RunTypes /\ RunStands(r) /\ \A l \in Lanes : LaneHolds(r, l)  BY DEF BenchInv
<1>4. e \in {0, 1} /\ (e = 0 => Completion(lanes[r]))  BY <1>1
<1>5. RunTypes'  BY <1>2, <1>3, <1>4 DEF RunTypes
<1>6. /\ phase'[r] = "done" /\ exit'[r] = e
      /\ \A q \in Runs \ {r} : phase'[q] = phase[q] /\ exit'[q] = exit[q]
  BY <1>2, <1>3 DEF RunTypes
<1>7. RunStands(r)'  BY <1>2, <1>3, <1>4, <1>6 DEF RunStands
<1>8. ASSUME NEW l \in Lanes PROVE LaneHolds(r, l)'
  <2>1. LaneHolds(r, l)  BY <1>3
  <2>2. Taken(PolicyOf[l], rows[r][l])'  BY <1>2, <2>1 DEF LaneHolds, Taken
  <2>3. Counted(r, l)'  BY <1>2, <1>6, <2>1 DEF LaneHolds, Counted
  <2>4. Filed(r, l)'  BY <1>2, <2>1 DEF LaneHolds, Filed
  <2>5. QED  BY <2>2, <2>3, <2>4 DEF LaneHolds
<1>9. \A q \in Runs \ {r} : Idle(q)  BY <1>2, <1>6 DEF Idle
<1>10. RunHoldsUp(r)'  BY <1>7, <1>8 DEF RunHoldsUp
<1>11. phase[r] # "done"  BY <1>2
<1>12. QED  BY <1>2, <1>5, <1>9, <1>10, <1>11, OneRunMoves

\* A run that dies leaves its rows, and no exit status.
LEMMA DieKept == ASSUME BenchInv, NEW r \in Runs, Die(r) PROVE BenchInv'
<1>1. /\ phase[r] \in {"running", "stopping"} /\ phase' = [phase EXCEPT ![r] = "dead"]
      /\ UNCHANGED <<todo, lane, rows, made, lanes, machine, exit, combined>>
  BY DEF Die
<1>2. RunTypes /\ RunStands(r) /\ \A l \in Lanes : LaneHolds(r, l)  BY DEF BenchInv
<1>3. RunTypes'  BY <1>1, <1>2 DEF RunTypes
<1>4. phase'[r] = "dead" /\ \A q \in Runs \ {r} : phase'[q] = phase[q]
  BY <1>1, <1>2 DEF RunTypes
<1>5. RunStands(r)'
  <2>1. exit'[r] # 0  BY <1>1, <1>2 DEF RunStands
  <2>2. QED  BY <1>4, <2>1 DEF RunStands
<1>6. ASSUME NEW l \in Lanes PROVE LaneHolds(r, l)'
  <2>1. LaneHolds(r, l)  BY <1>2
  <2>2. Taken(PolicyOf[l], rows[r][l])'  BY <1>1, <2>1 DEF LaneHolds, Taken
  <2>3. Counted(r, l)'  BY <1>1, <1>4, <2>1 DEF LaneHolds, Counted
  <2>4. Filed(r, l)'  BY <1>1, <2>1 DEF LaneHolds, Filed
  <2>5. QED  BY <2>2, <2>3, <2>4 DEF LaneHolds
<1>7. \A q \in Runs \ {r} : Idle(q)  BY <1>1, <1>4 DEF Idle
<1>8. RunHoldsUp(r)'  BY <1>5, <1>6 DEF RunHoldsUp
<1>9. phase[r] # "done"  BY <1>1
<1>10. QED  BY <1>1, <1>3, <1>7, <1>8, <1>9, OneRunMoves

\* Combining changes no run, and what it accepts is acceptable.
LEMMA CombineKept == ASSUME BenchInv, Combine PROVE BenchInv'
<1>1. PICK S \in SUBSET Runs :
         /\ Accepts(S) /\ combined' = combined \cup {S}
         /\ UNCHANGED <<phase, todo, lane, rows, made, lanes, machine, exit>>
  BY DEF Combine
<1>2. RunTypes'  BY <1>1 DEF BenchInv, RunTypes
<1>3. \A q \in Runs : Idle(q)  BY <1>1 DEF Idle
<1>4. ASSUME NEW q \in Runs PROVE RunHoldsUp(q)'
  <2>1. RunHoldsUp(q)  BY DEF BenchInv, RunHoldsUp
  <2>2. QED  BY <1>3, <2>1, IdleKept
<1>5. ASSUME NEW R \in combined' PROVE Accepts(R)'
  <2>1. Accepts(R) /\ R \subseteq Runs
    <3>1. CASE R = S  BY <1>1, <3>1
    <3>2. CASE R \in combined  BY <3>2 DEF BenchInv, RunTypes
    <3>3. QED  BY <1>1, <3>1, <3>2
  <2>2. \A q \in R : Idle(q)  BY <1>3, <2>1
  <2>3. UNCHANGED machine  BY <1>1
  <2>4. QED  BY <2>1, <2>2, <2>3, StillAccepted
<1>6. QED  BY <1>2, <1>4, <1>5 DEF BenchInv, RunHoldsUp

\* No step breaks the invariant.
LEMMA BenchKeeps == ASSUME BenchInv, [Next]_vars PROVE BenchInv'
<1>1. ASSUME Next PROVE BenchInv'
  BY <1>1, StartKept, BeginLaneKept, AttemptKept, HardErrorKept, EndLaneKept, FinishKept,
     DieKept, CombineKept DEF Next
<1>2. ASSUME UNCHANGED vars PROVE BenchInv'
  <2>1. UNCHANGED <<phase, todo, lane, rows, made, lanes, machine, exit, combined>>
    BY <1>2 DEF vars
  <2>2. RunTypes'  BY <2>1 DEF BenchInv, RunTypes
  <2>3. \A q \in Runs : Idle(q)  BY <2>1 DEF Idle
  <2>4. ASSUME NEW q \in Runs PROVE RunHoldsUp(q)'
    <3>1. RunHoldsUp(q)  BY DEF BenchInv, RunHoldsUp
    <3>2. QED  BY <2>3, <3>1, IdleKept
  <2>5. ASSUME NEW R \in combined' PROVE Accepts(R)'
    <3>1. Accepts(R) /\ R \subseteq Runs  BY <2>1 DEF BenchInv, RunTypes
    <3>2. \A q \in R : Idle(q)  BY <2>3, <3>1
    <3>3. UNCHANGED machine  BY <2>1
    <3>4. QED  BY <3>1, <3>2, <3>3, StillAccepted
  <2>6. QED  BY <2>2, <2>4, <2>5 DEF BenchInv, RunHoldsUp
<1>3. QED  BY <1>1, <1>2

\* A lane without rows.
LEMMA NothingTaken ==
  ASSUME NEW p \in Policies
  PROVE  Taken(p, NoRows) /\ Cardinality(DOMAIN NoRows) = 0
<1>1. DOMAIN NoRows = {} /\ NoRows = [i \in DOMAIN NoRows |-> NoRows[i]]  BY DEF NoRows
<1>2. Cardinality(DOMAIN NoRows) = 0 /\ IsFiniteSet(DOMAIN NoRows)
  BY <1>1, FS_EmptySet
<1>3. RowsFit(NoRows, WarmupsOf(p))  BY <1>1, <1>2 DEF RowsFit
<1>4. Contiguous(NoRows)
  <2>1. 0 .. (0 - 1) = {}  OBVIOUS
  <2>2. QED  BY <1>1, <1>2, <2>1 DEF Contiguous
<1>5. QED  BY <1>1, <1>2, <1>3, <1>4 DEF Taken

\* The runs begin with nothing.
LEMMA BenchBegins == ASSUME Init PROVE BenchInv
<1>1. RunTypes
  <2>1. /\ phase \in [Runs -> {"fresh", "running", "stopping", "done", "dead"}]
        /\ todo \in [Runs -> SUBSET Lanes] /\ lane \in [Runs -> Lanes \cup {NoLane}]
        /\ machine \in [Runs -> Machines] /\ exit \in [Runs -> {NoExit, 0, 1, 2}]
        /\ combined \subseteq SUBSET Runs /\ made \in [Runs -> [Lanes -> Nat]]
    BY DEF Init
  <2>2. DOMAIN rows = Runs /\ rows = [r \in Runs |-> rows[r]]  BY DEF Init
  <2>3. \A r \in Runs : DOMAIN rows[r] = Lanes /\ rows[r] = [l \in Lanes |-> rows[r][l]]
    BY DEF Init
  <2>4. DOMAIN lanes = Runs /\ lanes = [r \in Runs |-> lanes[r]]  BY DEF Init
  <2>5. \A r \in Runs : DOMAIN lanes[r] \subseteq Lanes  BY DEF Init, NoSummaries
  <2>6. QED  BY <2>1, <2>2, <2>3, <2>4, <2>5 DEF RunTypes
<1>2. ASSUME NEW r \in Runs
      PROVE  /\ phase[r] = "fresh" /\ lane[r] = NoLane /\ todo[r] = {}
             /\ DOMAIN lanes[r] = {} /\ exit[r] = NoExit
             /\ \A l \in Lanes : rows[r][l] = NoRows /\ made[r][l] = 0
  BY DEF Init, NoSummaries
<1>3. ASSUME NEW r \in Runs PROVE RunStands(r)
  BY <1>2 DEF RunStands, NoExit
<1>4. ASSUME NEW r \in Runs, NEW l \in Lanes PROVE LaneHolds(r, l)
  <2>1. PolicyOf[l] \in Policies /\ l # NoLane  BY RunAssumption
  <2>2. rows[r][l] = NoRows /\ made[r][l] = 0  BY <1>2
  <2>3. Taken(PolicyOf[l], rows[r][l]) /\ Cardinality(DOMAIN rows[r][l]) = 0
    BY <2>1, <2>2, NothingTaken
  <2>4. Budget(PolicyOf[l]) \in Nat  BY <2>1, BudgetMeans
  <2>5. Counted(r, l)  BY <2>2, <2>3, <2>4 DEF Counted
  <2>6. Filed(r, l)  BY <1>2, <2>1, <2>2 DEF Filed
  <2>7. QED  BY <2>3, <2>5, <2>6 DEF LaneHolds
<1>5. combined = {}  BY DEF Init
<1>6. QED  BY <1>1, <1>3, <1>4, <1>5 DEF BenchInv

\* The invariant says what TypeOK says.
LEMMA BenchTyped == ASSUME BenchInv PROVE TypeOK
<1>1. RunTypes  BY DEF BenchInv
<1>2. \A r \in Runs, l \in Lanes : Counted(r, l)  BY DEF BenchInv, LaneHolds
<1>3. \A r \in Runs, l \in Lanes :
         /\ Cardinality(DOMAIN rows[r][l]) <= made[r][l]
         /\ made[r][l] <= WarmupsOf(PolicyOf[l]) + MaxExtra
              + Max({DirectTarget, ShortTarget, LongTarget, FullTarget})
  BY <1>2 DEF Counted, Budget
<1>4. QED  BY <1>1, <1>3 DEF RunTypes, TypeOK

\* A run that exits with 0 has sampled every lane in full.
LEMMA ZeroHolds == ASSUME BenchInv PROVE ZeroIsFull
<1> SUFFICES ASSUME NEW r \in Runs, exit[r] = 0
             PROVE  /\ todo[r] = {} /\ DOMAIN lanes[r] # {}
                    /\ \A l \in DOMAIN lanes[r] : Sampled(PolicyOf[l], rows[r][l])
  BY DEF ZeroIsFull
<1>1. RunStands(r) /\ DOMAIN lanes[r] \subseteq Lanes  BY DEF BenchInv, RunTypes
<1>2. phase[r] = "done" /\ Completion(lanes[r]) /\ todo[r] = {}
  BY <1>1 DEF RunStands
<1>3. DOMAIN lanes[r] # {} /\ \A l \in DOMAIN lanes[r] : lanes[r][l]
  BY <1>2 DEF Completion
<1>4. ASSUME NEW l \in DOMAIN lanes[r] PROVE Sampled(PolicyOf[l], rows[r][l])
  <2>1. LaneHolds(r, l) /\ PolicyOf[l] \in Policies  BY <1>1, RunAssumption DEF BenchInv
  <2>2. Taken(PolicyOf[l], rows[r][l]) /\ Complete(PolicyOf[l], rows[r][l])
    BY <1>3, <2>1 DEF LaneHolds, Filed
  <2>3. QED  BY <2>1, <2>2, CompleteIsSampled
<1>5. QED  BY <1>2, <1>3, <1>4

\* A lane that was measured in a run that combine.py loads has a full sample.
LEMMA LoadedIsSampled ==
  ASSUME BenchInv, NEW r \in Runs, Loads(r), NEW l \in DOMAIN lanes[r]
  PROVE  Sampled(PolicyOf[l], rows[r][l])
<1>1. l \in Lanes /\ lanes[r][l]  BY DEF BenchInv, RunTypes, Loads
<1>2. LaneHolds(r, l) /\ PolicyOf[l] \in Policies  BY <1>1, RunAssumption DEF BenchInv
<1>3. Taken(PolicyOf[l], rows[r][l]) /\ Complete(PolicyOf[l], rows[r][l])
  BY <1>1, <1>2 DEF LaneHolds, Filed
<1>4. QED  BY <1>2, <1>3, CompleteIsSampled

\* What has been combined is whole.
LEMMA BaselineHolds == ASSUME BenchInv PROVE BaselineIsWhole
<1> SUFFICES ASSUME NEW S \in combined
             PROVE  /\ \A l \in Lanes : \E r \in S :
                         /\ Sampled(PolicyOf[l], rows[r][l])
                         /\ \A q \in S \ {r} : rows[q][l] = NoRows
                    /\ \A q, r \in S : machine[q] = machine[r]
  BY DEF BaselineIsWhole
<1>1. Accepts(S) /\ S \subseteq Runs  BY DEF BenchInv, RunTypes
<1>2. /\ \A r \in S : Loads(r)
      /\ \A q, r \in S : q # r => DOMAIN lanes[q] \cap DOMAIN lanes[r] = {}
      /\ UNION {DOMAIN lanes[r] : r \in S} = Lanes
      /\ \A q, r \in S : machine[q] = machine[r]
  BY <1>1 DEF Accepts
<1>3. ASSUME NEW l \in Lanes
      PROVE  \E r \in S : /\ Sampled(PolicyOf[l], rows[r][l])
                          /\ \A q \in S \ {r} : rows[q][l] = NoRows
  <2>1. PICK r \in S : l \in DOMAIN lanes[r]  BY <1>2
  <2>2. Sampled(PolicyOf[l], rows[r][l])  BY <1>1, <1>2, <2>1, LoadedIsSampled
  <2>3. ASSUME NEW q \in S \ {r} PROVE rows[q][l] = NoRows
    <3>1. l \notin DOMAIN lanes[q]  BY <1>2, <2>1
    <3>2. Loads(q)  BY <1>2
    <3>3. QED  BY <3>1, <3>2 DEF Loads
  <2>4. QED  BY <2>2, <2>3
<1>4. QED  BY <1>2, <1>3

\* A lane with a sample has rows.
LEMMA SampledHasRows ==
  ASSUME NEW p \in Policies, Complete(p, NoRows) PROVE FALSE
<1>1. Valid(NoRows) = {}  BY DEF NoRows, Valid
<1>2. Cardinality(Valid(NoRows)) = 0  BY <1>1, FS_EmptySet
<1>3. Target(p, NoRows) \in Nat \ {0}
  BY PolicyNumbers, GoalType, TargetMeans DEF Schedule
<1>4. QED  BY <1>2, <1>3 DEF Complete

\* Honest runs are combined.
LEMMA HonestHolds == ASSUME BenchInv PROVE HonestRunsCombine
<1> SUFFICES ASSUME NEW S \in SUBSET Runs, S # {}, \A r \in S : exit[r] = 0,
                    \A q, r \in S : machine[q] = machine[r],
                    \A l \in Lanes : Cardinality({r \in S : rows[r][l] # NoRows}) = 1
             PROVE  Accepts(S)
  BY DEF HonestRunsCombine
<1>1. ASSUME NEW r \in S
      PROVE  /\ Loads(r) /\ DOMAIN lanes[r] \subseteq Lanes
             /\ \A l \in Lanes : rows[r][l] # NoRows <=> l \in DOMAIN lanes[r]
  <2>1. RunStands(r) /\ DOMAIN lanes[r] \subseteq Lanes  BY DEF BenchInv, RunTypes
  <2>2. phase[r] = "done" /\ Completion(lanes[r]) /\ lane[r] = NoLane
    BY <2>1 DEF RunStands
  <2>3. ASSUME NEW l \in DOMAIN lanes[r]
        PROVE  /\ lanes[r][l] /\ ScheduleOK(PolicyOf[l], rows[r][l])
               /\ rows[r][l] # NoRows
    <3>1. LaneHolds(r, l) /\ PolicyOf[l] \in Policies /\ lanes[r][l]
      BY <2>1, <2>2, RunAssumption DEF BenchInv, Completion
    <3>2. /\ Taken(PolicyOf[l], rows[r][l]) /\ ~Continues(PolicyOf[l], rows[r][l])
          /\ Complete(PolicyOf[l], rows[r][l])
      BY <3>1 DEF LaneHolds, Filed
    <3>3. ScheduleOK(PolicyOf[l], rows[r][l])  BY <3>1, <3>2, CompleteIsAccepted
    <3>4. rows[r][l] # NoRows  BY <3>1, <3>2, SampledHasRows
    <3>5. QED  BY <3>1, <3>3, <3>4
  <2>4. ASSUME NEW l \in Lanes, rows[r][l] # NoRows PROVE l \in DOMAIN lanes[r]
    <3>1. LaneHolds(r, l) /\ l # NoLane  BY RunAssumption DEF BenchInv
    <3>2. QED  BY <2>2, <2>4, <3>1 DEF LaneHolds, Filed
  <2>5. Loads(r)  BY <2>2, <2>3, <2>4 DEF Loads
  <2>6. QED  BY <2>1, <2>3, <2>4, <2>5
<1>2. IsFiniteSet(S)  BY RunAssumption, FS_Subset
<1>3. ASSUME NEW l \in Lanes
      PROVE  \E x : {r \in S : rows[r][l] # NoRows} = {x}
  <2> DEFINE T == {r \in S : rows[r][l] # NoRows}
  <2>1. T \in SUBSET S /\ Cardinality(T) = 1  OBVIOUS
  <2> HIDE DEF T
  <2>2. IsFiniteSet(T)  BY <1>2, <2>1, FS_Subset
  <2>3. \E x : T = {x}  BY <2>1, <2>2, FS_Singleton
  <2>4. QED  BY <2>3 DEF T
<1>4. ASSUME NEW q \in S, NEW r \in S, q # r PROVE DOMAIN lanes[q] \cap DOMAIN lanes[r] = {}
  <2> SUFFICES ASSUME NEW l \in DOMAIN lanes[q], l \in DOMAIN lanes[r] PROVE FALSE
    OBVIOUS
  <2>1. l \in Lanes /\ rows[q][l] # NoRows /\ rows[r][l] # NoRows  BY <1>1
  <2>2. PICK x : {s \in S : rows[s][l] # NoRows} = {x}  BY <1>3, <2>1
  <2>3. q = x /\ r = x  BY <2>1, <2>2
  <2>4. QED  BY <1>4, <2>3
<1>5. UNION {DOMAIN lanes[r] : r \in S} = Lanes
  <2>1. ASSUME NEW l \in Lanes PROVE \E r \in S : l \in DOMAIN lanes[r]
    <3>1. PICK x : {r \in S : rows[r][l] # NoRows} = {x}  BY <1>3
    <3>2. x \in S /\ rows[x][l] # NoRows  BY <3>1
    <3>3. QED  BY <1>1, <3>2
  <2>2. \A r \in S : DOMAIN lanes[r] \subseteq Lanes  BY <1>1
  <2>3. QED  BY <2>1, <2>2
<1>6. \A r \in S : Loads(r)  BY <1>1
<1>7. QED  BY <1>4, <1>5, <1>6 DEF Accepts

\* "Failing to obtain the target is a failed run, never a silently reduced
\* sample set": a harness run exits with 0 only when it has left no lane out
\* and every lane has exactly the sample its policy asks for, for any lanes,
\* policies, targets and budgets, however its invocations failed on the way.
THEOREM ZeroMeansFull == Spec => []ZeroIsFull
<1>1. BenchInv /\ [Next]_vars => BenchInv'  BY BenchKeeps
<1>2. Init => BenchInv  BY BenchBegins
<1>3. BenchInv => ZeroIsFull  BY ZeroHolds
<1>4. QED  BY <1>1, <1>2, <1>3, PTL DEF Spec

\* combine.py accepts exactly the rows that run.py would have written, whatever
\* rows it finds; what it makes of any set of runs is whole, one full sample of
\* each lane of the manifest from one machine, and it refuses no honest set of
\* runs; and no lane is measured more often than its budget.
THEOREM CombinerIsRight ==
  Spec /\ Runtime!Spec /\ Retained!Spec => []CombinerAgrees
<1>1. BenchInv /\ [Next]_vars => BenchInv'  BY BenchKeeps
<1>2. Init => BenchInv  BY BenchBegins
<1>3. BenchInv => TypeOK /\ BaselineIsWhole /\ HonestRunsCombine
  BY BenchTyped, BaselineHolds, HonestHolds
<1>4. Spec => [](TypeOK /\ BaselineIsWhole /\ HonestRunsCombine)
  BY <1>1, <1>2, <1>3, PTL DEF Spec
<1>5. Runtime!Spec => []Runtime!TypeOK  BY RuntimeIsTyped
<1>6. Retained!Spec => []Retained!SameJudgement  BY RetainedAgree
<1>7. TypeOK /\ BaselineIsWhole /\ HonestRunsCombine /\ Runtime!TypeOK
        /\ Retained!SameJudgement => CombinerAgrees
  BY DEF CombinerAgrees, BenchTypeOK
<1>8. QED  BY <1>4, <1>5, <1>6, <1>7, PTL
=============================================================================
