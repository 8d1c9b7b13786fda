--------------------------- MODULE RunnerRuntime ---------------------------
(***************************************************************************)
(* bench/check/run.py isolates the ignored root object ring_runtime.o      *)
(* around every invocation of a lane that can consume it: the original is  *)
(* renamed to a backup, a warm lane gets a freshly prepared object through *)
(* a staging file, the runner is measured, the original is renamed back.   *)
(* A file is its content: NoFile, the developer's object, an object some   *)
(* run prepared, one the measured runner built, or a partial copy.  Every  *)
(* file call may fail before or after it took effect, and the harness may  *)
(* die between any two steps.                                              *)
(***************************************************************************)
EXTENDS Naturals, FiniteSets

CONSTANTS Runs,        \* harness processes, started one after another
          MaxSamples,  \* bound: isolated invocations of one run
          MaxFaults,   \* bound: failing file calls
          MaxCrashes   \* bound: harness processes that die

BoundsAssumption == /\ MaxSamples \in Nat \ {0}
                    /\ {MaxFaults, MaxCrashes} \subseteq Nat

VARIABLES root,      \* content of ring_runtime.o
          backup,    \* token -> content of ring_runtime.b176-<token>.backup.o
          staging,   \* token -> content of ring_runtime.b176-<token>.install.o
          mode,      \* run -> the lane's cache state
          original,  \* run -> setup["original_root"]
          sample,    \* run -> number of its current invocation
          phase,     \* run -> where it is
          moved,     \* run -> original_moved
          rec,       \* run -> the invocation's runner_runtime record
          faults, crashes

vars == <<root, backup, staging, mode, original, sample, phase, moved, rec,
          faults, crashes>>

NoFile == <<"none">>
User == <<"user">>
Partial == <<"partial">>
Prepared(r) == <<"prepared", r>>
Built(r) == <<"built", r>>
Contents == {NoFile, User, Partial} \cup {Prepared(r) : r \in Runs}
                                    \cup {Built(r) : r \in Runs}

\* token: the sample directory's name, which holds a fresh uuid.
Tokens == Runs \X (1 .. MaxSamples)
Tok(r) == <<r, sample[r]>>

Phases == {"idle", "begin", "move", "stage", "install", "pre", "rollback",
           "unstage", "measure", "post", "putback", "judge", "judged",
           "ended", "aborted", "crashed"}
Over == {"ended", "aborted", "crashed"}
Active(r) == phase[r] \notin Over \cup {"idle"}

FreshRecord == [orig |-> NoFile, pre |-> NoFile, post |-> NoFile,
                begun |-> FALSE, raised |-> FALSE, errors |-> {}]

Init ==
  /\ root \in {NoFile, User}
  /\ backup = [t \in Tokens |-> NoFile]
  /\ staging = [t \in Tokens |-> NoFile]
  /\ mode = [r \in Runs |-> "cold"]
  /\ original = [r \in Runs |-> NoFile]
  /\ sample = [r \in Runs |-> 1]
  /\ phase = [r \in Runs |-> "idle"]
  /\ moved = [r \in Runs |-> FALSE]
  /\ rec = [r \in Runs |-> FreshRecord]
  /\ faults = 0 /\ crashes = 0

----------------------------------------------------------------------------
\* A file call succeeds, fails, or takes effect and then raises.
Outcomes == {"ok", "failed", "late"}
Happens(o) == /\ faults' = faults + (IF o = "ok" THEN 0 ELSE 1)
              /\ faults' <= MaxFaults

\* _optional_file_state: only the hash of a file that is there can fail.
Reads(o) == /\ o \in {"ok", "failed"} /\ Happens(o)
            /\ o = "failed" => root # NoFile

Goes(r, p) == phase' = [phase EXCEPT ![r] = p]
Notes(r, S) == rec' = [rec EXCEPT ![r].errors = @ \cup S]
AtBackup(r) == backup[Tok(r)]
AtStaging(r) == staging[Tok(r)]
SetsBackup(r, c) == backup' = [backup EXCEPT ![Tok(r)] = c]
SetsStaging(r, c) == staging' = [staging EXCEPT ![Tok(r)] = c]

\* prepare_runner_runtime: what the root holds now is what the run promises
\* to bring back; a warm run compiles its object into its own directory.
Capture(r) ==
  /\ phase[r] = "idle"
  /\ \A q \in Runs : ~Active(q)
  /\ original' = [original EXCEPT ![r] = root]
  /\ \E m \in {"cold", "warm"} : mode' = [mode EXCEPT ![r] = m]
  /\ Goes(r, "begin")
  /\ UNCHANGED <<root, backup, staging, sample, moved, rec, faults,
                 crashes>>

\* _begin_runner_runtime_isolation, before its first change of the disk.
Begin(r) ==
  /\ phase[r] = "begin"
  /\ LET refused == \/ AtBackup(r) # NoFile
                    \/ AtStaging(r) # NoFile
                    \/ root # original[r]
     IN  Goes(r, IF refused THEN "aborted" ELSE "move")
  /\ rec' = [rec EXCEPT ![r] = [FreshRecord EXCEPT !.orig = root]]
  /\ moved' = [moved EXCEPT ![r] = FALSE]
  /\ UNCHANGED <<root, backup, staging, mode, original, sample, faults,
                 crashes>>

\* os.replace(root_object, backup) and the hash check behind it.
MoveAside(r) ==
  /\ phase[r] = "move"
  /\ \/ /\ rec[r].orig = NoFile
        /\ Goes(r, "stage")
        /\ UNCHANGED <<root, backup, moved, faults>>
     \/ \E o \in Outcomes :
        /\ rec[r].orig # NoFile /\ Happens(o)
        /\ root = NoFile => o = "failed"
        /\ IF o = "failed" THEN UNCHANGED <<root, backup>>
           ELSE root' = NoFile /\ SetsBackup(r, root)
        /\ moved' = [moved EXCEPT ![r] = (o = "ok")]
        /\ Goes(r, IF o = "ok" /\ root = rec[r].orig THEN "stage"
                   ELSE "rollback")
  /\ UNCHANGED <<staging, mode, original, sample, rec, crashes>>

\* shutil.copy2(prepared, staging): not atomic, so a failure may leave a part.
Stage(r) ==
  /\ phase[r] = "stage"
  /\ \/ /\ mode[r] = "cold"
        /\ Goes(r, "pre")
        /\ UNCHANGED <<staging, faults>>
     \/ \E o \in Outcomes :
        /\ mode[r] = "warm" /\ Happens(o)
        /\ SetsStaging(r, CASE o = "ok" -> Prepared(r)
                            [] o = "failed" -> NoFile
                            [] o = "late" -> Partial)
        /\ Goes(r, IF o = "ok" THEN "install" ELSE "rollback")
  /\ UNCHANGED <<root, backup, mode, original, sample, moved, rec,
                 crashes>>

\* os.replace(staging, root_object), and the time stamp behind it.
Install(r) ==
  /\ phase[r] = "install"
  /\ \E o \in Outcomes :
     /\ Happens(o)
     /\ IF o = "failed" THEN UNCHANGED <<root, staging>>
        ELSE root' = AtStaging(r) /\ SetsStaging(r, NoFile)
     /\ Goes(r, IF o = "ok" THEN "pre" ELSE "rollback")
  /\ UNCHANGED <<backup, mode, original, sample, moved, rec, crashes>>

Pre(r) ==
  /\ phase[r] = "pre"
  /\ \E o \in Outcomes :
     /\ Reads(o)
     /\ rec' = [rec EXCEPT ![r].pre = root, ![r].begun = (o = "ok")]
     /\ Goes(r, IF o = "ok" THEN "measure" ELSE "rollback")
  /\ UNCHANGED <<root, backup, staging, mode, original, sample, moved,
                 crashes>>

----------------------------------------------------------------------------
\* Renames the backup over the root; on an error it says so and goes on.
\* (No process of the model deletes a backup, so the code's "backup missing"
\* arms below never fire.)
Restore(r, what) ==
  \E o \in Outcomes :
    /\ Happens(o)
    /\ IF o = "failed" THEN UNCHANGED <<root, backup>>
       ELSE root' = AtBackup(r) /\ SetsBackup(r, NoFile)
    /\ Notes(r, IF o = "ok" THEN {} ELSE {what})

\* Unlinks the root object the transaction or the runner put there.
Unlink(r, what) ==
  \E o \in Outcomes :
    /\ Happens(o)
    /\ root' = IF o = "failed" THEN root ELSE NoFile
    /\ Notes(r, IF o = "ok" THEN {} ELSE {what})
    /\ UNCHANGED backup

\* The except BaseException arm: the paths are inspected as well as the flag.
WasMoved(r) == \/ moved[r]
               \/ /\ rec[r].orig # NoFile
                  /\ AtBackup(r) # NoFile /\ root = NoFile

RollBack(r) ==
  /\ phase[r] = "rollback"
  /\ CASE WasMoved(r) /\ AtBackup(r) # NoFile -> Restore(r, "restore failed")
       [] WasMoved(r) /\ AtBackup(r) = NoFile ->
            Notes(r, {"backup gone"}) /\ UNCHANGED <<root, backup, faults>>
       [] ~WasMoved(r) /\ rec[r].orig = NoFile /\ root # NoFile ->
            Unlink(r, "cleanup failed")
       [] OTHER -> UNCHANGED <<root, backup, rec, faults>>
  /\ Goes(r, "unstage")
  /\ UNCHANGED <<staging, mode, original, sample, moved, crashes>>

\* The finally arm of the rollback and of the restoration: the staging file
\* goes.  A rollback then raises, with the recovery errors in its message.
Unstage(r) ==
  /\ phase[r] = "unstage"
  /\ \/ /\ AtStaging(r) = NoFile
        /\ UNCHANGED <<staging, rec, faults>>
     \/ \E o \in Outcomes :
        /\ AtStaging(r) # NoFile /\ Happens(o)
        /\ SetsStaging(r, IF o = "failed" THEN AtStaging(r) ELSE NoFile)
        /\ Notes(r, IF o = "ok" THEN {} ELSE {"staging kept"})
  /\ Goes(r, IF rec[r].begun THEN "judge" ELSE "aborted")
  /\ UNCHANGED <<root, backup, mode, original, sample, moved, crashes>>

----------------------------------------------------------------------------
\* The measured runner leaves the object, builds one over it, or its failed
\* compiler call removes it.
RunnerRuns(r) ==
  /\ phase[r] = "measure"
  /\ root' \in {root, Built(r), NoFile}
  /\ Goes(r, "post")
  /\ UNCHANGED <<backup, staging, mode, original, sample, moved, rec,
                 faults, crashes>>

\* Mutant: does not compare what the runner left with the prepared object.
Post_Mutant(r) ==
  /\ phase[r] = "post"
  /\ \E o \in Outcomes :
     /\ Reads(o)
     /\ rec' = IF o = "failed" THEN [rec EXCEPT ![r].raised = TRUE]
               ELSE [rec EXCEPT ![r].post = root]
  /\ Goes(r, "putback")
  /\ UNCHANGED <<root, backup, staging, mode, original, sample, moved,
                 crashes>>

\* _finish_runner_runtime_isolation, try: a failing read leaves through the
\* finally arms and is raised again behind them.
Post(r) ==
  /\ phase[r] = "post"
  /\ \E o \in Outcomes :
     /\ Reads(o)
     /\ LET missing == IF root = NoFile THEN {"not materialized"} ELSE {}
            swapped == IF mode[r] = "warm" /\ root \notin {NoFile, Prepared(r)}
                       THEN {"replaced prepared"} ELSE {}
        IN  rec' = IF o = "failed" THEN [rec EXCEPT ![r].raised = TRUE]
                   ELSE [rec EXCEPT ![r].post = root,
                                    ![r].errors = @ \cup missing \cup swapped]
  /\ Goes(r, "putback")
  /\ UNCHANGED <<root, backup, staging, mode, original, sample, moved,
                 crashes>>

\* Mutant: drops the backup whether or not it got back to the root.
PutBack_Mutant(r) ==
  /\ phase[r] = "putback"
  /\ \E o \in Outcomes :
     /\ Happens(o)
     /\ root' = IF o = "failed" THEN root ELSE AtBackup(r)
     /\ Notes(r, IF o = "ok" THEN {} ELSE {"restore failed"})
  /\ SetsBackup(r, NoFile)
  /\ Goes(r, "unstage")
  /\ UNCHANGED <<staging, mode, original, sample, moved, crashes>>

\* finally: restore first.
PutBack(r) ==
  /\ phase[r] = "putback"
  /\ CASE rec[r].orig # NoFile /\ AtBackup(r) # NoFile ->
            Restore(r, "restore failed")
       [] rec[r].orig # NoFile /\ AtBackup(r) = NoFile ->
            /\ Notes(r, IF root = rec[r].orig THEN {} ELSE {"backup gone"})
            /\ UNCHANGED <<root, backup, faults>>
       [] rec[r].orig = NoFile /\ root # NoFile -> Unlink(r, "cleanup failed")
       [] OTHER -> UNCHANGED <<root, backup, rec, faults>>
  /\ Goes(r, "unstage")
  /\ UNCHANGED <<staging, mode, original, sample, moved, crashes>>

NotRestored(r) == root # rec[r].orig

\* record["restored"]; a read error of this call or of the one in Post leaves
\* execute_invocation with no row written.
Judge(r) ==
  /\ phase[r] = "judge"
  /\ \E o \in Outcomes :
     /\ Reads(o)
     /\ Notes(r, IF o = "ok" /\ NotRestored(r) THEN {"not restored"} ELSE {})
     /\ Goes(r, IF o = "failed" \/ rec[r].raised THEN "aborted" ELSE "judged")
  /\ UNCHANGED <<root, backup, staging, mode, original, sample, moved,
                 crashes>>

\* _validate_runner_runtime_provenance: TRUE when it raises.
Misplaced(r) ==
  \/ rec[r].pre # (IF mode[r] = "cold" THEN NoFile ELSE Prepared(r))
  \/ /\ rec[r].errors = {}
     /\ \/ rec[r].post = NoFile \/ NotRestored(r)
        \/ AtBackup(r) # NoFile \/ AtStaging(r) # NoFile
  \/ /\ mode[r] = "warm"
     /\ rec[r].post \notin {NoFile, Prepared(r)}

\* run_lane's loop condition, reduced to a budget of invocations.
Another(r) == sample[r] < MaxSamples

\* The row: errors make it a fatal invalid row, which ends the lane and the
\* run; a clean row may be followed by the next invocation.
Row(r) ==
  /\ phase[r] = "judged"
  /\ \/ /\ Misplaced(r)
        /\ Goes(r, "aborted") /\ UNCHANGED sample
     \/ /\ ~Misplaced(r) /\ rec[r].errors = {} /\ Another(r)
        /\ Goes(r, "begin") /\ sample' = [sample EXCEPT ![r] = @ + 1]
     \/ /\ ~Misplaced(r)
        /\ Goes(r, "ended") /\ UNCHANGED sample
  /\ UNCHANGED <<root, backup, staging, mode, original, moved, rec, faults,
                 crashes>>

\* The harness process dies; its job kills the runner with it.
Crash(r) ==
  /\ Active(r) /\ crashes < MaxCrashes
  /\ crashes' = crashes + 1
  /\ Goes(r, "crashed")
  /\ UNCHANGED <<root, backup, staging, mode, original, sample, moved, rec,
                 faults>>

Step(r) == \/ Capture(r) \/ Begin(r) \/ MoveAside(r) \/ Stage(r) \/ Install(r)
           \/ Pre(r) \/ RollBack(r) \/ Unstage(r) \/ RunnerRuns(r) \/ Post(r)
           \/ PutBack(r) \/ Judge(r) \/ Row(r)

Next == \E r \in Runs : Step(r) \/ Crash(r)

Spec == Init /\ [][Next]_vars

----------------------------------------------------------------------------
TypeOK ==
  /\ root \in Contents
  /\ backup \in [Tokens -> Contents] /\ staging \in [Tokens -> Contents]
  /\ mode \in [Runs -> {"cold", "warm"}]
  /\ original \in [Runs -> Contents]
  /\ sample \in [Runs -> 1 .. MaxSamples]
  /\ phase \in [Runs -> Phases]
  /\ moved \in [Runs -> BOOLEAN]
  /\ \A r \in Runs : /\ {rec[r].orig, rec[r].pre, rec[r].post} \subseteq Contents
                     /\ {rec[r].begun, rec[r].raised} \subseteq BOOLEAN
  /\ faults \in 0 .. MaxFaults /\ crashes \in 0 .. MaxCrashes

\* The object a run found at the root is never destroyed while that run is
\* at work, and never afterwards unless the run brought it back: it is at
\* the root, or in the run's backup, whichever call failed and wherever the
\* harness died.
OriginalKept ==
  \A r \in Runs :
    (phase[r] # "idle" /\ original[r] = User) =>
      root = User \/ \E t \in Tokens : backup[t] = User

\* A rollback that names no recovery error left the disk as the run found it:
\* the message "was safely rolled back" is true.
SafelyRolledBack ==
  [][\A r \in Runs :
       (/\ phase[r] = "unstage" /\ phase'[r] = "aborted"
        /\ ~rec[r].begun /\ rec'[r].errors = {})
         => /\ root' = original[r]
            /\ AtBackup(r)' = NoFile /\ AtStaging(r)' = NoFile]_vars

\* An invocation the transaction itself calls clean was measured from the
\* state its lane declares, ended in the state that lane declares, and left
\* none of the transaction's files behind: a stale object cannot turn a cold
\* sample warm, and a sample cannot hand its object to the next one.
CleanRowIsClean ==
  \A r \in Runs :
    (phase[r] = "judged" /\ rec[r].errors = {}) =>
      /\ rec[r].pre = (IF mode[r] = "cold" THEN NoFile ELSE Prepared(r))
      /\ rec[r].post = (IF mode[r] = "cold" THEN Built(r) ELSE Prepared(r))
      /\ root = original[r]
      /\ AtBackup(r) = NoFile /\ AtStaging(r) = NoFile
=============================================================================
