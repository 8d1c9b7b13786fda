--------------------------- MODULE CompilerCache ---------------------------
(***************************************************************************)
(* The persistent compiler-artifact cache of tests/run_tests.py: runner    *)
(* processes share a directory of receipts (key -> object), content-       *)
(* addressed objects and poison markers.  Everything under the cache's     *)
(* global file lock is one runner's, but the steps under it are separate   *)
(* file operations, between which the runner may be killed; and a runner   *)
(* makes and removes its staging directory, and copies a published object, *)
(* without the lock.                                                       *)
(*                                                                         *)
(* The key lock is always taken inside the global lock and adds nothing to *)
(* it.  Objects have size one.  A killed runner's staging directory can    *)
(* only be removed by a cleanup that holds the lock a day later, so no     *)
(* stat of it fails, and it is left out; so are temporary files, made and  *)
(* removed under the lock, and the records of conflicts, kept for people.  *)
(***************************************************************************)
EXTENDS Naturals, FiniteSets, SequencesExt

CONSTANTS Runner, Key, Obj, None,
          Torn,         \* a receipt that fails validation
          Mark,         \* a poison record written over the receipt
          MaxEntries,   \* COMPILER_CACHE_MAX_ENTRIES
          MaxBytes      \* COMPILER_CACHE_MAX_BYTES, in objects

ASSUME CacheAssumption == /\ MaxEntries \in Nat \ {0}
                          /\ MaxBytes \in Nat \ {0}
                          /\ None # Torn /\ None # Mark /\ Torn # Mark
                          /\ {None, Torn, Mark} \cap (Obj \cup Key \cup Runner) = {}
                          /\ None \notin Key \X Obj

VARIABLES lock,      \* the runner that holds the global lock, or None
          receipt,   \* receipts/<key>.json
          poison,    \* the keys with a poisoned/<key>.json
          artifact,  \* the objects in artifacts/
          used,      \* keys by last access, the most recent first
          staged,    \* the runners whose .staging-* directory exists
          listed,    \* the directories a cleanup has listed and not yet looked at
          run        \* each runner: where it is, its key, object, winner

vars == <<lock, receipt, poison, artifact, used, staged, listed, run>>
disk == <<receipt, poison, artifact, used>>

Idle == [pc |-> "idle", key |-> None, obj |-> None, win |-> None, next |-> None]

Init == /\ lock = None
        /\ receipt = [k \in Key |-> None]
        /\ poison = {}
        /\ artifact = {}
        /\ used = <<>>
        /\ staged = {}
        /\ listed = {}
        /\ run = [r \in Runner |-> Idle]

-----------------------------------------------------------------------------
(* What the files say.                                                     *)

Poisoned(k) == k \in poison \/ receipt[k] = Mark
Winner(k) == IF receipt[k] \in artifact THEN receipt[k] ELSE None
Entries == {k \in Key : Poisoned(k) \/ receipt[k] \in Obj}

\* Mutant: The poison marker is not looked at.
Usable_ReceiptOnly(k) == receipt[k] # None => Winner(k) # None

\* A lookup or a publish goes on: no poison, and no receipt that fails.
Usable(k) == ~Poisoned(k) /\ (receipt[k] # None => Winner(k) # None)

\* The access file of a key, or its receipt, gets a new time.
Touched(k) == <<k>> \o RemoveFirst(used, k)

\* What the cleanup protects depends on who asked for it.
Protected(r) == IF run[r].next \in {"hit", "compare", "won"} THEN {run[r].key} ELSE {}

\* Mutant: A poison record over a receipt is taken for an unreadable one.
Malformed_Mark == {k \in Key : receipt[k] \in {Torn, Mark} \/ (receipt[k] \in Obj /\ Winner(k) = None)}

\* The receipts the cleanup drops before it counts: unreadable ones, then
\* those a poison marker dominates.
Malformed == {k \in Key : receipt[k] = Torn \/ (receipt[k] \in Obj /\ Winner(k) = None)}
Dominated == {k \in poison : receipt[k] # None}

\* The keys used more recently than k.
Newer(k) == {used[i] : i \in {i \in DOMAIN used :
                                \E j \in DOMAIN used : i < j /\ used[j] = k}}

\* The entries it retains: its own key, and by last access each other one that
\* finds room, itself and its object, beside those retained before it.
Objects(ks) == {receipt[k] : k \in ks} \cap Obj
Room(ks, k) == /\ Cardinality(ks) < MaxEntries
               /\ Cardinality(Objects(ks \cup {k})) <= MaxBytes
Kept(r) == CHOOSE ks \in SUBSET Entries : \A k \in Entries :
              k \in ks <=> \/ k \in Protected(r)
                          \/ Room(ks \cap (Protected(r) \cup Newer(k)), k)

Evicted(r) == Entries \ Kept(r)
Unreferenced == {o \in artifact : \A k \in Key : receipt[k] # o}

-----------------------------------------------------------------------------
At(r, pc) == run[r].pc = pc
Goto(r, pc) == run' = [run EXCEPT ![r].pc = pc]

\* Acquiring and leaving the locks; an exception leaves them too.
Acquire(r) == lock = None /\ lock' = r
\* Mutant: An exception leaves the lock held.
Fail_KeepsLock(r, how) == /\ run' = [run EXCEPT ![r] = [Idle EXCEPT !.pc = how]]
                          /\ listed' = IF lock = r THEN {} ELSE listed
                          /\ UNCHANGED lock

Fail(r, how) == /\ run' = [run EXCEPT ![r] = [Idle EXCEPT !.pc = how]]
                /\ lock' = IF lock = r THEN None ELSE lock
                /\ listed' = IF lock = r THEN {} ELSE listed

\* Enter the cleanup: it begins by listing the staging directories.
Clean(r, win, next) ==
    /\ run' = [run EXCEPT ![r].pc = "stat", ![r].win = win, ![r].next = next]
    /\ listed' = staged

-----------------------------------------------------------------------------
(* _prepare_compiler: a staging directory, the inputs and their key.       *)

Start(r, k) == /\ At(r, "idle")
               /\ run' = [run EXCEPT ![r].pc = "lookup", ![r].key = k]
               /\ staged' = staged \cup {r}
               /\ UNCHANGED <<lock, listed, disk>>

\* A poisoned key, or a receipt that fails validation, is refused.
Refuse(r) ==
    /\ run[r].pc \in {"lookup", "publish"}
    /\ lock = None
    /\ ~Usable(run[r].key)
    /\ Fail(r, "refused")
    /\ UNCHANGED <<staged, disk>>

Lookup(r) ==
    /\ At(r, "lookup")
    /\ Acquire(r)
    /\ LET k == run[r].key
       IN  /\ Usable(k)
           /\ Clean(r, Winner(k), IF Winner(k) = None THEN "miss" ELSE "hit")
    /\ UNCHANGED <<staged, disk>>

\* _publish_cached_anchor up to its first cleanup.
Publish(r) ==
    /\ At(r, "publish")
    /\ Acquire(r)
    /\ LET k == run[r].key
       IN  /\ Usable(k)
           /\ Clean(r, Winner(k), IF receipt[k] = None THEN "link" ELSE "compare")
    /\ UNCHANGED <<staged, disk>>

-----------------------------------------------------------------------------
(* _cleanup_compiler_cache_locked, one file operation at a time.           *)

\* Its first loop looks at each directory the glob returned; one that its
\* owner has removed meanwhile raises FileNotFoundError, which nobody catches.
StatStaging(r, d) ==
    /\ At(r, "stat")
    /\ d \in listed
    /\ d \in staged
    /\ listed' = listed \ {d}
    /\ UNCHANGED <<lock, staged, run, disk>>

StatVanished(r, d) ==
    /\ At(r, "stat")
    /\ d \in listed
    /\ d \notin staged
    /\ Fail(r, "vanished")
    /\ UNCHANGED <<staged, disk>>

StatDone(r) == /\ At(r, "stat")
               /\ listed = {}
               /\ Goto(r, "sweep")
               /\ UNCHANGED <<lock, staged, listed, disk>>

SweepMalformed(r, k) ==
    /\ At(r, "sweep")
    /\ k \in Malformed
    /\ receipt' = [receipt EXCEPT ![k] = None]
    /\ used' = IF k \in poison THEN used ELSE RemoveFirst(used, k)
    /\ UNCHANGED <<lock, poison, artifact, staged, listed, run>>

SweepDominated(r, k) ==
    /\ At(r, "sweep")
    /\ Malformed = {}
    /\ k \in Dominated
    /\ receipt' = [receipt EXCEPT ![k] = None]
    /\ UNCHANGED <<lock, poison, artifact, used, staged, listed, run>>

Evict(r, k) ==
    /\ At(r, "sweep")
    /\ Malformed \cup Dominated = {}
    /\ k \in Evicted(r)
    /\ receipt' = [receipt EXCEPT ![k] = None]
    /\ poison' = poison \ {k}
    /\ used' = RemoveFirst(used, k)
    /\ UNCHANGED <<lock, artifact, staged, listed, run>>

\* Mutant: Objects are collected before the receipts that name them.
Collect_First(r, o) ==
    /\ At(r, "sweep")
    /\ Malformed \cup Dominated = {}
    /\ o \in artifact \ {receipt[k] : k \in Kept(r)}
    /\ artifact' = artifact \ {o}
    /\ UNCHANGED <<lock, receipt, poison, used, staged, listed, run>>

Collect(r, o) ==
    /\ At(r, "sweep")
    /\ Malformed \cup Dominated \cup Evicted(r) = {}
    /\ o \in Unreferenced
    /\ artifact' = artifact \ {o}
    /\ UNCHANGED <<lock, receipt, poison, used, staged, listed, run>>

CleanDone(r) ==
    /\ At(r, "sweep")
    /\ Malformed \cup Dominated \cup Evicted(r) \cup Unreferenced = {}
    /\ Goto(r, run[r].next)
    /\ UNCHANGED <<lock, staged, listed, disk>>

Cleanup(r) == \/ StatDone(r) \/ CleanDone(r)
              \/ \E d \in Runner : StatStaging(r, d) \/ StatVanished(r, d)
              \/ \E k \in Key : SweepMalformed(r, k) \/ SweepDominated(r, k) \/ Evict(r, k)
              \/ \E o \in Obj : Collect(r, o)

-----------------------------------------------------------------------------
(* After the cleanup: what a lookup and a publish do with the entry.       *)

\* A return with the cache's object in hand: the access time, the locks.
Return(r, pc) == /\ Goto(r, pc)
                 /\ used' = Touched(run[r].key)
                 /\ lock' = None
                 /\ UNCHANGED <<receipt, poison, artifact, staged, listed>>

\* The copy of a hit is made under the lock: WinnerInPlace says that it finds
\* its source.
Hit(r) == /\ At(r, "hit")
          /\ run[r].win \in artifact
          /\ Return(r, "linked")

Miss(r) == /\ At(r, "miss")
           /\ Goto(r, "build")
           /\ lock' = None
           /\ UNCHANGED <<staged, listed, disk>>

\* The build may give any object; a hit or a build whose inputs changed
\* meanwhile, or that fails, ends the run.
Build(r, o) == /\ At(r, "build")
               /\ run' = [run EXCEPT ![r].pc = "publish", ![r].obj = o]
               /\ UNCHANGED <<lock, staged, listed, disk>>

GiveUp(r) == /\ run[r].pc \in {"build", "linked"}
             /\ Fail(r, "refused")
             /\ UNCHANGED <<staged, disk>>

\* Another runner published first: the same object is shared.
Share(r) == /\ At(r, "compare")
            /\ run[r].win = run[r].obj
            /\ Return(r, "copy")

\* A different one poisons the key, by renaming the receipt; failing that by
\* a marker of its own; failing that by truncating the receipt, unless even
\* opening it fails.  Each ends in an exception.
PoisonByRename(r) ==
    /\ At(r, "compare")
    /\ run[r].win # run[r].obj
    /\ receipt' = [receipt EXCEPT ![run[r].key] = None]
    /\ poison' = poison \cup {run[r].key}
    /\ Fail(r, "refused")
    /\ UNCHANGED <<artifact, used, staged>>

PoisonByMarker(r) ==
    /\ At(r, "compare")
    /\ run[r].win # run[r].obj
    /\ poison' = poison \cup {run[r].key}
    /\ Fail(r, "refused")
    /\ UNCHANGED <<receipt, artifact, used, staged>>

Truncate(r) ==
    /\ At(r, "compare")
    /\ run[r].win # run[r].obj
    /\ receipt' = [receipt EXCEPT ![run[r].key] = Torn]
    /\ Goto(r, "rewrite")
    /\ UNCHANGED <<lock, poison, artifact, used, staged, listed>>

RewriteReceipt(r) ==
    /\ At(r, "rewrite")
    /\ receipt' = [receipt EXCEPT ![run[r].key] = Mark]
    /\ Fail(r, "refused")
    /\ UNCHANGED <<poison, artifact, used, staged>>

PoisonFails(r) ==
    /\ At(r, "rewrite") \/ (At(r, "compare") /\ run[r].win # run[r].obj)
    /\ Fail(r, "refused")
    /\ UNCHANGED <<staged, disk>>

\* First publisher: the object, then the receipt, created once; a receipt
\* that is there after all is compared with, as above.
LinkObject(r) ==
    /\ At(r, "link")
    /\ artifact' = artifact \cup {run[r].obj}
    /\ Goto(r, "receipt")
    /\ UNCHANGED <<lock, receipt, poison, used, staged, listed>>

LinkFails(r) == /\ run[r].pc \in {"link", "receipt"}
                /\ Fail(r, "refused")
                /\ UNCHANGED <<staged, disk>>

\* Mutant: No cleanup after a publish.
CreateReceipt_NoCleanup(r) ==
    /\ At(r, "receipt")
    /\ receipt' = [receipt EXCEPT ![run[r].key] = run[r].obj]
    /\ used' = Touched(run[r].key)
    /\ run' = [run EXCEPT ![r].pc = "won", ![r].win = run[r].obj]
    /\ UNCHANGED <<lock, poison, artifact, staged, listed>>

CreateReceipt(r) ==
    /\ At(r, "receipt")
    /\ LET k == run[r].key
           won == receipt[k] = None
       IN  /\ receipt' = IF won THEN [receipt EXCEPT ![k] = run[r].obj] ELSE receipt
           /\ used' = IF won THEN Touched(k) ELSE used
           /\ IF won THEN Clean(r, run[r].obj, "won")
              ELSE /\ run' = [run EXCEPT ![r].pc = "compare", ![r].win = Winner(k)]
                   /\ UNCHANGED listed
    /\ UNCHANGED <<lock, poison, artifact, staged>>

Won(r) == At(r, "won") /\ Return(r, "copy")

\* The publisher's copy is made after the locks are released.
Copy(r) == /\ At(r, "copy")
           /\ run[r].win \in artifact
           /\ Goto(r, "linked")
           /\ UNCHANGED <<lock, staged, listed, disk>>

CopyGone(r) == /\ At(r, "copy")
               /\ run[r].win \notin artifact
               /\ Fail(r, "evicted")
               /\ UNCHANGED <<staged, disk>>

\* The finally clause removes the staging directory, whatever happened.
Leave(r) == /\ run[r].pc \in {"linked", "refused", "vanished", "evicted"}
            /\ staged' = staged \ {r}
            /\ run' = [run EXCEPT ![r] = Idle]
            /\ UNCHANGED <<lock, listed, disk>>

\* Mutant: A death that forgets to release the lock.
Crash_KeepsLock(r) ==
    /\ ~At(r, "idle")
    /\ run' = [run EXCEPT ![r] = Idle]
    /\ staged' = staged \ {r}
    /\ listed' = listed \ {r}
    /\ UNCHANGED <<lock, disk>>

\* Death of the process; the system releases its file lock.
Crash(r) == /\ ~At(r, "idle")
            /\ run' = [run EXCEPT ![r] = Idle]
            /\ staged' = staged \ {r}
            /\ listed' = IF lock = r THEN {} ELSE listed \ {r}
            /\ lock' = IF lock = r THEN None ELSE lock
            /\ UNCHANGED disk

-----------------------------------------------------------------------------
Locked(r) == \/ Cleanup(r) \/ Hit(r) \/ Miss(r) \/ Share(r) \/ Won(r)
             \/ PoisonByRename(r) \/ PoisonByMarker(r) \/ Truncate(r)
             \/ RewriteReceipt(r) \/ PoisonFails(r)
             \/ LinkObject(r) \/ LinkFails(r) \/ CreateReceipt(r)

Unlocked(r) == \/ Refuse(r) \/ Lookup(r) \/ Publish(r) \/ GiveUp(r)
               \/ \E o \in Obj : Build(r, o)
               \/ Copy(r) \/ CopyGone(r) \/ Leave(r)

Next == \E r \in Runner : \/ Locked(r) \/ Unlocked(r) \/ Crash(r)
                          \/ \E k \in Key : Start(r, k)

Spec == Init /\ [][Next]_vars

\* A runner that is inside keeps running unless it is killed.
FairSpec == Spec /\ \A r \in Runner : WF_vars(Locked(r))

-----------------------------------------------------------------------------
(* Properties                                                              *)

PCs == {"idle", "lookup", "stat", "sweep", "hit", "miss", "build", "publish",
        "compare", "rewrite", "link", "receipt", "won", "copy", "linked",
        "refused", "vanished", "evicted"}

\* Types; a key is in the access order exactly when a file stands for it,
\* and only the holder of the lock is inside a locked section.
TypeOK ==
    /\ lock \in Runner \cup {None}
    /\ receipt \in [Key -> Obj \cup {None, Torn, Mark}]
    /\ poison \subseteq Key /\ artifact \subseteq Obj
    /\ staged \subseteq Runner /\ listed \subseteq Runner
    /\ run \in [Runner -> [pc : PCs, key : Key \cup {None}, obj : Obj \cup {None},
                           win : Obj \cup {None},
                           next : {None, "hit", "miss", "compare", "link", "won"}]]
    /\ IsInjective(used)
    /\ ToSet(used) = {k \in Key : k \in poison \/ receipt[k] # None}
    /\ \A r \in Runner :
          run[r].pc \in {"stat", "sweep", "hit", "miss", "compare", "rewrite",
                         "link", "receipt", "won"} <=> lock = r

\* A receipt always has its object, at every point where a publisher or a
\* cleanup may be killed: the object is linked before the receipt is created,
\* and collected only after the receipts that named it are gone.
ReceiptBacked == \A k \in Key : receipt[k] \in Obj => receipt[k] \in artifact

\* The winner that a lookup or a publish validated before its cleanup is
\* still the key's receipt, with its object, when it is used afterwards.
WinnerInPlace ==
    \A r \in Runner :
       run[r].pc \in {"hit", "compare", "won"} =>
          /\ receipt[run[r].key] = run[r].win
          /\ run[r].win \in artifact

\* Wherever a runner is killed, what an entry says is there, and a validated
\* winner does not go away before its runner has used it.
EntriesBacked == ReceiptBacked /\ WinnerInPlace

\* A run that goes on after its lookup or publish leaves the cache within its
\* limits and without litter, whatever earlier killed runs left there.
BoundedOnReturn ==
    [][\A r \in Runner :
          lock = r /\ run'[r].pc \in {"linked", "build", "copy"} =>
             /\ Cardinality(Entries') <= MaxEntries
             /\ Cardinality(artifact') <= MaxBytes
             /\ artifact' \subseteq {receipt'[k] : k \in Key}
             /\ Malformed' \cup Dominated' = {}]_vars

\* A key found divergent stays refused until the cache is over its limit and
\* drops it as an entry: no cleanup, crash or later publish revives it.
PoisonKept ==
    [][\A k \in Key : Poisoned(k) /\ ~Poisoned(k)' =>
          Cardinality(Entries) > MaxEntries]_vars

\* The directory implements the abstract cache: an entry is fixed by its
\* first publisher, divergence is final for the entry, and whoever is handed
\* an object is handed the one its key has at that moment.  A receipt being
\* rewritten as a poison record still counts as its object.
Rewriting(k) == {r \in Runner : At(r, "rewrite") /\ run[r].key = k}
Poison == Mark
EntryOf(k) == IF Poisoned(k) THEN Poison
              ELSE IF receipt[k] # Torn THEN receipt[k]
              ELSE IF Rewriting(k) = {} THEN None
              ELSE run[CHOOSE r \in Rewriting(k) : TRUE].win
Handed(r) == IF run[r].pc \in {"copy", "linked"} THEN <<run[r].key, run[r].win>> ELSE None
Cache == INSTANCE CacheSpec WITH entry <- [k \in Key |-> EntryOf(k)],
                                 got <- [r \in Runner |-> Handed(r)]
SharedCache == Cache!Spec

\* Nobody keeps the lock: a runner inside leaves, or dies, in the end.
LockReleased == \A r \in Runner : lock = r ~> lock # r

\* "same payload concurrent publish shares immutable winner": two publishers
\* of the same object both get it; a publish is not ended by another
\* runner's staging directory going away.
SharedWinner ==
    [][\A r \in Runner : run[r].next \in {"compare", "link", "won"}
                         => run'[r].pc # "vanished"]_vars
=============================================================================
