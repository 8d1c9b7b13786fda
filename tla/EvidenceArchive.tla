-------------------------- MODULE EvidenceArchive ----------------------------
(* create_archive and verify_archive (.agents/scripts/one_shot_gate.py): the  *)
(* names of the evidence directory are enumerated, then every file is looked  *)
(* at for its size and read for its digest, then the files are copied one by  *)
(* one into a new tar file, then the tar file is read back - while the        *)
(* attempt may still be running, so that every read is at a moment of its own.*)
(* A read of one file is one step: the raw files only grow, so what a read    *)
(* sees of one that grows meanwhile is what the file was at some moment of it.*)
EXTENDS OneShotGate

VARIABLES
    archiver,   \* "idle", "recording", "adding", "created" or "failed"
    listed,     \* the names that the enumeration gave
    manifest,   \* the inventory so far: name -> its size, and what its digest
                \* was computed from
    tar         \* the members added so far: name -> content when it was read

archiveVars == <<archiver, listed, manifest, tar>>

Unread   == [is |-> "unread"]       \* the digest is not computed yet
Nothing  == [n \in {} |-> Absent]

ArchiveInit == /\ Init /\ archiver = "idle" /\ listed = {}
               /\ manifest = Nothing /\ tar = Nothing

\* f joins or replaces an entry.
With(entries, f, e) == [g \in DOMAIN entries \cup {f} |-> IF g = f THEN e ELSE entries[g]]

\* How long a file is, as far as two of its states can be told apart by it.
Length(c) == IF c.is = "raw" THEN c.size ELSE IF c.is = "torn" THEN 0 ELSE 1

\* The files are taken in the order of their paths; the other one may have any.
Rank(n) == CASE n = "attempt" -> 1 [] n = "stderr" -> 2 [] n = "stdout" -> 3
             [] n = "verdict" -> 4
NextOf(f, done) ==
    /\ f \in listed \ done
    /\ f # "stray" => \A g \in listed \ (done \cup {"stray"}) : Rank(f) <= Rank(g)
------------------------------------------------------------------------------
(* _archive_inventory                                                         *)

\* Mutant: only the files of a complete attempt are listed.
ListNames_Known ==
    /\ archiver = "idle"
    /\ listed' = {f \in Complete : file[f] # Absent}
    /\ archiver' = "recording"
    /\ UNCHANGED <<manifest, tar>>
\* The names come first, whatever is written while the files are read; those of
\* so few files come from one read of the directory.
ListNames ==
    /\ archiver = "idle"
    /\ listed' = {f \in Names : file[f] # Absent}
    /\ archiver' = "recording"
    /\ UNCHANGED <<manifest, tar>>

Hashed == {f \in DOMAIN manifest : manifest[f].data # Unread}

\* The next file is looked at; one that is gone ends the archive.
RecordSize(f) ==
    /\ archiver = "recording"
    /\ Hashed = DOMAIN manifest /\ NextOf(f, Hashed)
    /\ IF file[f] = Absent
       THEN archiver' = "failed" /\ UNCHANGED manifest
       ELSE /\ manifest' = With(manifest, f, [size |-> Length(file[f]), data |-> Unread])
            /\ UNCHANGED archiver
    /\ UNCHANGED <<listed, tar>>

\* Its digest is computed from a second read.
RecordDigest(f) ==
    /\ archiver = "recording"
    /\ f \in DOMAIN manifest \ Hashed
    /\ IF file[f] = Absent
       THEN archiver' = "failed" /\ UNCHANGED manifest
       ELSE /\ manifest' = With(manifest, f, [size |-> manifest[f].size, data |-> file[f]])
            /\ UNCHANGED archiver
    /\ UNCHANGED <<listed, tar>>
------------------------------------------------------------------------------
(* The tar file.                                                              *)

\* It is created exclusively.
OpenTar ==
    /\ archiver = "recording" /\ Hashed = listed
    /\ archiver' \in {"adding", "failed"}
    /\ UNCHANGED <<listed, manifest, tar>>

\* One file of the inventory is copied; a file that is gone ends the archive.
Add(f) ==
    /\ archiver = "adding" /\ NextOf(f, DOMAIN tar)
    /\ IF file[f] = Absent
       THEN archiver' = "failed" /\ UNCHANGED tar
       ELSE tar' = With(tar, f, file[f]) /\ UNCHANGED archiver
    /\ UNCHANGED <<listed, manifest>>

\* verify_archive: every member must be what the manifest says.
Verify ==
    /\ archiver = "adding" /\ DOMAIN tar = listed
    /\ archiver' = IF \A f \in listed : /\ Length(tar[f]) = manifest[f].size
                                        /\ tar[f] = manifest[f].data
                   THEN "created" ELSE "failed"
    /\ UNCHANGED <<listed, manifest, tar>>

ArchiveStep ==
    \/ ListNames \/ OpenTar \/ Verify
    \/ \E f \in Names : RecordSize(f) \/ RecordDigest(f) \/ Add(f)

ArchiveNext == \/ ArchiveStep /\ UNCHANGED gateVars
               \/ Next /\ UNCHANGED archiveVars

ArchiveSpec == ArchiveInit /\ [][ArchiveNext]_<<gateVars, archiveVars>>
------------------------------------------------------------------------------
\* The directory as it would be unpacked from the archive.
Unpacked == INSTANCE OneShotGate WITH
    file <- [n \in Names |-> IF n \in DOMAIN tar THEN tar[n] ELSE Absent]

\* An archive made while the attempt was still running, or after it, answers
\* what the directory answers or nothing: names that were listed before a file
\* was there, and records and copies of different moments, never complete an
\* attempt that is not complete, nor hide what spoils it (create_archive
\* against execute and audit_attempt).
ArchivedNeverAhead ==
    /\ archiver = "created" /\ damage = 0 /\ ~late
    /\ Unpacked!Audit.state = "complete"
    => Unpacked!Audit = Audit
==============================================================================
