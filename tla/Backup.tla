------------------------------- MODULE Backup -------------------------------
(***************************************************************************)
(* internal/backup: the snapshots that the schedule and the API write into *)
(* the data directory, and the restore of an archive by a process of its   *)
(* own while the proxy is stopped, which is what README.md asks for.  The  *)
(* process may die between any two steps; what is on disk then stays.      *)
(*                                                                         *)
(* A file has a name, and an archive that is written through it even after *)
(* the name is gone.  The database is a version; the secret and the        *)
(* account keys, written once, are left out.  A directory is known by the  *)
(* start or the restore that made it.                                      *)
(***************************************************************************)
EXTENDS Integers, Sequences, FiniteSets, Functions

CONSTANTS
    Takers,      \* API calls that take a snapshot
    KeepNewest,  \* Scheduler.keep
    MaxSecond,   \* bound: the last second
    MaxVersion,  \* bound: versions of a database
    MaxArchives, \* bound: archives begun
    MaxMade      \* bound: data directories made

ASSUME BackupAssumption ==
    /\ "run" \notin Takers /\ KeepNewest \in Nat \ {0}
    /\ MaxSecond \in Nat /\ MaxVersion \in Nat /\ MaxArchives \in Nat /\ MaxMade \in Nat \ {0}

VARIABLES
    second,     \* the clock, as the names have it
    up,         \* the proxy runs
    dir,        \* the data directory, <<>> for none, else <<directory>>
    asides,     \* the directories moved aside, by the second in their name
    archives,   \* every archive begun: whose database at which version, and how far
    taker,      \* Snapshot, and what prune has listed
    restore,    \* Restore, with its staging directory
    created,    \* history: directories made
    removed     \* history: seconds of the partial files removed under their writer

backupVars == <<second, up, dir, asides, archives, taker, restore, created, removed>>

Everyone == Takers \cup {"run"}
Idle == [pc |-> "idle", name |-> 0, archive |-> 0, listed |-> {}]
NoRestore == [pc |-> "idle", from |-> 0]

Directory(n, version) == [id |-> n, version |-> version, files |-> [f \in {} |-> 0]]

BackupInit ==
    /\ second = 0 /\ up = TRUE
    /\ dir = <<Directory(1, 0)>>
    /\ asides = [s \in {} |-> dir]
    /\ archives = <<>>
    /\ taker = [w \in Everyone |-> Idle]
    /\ restore = NoRestore
    /\ created = 1
    /\ removed = {}

files == dir[1].files
Partial(s) == <<s, "partial">>
Named(s) == <<s, "archive">>

\* The map f with v under x.
Entered(f, x, v) == [y \in DOMAIN f \cup {x} |-> IF y = x THEN v ELSE f[y]]

\* The directory's files become fs.
Now(fs) == dir' = <<[dir[1] EXCEPT !.files = fs]>>

Writers(f) == {w \in Everyone : taker[w].pc \in {"copy", "rename"} /\ Partial(taker[w].name) = f}

\* f is removed, if it is there; others may be writing it.
Remove(f, others) ==
    /\ Now(Restrict(files, DOMAIN files \ {f}))
    /\ removed' = IF f \in DOMAIN files /\ others # {} THEN removed \cup {f[1]} ELSE removed

-----------------------------------------------------------------------------
\* Snapshot: O_EXCL refuses a second writer of the same second.
Open(w) ==
    /\ up /\ taker[w].pc = "idle" /\ Len(archives) < MaxArchives
    /\ Partial(second) \notin DOMAIN files
    /\ archives' = Append(archives, [of |-> 0, version |-> 0, whole |-> FALSE])
    /\ Now(Entered(files, Partial(second), Len(archives) + 1))
    /\ taker' = [taker EXCEPT ![w] = [pc |-> "copy", name |-> second, archive |-> Len(archives) + 1, listed |-> {}]]
    /\ UNCHANGED <<second, up, asides, restore, created, removed>>

\* Create: VACUUM INTO, and then the manifest, the database and the rest.
Copy(w) ==
    LET a == taker[w].archive IN
    /\ up /\ taker[w].pc = "copy" /\ archives[a].of = 0
    /\ archives' = [archives EXCEPT ![a] = [of |-> dir[1].id, version |-> dir[1].version, whole |-> FALSE]]
    /\ UNCHANGED <<second, up, dir, asides, taker, restore, created, removed>>

Finish(w) ==
    LET a == taker[w].archive IN
    /\ up /\ taker[w].pc = "copy" /\ archives[a].of # 0
    /\ archives' = [archives EXCEPT ![a].whole = TRUE]
    /\ taker' = [taker EXCEPT ![w].pc = "rename"]
    /\ UNCHANGED <<second, up, dir, asides, restore, created, removed>>

\* An error of Create, Close or Rename: the name is removed, whoever has it by now.
CreateFails(w) ==
    /\ up /\ taker[w].pc \in {"copy", "rename"}
    /\ Remove(Partial(taker[w].name), Writers(Partial(taker[w].name)) \ {w})
    /\ taker' = [taker EXCEPT ![w] = Idle]
    /\ UNCHANGED <<second, up, asides, archives, restore, created>>

\* p gets the name of an archive, in the place of one of the same second.
Renamed(p) ==
    Entered(Restrict(files, DOMAIN files \ {p}), Named(p[1]), files[p])

\* Mutant: the file gets its name although Create failed.
RenameAnyway(w) ==
    LET p == Partial(taker[w].name) IN
    /\ up /\ taker[w].pc \in {"copy", "rename"} /\ p \in DOMAIN files
    /\ Now(Renamed(p))
    /\ taker' = [taker EXCEPT ![w] = IF w = "run" THEN [Idle EXCEPT !.pc = "list"] ELSE Idle]
    /\ UNCHANGED <<second, up, asides, archives, restore, created, removed>>

\* The rename replaces an archive of the same second; without the name it fails.
\* The schedule goes on to prune.
Rename(w) ==
    LET p == Partial(taker[w].name)
        ok == p \in DOMAIN files
    IN
    /\ up /\ taker[w].pc = "rename"
    /\ IF ok THEN Now(Renamed(p)) ELSE dir' = dir
    /\ taker' = [taker EXCEPT ![w] = IF ok /\ w = "run" THEN [Idle EXCEPT !.pc = "list"] ELSE Idle]
    /\ UNCHANGED <<second, up, asides, archives, restore, created, removed>>

Newest(ss) == {s \in ss : Cardinality({t \in ss : t > s}) < KeepNewest}

\* prune lists the directory, removes the partial files, then the older archives;
\* one that is already gone ends it.
PruneList ==
    LET named == {f[1] : f \in {g \in DOMAIN files : g[2] = "archive"}} IN
    /\ up /\ taker["run"].pc = "list"
    /\ taker' = [taker EXCEPT !["run"] = [Idle EXCEPT !.pc = "prune",
                    !.listed = {f \in DOMAIN files : f[2] = "partial"} \cup {Named(s) : s \in named \ Newest(named)}]]
    /\ UNCHANGED <<second, up, dir, asides, archives, restore, created, removed>>

PruneRemove(f) ==
    LET left == taker["run"].listed \ {f} IN
    /\ up /\ taker["run"].pc = "prune" /\ f \in taker["run"].listed
    /\ f[2] = "archive" => \A g \in left : g[2] = "archive" /\ g[1] < f[1]
    /\ Remove(f, Writers(f))
    /\ taker' = [taker EXCEPT !["run"].listed = IF f[2] = "archive" /\ f \notin DOMAIN files THEN {} ELSE left]
    /\ UNCHANGED <<second, up, asides, archives, restore, created>>

PruneEnd ==
    /\ up /\ taker["run"].pc = "prune" /\ taker["run"].listed = {}
    /\ taker' = [taker EXCEPT !["run"] = Idle]
    /\ UNCHANGED <<second, up, dir, asides, archives, restore, created, removed>>

\* handleBackupDelete takes any name.
DeleteFile(f) ==
    /\ up /\ f \in DOMAIN files
    /\ Remove(f, Writers(f))
    /\ UNCHANGED <<second, up, asides, archives, taker, restore, created>>

Change ==
    /\ up /\ dir[1].version < MaxVersion
    /\ dir' = <<[dir[1] EXCEPT !.version = @ + 1]>>
    /\ UNCHANGED <<second, up, asides, archives, taker, restore, created, removed>>

-----------------------------------------------------------------------------
\* The process stops or dies.  Load makes a data directory where there is none.
Die ==
    /\ up
    /\ up' = FALSE
    /\ taker' = [w \in Everyone |-> Idle]
    /\ UNCHANGED <<second, dir, asides, archives, restore, created, removed>>

Start ==
    /\ ~up /\ restore.pc = "idle"
    /\ up' = TRUE
    /\ IF dir # <<>> THEN UNCHANGED <<dir, created>>
       ELSE created' = created + 1 /\ dir' = <<Directory(created + 1, 0)>>
    /\ UNCHANGED <<second, asides, archives, taker, restore, removed>>

\* restoreBackup makes no directory (LoadReadOnly).  Describe and extract read the
\* archive: one that is not whole is refused before anything is touched.
RestoreExtract(a) ==
    /\ ~up /\ restore.pc = "idle" /\ created < MaxMade
    /\ restore' = IF ~archives[a].whole THEN NoRestore
                  ELSE [pc |-> IF dir = <<>> THEN "place" ELSE "aside", from |-> a]
    /\ UNCHANGED <<second, up, dir, asides, archives, taker, created, removed>>

\* Mutant: the old directory is removed once the new one is to be put in place.
RestoreAsideRemoves ==
    /\ restore.pc = "aside"
    /\ dir' = <<>>
    /\ restore' = [restore EXCEPT !.pc = "place"]
    /\ UNCHANGED <<second, up, asides, archives, taker, created, removed>>

\* A directory is not renamed over another one.
RestoreAside ==
    /\ restore.pc = "aside"
    /\ IF second \in DOMAIN asides
       THEN restore' = NoRestore /\ UNCHANGED <<dir, asides>>
       ELSE /\ asides' = Entered(asides, second, dir[1])
            /\ dir' = <<>>
            /\ restore' = [restore EXCEPT !.pc = "place"]
    /\ UNCHANGED <<second, up, archives, taker, created, removed>>

RestorePlace ==
    /\ restore.pc = "place"
    /\ dir' = <<Directory(created + 1, archives[restore.from].version)>>
    /\ created' = created + 1
    /\ restore' = NoRestore
    /\ UNCHANGED <<second, up, asides, archives, taker, removed>>

\* A step of Restore fails, or its process dies.
RestoreFails ==
    /\ restore.pc # "idle"
    /\ restore' = NoRestore
    /\ UNCHANGED <<second, up, dir, asides, archives, taker, created, removed>>

BackupTick ==
    /\ second < MaxSecond
    /\ second' = second + 1
    /\ UNCHANGED <<up, dir, asides, archives, taker, restore, created, removed>>

BackupNext ==
    \/ \E w \in Everyone : Open(w) \/ Copy(w) \/ Finish(w) \/ CreateFails(w) \/ Rename(w)
    \/ PruneList \/ PruneEnd \/ Change \/ Die \/ Start \/ BackupTick
    \/ dir # <<>> /\ \E f \in DOMAIN files : DeleteFile(f)
    \/ \E f \in taker["run"].listed : PruneRemove(f)
    \/ \E a \in DOMAIN archives : RestoreExtract(a)
    \/ RestoreAside \/ RestorePlace \/ RestoreFails

BackupSpec == BackupInit /\ [][BackupNext]_backupVars

-----------------------------------------------------------------------------
\* Properties.

Directories == Range(dir) \cup Range(asides)

\* A crash "leaves a .partial file rather than a truncated archive that looks
\* like a backup" (schedule.go:111): whatever is listed as a backup is whole,
\* unless its partial file was removed while it was being written, which lets a
\* second writer of that second have its file renamed half way.
ArchivesWhole ==
    \A d \in Directories : \A f \in DOMAIN d.files :
        f[2] = "archive" => archives[d.files[f]].whole \/ f[1] \in removed

\* "It does not delete anything" (backup.go:118): every data directory there has
\* been is still on disk, in place or aside, with the database it last had,
\* wherever a restore failed or died; and a database only moves on.
DataSurvives ==
    /\ [](\A n \in 1 .. created : Cardinality({d \in Directories : d.id = n}) = 1)
    /\ [][\A d \in Directories, e \in Directories' : d.id = e.id => d.version <= e.version]_backupVars
=============================================================================
