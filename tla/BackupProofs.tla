---------------------------- MODULE BackupProofs ----------------------------
(***************************************************************************)
(* For any number of snapshots taken, pruned and deleted in parallel, of   *)
(* crashes and of restores: what is listed as a backup is whole, and no    *)
(* data directory is ever lost.                                            *)
(***************************************************************************)
EXTENDS Backup, FiniteSetTheorems, TLAPS

ArchiveRecord == [of : Nat, version : Nat, whole : BOOLEAN]

\* A writer, and a call that is not one.
Writing(q) == q.pc \in {"copy", "rename"}

\* The files fs of a directory, against the archives arc and the seconds rem whose
\* partial file was removed under its writer.
FilesOK(fs, arc, rem) ==
    \A f \in DOMAIN fs : /\ fs[f] \in DOMAIN arc
                         /\ f[2] = "archive" => arc[fs[f]].whole \/ f[1] \in rem

DirOK(d, arc, rem) ==
    /\ DOMAIN d = {"id", "version", "files"} /\ d.id \in Nat /\ d.version \in Nat
    /\ FilesOK(d.files, arc, rem)

\* A writer's partial file is there and is its own, unless it was removed.
WriterOK(q, fs, arc, rem) ==
    Writing(q) =>
        /\ q.archive \in DOMAIN arc
        /\ q.pc = "rename" => arc[q.archive].whole
        /\ q.name \in rem \/ (Partial(q.name) \in DOMAIN fs /\ fs[Partial(q.name)] = q.archive)

TakerRecord(q) == DOMAIN q = {"pc", "name", "archive", "listed"}

\* Two writers of one second: the first one's partial file was removed.
Apart(tk, rem) ==
    \A v, w \in Everyone : v # w /\ Writing(tk[v]) /\ Writing(tk[w]) /\ tk[v].name = tk[w].name
                              => tk[v].name \in rem

ArchivesOK(arc) == arc \in Seq(ArchiveRecord) /\ \A a \in DOMAIN arc : arc[a].whole => arc[a].of # 0

\* Every directory made is in one place.
PlacesOK(d, as, n) ==
    /\ \A s \in DOMAIN as : as[s].id \in 1 .. n
    /\ \A s, t \in DOMAIN as : as[s].id = as[t].id => s = t
    /\ d # <<>> => d[1].id \in 1 .. n /\ \A s \in DOMAIN as : as[s].id # d[1].id
    /\ \A i \in 1 .. n : (d # <<>> /\ d[1].id = i) \/ \E s \in DOMAIN as : as[s].id = i

DirsOK(d, as, arc, rem) ==
    /\ d = <<>> \/ (d = <<d[1]>> /\ DirOK(d[1], arc, rem))
    /\ \A s \in DOMAIN as : DirOK(as[s], arc, rem)

\* The inductive invariant.
BackupInv ==
    /\ up \in BOOLEAN /\ created \in Nat
    /\ ArchivesOK(archives)
    /\ DirsOK(dir, asides, archives, removed)
    /\ PlacesOK(dir, asides, created)
    /\ DOMAIN taker = Everyone /\ \A w \in Everyone : TakerRecord(taker[w])
    /\ \A w \in Everyone : Writing(taker[w]) => up
    /\ up => dir # <<>> /\ restore.pc = "idle"
    /\ DOMAIN restore = {"pc", "from"}
    /\ restore.pc \in {"idle", "aside", "place"}
    /\ restore.pc = "aside" => dir # <<>>
    /\ restore.pc = "place" => dir = <<>> /\ restore.from \in DOMAIN archives
    /\ restore.pc = "aside" => restore.from \in DOMAIN archives
    /\ \A w \in Everyone : WriterOK(taker[w], files, archives, removed)
    /\ Apart(taker, removed)

\* The archives move on: none is lost, and a whole one stays whole.
Grows(arc, brc) == DOMAIN arc \subseteq DOMAIN brc /\ \A a \in DOMAIN arc : arc[a].whole => brc[a].whole

LEMMA GrowsSame == ASSUME NEW arc PROVE Grows(arc, arc)
  BY DEF Grows

LEMMA FilesKept ==
  ASSUME NEW fs, NEW arc, NEW brc, NEW rem, NEW sem, FilesOK(fs, arc, rem), Grows(arc, brc), rem \subseteq sem
  PROVE  FilesOK(fs, brc, sem)
  BY DEF FilesOK, Grows

LEMMA DirKept ==
  ASSUME NEW d, NEW arc, NEW brc, NEW rem, NEW sem, DirOK(d, arc, rem), Grows(arc, brc), rem \subseteq sem
  PROVE  DirOK(d, brc, sem)
  BY FilesKept DEF DirOK

LEMMA OneDirectory == ASSUME NEW d PROVE <<d>> # <<>> /\ <<d>>[1] = d
  OBVIOUS

\* A step of the running proxy, which keeps its directory but for the files and
\* the version.
LEMMA RunningStep ==
  ASSUME BackupInv, up, UNCHANGED <<up, asides, restore, created>>,
         NEW d, dir' = <<d>>, DOMAIN d = {"id", "version", "files"}, d.id = dir[1].id, d.version \in Nat,
         ArchivesOK(archives'), Grows(archives, archives'), removed \subseteq removed',
         FilesOK(d.files, archives', removed'),
         DOMAIN taker' = Everyone, \A w \in Everyone : TakerRecord(taker'[w]),
         \A w \in Everyone : WriterOK(taker'[w], d.files, archives', removed'),
         Apart(taker', removed')
  PROVE  BackupInv'
  <1>1. dir # <<>> /\ dir = <<dir[1]>> /\ DirOK(dir[1], archives, removed) /\ restore.pc = "idle"
    BY DEF BackupInv, DirsOK
  <1>2. dir' # <<>> /\ dir'[1] = d
    BY OneDirectory
  <1>3. DirsOK(dir', asides', archives', removed')
    <2>1. DirOK(d, archives', removed')
      BY <1>1 DEF DirOK
    <2>2. \A s \in DOMAIN asides : DirOK(asides[s], archives', removed')
      BY DirKept DEF BackupInv, DirsOK
    <2> QED
      BY <1>2, <2>1, <2>2 DEF DirsOK
  <1>4. PlacesOK(dir', asides', created')
    BY <1>1, <1>2 DEF BackupInv, PlacesOK
  <1>5. \A w \in Everyone : WriterOK(taker'[w], files', archives', removed')
    BY <1>2 DEF files
  <1> QED
    BY <1>1, <1>2, <1>3, <1>4, <1>5 DEF BackupInv

LEMMA Running ==
  ASSUME BackupInv, up
  PROVE  /\ dir # <<>> /\ dir = <<dir[1]>> /\ restore.pc = "idle"
         /\ DOMAIN dir[1] = {"id", "version", "files"} /\ dir[1].id \in Nat /\ dir[1].version \in Nat
         /\ FilesOK(files, archives, removed)
         /\ ArchivesOK(archives) /\ archives \in Seq(ArchiveRecord)
         /\ DOMAIN taker = Everyone /\ \A w \in Everyone : TakerRecord(taker[w])
         /\ \A w \in Everyone : WriterOK(taker[w], files, archives, removed)
         /\ Apart(taker, removed)
  BY DEF BackupInv, DirsOK, DirOK, ArchivesOK, files

LEMMA IdleOK == TakerRecord(Idle) /\ Idle.pc = "idle" /\ ~Writing(Idle)
  BY DEF Idle, TakerRecord, Writing

\* The directory with other files.
LEMMA NowOK ==
  ASSUME BackupInv, up, NEW fs, Now(fs)
  PROVE  \E d : /\ dir' = <<d>> /\ DOMAIN d = {"id", "version", "files"} /\ d.id = dir[1].id
                /\ d.version = dir[1].version /\ d.version \in Nat /\ d.files = fs
  <1> DEFINE d == [dir[1] EXCEPT !.files = fs]
  <1>1. DOMAIN dir[1] = {"id", "version", "files"} /\ dir[1].version \in Nat
    BY Running
  <1>2. /\ DOMAIN d = {"id", "version", "files"} /\ d.id = dir[1].id
        /\ d.version = dir[1].version /\ d.files = fs
    BY <1>1
  <1>3. dir' = <<d>>
    BY DEF Now
  <1> HIDE DEF d
  <1> QED
    BY <1>1, <1>2, <1>3

\* The names of files: a second and what it is.
LEMMA FileNames ==
  ASSUME NEW s
  PROVE  Partial(s)[1] = s /\ Partial(s)[2] = "partial" /\ Named(s)[1] = s /\ Named(s)[2] = "archive"
         /\ \A r : (Partial(s) = Partial(r) => s = r) /\ Partial(r) # Named(s)
  <1>1. Partial(s)[1] = s /\ Partial(s)[2] = "partial" /\ Named(s)[1] = s /\ Named(s)[2] = "archive"
    BY DEF Partial, Named
  <1>2. ASSUME NEW r PROVE Partial(r)[1] = r /\ Partial(r)[2] = "partial"
    BY DEF Partial
  <1> QED
    BY <1>1, <1>2

LEMMA OpenOK ==
  ASSUME BackupInv, NEW w \in Everyone, Open(w)
  PROVE  BackupInv'
  <1> DEFINE n == Len(archives) + 1
             q == [pc |-> "copy", name |-> second, archive |-> n, listed |-> {}]
             fs == Entered(files, Partial(second), n)
             arc == [of |-> 0, version |-> 0, whole |-> FALSE]
  <1>1. /\ up /\ ~Writing(taker[w]) /\ Partial(second) \notin DOMAIN files
        /\ archives' = Append(archives, arc) /\ Now(fs) /\ taker' = [taker EXCEPT ![w] = q]
        /\ UNCHANGED <<second, up, asides, restore, created, removed>>
    BY DEF Open, Writing
  <1>2. /\ archives \in Seq(ArchiveRecord) /\ DOMAIN taker = Everyone /\ \A v \in Everyone : TakerRecord(taker[v])
        /\ ArchivesOK(archives) /\ FilesOK(files, archives, removed)
        /\ \A v \in Everyone : WriterOK(taker[v], files, archives, removed)
        /\ Apart(taker, removed)
    BY <1>1, Running
  <1>3. /\ DOMAIN archives' = 1 .. n /\ DOMAIN archives = 1 .. Len(archives) /\ n \in Nat
        /\ archives' \in Seq(ArchiveRecord)
        /\ archives'[n] = arc /\ \A a \in DOMAIN archives : archives'[a] = archives[a]
    <2>1. arc \in ArchiveRecord
      BY DEF ArchiveRecord
    <2> HIDE DEF arc
    <2> QED
      BY <1>1, <1>2, <2>1
  <1>4. Grows(archives, archives') /\ n \in DOMAIN archives'
    BY <1>3 DEF Grows
  <1>5. ArchivesOK(archives')
    <2>1. ~arc.whole
      OBVIOUS
    <2> HIDE DEF arc
    <2>2. ASSUME NEW a \in DOMAIN archives', archives'[a].whole PROVE archives'[a].of # 0
      <3>1. a \in DOMAIN archives \/ a = n
        BY <1>3
      <3> QED
        BY <1>2, <1>3, <2>1, <2>2, <3>1 DEF ArchivesOK
    <2> QED
      BY <1>3, <2>2 DEF ArchivesOK
  <1>6. /\ DOMAIN fs = DOMAIN files \cup {Partial(second)} /\ fs[Partial(second)] = n
        /\ \A f \in DOMAIN files : fs[f] = files[f]
    BY <1>1 DEF Entered
  <1>7. TakerRecord(q) /\ Writing(q) /\ q.pc = "copy" /\ q.name = second /\ q.archive = n
    BY DEF TakerRecord, Writing
  <1> HIDE DEF fs, q, n
  <1>8. FilesOK(fs, archives', removed')
    <2>1. FilesOK(files, archives', removed')
      BY <1>1, <1>2, <1>4, FilesKept
    <2> QED
      BY <1>4, <1>6, <2>1, FileNames DEF FilesOK
  <1>9. taker'[w] = q /\ DOMAIN taker' = Everyone /\ \A v \in Everyone \ {w} : taker'[v] = taker[v]
    BY <1>1, <1>2
  <1>10. \A v \in Everyone \ {w} : Writing(taker[v]) /\ taker[v].name = second => second \in removed
    BY <1>1, <1>2 DEF WriterOK
  <1>11. ASSUME NEW v \in Everyone PROVE WriterOK(taker'[v], fs, archives', removed')
    <2>1. CASE v = w
      BY <1>4, <1>6, <1>7, <1>9, <2>1 DEF WriterOK
    <2>2. CASE v # w
      <3>1. taker'[v] = taker[v] /\ WriterOK(taker[v], files, archives, removed)
        BY <1>2, <1>9, <2>2
      <3> QED
        BY <1>1, <1>4, <1>6, <3>1 DEF WriterOK, Grows
    <2> QED
      BY <2>1, <2>2
  <1>12. Apart(taker', removed')
    BY <1>1, <1>2, <1>7, <1>9, <1>10 DEF Apart
  <1>13. PICK d : /\ dir' = <<d>> /\ DOMAIN d = {"id", "version", "files"} /\ d.id = dir[1].id
                  /\ d.version \in Nat /\ d.files = fs
    BY <1>1, NowOK
  <1>14. \A v \in Everyone : TakerRecord(taker'[v])
    BY <1>2, <1>7, <1>9
  <1>15. removed \subseteq removed'
    BY <1>1
  <1> QED
    BY <1>1, <1>4, <1>5, <1>8, <1>9, <1>11, <1>12, <1>13, <1>14, <1>15, RunningStep

\* Steps that leave the directory as it is.
LEMMA SameDirectory ==
  ASSUME BackupInv, up, UNCHANGED <<up, dir, asides, restore, created, removed>>,
         ArchivesOK(archives'), Grows(archives, archives'),
         DOMAIN taker' = Everyone, \A w \in Everyone : TakerRecord(taker'[w]),
         \A w \in Everyone : Writing(taker'[w]) =>
             /\ Writing(taker[w]) /\ taker'[w].name = taker[w].name /\ taker'[w].archive = taker[w].archive
             /\ taker'[w].pc = "rename" => taker[w].pc = "rename" \/ archives'[taker[w].archive].whole
  PROVE  BackupInv'
  <1>1. /\ dir = <<dir[1]>> /\ DOMAIN dir[1] = {"id", "version", "files"} /\ dir[1].version \in Nat
        /\ FilesOK(dir[1].files, archives', removed')
        /\ \A w \in Everyone : WriterOK(taker[w], dir[1].files, archives, removed)
        /\ Apart(taker, removed)
    BY Running, FilesKept DEF files
  <1>2. \A w \in Everyone : WriterOK(taker'[w], dir[1].files, archives', removed')
    BY <1>1 DEF WriterOK, Grows
  <1>3. Apart(taker', removed')
    BY <1>1 DEF Apart
  <1>4. dir' = <<dir[1]>> /\ removed \subseteq removed'
    BY <1>1
  <1> QED
    BY <1>1, <1>2, <1>3, <1>4, RunningStep

LEMMA CopyOK ==
  ASSUME BackupInv, NEW w \in Everyone, Copy(w)
  PROVE  BackupInv'
  <1> DEFINE a == taker[w].archive
             arc == [of |-> dir[1].id, version |-> dir[1].version, whole |-> FALSE]
  <1>1. /\ up /\ Writing(taker[w]) /\ archives[a].of = 0
        /\ archives' = [archives EXCEPT ![a] = arc]
        /\ UNCHANGED <<up, dir, asides, taker, restore, created, removed>>
    BY DEF Copy, Writing
  <1>2. /\ archives \in Seq(ArchiveRecord) /\ ArchivesOK(archives) /\ a \in DOMAIN archives
        /\ DOMAIN taker = Everyone /\ \A v \in Everyone : TakerRecord(taker[v])
        /\ dir[1].id \in Nat /\ dir[1].version \in Nat
    BY <1>1, Running DEF WriterOK
  <1>3. arc \in ArchiveRecord /\ ~arc.whole
    BY <1>2 DEF ArchiveRecord
  <1> HIDE DEF arc
  <1>4. /\ archives' \in Seq(ArchiveRecord) /\ DOMAIN archives' = DOMAIN archives
        /\ archives'[a] = arc /\ \A b \in DOMAIN archives \ {a} : archives'[b] = archives[b]
    BY <1>1, <1>2, <1>3
  <1>5. ~archives[a].whole
    BY <1>1, <1>2 DEF ArchivesOK
  <1>6. ArchivesOK(archives') /\ Grows(archives, archives')
    BY <1>2, <1>3, <1>4, <1>5 DEF ArchivesOK, Grows
  <1> QED
    BY <1>1, <1>2, <1>6, SameDirectory

LEMMA FinishOK ==
  ASSUME BackupInv, NEW w \in Everyone, Finish(w)
  PROVE  BackupInv'
  <1> DEFINE a == taker[w].archive
             arc == [archives[a] EXCEPT !.whole = TRUE]
             q == [taker[w] EXCEPT !.pc = "rename"]
  <1>1. /\ up /\ Writing(taker[w]) /\ archives[a].of # 0
        /\ archives' = [archives EXCEPT ![a] = arc] /\ taker' = [taker EXCEPT ![w] = q]
        /\ UNCHANGED <<up, dir, asides, restore, created, removed>>
    BY DEF Finish, Writing
  <1>2. /\ archives \in Seq(ArchiveRecord) /\ ArchivesOK(archives) /\ a \in DOMAIN archives
        /\ DOMAIN taker = Everyone /\ \A v \in Everyone : TakerRecord(taker[v])
    BY <1>1, Running DEF WriterOK
  <1>3. archives[a] \in ArchiveRecord
    BY <1>2
  <1>4. arc \in ArchiveRecord /\ arc.whole /\ arc.of # 0
    BY <1>1, <1>3 DEF ArchiveRecord
  <1>5. TakerRecord(q) /\ q.pc = "rename" /\ q.name = taker[w].name /\ q.archive = a
    BY <1>2 DEF TakerRecord
  <1> HIDE DEF arc, q
  <1>6. /\ archives' \in Seq(ArchiveRecord) /\ DOMAIN archives' = DOMAIN archives
        /\ archives'[a] = arc /\ \A b \in DOMAIN archives \ {a} : archives'[b] = archives[b]
    BY <1>1, <1>2, <1>4
  <1>7. ArchivesOK(archives') /\ Grows(archives, archives')
    BY <1>2, <1>4, <1>6 DEF ArchivesOK, Grows
  <1>8. taker'[w] = q /\ DOMAIN taker' = Everyone /\ \A v \in Everyone \ {w} : taker'[v] = taker[v]
    BY <1>1, <1>2
  <1>9. \A v \in Everyone : TakerRecord(taker'[v])
    BY <1>2, <1>5, <1>8
  <1>10. ASSUME NEW v \in Everyone, Writing(taker'[v])
         PROVE  /\ Writing(taker[v]) /\ taker'[v].name = taker[v].name /\ taker'[v].archive = taker[v].archive
                /\ taker'[v].pc = "rename" => taker[v].pc = "rename" \/ archives'[taker[v].archive].whole
    BY <1>1, <1>4, <1>5, <1>6, <1>8, <1>10
  <1> QED
    BY <1>1, <1>7, <1>8, <1>9, <1>10, SameDirectory

\* A file's name is removed, whoever may be writing it.
LEMMA RemoveOK ==
  ASSUME BackupInv, up, NEW f, NEW others, Remove(f, others),
         UNCHANGED <<up, asides, archives, restore, created>>,
         DOMAIN taker' = Everyone, \A w \in Everyone : TakerRecord(taker'[w]),
         \A w \in Everyone : Writing(taker'[w]) =>
             taker'[w] = taker[w] /\ (Partial(taker[w].name) = f => w \in others)
  PROVE  BackupInv'
  <1> DEFINE fs == Restrict(files, DOMAIN files \ {f})
  <1>1. /\ ArchivesOK(archives) /\ FilesOK(files, archives, removed)
        /\ \A w \in Everyone : WriterOK(taker[w], files, archives, removed)
        /\ Apart(taker, removed)
    BY Running
  <1>2. Now(fs) /\ removed' = IF f \in DOMAIN files /\ others # {} THEN removed \cup {f[1]} ELSE removed
    BY DEF Remove
  <1>3. DOMAIN fs = DOMAIN files \ {f} /\ \A g \in DOMAIN fs : fs[g] = files[g]
    BY DEF Restrict
  <1>4. removed \subseteq removed' /\ Grows(archives, archives')
    BY <1>2, GrowsSame
  <1> HIDE DEF fs
  <1>5. FilesOK(fs, archives', removed')
    BY <1>1, <1>3, <1>4 DEF FilesOK
  <1>6. ASSUME NEW w \in Everyone PROVE WriterOK(taker'[w], fs, archives', removed')
    <2> SUFFICES ASSUME Writing(taker'[w]) PROVE WriterOK(taker'[w], fs, archives', removed')
      BY DEF WriterOK
    <2>1. taker'[w] = taker[w] /\ WriterOK(taker[w], files, archives, removed)
      BY <1>1
    <2>2. CASE Partial(taker[w].name) = f
      <3>1. w \in others /\ f[1] = taker[w].name
        BY <2>2, FileNames
      <3>2. taker[w].name \in removed'
        BY <1>2, <1>4, <2>1, <2>2, <3>1 DEF WriterOK
      <3> QED
        BY <2>1, <3>2 DEF WriterOK
    <2>3. CASE Partial(taker[w].name) # f
      BY <1>3, <1>4, <2>1, <2>3 DEF WriterOK
    <2> QED
      BY <2>2, <2>3
  <1>7. Apart(taker', removed')
    BY <1>1, <1>4 DEF Apart
  <1>8. PICK d : /\ dir' = <<d>> /\ DOMAIN d = {"id", "version", "files"} /\ d.id = dir[1].id
                 /\ d.version \in Nat /\ d.files = fs
    BY <1>2, NowOK
  <1>9. ArchivesOK(archives')
    BY <1>1
  <1> QED
    BY <1>4, <1>5, <1>6, <1>7, <1>8, <1>9, RunningStep

LEMMA CreateFailsOK ==
  ASSUME BackupInv, NEW w \in Everyone, CreateFails(w)
  PROVE  BackupInv'
  <1> DEFINE f == Partial(taker[w].name)
  <1>1. /\ up /\ Remove(f, Writers(f) \ {w}) /\ taker' = [taker EXCEPT ![w] = Idle]
        /\ UNCHANGED <<up, asides, archives, restore, created>>
    BY DEF CreateFails
  <1>2. DOMAIN taker = Everyone /\ \A v \in Everyone : TakerRecord(taker[v])
    BY <1>1, Running
  <1>3. taker'[w] = Idle /\ DOMAIN taker' = Everyone /\ \A v \in Everyone \ {w} : taker'[v] = taker[v]
    BY <1>1, <1>2
  <1>4. \A v \in Everyone : TakerRecord(taker'[v])
    BY <1>2, <1>3, IdleOK
  <1> HIDE DEF f
  <1>5. ASSUME NEW v \in Everyone, Writing(taker'[v])
        PROVE  taker'[v] = taker[v] /\ (Partial(taker[v].name) = f => v \in Writers(f) \ {w})
    BY <1>3, <1>5, IdleOK DEF Writers, Writing
  <1> QED
    BY <1>1, <1>3, <1>4, <1>5, RemoveOK

LEMMA RenameOK ==
  ASSUME BackupInv, NEW w \in Everyone, Rename(w)
  PROVE  BackupInv'
  <1> DEFINE p == Partial(taker[w].name)
             n == Named(taker[w].name)
             fs == Renamed(p)
  <1>1. /\ up /\ taker[w].pc = "rename" /\ Writing(taker[w])
        /\ UNCHANGED <<up, asides, archives, restore, created, removed>>
        /\ taker' = [taker EXCEPT ![w] = IF p \in DOMAIN files /\ w = "run" THEN [Idle EXCEPT !.pc = "list"] ELSE Idle]
    BY DEF Rename, Writing
  <1>2. /\ DOMAIN taker = Everyone /\ \A v \in Everyone : TakerRecord(taker[v])
        /\ ArchivesOK(archives) /\ FilesOK(files, archives, removed)
        /\ \A v \in Everyone : WriterOK(taker[v], files, archives, removed)
        /\ Apart(taker, removed)
    BY <1>1, Running
  <1>3. /\ DOMAIN taker' = Everyone /\ TakerRecord(taker'[w]) /\ ~Writing(taker'[w])
        /\ \A v \in Everyone \ {w} : taker'[v] = taker[v]
    <2>1. TakerRecord([Idle EXCEPT !.pc = "list"]) /\ ~Writing([Idle EXCEPT !.pc = "list"])
      BY IdleOK DEF TakerRecord, Writing
    <2>2. taker'[w] = [Idle EXCEPT !.pc = "list"] \/ taker'[w] = Idle
      BY <1>1, <1>2
    <2> QED
      BY <1>1, <1>2, <2>1, <2>2, IdleOK
  <1>4. \A v \in Everyone : TakerRecord(taker'[v])
    BY <1>2, <1>3
  <1>5. Grows(archives, archives') /\ ArchivesOK(archives')
    BY <1>1, <1>2, GrowsSame
  <1>6. CASE p \notin DOMAIN files
    <2>1. dir' = dir
      BY <1>6 DEF Rename
    <2>2. \A v \in Everyone : Writing(taker'[v]) =>
             /\ Writing(taker[v]) /\ taker'[v].name = taker[v].name /\ taker'[v].archive = taker[v].archive
             /\ taker'[v].pc = "rename" => taker[v].pc = "rename" \/ archives'[taker[v].archive].whole
      BY <1>3
    <2> QED
      BY <1>1, <1>3, <1>4, <1>5, <2>1, <2>2, SameDirectory
  <1>7. CASE p \in DOMAIN files
    <2>1. Now(fs)
      BY <1>7 DEF Rename
    <2>2. p[1] = taker[w].name /\ p # n /\ n[1] = taker[w].name /\ n[2] = "archive"
      BY FileNames
    <2>3. /\ DOMAIN fs = (DOMAIN files \ {p}) \cup {n} /\ fs[n] = files[p]
          /\ \A f \in DOMAIN files \ {p, n} : fs[f] = files[f]
      BY <2>2 DEF Renamed, Entered, Restrict
    <2>4. archives[files[p]].whole \/ taker[w].name \in removed
      BY <1>1, <1>2 DEF WriterOK
    <2> HIDE DEF fs
    <2>5. FilesOK(fs, archives', removed')
      <3> SUFFICES ASSUME NEW f \in DOMAIN fs
                   PROVE  /\ fs[f] \in DOMAIN archives
                          /\ f[2] = "archive" => archives[fs[f]].whole \/ f[1] \in removed
        BY <1>1 DEF FilesOK
      <3>1. CASE f = n
        BY <1>2, <1>7, <2>2, <2>3, <2>4, <3>1 DEF FilesOK
      <3>2. CASE f # n
        BY <1>2, <2>3, <3>2 DEF FilesOK
      <3> QED
        BY <3>1, <3>2
    <2>6. ASSUME NEW v \in Everyone PROVE WriterOK(taker'[v], fs, archives', removed')
      <3> SUFFICES ASSUME Writing(taker'[v]) PROVE WriterOK(taker'[v], fs, archives', removed')
        BY DEF WriterOK
      <3>1. v # w /\ taker'[v] = taker[v] /\ WriterOK(taker[v], files, archives, removed)
        BY <1>2, <1>3
      <3>2. CASE taker[v].name = taker[w].name
        <4>1. taker[v].name \in removed'
          BY <1>1, <1>2, <3>1, <3>2 DEF Apart
        <4> QED
          BY <1>1, <3>1, <4>1 DEF WriterOK
      <3>3. CASE taker[v].name # taker[w].name
        <4>1. Partial(taker[v].name) # p /\ Partial(taker[v].name) # n
          BY <3>3, FileNames
        <4> QED
          BY <1>1, <2>3, <3>1, <4>1 DEF WriterOK
      <3> QED
        BY <3>2, <3>3
    <2>7. Apart(taker', removed')
      BY <1>1, <1>2, <1>3 DEF Apart
    <2>8. PICK d : /\ dir' = <<d>> /\ DOMAIN d = {"id", "version", "files"} /\ d.id = dir[1].id
                   /\ d.version \in Nat /\ d.files = fs
      BY <1>1, <2>1, NowOK
    <2>9. removed \subseteq removed'
      BY <1>1
    <2> QED
      BY <1>1, <1>3, <1>4, <1>5, <2>5, <2>6, <2>7, <2>8, <2>9, RunningStep
  <1> QED
    BY <1>6, <1>7

LEMMA PruneOK ==
  ASSUME BackupInv, PruneList \/ PruneEnd \/ \E f \in taker["run"].listed : PruneRemove(f)
  PROVE  BackupInv'
  <1>1. up /\ "run" \in Everyone /\ UNCHANGED <<up, asides, archives, restore, created>>
    BY DEF PruneList, PruneEnd, PruneRemove, Everyone
  <1>2. DOMAIN taker = Everyone /\ \A v \in Everyone : TakerRecord(taker[v])
    BY <1>1, Running
  <1>3. Grows(archives, archives') /\ ArchivesOK(archives')
    BY <1>1, Running, GrowsSame
  <1>4. CASE PruneList \/ PruneEnd
    <2>1. PICK q : taker' = [taker EXCEPT !["run"] = q] /\ TakerRecord(q) /\ ~Writing(q)
      <3>1. CASE PruneList
        <4>1. PICK l : taker' = [taker EXCEPT !["run"] = [Idle EXCEPT !.pc = "prune", !.listed = l]]
          BY <3>1 DEF PruneList
        <4> DEFINE q == [Idle EXCEPT !.pc = "prune", !.listed = l]
        <4>2. TakerRecord(q) /\ ~Writing(q)
          BY IdleOK DEF TakerRecord, Writing
        <4> QED
          BY <4>1, <4>2
      <3>2. CASE PruneEnd
        BY <3>2, IdleOK DEF PruneEnd
      <3> QED
        BY <1>4, <3>1, <3>2
    <2>2. /\ DOMAIN taker' = Everyone /\ taker'["run"] = q
          /\ \A v \in Everyone \ {"run"} : taker'[v] = taker[v]
      BY <1>1, <1>2, <2>1
    <2>3. \A v \in Everyone : TakerRecord(taker'[v])
      BY <1>2, <2>1, <2>2
    <2>4. \A v \in Everyone : Writing(taker'[v]) =>
             /\ Writing(taker[v]) /\ taker'[v].name = taker[v].name /\ taker'[v].archive = taker[v].archive
             /\ taker'[v].pc = "rename" => taker[v].pc = "rename" \/ archives'[taker[v].archive].whole
      BY <2>1, <2>2
    <2>5. UNCHANGED <<dir, removed>>
      BY <1>4 DEF PruneList, PruneEnd
    <2> QED
      BY <1>1, <1>3, <2>2, <2>3, <2>4, <2>5, SameDirectory
  <1>5. ASSUME NEW f, PruneRemove(f) PROVE BackupInv'
    <2> DEFINE l == IF f[2] = "archive" /\ f \notin DOMAIN files THEN {} ELSE taker["run"].listed \ {f}
               q == [taker["run"] EXCEPT !.listed = l]
    <2>1. /\ taker["run"].pc = "prune" /\ Remove(f, Writers(f))
          /\ taker' = [taker EXCEPT !["run"] = q]
      BY <1>5 DEF PruneRemove
    <2> HIDE DEF l
    <2>2. TakerRecord(q) /\ ~Writing(q)
      BY <1>1, <1>2, <2>1 DEF TakerRecord, Writing
    <2> HIDE DEF q
    <2>3. /\ DOMAIN taker' = Everyone /\ taker'["run"] = q
          /\ \A v \in Everyone \ {"run"} : taker'[v] = taker[v]
      BY <1>1, <1>2, <2>1
    <2>4. \A v \in Everyone : TakerRecord(taker'[v])
      BY <1>2, <2>2, <2>3
    <2>5. ASSUME NEW v \in Everyone, Writing(taker'[v])
          PROVE  taker'[v] = taker[v] /\ (Partial(taker[v].name) = f => v \in Writers(f))
      BY <2>2, <2>3, <2>5 DEF Writers, Writing
    <2> QED
      BY <1>1, <2>1, <2>3, <2>4, <2>5, RemoveOK
  <1> QED
    BY <1>4, <1>5

LEMMA DeleteFileOK ==
  ASSUME BackupInv, NEW f, DeleteFile(f)
  PROVE  BackupInv'
  <1>1. up /\ Remove(f, Writers(f)) /\ UNCHANGED <<up, asides, archives, restore, created, taker>>
    BY DEF DeleteFile
  <1>2. DOMAIN taker' = Everyone /\ \A v \in Everyone : TakerRecord(taker'[v])
    BY <1>1, Running
  <1>3. ASSUME NEW v \in Everyone, Writing(taker'[v])
        PROVE  taker'[v] = taker[v] /\ (Partial(taker[v].name) = f => v \in Writers(f))
    BY <1>1, <1>3 DEF Writers, Writing
  <1> QED
    BY <1>1, <1>2, <1>3, RemoveOK

\* The database moves on.
LEMMA Changed ==
  ASSUME BackupInv, Change
  PROVE  \E d : /\ dir' = <<d>> /\ DOMAIN d = {"id", "version", "files"} /\ d.id = dir[1].id
                /\ d.version = dir[1].version + 1 /\ d.version \in Nat /\ d.files = files
  <1> DEFINE d == [dir[1] EXCEPT !.version = dir[1].version + 1]
  <1>1. /\ up /\ DOMAIN dir[1] = {"id", "version", "files"} /\ dir[1].version \in Nat
    BY Running DEF Change
  <1>2. dir' = <<d>>
    BY <1>1 DEF Change
  <1>3. /\ DOMAIN d = {"id", "version", "files"} /\ d.id = dir[1].id /\ d.version = dir[1].version + 1
        /\ d.files = dir[1].files
    BY <1>1
  <1> HIDE DEF d
  <1> QED
    BY <1>1, <1>2, <1>3 DEF files

LEMMA ChangeOK ==
  ASSUME BackupInv, Change
  PROVE  BackupInv'
  <1>1. up /\ UNCHANGED <<up, asides, archives, taker, restore, created, removed>>
    BY DEF Change
  <1>2. PICK d : /\ dir' = <<d>> /\ DOMAIN d = {"id", "version", "files"} /\ d.id = dir[1].id
                 /\ d.version \in Nat /\ d.files = files
    BY Changed
  <1>3. /\ DOMAIN taker' = Everyone /\ \A v \in Everyone : TakerRecord(taker'[v])
        /\ \A v \in Everyone : WriterOK(taker'[v], d.files, archives', removed')
        /\ Apart(taker', removed') /\ FilesOK(d.files, archives', removed')
        /\ ArchivesOK(archives') /\ Grows(archives, archives') /\ removed \subseteq removed'
    BY <1>1, <1>2, Running, GrowsSame
  <1> QED
    BY <1>1, <1>2, <1>3, RunningStep

-----------------------------------------------------------------------------
\* While the proxy is stopped nobody writes.
LEMMA StoppedStep ==
  ASSUME BackupInv, up' \in BOOLEAN, created' \in Nat, UNCHANGED <<archives, removed>>,
         DirsOK(dir', asides', archives, removed), PlacesOK(dir', asides', created'),
         DOMAIN taker' = Everyone, \A w \in Everyone : TakerRecord(taker'[w]) /\ ~Writing(taker'[w]),
         up' => dir' # <<>> /\ restore'.pc = "idle",
         DOMAIN restore' = {"pc", "from"}, restore'.pc \in {"idle", "aside", "place"},
         restore'.pc = "aside" => dir' # <<>> /\ restore'.from \in DOMAIN archives,
         restore'.pc = "place" => dir' = <<>> /\ restore'.from \in DOMAIN archives
  PROVE  BackupInv'
  <1>1. \A w \in Everyone : WriterOK(taker'[w], files', archives', removed')
    BY DEF WriterOK
  <1>2. Apart(taker', removed')
    BY DEF Apart
  <1>3. ArchivesOK(archives') /\ DirsOK(dir', asides', archives', removed')
    BY DEF BackupInv
  <1>4. /\ restore'.pc = "place" => restore'.from \in DOMAIN archives'
        /\ restore'.pc = "aside" => restore'.from \in DOMAIN archives'
    OBVIOUS
  <1> QED
    BY <1>1, <1>2, <1>3, <1>4 DEF BackupInv

LEMMA Stopped ==
  ASSUME BackupInv
  PROVE  /\ DirsOK(dir, asides, archives, removed) /\ PlacesOK(dir, asides, created) /\ created \in Nat
         /\ DOMAIN taker = Everyone /\ \A w \in Everyone : TakerRecord(taker[w])
         /\ ~up => \A w \in Everyone : ~Writing(taker[w])
         /\ DOMAIN restore = {"pc", "from"} /\ restore.pc \in {"idle", "aside", "place"}
         /\ restore.pc # "idle" => ~up
         /\ restore.pc = "aside" => dir # <<>> /\ restore.from \in DOMAIN archives
         /\ restore.pc = "place" => dir = <<>> /\ restore.from \in DOMAIN archives
         /\ up \in BOOLEAN /\ archives \in Seq(ArchiveRecord)
  BY DEF BackupInv, ArchivesOK

LEMMA NoRestoreOK == NoRestore.pc = "idle" /\ DOMAIN NoRestore = {"pc", "from"}
  BY DEF NoRestore

\* A directory made where there was none.
LEMMA MadeOK ==
  ASSUME BackupInv, dir = <<>>, NEW v \in Nat
  PROVE  /\ DirsOK(<<Directory(created + 1, v)>>, asides, archives, removed)
         /\ PlacesOK(<<Directory(created + 1, v)>>, asides, created + 1)
         /\ <<Directory(created + 1, v)>> # <<>>
  <1> DEFINE d == Directory(created + 1, v)
  <1>1. /\ d.id = created + 1 /\ d.version = v /\ DOMAIN d.files = {} /\ DOMAIN d = {"id", "version", "files"}
    BY DEF Directory
  <1>2. created \in Nat /\ DirsOK(dir, asides, archives, removed) /\ PlacesOK(dir, asides, created)
    BY Stopped
  <1> HIDE DEF d
  <1>3. <<d>> # <<>> /\ <<d>>[1] = d
    BY OneDirectory
  <1>4. DirOK(d, archives, removed)
    BY <1>1, <1>2 DEF DirOK, FilesOK
  <1>5. DirsOK(<<d>>, asides, archives, removed)
    BY <1>2, <1>3, <1>4 DEF DirsOK
  <1>6. PlacesOK(<<d>>, asides, created + 1)
    <2> DEFINE e == <<d>>
    <2>1. e # <<>> /\ e[1].id = created + 1
      BY <1>1, <1>3
    <2> HIDE DEF e
    <2>2. /\ \A s \in DOMAIN asides : asides[s].id \in 1 .. created
          /\ \A s, t \in DOMAIN asides : asides[s].id = asides[t].id => s = t
          /\ \A i \in 1 .. created : \E s \in DOMAIN asides : asides[s].id = i
      BY <1>2 DEF PlacesOK
    <2>3. \A i \in 1 .. created : i \in 1 .. (created + 1) /\ i # created + 1
      BY <1>2
    <2>4. created + 1 \in 1 .. (created + 1)
      BY <1>2
    <2>5. \A i \in 1 .. (created + 1) : i = created + 1 \/ i \in 1 .. created
      BY <1>2
    <2>6. PlacesOK(e, asides, created + 1)
      BY <2>1, <2>2, <2>3, <2>4, <2>5 DEF PlacesOK
    <2> QED
      BY <2>6 DEF e
  <1> QED
    BY <1>3, <1>5, <1>6 DEF d

LEMMA DieOK ==
  ASSUME BackupInv, Die
  PROVE  BackupInv'
  <1>1. /\ up /\ up' = FALSE /\ taker' = [w \in Everyone |-> Idle]
        /\ UNCHANGED <<dir, asides, archives, restore, created, removed>>
    BY DEF Die
  <1>2. DOMAIN taker' = Everyone /\ \A w \in Everyone : TakerRecord(taker'[w]) /\ ~Writing(taker'[w])
    BY <1>1, IdleOK
  <1>3. up' \in BOOLEAN /\ ~up'
    BY <1>1
  <1> QED
    BY <1>1, <1>2, <1>3, Stopped, StoppedStep

LEMMA StartOK ==
  ASSUME BackupInv, Start
  PROVE  BackupInv'
  <1>1. /\ ~up /\ restore.pc = "idle" /\ UNCHANGED <<archives, taker, asides, restore, removed>>
        /\ up' = TRUE
    BY DEF Start
  <1>2. /\ DOMAIN taker' = Everyone /\ \A w \in Everyone : TakerRecord(taker'[w]) /\ ~Writing(taker'[w])
    BY <1>1, Stopped
  <1>3. DirsOK(dir', asides', archives, removed) /\ PlacesOK(dir', asides', created') /\ dir' # <<>> /\ created' \in Nat
    <2>1. CASE dir # <<>>
      <3>1. UNCHANGED <<dir, created, asides>>
        BY <1>1, <2>1 DEF Start
      <3> QED
        BY <2>1, <3>1, Stopped
    <2>2. CASE dir = <<>>
      <3>1. dir' = <<Directory(created + 1, 0)>> /\ created' = created + 1
        BY <2>2 DEF Start
      <3>2. /\ DirsOK(<<Directory(created + 1, 0)>>, asides, archives, removed)
            /\ PlacesOK(<<Directory(created + 1, 0)>>, asides, created + 1)
            /\ <<Directory(created + 1, 0)>> # <<>>
        BY <2>2, MadeOK
      <3> QED
        BY <1>1, <3>1, <3>2, Stopped
    <2> QED
      BY <2>1, <2>2
  <1>4. up' \in BOOLEAN
    BY <1>1
  <1> QED
    BY <1>1, <1>2, <1>3, <1>4, Stopped, StoppedStep

LEMMA ExtractOK ==
  ASSUME BackupInv, NEW a \in DOMAIN archives, RestoreExtract(a)
  PROVE  BackupInv'
  <1> DEFINE r == [pc |-> IF dir = <<>> THEN "place" ELSE "aside", from |-> a]
  <1>1. /\ ~up /\ UNCHANGED <<up, dir, asides, archives, taker, created, removed>>
        /\ restore' = NoRestore \/ restore' = r
    BY DEF RestoreExtract
  <1>2. /\ r.pc \in {"place", "aside"} /\ r.from = a /\ DOMAIN r = {"pc", "from"}
        /\ r.pc = "aside" => dir # <<>>
        /\ r.pc = "place" => dir = <<>>
    OBVIOUS
  <1> HIDE DEF r
  <1>3. /\ DOMAIN restore' = {"pc", "from"} /\ restore'.pc \in {"idle", "aside", "place"}
        /\ restore'.pc = "aside" => dir' # <<>> /\ restore'.from \in DOMAIN archives
        /\ restore'.pc = "place" => dir' = <<>> /\ restore'.from \in DOMAIN archives
    BY <1>1, <1>2, NoRestoreOK
  <1> QED
    BY <1>1, <1>3, Stopped, StoppedStep

LEMMA AsideOK ==
  ASSUME BackupInv, RestoreAside
  PROVE  BackupInv'
  <1>1. /\ restore.pc = "aside" /\ ~up /\ UNCHANGED <<up, archives, taker, created, removed>>
        /\ dir # <<>>
    BY Stopped DEF RestoreAside
  <1>2. CASE second \in DOMAIN asides
    <2>1. restore' = NoRestore /\ UNCHANGED <<dir, asides>>
      BY <1>2 DEF RestoreAside
    <2> QED
      BY <1>1, <2>1, Stopped, StoppedStep, NoRestoreOK
  <1>3. CASE second \notin DOMAIN asides
    <2> DEFINE r == [restore EXCEPT !.pc = "place"]
    <2>1. asides' = Entered(asides, second, dir[1]) /\ dir' = <<>> /\ restore' = r
      BY <1>3 DEF RestoreAside
    <2>2. DOMAIN r = {"pc", "from"} /\ r.pc = "place" /\ r.from = restore.from
      BY Stopped
    <2> HIDE DEF r
    <2>3. /\ DOMAIN asides' = DOMAIN asides \cup {second} /\ asides'[second] = dir[1]
          /\ \A s \in DOMAIN asides : asides'[s] = asides[s]
      BY <1>3, <2>1 DEF Entered
    <2>4. DirsOK(dir', asides', archives, removed)
      BY <1>1, <2>1, <2>3, Stopped DEF DirsOK
    <2>5. PlacesOK(dir', asides', created')
      <3>1. /\ dir[1].id \in 1 .. created /\ \A s \in DOMAIN asides : asides[s].id # dir[1].id
            /\ \A s \in DOMAIN asides : asides[s].id \in 1 .. created
            /\ \A s, t \in DOMAIN asides : asides[s].id = asides[t].id => s = t
            /\ \A i \in 1 .. created : dir[1].id = i \/ \E s \in DOMAIN asides : asides[s].id = i
        BY <1>1, Stopped DEF PlacesOK
      <3>2. \A i \in 1 .. created : \E s \in DOMAIN asides' : asides'[s].id = i
        BY <2>3, <3>1
      <3>3. \A s, t \in DOMAIN asides' : asides'[s].id = asides'[t].id => s = t
        BY <2>3, <3>1
      <3> QED
        BY <1>1, <2>1, <2>3, <3>1, <3>2, <3>3 DEF PlacesOK
    <2>6. restore'.pc = "place" /\ restore'.from \in DOMAIN archives /\ DOMAIN restore' = {"pc", "from"}
      BY <1>1, <2>1, <2>2, Stopped
    <2> QED
      BY <1>1, <2>1, <2>4, <2>5, <2>6, Stopped, StoppedStep
  <1> QED
    BY <1>2, <1>3

LEMMA PlaceOK ==
  ASSUME BackupInv, RestorePlace
  PROVE  BackupInv'
  <1> DEFINE v == archives[restore.from].version
  <1>1. /\ restore.pc = "place" /\ ~up /\ dir = <<>> /\ restore.from \in DOMAIN archives
        /\ UNCHANGED <<up, asides, archives, taker, removed>>
        /\ dir' = <<Directory(created + 1, v)>> /\ created' = created + 1 /\ restore' = NoRestore
    BY Stopped DEF RestorePlace
  <1>a. archives[restore.from] \in ArchiveRecord
    <2>1. archives \in Seq(ArchiveRecord) /\ restore.from \in DOMAIN archives
      BY <1>1, Stopped DEF ArchivesOK
    <2> QED
      BY <2>1
  <1>2. v \in Nat
    BY <1>a DEF ArchiveRecord
  <1> HIDE DEF v
  <1>3. /\ DirsOK(<<Directory(created + 1, v)>>, asides, archives, removed)
        /\ PlacesOK(<<Directory(created + 1, v)>>, asides, created + 1)
    BY <1>1, <1>2, MadeOK
  <1>4. DirsOK(dir', asides', archives, removed) /\ PlacesOK(dir', asides', created') /\ created' \in Nat
    BY <1>1, <1>3, Stopped
  <1> QED
    BY <1>1, <1>4, Stopped, StoppedStep, NoRestoreOK

LEMMA GiveUpOK ==
  ASSUME BackupInv, RestoreFails
  PROVE  BackupInv'
  <1>1. /\ restore.pc # "idle" /\ restore' = NoRestore
        /\ UNCHANGED <<up, dir, asides, archives, taker, created, removed>>
    BY DEF RestoreFails
  <1> QED
    BY <1>1, Stopped, StoppedStep, NoRestoreOK

-----------------------------------------------------------------------------
LEMMA BackupInvInit == BackupInit => BackupInv
  <1> SUFFICES ASSUME BackupInit PROVE BackupInv
    OBVIOUS
  <1> DEFINE d == Directory(1, 0)
  <1>1. /\ up = TRUE /\ dir = <<d>> /\ DOMAIN asides = {} /\ archives = <<>>
        /\ taker = [w \in Everyone |-> Idle] /\ restore = NoRestore /\ created = 1
    BY DEF BackupInit
  <1>2. d.id = 1 /\ d.version = 0 /\ DOMAIN d.files = {} /\ DOMAIN d = {"id", "version", "files"}
    BY DEF Directory
  <1> HIDE DEF d
  <1>3. dir # <<>> /\ dir[1] = d
    BY <1>1, OneDirectory
  <1>4. ArchivesOK(archives)
    BY <1>1 DEF ArchivesOK
  <1>5. DirsOK(dir, asides, archives, removed)
    BY <1>1, <1>2, <1>3 DEF DirsOK, DirOK, FilesOK
  <1>6. PlacesOK(dir, asides, created)
    <2>1. \A i \in 1 .. created : i = 1
      BY <1>1
    <2>2. 1 \in 1 .. created
      BY <1>1
    <2> QED
      BY <1>1, <1>2, <1>3, <2>1, <2>2 DEF PlacesOK
  <1>7. \A w \in Everyone : TakerRecord(taker[w]) /\ ~Writing(taker[w])
    BY <1>1, IdleOK
  <1>8. Apart(taker, removed) /\ \A w \in Everyone : WriterOK(taker[w], files, archives, removed)
    BY <1>7 DEF Apart, WriterOK
  <1>9. up \in BOOLEAN /\ created \in Nat /\ DOMAIN taker = Everyone
    BY <1>1
  <1> QED
    BY <1>1, <1>3, <1>4, <1>5, <1>6, <1>7, <1>8, <1>9, NoRestoreOK DEF BackupInv

LEMMA BackupInvNext ==
  ASSUME BackupInv, [BackupNext]_backupVars
  PROVE  BackupInv'
  <1>1. CASE BackupTick \/ UNCHANGED backupVars
    <2>1. UNCHANGED <<up, dir, asides, archives, taker, restore, created, removed>>
      BY <1>1 DEF BackupTick, backupVars
    <2> QED
      BY <2>1 DEF BackupInv, files
  <1>2. ASSUME NEW w \in Everyone, Open(w) \/ Copy(w) \/ Finish(w) \/ CreateFails(w) \/ Rename(w)
        PROVE  BackupInv'
    BY <1>2, OpenOK, CopyOK, FinishOK, CreateFailsOK, RenameOK
  <1>3. CASE PruneList \/ PruneEnd \/ \E f \in taker["run"].listed : PruneRemove(f)
    BY <1>3, PruneOK
  <1>4. CASE Change \/ Die \/ Start
    BY <1>4, ChangeOK, DieOK, StartOK
  <1>5. ASSUME NEW f, DeleteFile(f) PROVE BackupInv'
    BY <1>5, DeleteFileOK
  <1>6. ASSUME NEW a \in DOMAIN archives, RestoreExtract(a) PROVE BackupInv'
    BY <1>6, ExtractOK
  <1>7. CASE RestoreAside \/ RestorePlace \/ RestoreFails
    BY <1>7, AsideOK, PlaceOK, GiveUpOK
  <1> QED
    BY <1>1, <1>2, <1>3, <1>4, <1>5, <1>6, <1>7 DEF BackupNext

LEMMA BackupInvariance == BackupSpec => []BackupInv
  <1>1. BackupInv /\ [BackupNext]_backupVars => BackupInv'
    BY BackupInvNext
  <1> QED
    BY <1>1, BackupInvInit, PTL DEF BackupSpec

LEMMA WhereDirectoriesAre ==
  ASSUME NEW d, NEW as, d = <<>> \/ d = <<d[1]>>
  PROVE  Range(d) \cup Range(as) = (IF d = <<>> THEN {} ELSE {d[1]}) \cup {as[s] : s \in DOMAIN as}
  <1>1. CASE d = <<>>
    BY <1>1 DEF Range
  <1>2. CASE d # <<>>
    <2>1. PICK x : d = <<x>> /\ x = d[1]
      BY <1>2
    <2>2. Range(<<x>>) = {x}
      BY DEF Range
    <2> QED
      BY <1>2, <2>1, <2>2 DEF Range
  <1> QED
    BY <1>1, <1>2

\* However many snapshots are written, pruned, deleted and cut off by a crash:
\* what bears an archive's name is whole, unless its partial file was removed
\* under the one who wrote it.
THEOREM BackupsAreWhole == BackupSpec => []ArchivesWhole
  <1>1. BackupInv => ArchivesWhole
    <2> SUFFICES ASSUME BackupInv, NEW d \in Directories, NEW f \in DOMAIN d.files, f[2] = "archive"
                 PROVE  archives[d.files[f]].whole \/ f[1] \in removed
      BY DEF ArchivesWhole
    <2>1. DirsOK(dir, asides, archives, removed) /\ (dir = <<>> \/ dir = <<dir[1]>>)
      BY DEF BackupInv, DirsOK
    <2>2. d \in (IF dir = <<>> THEN {} ELSE {dir[1]}) \cup {asides[s] : s \in DOMAIN asides}
      BY <2>1, WhereDirectoriesAre DEF Directories
    <2>3. DirOK(d, archives, removed)
      BY <2>1, <2>2 DEF DirsOK
    <2> QED
      BY <2>3 DEF DirOK, FilesOK
  <1> QED
    BY <1>1, BackupInvariance, PTL

-----------------------------------------------------------------------------
LEMMA DirectoriesAre ==
  ASSUME BackupInv
  PROVE  /\ dir = <<>> \/ dir = <<dir[1]>>
         /\ Directories = (IF dir = <<>> THEN {} ELSE {dir[1]}) \cup {asides[s] : s \in DOMAIN asides}
  BY WhereDirectoriesAre DEF BackupInv, DirsOK, Directories

\* A directory is in one place, and each one made is somewhere.
LEMMA OnePlace ==
  ASSUME BackupInv
  PROVE  /\ \A d, e \in Directories : d.id = e.id => d = e
         /\ \A n \in 1 .. created : \E d \in Directories : d.id = n
         /\ \A d \in Directories : d.id \in 1 .. created /\ d.version \in Nat
  <1>1. PlacesOK(dir, asides, created) /\ DirsOK(dir, asides, archives, removed)
    BY DEF BackupInv
  <1>2. \A d, e \in Directories : d.id = e.id => d = e
    BY <1>1, DirectoriesAre DEF PlacesOK
  <1>3. \A n \in 1 .. created : \E d \in Directories : d.id = n
    BY <1>1, DirectoriesAre DEF PlacesOK
  <1>4. \A d \in Directories : d.id \in 1 .. created
    BY <1>1, DirectoriesAre DEF PlacesOK
  <1>5. \A d \in Directories : d.version \in Nat
    BY <1>1, DirectoriesAre DEF DirsOK, DirOK
  <1> QED
    BY <1>2, <1>3, <1>4, <1>5

LEMMA EachIsThereOnce ==
  ASSUME BackupInv
  PROVE  \A n \in 1 .. created : Cardinality({d \in Directories : d.id = n}) = 1
  <1> SUFFICES ASSUME NEW n \in 1 .. created
               PROVE  Cardinality({d \in Directories : d.id = n}) = 1
    OBVIOUS
  <1>1. PICK x \in Directories : x.id = n
    BY OnePlace
  <1>2. {d \in Directories : d.id = n} = {x}
    BY <1>1, OnePlace
  <1> QED
    BY <1>2, FS_Singleton

\* What a step may leave: a directory as it was, a new one, or the one in place
\* with a later version.
LEMMA Successors ==
  ASSUME BackupInv, [BackupNext]_backupVars, NEW e \in Directories'
  PROVE  \/ e \in Directories
         \/ e.id = created + 1
         \/ dir # <<>> /\ e.id = dir[1].id /\ e.version \in Nat /\ dir[1].version <= e.version
  <1> DEFINE Place(d, as) == (IF d = <<>> THEN {} ELSE {d[1]}) \cup {as[s] : s \in DOMAIN as}
             Goal == \/ e \in Directories
                     \/ e.id = created + 1
                     \/ dir # <<>> /\ e.id = dir[1].id /\ e.version \in Nat /\ dir[1].version <= e.version
  <1>1. Directories = Place(dir, asides)
    BY DirectoriesAre
  <1>2. Directories' = Place(dir', asides')
    <2>1. BackupInv'
      BY BackupInvNext
    <2>2. dir' = <<>> \/ dir' = <<dir'[1]>>
      BY <2>1 DEF BackupInv, DirsOK
    <2>3. Range(dir') \cup Range(asides') = Place(dir', asides')
      BY <2>2, WhereDirectoriesAre
    <2> QED
      BY <2>3 DEF Directories
  <1>3. CASE UNCHANGED <<dir, asides>>
    BY <1>1, <1>2, <1>3
  <1>4. ASSUME up, UNCHANGED asides,
               NEW d, dir' = <<d>>, d.id = dir[1].id, d.version \in Nat, dir[1].version <= d.version
        PROVE  Goal
    <2>1. dir # <<>> /\ dir' # <<>> /\ dir'[1] = d
      BY <1>4, Running, OneDirectory
    <2>2. e = d \/ \E s \in DOMAIN asides : e = asides[s]
      BY <1>2, <1>4, <2>1
    <2> QED
      BY <1>1, <1>4, <2>1, <2>2
  <1>5. ASSUME up, UNCHANGED asides, NEW fs, Now(fs) PROVE Goal
    <2>1. PICK d : dir' = <<d>> /\ d.id = dir[1].id /\ d.version = dir[1].version /\ d.version \in Nat
      BY <1>5, NowOK
    <2>2. dir[1].version <= d.version
      BY <2>1
    <2> QED
      BY <1>4, <1>5, <2>1, <2>2
  <1>6. ASSUME NEW d, UNCHANGED asides, dir' = <<d>>, d.id = created + 1 PROVE Goal
    <2>1. dir' # <<>> /\ dir'[1] = d
      BY <1>6, OneDirectory
    <2> QED
      BY <1>1, <1>2, <1>6, <2>1
  <1>7. ASSUME NEW w \in Everyone, Open(w) \/ Copy(w) \/ Finish(w) \/ CreateFails(w) \/ Rename(w)
        PROVE  Goal
    <2>1. CASE Open(w)
      BY <1>5, <2>1 DEF Open
    <2>2. CASE Copy(w) \/ Finish(w)
      BY <1>3, <2>2 DEF Copy, Finish
    <2>3. CASE CreateFails(w)
      BY <1>5, <2>3 DEF CreateFails, Remove
    <2>4. CASE Rename(w)
      BY <1>3, <1>5, <2>4 DEF Rename
    <2> QED
      BY <1>7, <2>1, <2>2, <2>3, <2>4
  <1>8. ASSUME NEW f, PruneRemove(f) \/ DeleteFile(f) PROVE Goal
    BY <1>5, <1>8 DEF PruneRemove, DeleteFile, Remove
  <1>9. CASE Change
    <2>1. up /\ UNCHANGED asides
      BY <1>9 DEF Change
    <2>2. PICK d : dir' = <<d>> /\ d.id = dir[1].id /\ d.version = dir[1].version + 1 /\ d.version \in Nat
      BY <1>9, Changed
    <2>3. dir[1].version \in Nat
      BY <2>1, Running
    <2>4. dir[1].version <= d.version
      BY <2>2, <2>3
    <2> QED
      BY <1>4, <2>1, <2>2, <2>4
  <1>10. CASE Start
    <2>1. CASE dir # <<>>
      BY <1>3, <1>10, <2>1 DEF Start
    <2>2. CASE dir = <<>>
      <3>1. dir' = <<Directory(created + 1, 0)>> /\ UNCHANGED asides
        BY <1>10, <2>2 DEF Start
      <3>2. Directory(created + 1, 0).id = created + 1
        BY DEF Directory
      <3> QED
        BY <1>6, <3>1, <3>2
    <2> QED
      BY <2>1, <2>2
  <1>11. CASE RestorePlace
    <2> DEFINE d == Directory(created + 1, archives[restore.from].version)
    <2>1. dir' = <<d>> /\ UNCHANGED asides
      BY <1>11 DEF RestorePlace
    <2>2. d.id = created + 1
      BY DEF Directory
    <2> HIDE DEF d
    <2> QED
      BY <1>6, <2>1, <2>2
  <1>12. CASE RestoreAside
    <2>1. CASE second \in DOMAIN asides
      BY <1>3, <1>12, <2>1 DEF RestoreAside
    <2>2. CASE second \notin DOMAIN asides
      <3>1. asides' = Entered(asides, second, dir[1]) /\ dir' = <<>> /\ dir # <<>>
        BY <1>12, <2>2, Stopped DEF RestoreAside
      <3>2. /\ DOMAIN asides' = DOMAIN asides \cup {second} /\ asides'[second] = dir[1]
            /\ \A s \in DOMAIN asides : asides'[s] = asides[s]
        BY <2>2, <3>1 DEF Entered
      <3>3. PICK s \in DOMAIN asides' : e = asides'[s]
        BY <1>2, <3>1
      <3> QED
        BY <1>1, <3>1, <3>2, <3>3
    <2> QED
      BY <2>1, <2>2
  <1>13. CASE PruneList \/ PruneEnd \/ Die \/ BackupTick \/ RestoreFails \/ UNCHANGED backupVars
    BY <1>3, <1>13 DEF PruneList, PruneEnd, Die, BackupTick, RestoreFails, backupVars
  <1>14. ASSUME NEW a, RestoreExtract(a) PROVE Goal
    BY <1>3, <1>14 DEF RestoreExtract
  <1> QED
    BY <1>7, <1>8, <1>9, <1>10, <1>11, <1>12, <1>13, <1>14 DEF BackupNext

LEMMA VersionsMoveOn ==
  ASSUME BackupInv, [BackupNext]_backupVars
  PROVE  \A d \in Directories, e \in Directories' : d.id = e.id => d.version <= e.version
  <1> SUFFICES ASSUME NEW d \in Directories, NEW e \in Directories', d.id = e.id
               PROVE  d.version <= e.version
    OBVIOUS
  <1>1. created \in Nat /\ d.id \in 1 .. created /\ d.version \in Nat
    BY OnePlace, Stopped
  <1>2. CASE e \in Directories
    <2>1. d = e
      BY <1>2, OnePlace
    <2> QED
      BY <1>1, <2>1
  <1>3. CASE e.id = created + 1
    <2>1. FALSE
      BY <1>1, <1>3
    <2> QED
      BY <2>1
  <1>4. CASE dir # <<>> /\ e.id = dir[1].id /\ e.version \in Nat /\ dir[1].version <= e.version
    <2>1. dir[1] \in Directories
      BY <1>4, DirectoriesAre
    <2>2. d = dir[1]
      BY <1>4, <2>1, OnePlace
    <2> QED
      BY <1>4, <2>2
  <1> QED
    BY <1>2, <1>3, <1>4, Successors

\* However many restores fail or die half way: each data directory there has been
\* is on disk exactly once, and no step takes its database back.
THEOREM RestoreLosesNothing == BackupSpec => DataSurvives
  <1>1. BackupInv => \A n \in 1 .. created : Cardinality({d \in Directories : d.id = n}) = 1
    BY EachIsThereOnce
  <1>2. BackupInv /\ [BackupNext]_backupVars
          => [\A d \in Directories, e \in Directories' : d.id = e.id => d.version <= e.version]_backupVars
    BY VersionsMoveOn
  <1> QED
    BY <1>1, <1>2, BackupInvariance, PTL DEF BackupSpec, DataSurvives
=============================================================================
