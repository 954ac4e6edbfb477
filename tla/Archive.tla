------------------------------ MODULE Archive ------------------------------
(***************************************************************************)
(* Which paths of a machine createArchive puts into an archive, and with   *)
(* what content, while the machine goes on writing: the roots a user       *)
(* configured and those that were discovered are normalised, each is       *)
(* walked, and a regular file is copied from a descriptor that stays open  *)
(* when the file is renamed, removed, cut or written to.                   *)
(*                                                                         *)
(* A path is the sequence of its parts, <<>> is /.  A walk visits a        *)
(* directory before what is in it and siblings in any order; filepath.Walk *)
(* takes them by name.                                                     *)
(***************************************************************************)
EXTENDS Naturals, Sequences, SequencesExt

CONSTANTS
    Path,           \* paths that are looked at, with their parents
    Mode,           \* modes of directories
    DiskTrees,      \* what the machine may hold at first
    RootSets,       \* sets of configured and discovered roots
    Excluded,       \* excludedPrefixes
    DockerRoot,     \* /var/lib/docker
    Volumes,        \* /var/lib/docker/volumes
    Size,           \* the length of each body a file may have
    MaxEvents       \* bounds writes to the machine and failed reads, together

VARIABLES
    disk,       \* the machine: a node per path
    wrote,      \* history: paths written to since the backup began
    inPlace,    \* history: those whose file was written without a new one
    events,     \* writes and failed reads so far
    configured, \* the roots as given
    pc,         \* what the agent is doing with the archive
    todo,       \* paths the walks will visit
    reading,    \* the open file: its path, what fstat saw, what it holds now
    warned,     \* paths named by a warning of the manifest
    entry,      \* the archive: a node per path
    twice       \* paths with more than one entry

Body      == DOMAIN Size
Damaged   == {"padded", "torn"}
Nothing   == <<"none">>
Socket    == <<"socket">>
Dir(mode) == <<"dir", mode>>
File(b)   == <<"file", b>>
Link(p)   == <<"link", p>>
Kind(n)   == n[1]
Node      == {Nothing, Socket} \cup {Dir(mode) : mode \in Mode}
             \cup {File(b) : b \in Body \cup Damaged \cup {"empty"}}
             \cup {Link(p) : p \in Path}

NoFile == [path |-> <<>>, opened |-> "none", holds |-> "none", named |-> FALSE]

\* A path and what is below it.
Subtree == [p \in Path |-> {q \in Path : IsPrefix(p, q)}]

Children(tree, p) == {q \in Subtree[p] : Len(q) = Len(p) + 1 /\ tree[q] # Nothing}

Covered(p, prefixes) == \E e \in prefixes : p \in Subtree[e]

\* Whatever is in a directory is in a directory.
Tree == {t \in [Path -> Node] :
            \A p \in Path : \A q \in Subtree[p] \ {p} :
                t[q] # Nothing => Kind(t[p]) = "dir"}

ASSUME ArchiveAssumption ==
    /\ Path \subseteq Seq(STRING)
    /\ \A p \in Path : \A n \in 0..Len(p) : SubSeq(p, 1, n) \in Path
    /\ \A b \in Body : Size[b] \in Nat /\ b \notin Damaged \cup {"empty", "none"}
    /\ Excluded \subseteq Path /\ DockerRoot \in Path /\ Volumes \in Path
    /\ Volumes # <<>> /\ Front(Volumes) = DockerRoot
    /\ \A e \in Excluded : ~IsPrefix(e, Volumes)
    /\ \A roots \in RootSets : roots \subseteq Path
    /\ \A t \in DiskTrees :
         t \in Tree /\ \A p \in Path : Kind(t[p]) = "file" => t[p][2] \in Body

archiveVars == <<disk, wrote, inPlace, events, configured, pc, todo, reading,
                 warned, entry, twice>>
machineVars == <<disk, wrote, inPlace>>
jobVars     == <<configured, todo, reading, warned, entry, twice>>

ArchiveInit ==
    /\ disk \in DiskTrees /\ wrote = {} /\ inPlace = {} /\ events = 0
    /\ configured = {} /\ pc = "idle" /\ todo = {} /\ reading = NoFile
    /\ warned = {} /\ entry = [p \in Path |-> Nothing] /\ twice = {}

\* Mutant: only equal paths are dropped.
CleanAllPaths(paths) == paths

\* A root below another one is dropped.
CleanAbsolutePaths(paths) ==
    {p \in paths : ~\E q \in paths : p \in Subtree[q] \ {q}}

\* Mutant: nothing of Docker but its volumes is traversed.
IsExcludedDocker(p) ==
    p \notin Subtree[Volumes] /\ Covered(p, Excluded \cup {DockerRoot})

\* Of Docker's directory only the volumes are kept, and the way to them.
IsExcluded(p) ==
    /\ p # DockerRoot /\ p \notin Subtree[Volumes]
    /\ Covered(p, Excluded \cup {DockerRoot})

-----------------------------------------------------------------------------
(* The machine goes on.                                                     *)

Event == events < MaxEvents /\ events' = events + 1

\* A file is written over, cut or appended to.
Rewrite(p, b) ==
    /\ pc = "walk" /\ Event
    /\ Kind(disk[p]) = "file" /\ disk[p] # File(b)
    /\ disk' = [disk EXCEPT ![p] = File(b)]
    /\ wrote' = wrote \cup {p} /\ inPlace' = inPlace \cup {p}
    /\ reading' = IF reading.path = p /\ reading.named
                  THEN [reading EXCEPT !.holds = b] ELSE reading
    /\ UNCHANGED <<configured, pc, todo, warned, entry, twice>>

\* A file is renamed or removed, and perhaps created anew, as logs are.
Replace(p, n) ==
    /\ pc = "walk" /\ Event
    /\ Kind(disk[p]) = "file"
    /\ disk' = [disk EXCEPT ![p] = n]
    /\ wrote' = wrote \cup {p}
    /\ reading' = IF reading.path = p THEN [reading EXCEPT !.named = FALSE] ELSE reading
    /\ UNCHANGED <<inPlace, configured, pc, todo, warned, entry, twice>>

-----------------------------------------------------------------------------
(* createArchive.                                                           *)

ArchiveBegins(roots) ==
    /\ pc \in {"idle", "failed"} /\ pc' = "walk"
    /\ configured' = roots /\ todo' = CleanAbsolutePaths(roots)
    /\ wrote' = {} /\ inPlace' = {}
    /\ entry' = [p \in Path |-> Nothing] /\ warned' = {} /\ twice' = {}
    /\ UNCHANGED <<disk, events, reading>>

Visited(p) == pc = "walk" /\ reading = NoFile /\ p \in todo

\* tw.WriteHeader.
AddEntry(p, n) ==
    /\ entry' = [entry EXCEPT ![p] = n]
    /\ twice' = IF entry[p] = Nothing THEN twice ELSE twice \cup {p}

\* What is excluded is not looked into; sockets are left out.
SkipPath(p) ==
    /\ Visited(p) /\ disk[p] # Nothing
    /\ IsExcluded(p) \/ disk[p] = Socket
    /\ todo' = todo \ {p}
    /\ UNCHANGED <<machineVars, events, configured, pc, reading, warned, entry, twice>>

\* Mutant: what cannot be read is passed over in silence.
PassOverPath(p) ==
    /\ Visited(p)
    /\ IF disk[p] = Nothing THEN UNCHANGED events ELSE Event
    /\ todo' = todo \ {p}
    /\ UNCHANGED <<machineVars, configured, pc, reading, warned, entry, twice>>

\* Lstat, Readlink or Open fails, or the path is gone.
WarnOfPath(p) ==
    /\ Visited(p)
    /\ IF disk[p] = Nothing THEN UNCHANGED events ELSE Event
    /\ todo' = todo \ {p} /\ warned' = warned \cup {p}
    /\ UNCHANGED <<machineVars, configured, pc, reading, entry, twice>>

AddDirectory(p) ==
    /\ Visited(p) /\ ~IsExcluded(p) /\ Kind(disk[p]) = "dir"
    /\ AddEntry(p, disk[p])
    /\ todo' = (todo \ {p}) \cup Children(disk, p)
    /\ UNCHANGED <<machineVars, events, configured, pc, reading, warned>>

\* The directory cannot be read: Walk calls the function a second time.
AddUnreadDirectory(p) ==
    /\ Visited(p) /\ ~IsExcluded(p) /\ Kind(disk[p]) = "dir" /\ Event
    /\ AddEntry(p, disk[p])
    /\ todo' = todo \ {p} /\ warned' = warned \cup {p}
    /\ UNCHANGED <<machineVars, configured, pc, reading>>

AddLink(p) ==
    /\ Visited(p) /\ ~IsExcluded(p) /\ Kind(disk[p]) = "link"
    /\ AddEntry(p, disk[p])
    /\ todo' = todo \ {p}
    /\ UNCHANGED <<machineVars, events, configured, pc, reading, warned>>

\* The header has the size of the opened file.
OpenFile(p) ==
    /\ Visited(p) /\ ~IsExcluded(p) /\ Kind(disk[p]) = "file"
    /\ reading' = [path |-> p, opened |-> disk[p][2], holds |-> disk[p][2], named |-> TRUE]
    /\ todo' = todo \ {p}
    /\ UNCHANGED <<machineVars, events, configured, pc, warned, entry, twice>>

\* copyExactWithPadding: what a descriptor that holds `now` gives of a file
\* that was `then` when its header was written.  One that was appended to is
\* cut off where it ended, one written over may be a mixture.
Copied(then, now) ==
    IF now = then THEN {then}
    ELSE IF Size[now] < Size[then] THEN {"padded"}
    ELSE {then, "torn"}

\* Mutant: the file is opened again by its name.
CopyFileByName ==
    /\ reading # NoFile
    /\ \E b \in IF Kind(disk[reading.path]) = "file"
                THEN Copied(reading.opened, disk[reading.path][2]) ELSE {"padded"} :
         /\ AddEntry(reading.path, File(b))
         /\ warned' = IF b = "padded" THEN warned \cup {reading.path} ELSE warned
    /\ reading' = NoFile
    /\ UNCHANGED <<machineVars, events, configured, pc, todo>>

CopyFile ==
    /\ reading # NoFile
    /\ \E b \in Copied(reading.opened, reading.holds) :
         /\ AddEntry(reading.path, File(b))
         /\ warned' = IF b = "padded" THEN warned \cup {reading.path} ELSE warned
    /\ reading' = NoFile
    /\ UNCHANGED <<machineVars, events, configured, pc, todo>>

\* The archive cannot be written, or reading gives an error: the backup fails.
ArchiveFails ==
    /\ pc = "walk" /\ pc' = "failed"
    /\ reading' = NoFile
    /\ UNCHANGED <<machineVars, events, configured, todo, warned, entry, twice>>

ArchiveEnds ==
    /\ pc = "walk" /\ todo = {} /\ reading = NoFile
    /\ pc' = "made"
    /\ UNCHANGED <<machineVars, events, jobVars>>

ArchiveNext ==
    \/ \E p \in Path :
         \/ \E b \in Body : Rewrite(p, b)
         \/ \E n \in {Nothing} \cup {File(b) : b \in Body} : Replace(p, n)
         \/ SkipPath(p) \/ WarnOfPath(p)
         \/ AddDirectory(p) \/ AddUnreadDirectory(p) \/ AddLink(p) \/ OpenFile(p)
    \/ \E roots \in RootSets : ArchiveBegins(roots)
    \/ CopyFile
    \/ ArchiveFails \/ ArchiveEnds

-----------------------------------------------------------------------------
(* Properties.                                                              *)

Made == pc \notin {"idle", "walk", "failed"}

\* What a backup is for: user and application data and Docker's volumes,
\* neither virtual file systems and caches nor the rest of Docker.
Kept(p) ==
    \/ p = DockerRoot \/ p \in Subtree[Volumes]
    \/ p \notin Subtree[DockerRoot] /\ ~Covered(p, Excluded)

\* A made archive holds exactly what it should: everything to be kept under
\* one of the roots, as it is on the machine unless it was written to in the
\* meantime or a warning names the path or a directory above it, and nothing
\* else; however the roots overlap one another and what is excluded.
ArchiveIsExact ==
    Made => \A p \in Path :
        /\ entry[p] # Nothing => Kept(p) /\ Covered(p, configured)
        /\ /\ Kept(p) /\ Covered(p, configured) /\ p \notin wrote
           /\ disk[p] \notin {Nothing, Socket}
           => entry[p] = disk[p] \/ Covered(p, warned)

\* No path is archived twice: ExtractArchive would refuse a second link of one
\* name, and the restore would fail long after the backup succeeded.
NothingTwice == twice = {}

\* "Stat the opened descriptor so the tar header and bytes refer to the same
\* file even when a log is renamed or replaced during traversal": only a file
\* that was written in place is archived damaged, and one that lost bytes is
\* named by a warning.
WholeUnlessWrittenInPlace ==
    \A p \in Path : Kind(entry[p]) = "file" /\ entry[p][2] \in Damaged =>
        p \in inPlace /\ (entry[p][2] = "padded" => p \in warned)

-----------------------------------------------------------------------------
(* The inductive invariant behind them.                                     *)

ArchiveTypeOK ==
    /\ disk \in Tree
    /\ \A p \in Path : Kind(disk[p]) = "file" => disk[p][2] \in Body
    /\ wrote \subseteq Path /\ inPlace \subseteq wrote
    /\ configured \subseteq Path /\ todo \subseteq Path /\ warned \subseteq Path
    /\ entry \in [Path -> Node]
    /\ \/ reading = NoFile
       \/ /\ reading.path \in Path /\ reading.named \in BOOLEAN
          /\ reading.opened \in Body /\ reading.holds \in Body
          /\ reading = [path |-> reading.path, opened |-> reading.opened,
                        holds |-> reading.holds, named |-> reading.named]

\* What is still to be archived: the paths to visit and the open file.
Pending == todo \cup (IF reading = NoFile THEN {} ELSE {reading.path})

\* Neither at one of them nor below is anything archived, none is below
\* another, and none below what is archived as a file or a link.
Ahead ==
    /\ \A p, q \in Pending : q \in Subtree[p] => p = q
    /\ \A p \in Pending : \A q \in Subtree[p] : entry[q] = Nothing
    /\ reading # NoFile => reading.path \notin todo
    /\ \A p \in Path : Kind(entry[p]) \in {"file", "link"} =>
           \A q \in Subtree[p] \ {p} : entry[q] = Nothing /\ q \notin Pending

\* The open file and its name.
ReadingFits ==
    reading # NoFile =>
        /\ Kept(reading.path) /\ Kind(disk[reading.path]) \in {"file", "none"}
        /\ reading.path \notin wrote =>
               disk[reading.path] = File(reading.opened) /\ reading.named
        /\ reading.holds # reading.opened => reading.path \in inPlace

\* What is wanted is in the archive, named by a warning, or ahead.
Wanted(p) == /\ Kept(p) /\ Covered(p, configured) /\ p \notin wrote
             /\ disk[p] \notin {Nothing, Socket}

Accounted(p) ==
    \/ entry[p] = disk[p]
    \/ Covered(p, warned)
    \/ \E q \in Pending : p \in Subtree[q]

ArchiveInv ==
    /\ ArchiveTypeOK
    /\ twice = {} /\ WholeUnlessWrittenInPlace
    /\ Ahead /\ ReadingFits
    /\ \A p \in Pending : Covered(p, configured)
    /\ \A p \in Path : entry[p] # Nothing => Kept(p) /\ Covered(p, configured)
    /\ pc # "failed" => \A p \in Path : Wanted(p) => Accounted(p)
    /\ pc # "walk" => reading = NoFile
    /\ Made => todo = {}
=============================================================================
