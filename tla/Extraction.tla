----------------------------- MODULE Extraction -----------------------------
(***************************************************************************)
(* The files of a restore: ExtractArchive unpacks the archive into a stage *)
(* of its own, copyRestoreTree walks the stage and writes over /, leaving  *)
(* out what belongs to the agent and to the new host.  Any step may fail   *)
(* and the agent may be killed between any two; the command is then        *)
(* executed again, on the host as it was left.                             *)
(***************************************************************************)
EXTENDS Archive

CONSTANTS
    HostTrees,      \* what the host may hold before
    Protected       \* the prefixes shouldSkipRestorePath lists

\* Links of the host lead to files: a directory is not restored through one.
ASSUME HostAssumption ==
    /\ "0750" \in Mode
    /\ Protected \subseteq Path /\ \A e \in Protected : ~IsPrefix(e, Volumes)
    /\ HostTrees \subseteq Tree
    /\ \A t \in HostTrees, p \in Path : Kind(t[p]) = "link" => Kind(t[t[p][2]]) = "file"

VARIABLES
    stage,      \* the unpacked archive: a node per path
    host,       \* the tree under /
    before,     \* history: the tree before the first execution
    toCopy,     \* paths of the stage the walk will visit
    writing,    \* the file that is open for writing, if not <<>>
    walked      \* directories whose metadata are still to be set

extractionVars == <<stage, host, before, toCopy, writing, walked>>
vars == <<archiveVars, extractionVars>>

Init ==
    /\ ArchiveInit
    /\ stage = [p \in Path |-> Nothing]
    /\ host \in HostTrees /\ before = host
    /\ toCopy = {} /\ writing = <<>> /\ walked = {}

Backup == ArchiveNext /\ UNCHANGED extractionVars

-----------------------------------------------------------------------------
(* ExtractArchive.                                                          *)

Below(p) == {q \in Subtree[p] \ {p} : entry[q] # Nothing}

\* Directories no entry names, on the way to one that an entry does name.
Implied == {p \in Path \ {<<>>} : entry[p] = Nothing /\ Below(p) # {}}

\* MkdirAll makes the missing parents of a directory with the directory's own
\* mode, those of a file or a link with 0750.
ParentMode(q) == IF Kind(entry[q]) = "dir" THEN entry[q][2] ELSE "0750"

\* The entry that comes first makes them.  Links come after everything else.
ModesFor(p) ==
    LET first == {q \in Below(p) : Kind(entry[q]) # "link"} IN
    {ParentMode(q) : q \in IF first # {} THEN first ELSE Below(p)}

ExtractArchive ==
    /\ pc \in {"made", "stopped", "restored"}
    /\ ~\E p \in twice : Kind(entry[p]) = "link"
    /\ \E mode \in [Implied -> UNION {ModesFor(p) : p \in Implied}] :
         /\ \A p \in Implied : mode[p] \in ModesFor(p)
         /\ stage' = [p \in Path |-> IF p \in Implied THEN Dir(mode[p]) ELSE entry[p]]
    /\ pc' = "copy" /\ toCopy' = Children(stage', <<>>)
    /\ writing' = <<>> /\ walked' = {}
    /\ UNCHANGED <<machineVars, events, jobVars, host, before>>

-----------------------------------------------------------------------------
(* copyRestoreTree.                                                         *)

\* Mutant: the list is not looked at.
ShouldSkipDockerOnly(p) ==
    p # DockerRoot /\ p \notin Subtree[Volumes] /\ Covered(p, {DockerRoot})

ShouldSkipRestorePath(p) ==
    /\ p # DockerRoot /\ p \notin Subtree[Volumes]
    /\ Covered(p, Protected \cup {DockerRoot})

Reached(p) == pc = "copy" /\ writing = <<>> /\ p \in toCopy

fixed == <<machineVars, events, jobVars, pc, before, stage>>

SkipRestore(p) ==
    /\ Reached(p) /\ ShouldSkipRestorePath(p)
    /\ toCopy' = toCopy \ {p}
    /\ UNCHANGED <<fixed, host, writing, walked>>

\* A directory the host has keeps its mode for now.
MakeDirectory(p) ==
    /\ Reached(p) /\ ~ShouldSkipRestorePath(p)
    /\ Kind(stage[p]) = "dir" /\ Kind(host[p]) \in {"none", "dir"}
    /\ host' = IF host[p] = Nothing THEN [host EXCEPT ![p] = stage[p]] ELSE host
    /\ walked' = walked \cup {p}
    /\ toCopy' = (toCopy \ {p}) \cup Children(stage, p)
    /\ UNCHANGED <<fixed, writing>>

\* Remove takes a file, a link or an empty directory away.
PutLink(p) ==
    /\ Reached(p) /\ ~ShouldSkipRestorePath(p)
    /\ Kind(stage[p]) = "link"
    /\ Kind(host[p]) = "dir" => Children(host, p) = {}
    /\ host' = [host EXCEPT ![p] = stage[p]]
    /\ toCopy' = toCopy \ {p}
    /\ UNCHANGED <<fixed, writing, walked>>

\* Opening a link opens what it leads to.
Opened(p) == IF Kind(host[p]) = "link" THEN host[p][2] ELSE p

\* O_CREATE and O_TRUNC.
OpenTarget(p) ==
    /\ Reached(p) /\ ~ShouldSkipRestorePath(p)
    /\ Kind(stage[p]) = "file"
    /\ Kind(host[Opened(p)]) \in {"none", "file"}
    /\ Kind(host[Front(Opened(p))]) = "dir"
    /\ host' = [host EXCEPT ![Opened(p)] = File("empty")]
    /\ writing' = p
    /\ toCopy' = toCopy \ {p}
    /\ UNCHANGED <<fixed, walked>>

WriteTarget ==
    /\ writing # <<>>
    /\ host' = [host EXCEPT ![Opened(writing)] = stage[writing]]
    /\ writing' = <<>>
    /\ UNCHANGED <<fixed, toCopy, walked>>

\* Mutant: a directory keeps the mode it had or was made with.
ApplyMetadataToNew(d) ==
    /\ pc = "copy" /\ toCopy = {} /\ writing = <<>> /\ d \in walked
    /\ walked' = walked \ {d}
    /\ UNCHANGED <<fixed, host, toCopy, writing>>

\* After everything is in place, so that no later write changes the times.
ApplyMetadata(d) ==
    /\ pc = "copy" /\ toCopy = {} /\ writing = <<>> /\ d \in walked
    /\ host' = [host EXCEPT ![d] = stage[d]]
    /\ walked' = walked \ {d}
    /\ UNCHANGED <<fixed, toCopy, writing>>

CopyEnds ==
    /\ pc = "copy" /\ toCopy = {} /\ writing = <<>> /\ walked = {}
    /\ pc' = "restored"
    /\ UNCHANGED <<machineVars, events, jobVars, extractionVars>>

\* A call fails, or the agent is killed; the host is left as it is.
CopyStops ==
    /\ pc = "copy" /\ pc' = "stopped"
    /\ toCopy' = {} /\ writing' = <<>> /\ walked' = {}
    /\ UNCHANGED <<machineVars, events, jobVars, stage, host, before>>

Restore ==
    \/ ExtractArchive
    \/ \E p \in Path :
         \/ SkipRestore(p) \/ MakeDirectory(p) \/ PutLink(p) \/ OpenTarget(p)
         \/ ApplyMetadata(p)
    \/ WriteTarget
    \/ CopyEnds \/ CopyStops

Next == Backup \/ Restore

Spec == Init /\ [][Next]_vars

-----------------------------------------------------------------------------
(* Properties.                                                              *)

\* What belongs to the agent, to the new host and to Docker's run time.
HostsOwn ==
    {p \in Path \ ({DockerRoot} \cup Subtree[Volumes]) :
        Covered(p, Protected \cup {DockerRoot})}

\* A file is restored through a link the host had in its place.
ThroughLink(p) ==
    \E q \in Path : /\ before[q] = Link(p) /\ Kind(entry[q]) = "file"
                    /\ q \notin HostsOwn

\* "恢复时会自动跳过 vBakup agent 自身的二进制、配置……旧版本创建的快照也使用相同
\* 的跳过规则": whatever the archive holds, and however many executions failed or
\* were killed half way, a restore changes only paths that are in the archive
\* or above one that is, and none of the host's own; except through a link
\* that the host had.
OnlyArchivedPathsChange ==
    \A p \in Path : host[p] # before[p] =>
        \/ p \notin HostsOwn /\ \E q \in Subtree[p] : entry[q] # Nothing
        \/ ThroughLink(p)

\* When the copy ends without an error, the host has everything the archive
\* has, with its content and mode, whatever was there before and in whatever
\* state earlier executions were cut off.
RestoredAsArchived ==
    pc = "restored" => \A p \in Path \ {<<>>} :
        entry[p] # Nothing /\ p \notin HostsOwn =>
            \/ host[p] = entry[p]
            \/ ThroughLink(p)
            \/ /\ Kind(entry[p]) = "file" /\ Kind(before[p]) = "link"
               /\ host[p] = before[p]

\* A migration: what was to be kept under the roots of the old machine, and was
\* not written to while it was read, is on the new one when the copy ends,
\* through both filters, the archive and any number of executions that were cut
\* off; unless the backup warned of it, it is the new host's own, or a link of
\* the new host stood in the way.
MigratesWhatWasThere ==
    pc = "restored" => \A p \in Path \ ({<<>>} \cup HostsOwn) :
        Wanted(p) =>
            \/ host[p] = disk[p]
            \/ Covered(p, warned)
            \/ ThroughLink(p)
            \/ /\ Kind(disk[p]) = "file" /\ Kind(before[p]) = "link"
               /\ host[p] = before[p]

\* "保留文件 UID/GID、权限与时间戳": a directory of the host that is not in the
\* archive has the mode it had.
DirectoriesKeepTheirModes ==
    pc = "restored" => \A p \in Path :
        Kind(before[p]) = "dir" /\ entry[p] = Nothing => host[p] = before[p]

-----------------------------------------------------------------------------
(* The inductive invariant behind them.                                     *)

ExtractionTypeOK ==
    /\ stage \in [Path -> Node] /\ host \in [Path -> Node] /\ before \in HostTrees
    /\ toCopy \subseteq Path /\ walked \subseteq Path
    /\ writing \in Path

\* The stage holds the archive and the directories above its entries.
StageFits ==
    \A p \in Path \ {<<>>} :
        IF p \in Implied THEN Kind(stage[p]) = "dir" ELSE stage[p] = entry[p]

\* What a step of the copy may touch.
CopyFits ==
    /\ \A p \in toCopy : p # <<>> /\ stage[p] # Nothing
    /\ writing # <<>> => Kind(stage[writing]) = "file" /\ writing \notin HostsOwn
    /\ \A p \in walked : p # <<>> /\ Kind(stage[p]) = "dir" /\ p \notin HostsOwn

Restored(p) ==
    \/ host[p] = entry[p]
    \/ ThroughLink(p)
    \/ Kind(entry[p]) = "file" /\ Kind(before[p]) = "link" /\ host[p] = before[p]

CopyInv ==
    /\ ArchiveInv /\ ExtractionTypeOK
    /\ OnlyArchivedPathsChange /\ RestoredAsArchived
    /\ ~Made => host = before
    /\ pc # "copy" => toCopy = {} /\ writing = <<>> /\ walked = {}
    /\ pc = "copy" => StageFits /\ CopyFits
    /\ \A p \in Path : Kind(host[p]) = "link" =>
           host[p] = before[p] \/ Kind(entry[p]) = "link"
    /\ pc = "copy" => \A p \in Path \ ({<<>>} \cup HostsOwn) :
           entry[p] # Nothing =>
               \/ \E q \in toCopy : p \in Subtree[q]
               \/ p = writing \/ p \in walked \/ Restored(p)
=============================================================================
