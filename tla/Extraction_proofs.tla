-------------------------- MODULE Extraction_proofs --------------------------
(***************************************************************************)
(* Proofs about Archive and Extraction, for every set of paths, machine    *)
(* and host.                                                               *)
(***************************************************************************)
EXTENDS Extraction, TLAPS, WellFoundedInduction

-----------------------------------------------------------------------------
(* Paths.                                                                   *)

\* Prefixes, place by place.
LEMMA PrefixByIndex ==
    ASSUME NEW S, NEW s \in Seq(S), NEW t \in Seq(S)
    PROVE  IsPrefix(s, t) <=> Len(s) <= Len(t) /\ \A i \in 1..Len(s) : s[i] = t[i]
<1>1. CASE Len(s) <= Len(t)
  <2>1. SubSeq(s, 1, Len(s)) \in Seq(S) /\ Len(SubSeq(s, 1, Len(s))) = Len(s)
        /\ \A i \in 1..Len(s) : SubSeq(s, 1, Len(s))[i] = s[i]
    OBVIOUS
  <2>2. SubSeq(t, 1, Len(s)) \in Seq(S) /\ Len(SubSeq(t, 1, Len(s))) = Len(s)
        /\ \A i \in 1..Len(s) : SubSeq(t, 1, Len(s))[i] = t[i]
    BY <1>1
  <2>3. SubSeq(s, 1, Len(s)) = SubSeq(t, 1, Len(s))
        <=> \A i \in 1..Len(s) : s[i] = t[i]
    BY <2>1, <2>2
  <2> QED BY <1>1, <2>3 DEF IsPrefix
<1>2. CASE ~(Len(s) <= Len(t))
  BY <1>2 DEF IsPrefix
<1> QED BY <1>1, <1>2

LEMMA SubtreeByIndex ==
    \A p, q \in Path :
        q \in Subtree[p] <=> Len(p) <= Len(q) /\ \A i \in 1..Len(p) : p[i] = q[i]
<1> SUFFICES ASSUME NEW p \in Path, NEW q \in Path
             PROVE  q \in Subtree[p] <=>
                        Len(p) <= Len(q) /\ \A i \in 1..Len(p) : p[i] = q[i]
  OBVIOUS
<1> QED BY PrefixByIndex, ArchiveAssumption DEF Subtree

LEMMA PathsAreSequences == \A p \in Path : p \in Seq(STRING) /\ Len(p) \in Nat
BY ArchiveAssumption

\* Subtrees are ordered like a tree.
LEMMA SubtreeOrder ==
    ASSUME NEW p \in Path, NEW q \in Path, NEW r \in Path
    PROVE  /\ Subtree[p] \subseteq Path /\ p \in Subtree[p]
           /\ q \in Subtree[p] /\ r \in Subtree[q] => r \in Subtree[p]
           /\ q \in Subtree[p] /\ p \in Subtree[q] => p = q
           /\ r \in Subtree[p] /\ r \in Subtree[q] =>
                  p \in Subtree[q] \/ q \in Subtree[p]
<1> USE PathsAreSequences
<1>1. Subtree[p] \subseteq Path /\ p \in Subtree[p]
  BY SubtreeByIndex DEF Subtree
<1>2. q \in Subtree[p] /\ r \in Subtree[q] => r \in Subtree[p]
  BY SubtreeByIndex
<1>3. q \in Subtree[p] /\ p \in Subtree[q] => p = q
  BY SubtreeByIndex
<1>4. r \in Subtree[p] /\ r \in Subtree[q] => p \in Subtree[q] \/ q \in Subtree[p]
  BY SubtreeByIndex
<1> QED BY <1>1, <1>2, <1>3, <1>4

\* Below p there is a way down to q, and nothing between p and the next place.
LEMMA NextPlace ==
    ASSUME NEW p \in Path, NEW q \in Subtree[p] \ {p}
    PROVE  \E c \in Subtree[p] : Len(c) = Len(p) + 1 /\ q \in Subtree[c]
<1> USE PathsAreSequences
<1>1. q \in Path /\ p \in Seq(STRING) /\ q \in Seq(STRING)
  BY DEF Subtree
<1>2. Len(p) < Len(q) /\ \A i \in 1..Len(p) : p[i] = q[i]
  BY <1>1, SubtreeByIndex
<1> DEFINE c == SubSeq(q, 1, Len(p) + 1)
<1>3. c \in Path
  BY <1>1, <1>2, ArchiveAssumption
<1>4. Len(c) = Len(p) + 1 /\ \A i \in 1..Len(c) : c[i] = q[i]
  BY <1>1, <1>2
<1>5. c \in Subtree[p]
  <2> HIDE DEF c
  <2> QED BY <1>1, <1>2, <1>3, <1>4, SubtreeByIndex
<1>6. q \in Subtree[c]
  <2> HIDE DEF c
  <2> QED BY <1>1, <1>2, <1>3, <1>4, SubtreeByIndex
<1> QED BY <1>4, <1>5, <1>6

LEMMA NothingBetween ==
    ASSUME NEW p \in Path, NEW c \in Subtree[p], Len(c) = Len(p) + 1,
           NEW q \in Path, c \in Subtree[q]
    PROVE  q = c \/ p \in Subtree[q]
<1> USE PathsAreSequences
<1>1. c \in Path
  BY DEF Subtree
<1> QED BY <1>1, SubtreeByIndex

\* The same for all paths.
LEMMA Order ==
    /\ \A p \in Path : p \in Subtree[p]
    /\ \A p \in Path : \A q \in Subtree[p] : q \in Path
    /\ \A p \in Path : \A q \in Subtree[p] : \A r \in Subtree[q] : r \in Subtree[p]
    /\ \A p \in Path : \A q \in Subtree[p] : p \in Subtree[q] => p = q
    /\ \A p, q \in Path : \A r \in Subtree[p] :
           r \in Subtree[q] => p \in Subtree[q] \/ q \in Subtree[p]
<1>1. \A p \in Path : p \in Subtree[p]
  BY SubtreeOrder
<1>2. \A p \in Path : \A q \in Subtree[p] : q \in Path
  BY SubtreeOrder
<1>3. \A p \in Path : \A q \in Subtree[p] : \A r \in Subtree[q] : r \in Subtree[p]
  BY <1>2, SubtreeOrder
<1>4. \A p \in Path : \A q \in Subtree[p] : p \in Subtree[q] => p = q
  BY <1>2, SubtreeOrder
<1>5. \A p, q \in Path : \A r \in Subtree[p] :
          r \in Subtree[q] => p \in Subtree[q] \/ q \in Subtree[p]
  BY <1>2, SubtreeOrder
<1> QED BY <1>1, <1>2, <1>3, <1>4, <1>5

LEMMA FrontOf ==
    ASSUME NEW s \in Seq(STRING), NEW n \in Nat, n <= Len(s)
    PROVE  Len(SubSeq(s, 1, n)) = n /\ \A i \in 1..n : SubSeq(s, 1, n)[i] = s[i]
OBVIOUS

\* Docker's volumes are right below its directory.
LEMMA VolumesInDocker ==
    /\ DockerRoot \in Path /\ Volumes \in Path /\ Volumes \in Subtree[DockerRoot]
    /\ Len(Volumes) = Len(DockerRoot) + 1
<1>1. DockerRoot \in Path /\ Volumes \in Path /\ Volumes # <<>>
      /\ Front(Volumes) = DockerRoot /\ Volumes \in Seq(STRING)
  BY ArchiveAssumption
<1>2. Len(Volumes) \in Nat \ {0}
  BY <1>1
<1>3. DockerRoot = SubSeq(Volumes, 1, Len(Volumes) - 1)
  BY <1>1 DEF Front
<1>4. /\ Len(SubSeq(Volumes, 1, Len(Volumes) - 1)) = Len(Volumes) - 1
      /\ \A i \in 1..(Len(Volumes) - 1) :
             SubSeq(Volumes, 1, Len(Volumes) - 1)[i] = Volumes[i]
  <2>1. Len(Volumes) - 1 \in Nat /\ Len(Volumes) - 1 <= Len(Volumes)
    BY <1>2
  <2> QED BY <1>1, <2>1, FrontOf
<1>5. Len(DockerRoot) = Len(Volumes) - 1
      /\ \A i \in 1..Len(DockerRoot) : DockerRoot[i] = Volumes[i]
  BY <1>3, <1>4
<1>6. Volumes \in Subtree[DockerRoot]
  BY <1>1, <1>2, <1>5, SubtreeByIndex
<1> QED BY <1>1, <1>2, <1>5, <1>6

\* What lies below something left out is left out: no prefix of the list leads to
\* the volumes, which alone are kept.
LEMMA LeftOutBelow ==
    ASSUME NEW E \in SUBSET Path, \A e \in E : ~IsPrefix(e, Volumes),
           NEW p \in Path, p # DockerRoot, p \notin Subtree[Volumes],
           Covered(p, E \cup {DockerRoot}), NEW q \in Subtree[p]
    PROVE  /\ q # DockerRoot /\ q \notin Subtree[Volumes]
           /\ Covered(q, E \cup {DockerRoot})
<1> USE Order, VolumesInDocker
<1>1. PICK e \in E \cup {DockerRoot} : p \in Subtree[e]
  BY DEF Covered
<1>2. e \in Path /\ q \in Path /\ q \in Subtree[e]
  BY <1>1
<1>3. e \in E => Volumes \notin Subtree[e]
  BY <1>2 DEF Subtree
<1>4. q # DockerRoot
  <2> SUFFICES ASSUME q = DockerRoot PROVE FALSE
    OBVIOUS
  <2>1. Volumes \in Subtree[e]
    BY <1>2
  <2>2. e = DockerRoot
    BY <1>3, <2>1
  <2> QED BY <1>1, <2>2
<1>5. q \notin Subtree[Volumes]
  <2> SUFFICES ASSUME q \in Subtree[Volumes] PROVE FALSE
    OBVIOUS
  <2>1. Volumes \in Subtree[p]
    BY <1>2
  <2>2. e = DockerRoot
    BY <1>1, <1>2, <1>3, <2>1
  <2>3. p = Volumes \/ DockerRoot \in Subtree[p]
    BY <2>1, NothingBetween
  <2> QED BY <1>1, <2>2, <2>3
<1>6. Covered(q, E \cup {DockerRoot})
  BY <1>2 DEF Covered
<1> QED BY <1>4, <1>5, <1>6

-----------------------------------------------------------------------------
(* Nodes.                                                                   *)

LEMMA NodeKinds ==
    /\ Kind(Nothing) = "none" /\ Kind(Socket) = "socket"
    /\ \A m : Kind(Dir(m)) = "dir" /\ Dir(m)[2] = m
    /\ \A b : Kind(File(b)) = "file" /\ File(b)[2] = b
    /\ \A p : Kind(Link(p)) = "link" /\ Link(p)[2] = p
BY DEF Kind, Nothing, Socket, Dir, File, Link

LEMMA NodeCases ==
    ASSUME NEW n \in Node
    PROVE  \/ n = Nothing \/ n = Socket
           \/ \E m \in Mode : n = Dir(m)
           \/ \E b \in Body \cup Damaged \cup {"empty"} : n = File(b)
           \/ \E p \in Path : n = Link(p)
BY DEF Node

LEMMA NodeForms ==
    \A n \in Node :
        /\ Kind(n) = "none" <=> n = Nothing
        /\ Kind(n) = "socket" <=> n = Socket
        /\ Kind(n) = "dir" => n = Dir(n[2]) /\ n[2] \in Mode
        /\ Kind(n) = "file" => n = File(n[2]) /\ n[2] \in Body \cup Damaged \cup {"empty"}
        /\ Kind(n) = "link" => n = Link(n[2]) /\ n[2] \in Path
        /\ Kind(n) \in {"none", "socket", "dir", "file", "link"}
BY NodeCases, NodeKinds

LEMMA NodesMade ==
    /\ Nothing \in Node /\ Socket \in Node
    /\ \A m \in Mode : Dir(m) \in Node
    /\ \A b \in Body \cup Damaged \cup {"empty"} : File(b) \in Node
    /\ \A p \in Path : Link(p) \in Node
BY DEF Node


-----------------------------------------------------------------------------
(* Roots and exclusions.                                                    *)

LEMMA ShorterAbove ==
    \A p \in Path : \A q \in Subtree[p] \ {p} : Len(p) < Len(q)
<1> SUFFICES ASSUME NEW p \in Path, NEW q \in Subtree[p] \ {p}
             PROVE  Len(p) < Len(q)
  OBVIOUS
<1>1. q \in Path /\ p # q /\ p \in Seq(STRING) /\ q \in Seq(STRING)
  BY Order, PathsAreSequences
<1>2. Len(p) <= Len(q) /\ \A i \in 1..Len(p) : p[i] = q[i]
  BY <1>1, SubtreeByIndex
<1>3. Len(p) = Len(q) => p = q
  BY <1>1, <1>2
<1> QED BY <1>1, <1>2, <1>3, PathsAreSequences

\* No root that is left covers another, and together they cover what all did.
LEMMA RootsStand ==
    ASSUME NEW roots \in SUBSET Path
    PROVE  /\ CleanAbsolutePaths(roots) \subseteq roots
           /\ \A p, q \in CleanAbsolutePaths(roots) : q \in Subtree[p] => p = q
           /\ \A p \in Path : Covered(p, roots) =>
                  \E q \in CleanAbsolutePaths(roots) : p \in Subtree[q]
<1>1. CleanAbsolutePaths(roots) \subseteq roots
      /\ \A p, q \in CleanAbsolutePaths(roots) : q \in Subtree[p] => p = q
  BY DEF CleanAbsolutePaths
<1>2. ASSUME NEW p \in Path, Covered(p, roots)
      PROVE  \E q \in CleanAbsolutePaths(roots) : p \in Subtree[q]
  <2> DEFINE T == {Len(q) : q \in {r \in roots : p \in Subtree[r]}}
  <2>1. T # {} /\ T \subseteq Nat
    BY <1>2, PathsAreSequences DEF Covered
  <2>2. \E n \in T : \A m \in T : ~(<<m, n>> \in OpToRel(<, Nat))
    <3> HIDE DEF T
    <3> QED BY <2>1, NatLessThanWellFounded, WFMin
  <2>3. PICK n \in T : \A m \in T : ~(m < n)
    BY <2>1, <2>2 DEF OpToRel
  <2>4. PICK q \in roots : p \in Subtree[q] /\ n = Len(q)
    BY <2>3
  <2>5. ASSUME NEW r \in roots, q \in Subtree[r] \ {r} PROVE FALSE
    <3>1. r \in Path /\ p \in Subtree[r]
      BY <2>4, <2>5, Order
    <3>2. Len(r) \in T
      BY <3>1
    <3>3. Len(r) < Len(q)
      BY <2>5, <3>1, ShorterAbove
    <3> QED BY <2>3, <2>4, <3>2, <3>3
  <2>6. q \in CleanAbsolutePaths(roots)
    BY <2>5 DEF CleanAbsolutePaths
  <2> QED BY <2>4, <2>6
<1> QED BY <1>1, <1>2

LEMMA KeptIsNotExcluded == \A p \in Path : ~IsExcluded(p) <=> Kept(p)
BY DEF IsExcluded, Kept, Covered

\* The walk skips nothing that is to be kept.
LEMMA NothingKeptBelow ==
    \A p \in Path : IsExcluded(p) => \A q \in Subtree[p] : ~Kept(q)
<1> SUFFICES ASSUME NEW p \in Path, IsExcluded(p), NEW q \in Subtree[p]
             PROVE  ~Kept(q)
  OBVIOUS
<1>1. /\ p # DockerRoot /\ p \notin Subtree[Volumes]
      /\ Covered(p, Excluded \cup {DockerRoot})
  BY DEF IsExcluded
<1>2. Excluded \in SUBSET Path /\ \A e \in Excluded : ~IsPrefix(e, Volumes)
  BY ArchiveAssumption
<1>3. /\ q # DockerRoot /\ q \notin Subtree[Volumes]
      /\ Covered(q, Excluded \cup {DockerRoot})
  BY <1>1, <1>2, LeftOutBelow
<1> QED BY <1>3 DEF Kept, Covered


-----------------------------------------------------------------------------
(* The walk.                                                                *)

\* What is below something is below a directory.
LEMMA DirectoriesAbove ==
    ASSUME disk \in Tree
    PROVE  /\ disk \in [Path -> Node]
           /\ \A p \in Path : \A q \in Subtree[p] \ {p} :
                  disk[q] # Nothing => Kind(disk[p]) = "dir"
BY DEF Tree

\* Every step that is done with a path and finds nothing new below it.
LEMMA PathDone ==
    ASSUME ArchiveInv, NEW p \in Pending, p \in Path,
           UNCHANGED <<machineVars, configured, pc>>, pc = "walk",
           Pending' = Pending \ {p}, reading' = NoFile, todo' \subseteq todo,
           warned \subseteq warned', warned' \subseteq Path, twice' = {},
           entry' \in [Path -> Node], \A q \in Path \ {p} : entry'[q] = entry[q],
           entry'[p] # Nothing => Kept(p),
           Kind(entry'[p]) = "file" /\ entry'[p][2] \in Damaged =>
               p \in inPlace /\ (entry'[p][2] = "padded" => p \in warned'),
           \A q \in Subtree[p] : Wanted(q) => entry'[q] = disk[q] \/ Covered(q, warned')
    PROVE  ArchiveInv'
<1> USE Order
<1>0. /\ disk' = disk /\ wrote' = wrote /\ inPlace' = inPlace
      /\ configured' = configured /\ pc' = pc
  BY DEF machineVars
<1>1. ArchiveTypeOK'
  BY <1>0 DEF ArchiveInv, ArchiveTypeOK, Tree
<1>2. twice' = {} /\ WholeUnlessWrittenInPlace'
  BY <1>0 DEF ArchiveInv, WholeUnlessWrittenInPlace
<1>3. Ahead'
  <2>1. /\ \A x, y \in Pending : y \in Subtree[x] => x = y
        /\ \A x \in Pending : \A q \in Subtree[x] : entry[q] = Nothing
        /\ \A x \in Path : Kind(entry[x]) \in {"file", "link"} =>
               \A q \in Subtree[x] \ {x} : entry[q] = Nothing /\ q \notin Pending
        /\ Pending \subseteq Path
    BY DEF ArchiveInv, Ahead, Pending, ArchiveTypeOK
  <2>2. \A x, y \in Pending' : y \in Subtree[x] => x = y
    BY <2>1
  <2>3. \A x \in Pending' : \A q \in Subtree[x] : entry'[q] = Nothing
    BY <2>1
  <2>4. \A x \in Path : Kind(entry'[x]) \in {"file", "link"} =>
            \A q \in Subtree[x] \ {x} : entry'[q] = Nothing /\ q \notin Pending'
    <3> SUFFICES ASSUME NEW x \in Path, Kind(entry'[x]) \in {"file", "link"},
                        NEW q \in Subtree[x] \ {x}
                 PROVE  entry'[q] = Nothing /\ q \notin Pending'
      OBVIOUS
    <3>1. CASE x = p
      BY <2>1, <3>1
    <3>2. CASE x # p
      BY <2>1, <3>2
    <3> QED BY <3>1, <3>2
  <2> QED BY <2>2, <2>3, <2>4 DEF Ahead
<1>4. ReadingFits'
  BY DEF ReadingFits
<1>5. \A x \in Pending' : Covered(x, configured')
  BY <1>0 DEF ArchiveInv
<1>6. \A x \in Path : entry'[x] # Nothing => Kept(x) /\ Covered(x, configured')
  BY <1>0 DEF ArchiveInv
<1>7. \A x \in Path : Wanted(x)' => Accounted(x)'
  <2> SUFFICES ASSUME NEW x \in Path, Wanted(x)' PROVE Accounted(x)'
    OBVIOUS
  <2>1. Wanted(x) /\ Accounted(x)
    BY <1>0 DEF ArchiveInv, Wanted
  <2>2. CASE x \in Subtree[p]
    BY <1>0, <2>1, <2>2 DEF Accounted
  <2>3. CASE x \notin Subtree[p]
    BY <1>0, <2>1, <2>3 DEF Accounted, Covered
  <2> QED BY <2>2, <2>3
<1>8. pc' = "walk" /\ ~Made'
  BY <1>0 DEF Made
<1> QED BY <1>1, <1>2, <1>3, <1>4, <1>5, <1>6, <1>7, <1>8 DEF ArchiveInv


\* What is known where a walk stands.
LEMMA AtPath ==
    ASSUME ArchiveInv, NEW p \in Path, Visited(p)
    PROVE  /\ pc = "walk" /\ reading = NoFile /\ p \in todo /\ Pending = todo
           /\ p \in Pending /\ entry[p] = Nothing
           /\ disk \in Tree /\ disk[p] \in Node
           /\ entry \in [Path -> Node] /\ todo \subseteq Path /\ warned \subseteq Path
           /\ twice = {}
           /\ \A q \in Subtree[p] : entry[q] = Nothing
           /\ Kind(disk[p]) # "dir" => \A q \in Subtree[p] \ {p} : disk[q] = Nothing
<1>1. pc = "walk" /\ reading = NoFile /\ p \in todo
  BY DEF Visited
<1>2. Pending = todo
  BY <1>1 DEF Pending
<1>3. disk \in Tree /\ entry \in [Path -> Node] /\ todo \subseteq Path
      /\ warned \subseteq Path /\ twice = {}
  BY DEF ArchiveInv, ArchiveTypeOK
<1>4. \A q \in Subtree[p] : entry[q] = Nothing
  BY <1>1, <1>2 DEF ArchiveInv, Ahead
<1> QED BY <1>1, <1>2, <1>3, <1>4, DirectoriesAbove, Order

LEMMA SkipPathKeeps ==
    ASSUME ArchiveInv, NEW p \in Path, SkipPath(p)
    PROVE  ArchiveInv'
<1>1. Visited(p)
  BY DEF SkipPath
<1>2. /\ UNCHANGED <<machineVars, configured, pc, reading, warned, entry, twice>>
      /\ todo' = todo \ {p} /\ disk[p] # Nothing
      /\ IsExcluded(p) \/ disk[p] = Socket
  BY DEF SkipPath
<1>3. Pending' = Pending \ {p} /\ reading' = NoFile
  BY <1>1, <1>2, AtPath DEF Pending
<1>4. \A q \in Subtree[p] : ~Wanted(q)
  <2>1. CASE IsExcluded(p)
    BY <2>1, NothingKeptBelow DEF Wanted
  <2>2. CASE disk[p] = Socket
    <3>1. Kind(disk[p]) # "dir"
      BY <2>2, NodeKinds
    <3> QED BY <1>1, <2>2, <3>1, AtPath DEF Wanted
  <2> QED BY <1>2, <2>1, <2>2
<1>5. entry'[p] = Nothing /\ Kind(entry'[p]) # "file"
  BY <1>1, <1>2, AtPath, NodeKinds
<1> QED BY <1>1, <1>2, <1>3, <1>4, <1>5, AtPath, PathDone

LEMMA WarnOfPathKeeps ==
    ASSUME ArchiveInv, NEW p \in Path, WarnOfPath(p)
    PROVE  ArchiveInv'
<1>1. Visited(p)
  BY DEF WarnOfPath
<1>2. /\ UNCHANGED <<machineVars, configured, pc, reading, entry, twice>>
      /\ todo' = todo \ {p} /\ warned' = warned \cup {p}
  BY DEF WarnOfPath
<1>3. Pending' = Pending \ {p} /\ reading' = NoFile
  BY <1>1, <1>2, AtPath DEF Pending
<1>4. \A q \in Subtree[p] : Covered(q, warned')
  BY <1>2 DEF Covered
<1>5. entry'[p] = Nothing /\ Kind(entry'[p]) # "file"
  BY <1>1, <1>2, AtPath, NodeKinds
<1> QED BY <1>1, <1>2, <1>3, <1>4, <1>5, AtPath, PathDone

\* Where nothing is archived yet, an entry is the first one.
LEMMA FirstEntry ==
    ASSUME NEW p \in Path, NEW n \in Node, entry \in [Path -> Node],
           entry[p] = Nothing, twice = {}, AddEntry(p, n)
    PROVE  /\ entry' \in [Path -> Node] /\ entry'[p] = n /\ twice' = {}
           /\ \A q \in Path \ {p} : entry'[q] = entry[q]
BY DEF AddEntry

LEMMA AddUnreadDirectoryKeeps ==
    ASSUME ArchiveInv, NEW p \in Path, AddUnreadDirectory(p)
    PROVE  ArchiveInv'
<1>1. Visited(p)
  BY DEF AddUnreadDirectory
<1>2. /\ UNCHANGED <<machineVars, configured, pc, reading>>
      /\ todo' = todo \ {p} /\ warned' = warned \cup {p}
      /\ ~IsExcluded(p) /\ Kind(disk[p]) = "dir" /\ AddEntry(p, disk[p])
  BY DEF AddUnreadDirectory
<1>3. Pending' = Pending \ {p} /\ reading' = NoFile
  BY <1>1, <1>2, AtPath DEF Pending
<1>4. /\ entry' \in [Path -> Node] /\ entry'[p] = disk[p] /\ twice' = {}
      /\ \A q \in Path \ {p} : entry'[q] = entry[q]
  BY <1>1, <1>2, AtPath, FirstEntry
<1>5. \A q \in Subtree[p] : Covered(q, warned')
  BY <1>2 DEF Covered
<1>6. Kept(p)
  BY <1>2, KeptIsNotExcluded
<1> QED BY <1>1, <1>2, <1>3, <1>4, <1>5, <1>6, AtPath, PathDone

LEMMA AddLinkKeeps ==
    ASSUME ArchiveInv, NEW p \in Path, AddLink(p)
    PROVE  ArchiveInv'
<1>1. Visited(p)
  BY DEF AddLink
<1>2. /\ UNCHANGED <<machineVars, configured, pc, reading, warned>>
      /\ todo' = todo \ {p}
      /\ ~IsExcluded(p) /\ Kind(disk[p]) = "link" /\ AddEntry(p, disk[p])
  BY DEF AddLink
<1>3. Pending' = Pending \ {p} /\ reading' = NoFile
  BY <1>1, <1>2, AtPath DEF Pending
<1>4. /\ entry' \in [Path -> Node] /\ entry'[p] = disk[p] /\ twice' = {}
      /\ \A q \in Path \ {p} : entry'[q] = entry[q]
  BY <1>1, <1>2, AtPath, FirstEntry
<1>5. \A q \in Subtree[p] : Wanted(q) => entry'[q] = disk[q]
  BY <1>1, <1>2, <1>4, AtPath DEF Wanted
<1>6. Kept(p)
  BY <1>2, KeptIsNotExcluded
<1> QED BY <1>1, <1>2, <1>3, <1>4, <1>5, <1>6, AtPath, PathDone

LEMMA CopyFileKeeps ==
    ASSUME ArchiveInv, CopyFile
    PROVE  ArchiveInv'
<1> DEFINE p == reading.path
<1>1. /\ UNCHANGED <<machineVars, configured, pc, todo>>
      /\ reading # NoFile /\ reading' = NoFile
  BY DEF CopyFile
<1>2. PICK b \in Copied(reading.opened, reading.holds) :
          /\ AddEntry(p, File(b))
          /\ warned' = IF b = "padded" THEN warned \cup {p} ELSE warned
  BY DEF CopyFile
<1>3. /\ p \in Path /\ reading.opened \in Body /\ reading.holds \in Body
      /\ disk \in Tree /\ entry \in [Path -> Node] /\ todo \subseteq Path
      /\ warned \subseteq Path /\ twice = {} /\ inPlace \subseteq wrote
  BY <1>1 DEF ArchiveInv, ArchiveTypeOK
<1>4. pc = "walk" /\ p \in Pending /\ Pending' = Pending \ {p}
  <2>1. p \notin todo /\ pc = "walk"
    BY <1>1 DEF ArchiveInv, Ahead
  <2> QED BY <1>1, <2>1 DEF Pending
<1>5. /\ Kept(p) /\ Kind(disk[p]) \in {"file", "none"}
      /\ p \notin wrote => disk[p] = File(reading.opened)
      /\ reading.holds # reading.opened => p \in inPlace
  BY <1>1 DEF ArchiveInv, ReadingFits
<1>6. /\ b = reading.opened \/ (b \in Damaged /\ reading.holds # reading.opened)
      /\ b \in Body \cup Damaged
  BY <1>2, <1>3 DEF Copied, Damaged
<1>7. reading.opened \notin Damaged
  BY <1>3, ArchiveAssumption
<1>8. File(b) \in Node /\ Kind(File(b)) = "file" /\ File(b)[2] = b
  BY <1>6, NodesMade, NodeKinds
<1>9. entry[p] = Nothing
  BY <1>3, <1>4, Order DEF ArchiveInv, Ahead
<1>10. /\ entry' \in [Path -> Node] /\ entry'[p] = File(b) /\ twice' = {}
       /\ \A q \in Path \ {p} : entry'[q] = entry[q]
  <2> HIDE DEF p
  <2> QED BY <1>2, <1>3, <1>8, <1>9, FirstEntry
<1>11. \A q \in Subtree[p] : Wanted(q) => entry'[q] = disk[q]
  <2>1. Kind(disk[p]) # "dir"
    BY <1>5
  <2>2. \A q \in Subtree[p] \ {p} : disk[q] = Nothing
    BY <1>3, <2>1, DirectoriesAbove
  <2>3. Wanted(p) => File(b) = disk[p]
    BY <1>3, <1>5, <1>6 DEF Wanted
  <2> QED BY <1>10, <2>2, <2>3 DEF Wanted
<1>12. /\ warned \subseteq warned' /\ warned' \subseteq Path
       /\ b \in Damaged => p \in inPlace
       /\ b = "padded" => p \in warned'
  BY <1>2, <1>3, <1>5, <1>6, <1>7
<1> HIDE DEF p
<1> QED BY <1>1, <1>3, <1>4, <1>5, <1>8, <1>10, <1>11, <1>12, PathDone


LEMMA ChildrenBelow ==
    ASSUME disk \in Tree, NEW p \in Path
    PROVE  /\ \A c \in Children(disk, p) :
                  /\ c \in Path /\ c \in Subtree[p] /\ c # p
                  /\ \A q \in Path : c \in Subtree[q] => q = c \/ p \in Subtree[q]
           /\ \A q \in Subtree[p] \ {p} : disk[q] # Nothing =>
                  \E c \in Children(disk, p) : q \in Subtree[c]
<1> USE Order, PathsAreSequences
<1>1. \A c \in Children(disk, p) :
          /\ c \in Path /\ c \in Subtree[p] /\ c # p
          /\ \A q \in Path : c \in Subtree[q] => q = c \/ p \in Subtree[q]
  BY NothingBetween DEF Children
<1>2. ASSUME NEW q \in Subtree[p] \ {p}, disk[q] # Nothing
      PROVE  \E c \in Children(disk, p) : q \in Subtree[c]
  <2>1. PICK c \in Subtree[p] : Len(c) = Len(p) + 1 /\ q \in Subtree[c]
    BY NextPlace
  <2>2. disk[c] # Nothing
    <3>1. CASE c = q
      BY <1>2, <3>1
    <3>2. CASE c # q
      BY <1>2, <2>1, <3>2, DirectoriesAbove, NodeKinds
    <3> QED BY <3>1, <3>2
  <2> QED BY <2>1, <2>2 DEF Children
<1> QED BY <1>1, <1>2

LEMMA AddDirectoryKeeps ==
    ASSUME ArchiveInv, NEW p \in Path, AddDirectory(p)
    PROVE  ArchiveInv'
<1> USE Order
<1>1. Visited(p)
  BY DEF AddDirectory
<1>2. /\ UNCHANGED <<machineVars, configured, pc, reading, warned>>
      /\ todo' = (todo \ {p}) \cup Children(disk, p)
      /\ ~IsExcluded(p) /\ Kind(disk[p]) = "dir" /\ AddEntry(p, disk[p])
  BY DEF AddDirectory
<1>3. /\ disk' = disk /\ wrote' = wrote /\ inPlace' = inPlace /\ warned' = warned
      /\ configured' = configured /\ pc' = pc /\ pc = "walk" /\ reading' = NoFile
  BY <1>1, <1>2 DEF machineVars, Visited
<1>4. Pending = todo /\ Pending' = (todo \ {p}) \cup Children(disk, p)
  BY <1>1, <1>2, AtPath DEF Pending
<1>5. /\ entry' \in [Path -> Node] /\ entry'[p] = disk[p] /\ twice' = {}
      /\ \A q \in Path \ {p} : entry'[q] = entry[q]
  BY <1>1, <1>2, AtPath, FirstEntry
<1>6. Kept(p) /\ Covered(p, configured)
  BY <1>1, <1>2, AtPath, KeptIsNotExcluded DEF ArchiveInv
<1>7. disk \in Tree /\ p \in todo /\ todo \subseteq Path
      /\ entry[p] = Nothing /\ \A q \in Subtree[p] : entry[q] = Nothing
  BY <1>1, AtPath
<1>8. Pending' \subseteq Path
  BY <1>4, <1>7, ChildrenBelow
<1>9. ArchiveTypeOK'
  BY <1>3, <1>4, <1>5, <1>8 DEF ArchiveInv, ArchiveTypeOK, Tree, Pending
<1>10. twice' = {} /\ WholeUnlessWrittenInPlace'
  BY <1>2, <1>3, <1>5 DEF ArchiveInv, WholeUnlessWrittenInPlace
<1>11. Ahead'
  <2>1. /\ \A x, y \in todo : y \in Subtree[x] => x = y
        /\ \A x \in todo : \A q \in Subtree[x] : entry[q] = Nothing
        /\ \A x \in Path : Kind(entry[x]) \in {"file", "link"} =>
               \A q \in Subtree[x] \ {x} : entry[q] = Nothing /\ q \notin todo
    BY <1>4 DEF ArchiveInv, Ahead
  <2>2. \A c \in Children(disk, p) :
            /\ c \in Path /\ c \in Subtree[p] /\ c # p
            /\ \A q \in Path : c \in Subtree[q] => q = c \/ p \in Subtree[q]
    BY <1>7, ChildrenBelow
  <2>3. \A x, y \in Pending' : y \in Subtree[x] => x = y
    <3> SUFFICES ASSUME NEW x \in Pending', NEW y \in Pending', y \in Subtree[x]
                 PROVE  x = y
      OBVIOUS
    <3>1. CASE y \in todo \ {p} /\ x \in todo \ {p}
      BY <2>1, <3>1
    <3>2. CASE y \in todo \ {p} /\ x \in Children(disk, p)
      BY <1>7, <2>1, <2>2, <3>2
    <3>3. CASE y \in Children(disk, p) /\ x \in todo \ {p}
      BY <1>7, <2>1, <2>2, <3>3
    <3>4. CASE y \in Children(disk, p) /\ x \in Children(disk, p)
      BY <2>2, <3>4
    <3> QED BY <1>4, <3>1, <3>2, <3>3, <3>4
  <2>4. \A x \in Pending' : \A q \in Subtree[x] : entry'[q] = Nothing
    <3> SUFFICES ASSUME NEW x \in Pending', NEW q \in Subtree[x]
                 PROVE  entry'[q] = Nothing
      OBVIOUS
    <3>1. CASE x \in todo \ {p}
      BY <1>5, <1>7, <2>1, <3>1
    <3>2. CASE x \in Children(disk, p)
      BY <1>5, <1>7, <2>2, <3>2
    <3> QED BY <1>4, <3>1, <3>2
  <2>5. \A x \in Path : Kind(entry'[x]) \in {"file", "link"} =>
            \A q \in Subtree[x] \ {x} : entry'[q] = Nothing /\ q \notin Pending'
    <3> SUFFICES ASSUME NEW x \in Path, Kind(entry'[x]) \in {"file", "link"},
                        NEW q \in Subtree[x] \ {x}
                 PROVE  entry'[q] = Nothing /\ q \notin Pending'
      OBVIOUS
    <3>1. x # p /\ entry'[x] = entry[x] /\ entry[x] # Nothing
      BY <1>2, <1>5, NodeKinds
    <3>2. q # p /\ entry[q] = Nothing /\ q \notin todo
      BY <1>7, <2>1, <3>1
    <3>3. q \notin Children(disk, p)
      BY <1>7, <2>1, <2>2, <3>1
    <3> QED BY <1>4, <1>5, <3>2, <3>3
  <2> QED BY <1>3, <2>3, <2>4, <2>5 DEF Ahead
<1>12. ReadingFits'
  BY <1>3 DEF ReadingFits
<1>13. \A x \in Pending' : Covered(x, configured')
  <2>1. ASSUME NEW x \in Children(disk, p) PROVE Covered(x, configured)
    BY <1>6, <1>7, ChildrenBelow DEF Covered, ArchiveInv, ArchiveTypeOK
  <2>2. ASSUME NEW x \in todo PROVE Covered(x, configured)
    BY <1>4 DEF ArchiveInv
  <2> QED BY <1>3, <1>4, <2>1, <2>2
<1>14. \A x \in Path : entry'[x] # Nothing => Kept(x) /\ Covered(x, configured')
  BY <1>3, <1>5, <1>6 DEF ArchiveInv
<1>15. \A x \in Path : Wanted(x)' => Accounted(x)'
  <2> SUFFICES ASSUME NEW x \in Path, Wanted(x)' PROVE Accounted(x)'
    OBVIOUS
  <2>1. Wanted(x) /\ Accounted(x)
    BY <1>3 DEF ArchiveInv, Wanted
  <2>2. CASE x = p
    BY <1>3, <1>5, <2>2 DEF Accounted
  <2>3. CASE x \in Subtree[p] \ {p}
    BY <1>4, <1>7, <2>1, <2>3, ChildrenBelow DEF Accounted, Wanted
  <2>4. CASE x \notin Subtree[p]
    BY <1>3, <1>4, <1>5, <2>1, <2>4 DEF Accounted
  <2> QED BY <2>2, <2>3, <2>4
<1>16. pc' = "walk" /\ ~Made'
  BY <1>3 DEF Made
<1> QED BY <1>9, <1>10, <1>11, <1>12, <1>13, <1>14, <1>15, <1>16 DEF ArchiveInv

LEMMA OpenFileKeeps ==
    ASSUME ArchiveInv, NEW p \in Path, OpenFile(p)
    PROVE  ArchiveInv'
<1>1. Visited(p)
  BY DEF OpenFile
<1>2. /\ UNCHANGED <<machineVars, configured, pc, warned, entry, twice>>
      /\ todo' = todo \ {p} /\ ~IsExcluded(p) /\ Kind(disk[p]) = "file"
      /\ reading' = [path |-> p, opened |-> disk[p][2], holds |-> disk[p][2],
                     named |-> TRUE]
  BY DEF OpenFile
<1>3. /\ disk' = disk /\ wrote' = wrote /\ inPlace' = inPlace /\ warned' = warned
      /\ configured' = configured /\ pc' = pc /\ pc = "walk"
      /\ entry' = entry /\ twice' = twice
  BY <1>1, <1>2 DEF machineVars, Visited
<1>4. disk[p][2] \in Body /\ disk[p] = File(disk[p][2])
  BY <1>1, <1>2, AtPath, NodeForms DEF ArchiveInv, ArchiveTypeOK
<1>5. reading' # NoFile
  BY <1>2 DEF NoFile
<1>6. Pending' = Pending /\ reading'.path = p
  BY <1>1, <1>2, <1>5, AtPath DEF Pending
<1>7. ArchiveTypeOK'
  BY <1>2, <1>3, <1>4 DEF ArchiveInv, ArchiveTypeOK, Tree
<1>8. Ahead'
  BY <1>2, <1>3, <1>6 DEF ArchiveInv, Ahead
<1>9. ReadingFits'
  <2>1. Kept(p)
    BY <1>2, KeptIsNotExcluded
  <2>2. /\ reading'.opened = disk[p][2] /\ reading'.holds = disk[p][2]
        /\ reading'.named = TRUE
    BY <1>2
  <2> QED BY <1>2, <1>3, <1>4, <1>6, <2>1, <2>2 DEF ReadingFits
<1>10. \A x \in Path : Wanted(x)' => Accounted(x)'
  BY <1>3, <1>6 DEF ArchiveInv, Wanted, Accounted
<1> QED
  BY <1>3, <1>6, <1>7, <1>8, <1>9, <1>10
     DEF ArchiveInv, WholeUnlessWrittenInPlace, Made


\* A file becomes another one or goes away; the descriptor may go with it.
LEMMA MachineWrites ==
    ASSUME ArchiveInv, NEW p \in Path, pc = "walk", Kind(disk[p]) = "file",
           NEW n \in Node, n = Nothing \/ n \in {File(b) : b \in Body},
           disk' = [disk EXCEPT ![p] = n], wrote' = wrote \cup {p},
           inPlace' = inPlace \/ inPlace' = inPlace \cup {p},
           UNCHANGED <<configured, pc, todo, warned, entry, twice>>,
           reading = NoFile => reading' = NoFile,
           reading # NoFile =>
               /\ reading'.path = reading.path /\ reading'.opened = reading.opened
               /\ reading'.holds \in Body /\ reading'.named \in BOOLEAN
               /\ reading' = [path |-> reading'.path, opened |-> reading'.opened,
                              holds |-> reading'.holds, named |-> reading'.named]
               /\ reading.path # p => reading' = reading
               /\ reading'.holds # reading.holds => p = reading.path /\ p \in inPlace'
    PROVE  ArchiveInv'
<1>1. /\ disk \in Tree /\ disk \in [Path -> Node]
      /\ \A q \in Path : Kind(disk[q]) = "file" => disk[q][2] \in Body
      /\ wrote \subseteq Path /\ inPlace \subseteq wrote
  BY DirectoriesAbove DEF ArchiveInv, ArchiveTypeOK
<1>2. /\ disk' \in [Path -> Node] /\ disk'[p] = n
      /\ \A q \in Path \ {p} : disk'[q] = disk[q]
  BY <1>1
<1>3. /\ n = Nothing \/ (Kind(n) = "file" /\ n[2] \in Body)
      /\ Kind(n) \in {"none", "file"} /\ disk[p] # Nothing
  BY NodeKinds
<1>4. disk' \in Tree
  <2> SUFFICES ASSUME NEW x \in Path, NEW y \in Subtree[x] \ {x}, disk'[y] # Nothing
               PROVE  Kind(disk'[x]) = "dir"
    BY <1>2 DEF Tree
  <2>1. disk[y] # Nothing /\ y \in Path
    BY <1>2, <1>3, Order
  <2>2. Kind(disk[x]) = "dir"
    BY <1>1, <2>1, DirectoriesAbove
  <2> QED BY <1>2, <2>2
<1>5. \A q \in Path : Kind(disk'[q]) = "file" => disk'[q][2] \in Body
  BY <1>1, <1>2, <1>3, NodeKinds
<1>6. CASE reading = NoFile
  <2>1. Pending' = Pending /\ reading' = reading
    BY <1>6 DEF Pending
  <2>2. ArchiveTypeOK'
    BY <1>1, <1>4, <1>5, <1>6, <2>1 DEF ArchiveInv, ArchiveTypeOK
  <2>3. Ahead' /\ ReadingFits'
    BY <1>6, <2>1 DEF ArchiveInv, Ahead, ReadingFits
  <2>4. \A x \in Path : Wanted(x)' => Accounted(x)'
    <3> SUFFICES ASSUME NEW x \in Path, Wanted(x)' PROVE Accounted(x)'
      OBVIOUS
    <3>1. x # p /\ Wanted(x) /\ disk'[x] = disk[x]
      BY <1>2 DEF Wanted
    <3> QED BY <2>1, <3>1 DEF ArchiveInv, Accounted
  <2> QED
    BY <2>1, <2>2, <2>3, <2>4 DEF ArchiveInv, WholeUnlessWrittenInPlace, Made
<1>7. CASE reading # NoFile
  <2>1. /\ reading.path \in Path /\ reading.opened \in Body /\ reading.holds \in Body
        /\ reading' # NoFile
    <3>1. reading.path \in Path /\ reading.opened \in Body /\ reading.holds \in Body
      BY <1>7 DEF ArchiveInv, ArchiveTypeOK
    <3>2. NoFile.opened = "none" /\ "none" \notin Body
      BY ArchiveAssumption DEF NoFile
    <3> QED BY <1>7, <3>1, <3>2
  <2>2. Pending' = Pending
    BY <1>7, <2>1 DEF Pending
  <2>3. ArchiveTypeOK'
    BY <1>1, <1>4, <1>5, <1>7, <2>1 DEF ArchiveInv, ArchiveTypeOK
  <2>4. Ahead'
    BY <1>7, <2>1, <2>2 DEF ArchiveInv, Ahead
  <2>5. ReadingFits'
    <3>1. /\ Kept(reading.path) /\ Kind(disk[reading.path]) \in {"file", "none"}
          /\ reading.path \notin wrote =>
                 disk[reading.path] = File(reading.opened) /\ reading.named
          /\ reading.holds # reading.opened => reading.path \in inPlace
      BY <1>7 DEF ArchiveInv, ReadingFits
    <3>2. CASE reading.path = p
      BY <1>2, <1>3, <1>7, <3>1, <3>2 DEF ReadingFits
    <3>3. CASE reading.path # p
      BY <1>2, <1>7, <2>1, <3>1, <3>3 DEF ReadingFits
    <3> QED BY <3>2, <3>3
  <2>6. \A x \in Path : Wanted(x)' => Accounted(x)'
    <3> SUFFICES ASSUME NEW x \in Path, Wanted(x)' PROVE Accounted(x)'
      OBVIOUS
    <3>1. x # p /\ Wanted(x) /\ disk'[x] = disk[x]
      BY <1>2 DEF Wanted
    <3> QED BY <2>2, <3>1 DEF ArchiveInv, Accounted
  <2> QED
    BY <2>2, <2>3, <2>4, <2>5, <2>6 DEF ArchiveInv, WholeUnlessWrittenInPlace, Made
<1> QED BY <1>6, <1>7

LEMMA RewriteKeeps ==
    ASSUME ArchiveInv, NEW p \in Path, NEW b \in Body, Rewrite(p, b)
    PROVE  ArchiveInv'
<1>1. /\ pc = "walk" /\ Kind(disk[p]) = "file"
      /\ disk' = [disk EXCEPT ![p] = File(b)]
      /\ wrote' = wrote \cup {p} /\ inPlace' = inPlace \cup {p}
      /\ reading' = IF reading.path = p /\ reading.named
                    THEN [reading EXCEPT !.holds = b] ELSE reading
      /\ UNCHANGED <<configured, pc, todo, warned, entry, twice>>
  BY DEF Rewrite
<1>2. File(b) \in Node
  BY NodesMade
<1>3. reading = NoFile => reading' = NoFile
  BY <1>1 DEF NoFile
<1>4. reading # NoFile =>
          /\ reading'.path = reading.path /\ reading'.opened = reading.opened
          /\ reading'.holds \in Body /\ reading'.named \in BOOLEAN
          /\ reading' = [path |-> reading'.path, opened |-> reading'.opened,
                         holds |-> reading'.holds, named |-> reading'.named]
          /\ reading.path # p => reading' = reading
          /\ reading'.holds # reading.holds => p = reading.path /\ p \in inPlace'
  BY <1>1 DEF ArchiveInv, ArchiveTypeOK
<1> QED BY <1>1, <1>2, <1>3, <1>4, MachineWrites

LEMMA ReplaceKeeps ==
    ASSUME ArchiveInv, NEW p \in Path,
           NEW n \in {Nothing} \cup {File(b) : b \in Body}, Replace(p, n)
    PROVE  ArchiveInv'
<1>1. /\ pc = "walk" /\ Kind(disk[p]) = "file"
      /\ disk' = [disk EXCEPT ![p] = n]
      /\ wrote' = wrote \cup {p} /\ inPlace' = inPlace
      /\ reading' = IF reading.path = p THEN [reading EXCEPT !.named = FALSE] ELSE reading
      /\ UNCHANGED <<configured, pc, todo, warned, entry, twice>>
  BY DEF Replace
<1>2. n \in Node /\ (n = Nothing \/ n \in {File(b) : b \in Body})
  BY NodesMade
<1>3. reading = NoFile => reading' = NoFile
  <2>1. NoFile.named = FALSE /\ DOMAIN NoFile = {"path", "opened", "holds", "named"}
    BY DEF NoFile
  <2>2. NoFile = [x \in DOMAIN NoFile |-> NoFile[x]]
    BY DEF NoFile
  <2>3. [NoFile EXCEPT !.named = FALSE] = NoFile
    BY <2>1, <2>2
  <2> QED BY <1>1, <2>3
<1>4. reading # NoFile =>
          /\ reading'.path = reading.path /\ reading'.opened = reading.opened
          /\ reading'.holds \in Body /\ reading'.named \in BOOLEAN
          /\ reading' = [path |-> reading'.path, opened |-> reading'.opened,
                         holds |-> reading'.holds, named |-> reading'.named]
          /\ reading.path # p => reading' = reading
          /\ reading'.holds # reading.holds => p = reading.path /\ p \in inPlace'
  BY <1>1 DEF ArchiveInv, ArchiveTypeOK
<1> QED BY <1>1, <1>2, <1>3, <1>4, MachineWrites

LEMMA ArchiveBeginsKeeps ==
    ASSUME ArchiveInv, NEW roots \in RootSets, ArchiveBegins(roots)
    PROVE  ArchiveInv'
<1>1. /\ pc \in {"idle", "failed"} /\ pc' = "walk"
      /\ configured' = roots /\ todo' = CleanAbsolutePaths(roots)
      /\ wrote' = {} /\ inPlace' = {}
      /\ entry' = [p \in Path |-> Nothing] /\ warned' = {} /\ twice' = {}
      /\ UNCHANGED <<disk, events, reading>>
  BY DEF ArchiveBegins
<1>2. reading' = NoFile /\ Pending' = CleanAbsolutePaths(roots)
  BY <1>1 DEF ArchiveInv, Pending
<1>3. roots \subseteq Path /\ roots \in SUBSET Path
  BY ArchiveAssumption
<1>4. \A p \in Path : entry'[p] = Nothing /\ Kind(entry'[p]) = "none"
  BY <1>1, NodeKinds
<1>5. ArchiveTypeOK'
  BY <1>1, <1>2, <1>3, RootsStand, NodesMade DEF ArchiveInv, ArchiveTypeOK
<1>6. twice' = {} /\ WholeUnlessWrittenInPlace'
  BY <1>1, <1>4 DEF WholeUnlessWrittenInPlace
<1>7. Ahead'
  BY <1>2, <1>3, <1>4, RootsStand, Order DEF Ahead
<1>8. ReadingFits'
  BY <1>2 DEF ReadingFits
<1>9. \A p \in Pending' : Covered(p, configured')
  BY <1>1, <1>2, <1>3, RootsStand, Order DEF Covered
<1>10. \A p \in Path : Wanted(p)' => Accounted(p)'
  BY <1>1, <1>2, <1>3, RootsStand DEF Wanted, Accounted
<1> QED BY <1>1, <1>2, <1>4, <1>5, <1>6, <1>7, <1>8, <1>9, <1>10 DEF ArchiveInv, Made

LEMMA ArchiveStopsKeeps ==
    ASSUME ArchiveInv, ArchiveFails \/ ArchiveEnds
    PROVE  ArchiveInv'
<1>1. CASE ArchiveFails
  <2>1. /\ UNCHANGED <<disk, wrote, inPlace, configured, todo, warned, entry, twice>>
        /\ pc' = "failed" /\ reading' = NoFile
    BY <1>1 DEF ArchiveFails, machineVars
  <2>2. Pending' \subseteq Pending
    BY <2>1 DEF Pending
  <2>3. ArchiveTypeOK'
    BY <2>1 DEF ArchiveInv, ArchiveTypeOK
  <2>4. Ahead' /\ ReadingFits'
    BY <2>1, <2>2 DEF ArchiveInv, Ahead, ReadingFits
  <2> QED BY <2>1, <2>2, <2>3, <2>4 DEF ArchiveInv, WholeUnlessWrittenInPlace, Made
<1>2. CASE ArchiveEnds
  <2>1. /\ UNCHANGED <<disk, wrote, inPlace, configured, todo, warned, entry, twice, reading>>
        /\ pc = "walk" /\ pc' = "made" /\ todo = {} /\ reading = NoFile
    BY <1>2 DEF ArchiveEnds, machineVars, jobVars
  <2>2. Pending' = Pending
    BY <2>1 DEF Pending
  <2>3. ArchiveTypeOK'
    BY <2>1 DEF ArchiveInv, ArchiveTypeOK
  <2>4. Ahead' /\ ReadingFits'
    BY <2>1, <2>2 DEF ArchiveInv, Ahead, ReadingFits
  <2>5. \A p \in Path : Wanted(p)' => Accounted(p)'
    BY <2>1, <2>2 DEF ArchiveInv, Wanted, Accounted
  <2> QED
    BY <2>1, <2>2, <2>3, <2>4, <2>5 DEF ArchiveInv, WholeUnlessWrittenInPlace, Made
<1> QED BY <1>1, <1>2

LEMMA ArchiveInitially == ArchiveInit => ArchiveInv
<1> SUFFICES ASSUME ArchiveInit PROVE ArchiveInv
  OBVIOUS
<1>1. /\ disk \in DiskTrees /\ wrote = {} /\ inPlace = {} /\ configured = {}
      /\ pc = "idle" /\ todo = {} /\ reading = NoFile /\ warned = {} /\ twice = {}
      /\ entry = [p \in Path |-> Nothing]
  BY DEF ArchiveInit
<1>2. \A p \in Path : entry[p] = Nothing /\ Kind(entry[p]) = "none"
  BY <1>1, NodeKinds
<1>3. Pending = {}
  BY <1>1 DEF Pending
<1>4. ArchiveTypeOK
  BY <1>1, ArchiveAssumption, NodesMade DEF ArchiveTypeOK
<1>5. WholeUnlessWrittenInPlace /\ Ahead /\ ReadingFits
  BY <1>1, <1>2, <1>3 DEF WholeUnlessWrittenInPlace, Ahead, ReadingFits
<1>6. \A p \in Path : ~Wanted(p)
  BY <1>1 DEF Wanted, Covered
<1> QED BY <1>1, <1>2, <1>3, <1>4, <1>5, <1>6 DEF ArchiveInv, Made

LEMMA ArchiveStep == ArchiveInv /\ ArchiveNext => ArchiveInv'
<1> SUFFICES ASSUME ArchiveInv, ArchiveNext PROVE ArchiveInv'
  OBVIOUS
<1>1. ASSUME NEW p \in Path, NEW b \in Body, Rewrite(p, b) PROVE ArchiveInv'
  BY <1>1, RewriteKeeps
<1>2. ASSUME NEW p \in Path, NEW n \in {Nothing} \cup {File(b) : b \in Body}, Replace(p, n)
      PROVE  ArchiveInv'
  BY <1>2, ReplaceKeeps
<1>3. ASSUME NEW p \in Path,
             \/ SkipPath(p) \/ WarnOfPath(p) \/ AddDirectory(p)
             \/ AddUnreadDirectory(p) \/ AddLink(p) \/ OpenFile(p)
      PROVE  ArchiveInv'
  BY <1>3, SkipPathKeeps, WarnOfPathKeeps, AddDirectoryKeeps, AddUnreadDirectoryKeeps,
     AddLinkKeeps, OpenFileKeeps
<1>4. ASSUME NEW roots \in RootSets, ArchiveBegins(roots) PROVE ArchiveInv'
  BY <1>4, ArchiveBeginsKeeps
<1>5. CASE CopyFile
  BY <1>5, CopyFileKeeps
<1>6. CASE ArchiveFails \/ ArchiveEnds
  BY <1>6, ArchiveStopsKeeps
<1> QED BY <1>1, <1>2, <1>3, <1>4, <1>5, <1>6 DEF ArchiveNext

\* Only the place of the agent changes, and the archive stays made.
LEMMA ArchiveUntouched ==
    ASSUME ArchiveInv, UNCHANGED <<machineVars, jobVars>>,
           \/ pc' = pc
           \/ Made /\ pc' \notin {"idle", "walk", "failed"}
    PROVE  ArchiveInv'
<1>1. UNCHANGED <<disk, wrote, inPlace, configured, todo, warned, entry, twice, reading>>
  BY DEF machineVars, jobVars
<1>2. Pending' = Pending
  BY <1>1 DEF Pending
<1>3. ArchiveTypeOK'
  BY <1>1 DEF ArchiveInv, ArchiveTypeOK
<1>4. Ahead' /\ ReadingFits' /\ WholeUnlessWrittenInPlace'
  BY <1>1, <1>2 DEF ArchiveInv, Ahead, ReadingFits, WholeUnlessWrittenInPlace
<1>5. \A p \in Path : (Wanted(p)' <=> Wanted(p)) /\ (Accounted(p)' <=> Accounted(p))
  BY <1>1, <1>2 DEF Wanted, Accounted
<1>6. /\ pc # "failed" => \A p \in Path : Wanted(p) => Accounted(p)
      /\ pc # "walk" => reading = NoFile
      /\ Made => todo = {}
      /\ \A p \in Pending : Covered(p, configured)
      /\ \A p \in Path : entry[p] # Nothing => Kept(p) /\ Covered(p, configured)
      /\ twice = {}
  BY DEF ArchiveInv
<1>7. pc' = pc \/ (pc # "failed" /\ pc # "walk" /\ Made /\ pc' # "walk" /\ pc' # "failed")
  BY DEF Made
<1>8. /\ pc' # "failed" => pc # "failed"
      /\ pc' # "walk" => (pc # "walk" \/ pc' = pc)
      /\ Made' => Made
  BY <1>7 DEF Made
<1>9. /\ pc' # "failed" => \A p \in Path : Wanted(p)' => Accounted(p)'
      /\ pc' # "walk" => reading' = NoFile
      /\ Made' => todo' = {}
  BY <1>1, <1>5, <1>6, <1>7, <1>8
<1> QED BY <1>1, <1>2, <1>3, <1>4, <1>6, <1>9 DEF ArchiveInv

-----------------------------------------------------------------------------
(* The restore.                                                             *)

LEMMA TheTop == /\ <<>> \in Path
                /\ \A p \in Path : p \in Subtree[<<>>]
                /\ \A p \in Path : Len(p) = 0 <=> p = <<>>
<1>1. \A p \in Path : SubSeq(p, 1, 0) \in Path /\ SubSeq(p, 1, 0) = <<>>
  BY ArchiveAssumption, PathsAreSequences
<1>2. <<>> \in Path
  BY <1>1, ArchiveAssumption
<1>3. \A p \in Path : Len(p) = 0 <=> p = <<>>
  BY PathsAreSequences
<1>4. \A p \in Path : p \in Subtree[<<>>]
  BY <1>2, SubtreeByIndex, PathsAreSequences
<1> QED BY <1>2, <1>3, <1>4

\* A tree that has the entries and the directories above them leads from each
\* path to every entry below it.
LEMMA WayDown ==
    ASSUME NEW tree,
           \A p \in Path \ {<<>>} :
               IF p \in Implied THEN Kind(tree[p]) = "dir" ELSE tree[p] = entry[p],
           NEW p \in Path, NEW q \in Subtree[p] \ {p}, entry[q] # Nothing
    PROVE  \E c \in Children(tree, p) : q \in Subtree[c]
<1>1. PICK c \in Subtree[p] : Len(c) = Len(p) + 1 /\ q \in Subtree[c]
  BY NextPlace
<1>2. c \in Path /\ c # <<>>
  BY <1>1, Order, PathsAreSequences
<1>3. tree[c] # Nothing
  <2>1. CASE c \in Implied
    BY <1>2, <2>1, NodeKinds
  <2>2. CASE c \notin Implied
    <3>1. entry[c] # Nothing
      BY <1>1, <1>2, <2>2 DEF Implied, Below
    <3> QED BY <1>2, <2>2, <3>1
  <2> QED BY <2>1, <2>2
<1> QED BY <1>1, <1>3 DEF Children

LEMMA ChildrenAreBelow ==
    ASSUME NEW tree, NEW p \in Path
    PROVE  \A c \in Children(tree, p) : c \in Path /\ c # <<>> /\ tree[c] # Nothing
<1>1. \A c \in Children(tree, p) :
          c \in Subtree[p] /\ Len(c) = Len(p) + 1 /\ tree[c] # Nothing
  BY DEF Children
<1> QED BY <1>1, Order, PathsAreSequences

\* What the restore leaves out, with all that is below, is the host's own.
LEMMA SkippedIsHostsOwn ==
    /\ \A p \in Path : ShouldSkipRestorePath(p) <=> p \in HostsOwn
    /\ \A p \in HostsOwn : \A q \in Subtree[p] : q \in HostsOwn
<1>1. \A p \in Path : ShouldSkipRestorePath(p) <=> p \in HostsOwn
  BY DEF ShouldSkipRestorePath, HostsOwn
<1>2. ASSUME NEW p \in HostsOwn, NEW q \in Subtree[p] PROVE q \in HostsOwn
  <2>1. /\ p \in Path /\ p # DockerRoot /\ p \notin Subtree[Volumes]
        /\ Covered(p, Protected \cup {DockerRoot})
    BY DEF HostsOwn
  <2>2. Protected \in SUBSET Path /\ \A e \in Protected : ~IsPrefix(e, Volumes)
    BY HostAssumption
  <2>3. /\ q # DockerRoot /\ q \notin Subtree[Volumes]
        /\ Covered(q, Protected \cup {DockerRoot})
    BY <2>1, <2>2, LeftOutBelow
  <2> QED BY <2>1, <2>3, Order DEF HostsOwn
<1> QED BY <1>1, <1>2

\* What the stage has at a path is in the archive or leads to what is.
LEMMA StagedIsArchived ==
    ASSUME StageFits, NEW p \in Path, p # <<>>, stage[p] # Nothing
    PROVE  /\ \E q \in Subtree[p] : entry[q] # Nothing
           /\ Kind(stage[p]) # "dir" => entry[p] = stage[p]
           /\ entry[p] # Nothing => entry[p] = stage[p]
<1>1. CASE p \in Implied
  BY <1>1, NodeKinds DEF StageFits, Implied, Below
<1>2. CASE p \notin Implied
  BY <1>2, Order DEF StageFits
<1> QED BY <1>1, <1>2

\* A step of the copy.
Due(p) == \/ \E q \in toCopy : p \in Subtree[q]
          \/ p = writing \/ p \in walked \/ Restored(p)

LEMMA CopyGoesOn ==
    ASSUME CopyInv, pc = "copy", UNCHANGED fixed,
           host' \in [Path -> Node], toCopy' \subseteq Path, walked' \subseteq Path,
           writing' \in Path, CopyFits',
           \A x \in Path : host'[x] # host[x] =>
               \/ x \notin HostsOwn /\ \E q \in Subtree[x] : entry[q] # Nothing
               \/ ThroughLink(x),
           \A x \in Path : host'[x] # host[x] /\ Kind(host'[x]) = "link" =>
               Kind(entry[x]) = "link",
           \A x \in Path \ ({<<>>} \cup HostsOwn) : entry[x] # Nothing => Due(x)'
    PROVE  CopyInv'
<1>1. /\ UNCHANGED <<machineVars, jobVars>> /\ pc' = "copy"
      /\ before' = before /\ stage' = stage /\ entry' = entry
  BY DEF fixed, jobVars
<1>2. ArchiveInv'
  BY <1>1, ArchiveUntouched DEF CopyInv
<1>3. ExtractionTypeOK'
  BY <1>1 DEF CopyInv, ExtractionTypeOK
<1>4. \A x \in Path : ThroughLink(x)' <=> ThroughLink(x)
  BY <1>1 DEF ThroughLink
<1>5. OnlyArchivedPathsChange'
  BY <1>1, <1>4 DEF CopyInv, OnlyArchivedPathsChange
<1>6. RestoredAsArchived' /\ Made'
  BY <1>1 DEF RestoredAsArchived, Made
<1>7. StageFits'
  BY <1>1 DEF CopyInv, StageFits, Implied, Below
<1>8. \A p \in Path : Kind(host'[p]) = "link" =>
          host'[p] = before'[p] \/ Kind(entry'[p]) = "link"
  BY <1>1 DEF CopyInv
<1> QED BY <1>1, <1>2, <1>3, <1>5, <1>6, <1>7, <1>8 DEF CopyInv, Due

\* What the copy knows.
LEMMA InTheCopy ==
    ASSUME CopyInv, pc = "copy"
    PROVE  /\ StageFits /\ CopyFits
           /\ stage \in [Path -> Node] /\ host \in [Path -> Node]
           /\ toCopy \subseteq Path /\ walked \subseteq Path /\ writing \in Path
           /\ \A x \in Path \ ({<<>>} \cup HostsOwn) : entry[x] # Nothing => Due(x)
           /\ \A p \in Path : Kind(entry[p]) \in {"file", "link"} =>
                  \A q \in Subtree[p] \ {p} : entry[q] = Nothing
BY DEF CopyInv, ExtractionTypeOK, Due, ArchiveInv, Ahead

LEMMA SkipRestoreKeeps ==
    ASSUME CopyInv, NEW p \in Path, SkipRestore(p)
    PROVE  CopyInv'
<1>1. /\ pc = "copy" /\ writing = <<>> /\ p \in toCopy /\ p \in HostsOwn
      /\ toCopy' = toCopy \ {p} /\ UNCHANGED fixed
      /\ host' = host /\ writing' = writing /\ walked' = walked
  BY SkippedIsHostsOwn DEF SkipRestore, Reached
<1>2. entry' = entry /\ before' = before /\ stage' = stage
  BY <1>1 DEF fixed, jobVars
<1>3. CopyFits'
  BY <1>1, <1>2, InTheCopy DEF CopyFits
<1>4. \A x \in Path \ ({<<>>} \cup HostsOwn) : entry[x] # Nothing => Due(x)'
  <2> SUFFICES ASSUME NEW x \in Path \ ({<<>>} \cup HostsOwn), entry[x] # Nothing
               PROVE  Due(x)'
    OBVIOUS
  <2>1. Due(x)
    BY <1>1, InTheCopy
  <2>2. x \notin Subtree[p]
    BY <1>1, SkippedIsHostsOwn
  <2>3. Restored(x) => Restored(x)'
    BY <1>1, <1>2 DEF Restored, ThroughLink
  <2> QED BY <1>1, <2>1, <2>2, <2>3 DEF Due
<1> QED BY <1>1, <1>3, <1>4, InTheCopy, CopyGoesOn

\* A path is written; everything archived elsewhere is as due as it was.
LEMMA DueElsewhere ==
    ASSUME NEW p \in Path, UNCHANGED <<entry, before>>,
           \A x \in Path \ {p} : host'[x] = host[x],
           NEW x \in Path, Due(x), x # p \/ ThroughLink(x),
           \A q \in toCopy : x \in Subtree[q] => \E c \in toCopy' : x \in Subtree[c],
           x = writing => x = writing',
           x \in walked => x \in walked'
    PROVE  Due(x)'
<1>1. ThroughLink(x) => ThroughLink(x)'
  BY DEF ThroughLink
<1>2. Restored(x) => Restored(x)'
  BY <1>1 DEF Restored
<1>3. ThroughLink(x) => Restored(x)'
  BY <1>1 DEF Restored
<1> QED BY <1>2, <1>3 DEF Due

LEMMA MakeDirectoryKeeps ==
    ASSUME CopyInv, NEW p \in Path, MakeDirectory(p)
    PROVE  CopyInv'
<1>1. /\ pc = "copy" /\ writing = <<>> /\ p \in toCopy /\ p \notin HostsOwn
      /\ Kind(stage[p]) = "dir" /\ UNCHANGED fixed
      /\ host' = IF host[p] = Nothing THEN [host EXCEPT ![p] = stage[p]] ELSE host
      /\ toCopy' = (toCopy \ {p}) \cup Children(stage, p)
      /\ writing' = writing /\ walked' = walked \cup {p}
  BY SkippedIsHostsOwn DEF MakeDirectory, Reached
<1>2. entry' = entry /\ before' = before /\ stage' = stage
  BY <1>1 DEF fixed, jobVars
<1>3. p # <<>> /\ StageFits /\ stage[p] \in Node /\ stage[p] # Nothing
  BY <1>1, InTheCopy, NodeKinds DEF CopyFits
<1>4. /\ host' \in [Path -> Node] /\ \A x \in Path \ {p} : host'[x] = host[x]
      /\ host'[p] \in {host[p], stage[p]}
  BY <1>1, <1>3, InTheCopy
<1>5. toCopy' \subseteq Path /\ walked' \subseteq Path /\ writing' \in Path
  BY <1>1, InTheCopy, ChildrenAreBelow
<1>6. CopyFits'
  BY <1>1, <1>2, <1>3, InTheCopy, ChildrenAreBelow DEF CopyFits
<1>7. \E q \in Subtree[p] : entry[q] # Nothing
  BY <1>3, StagedIsArchived
<1>8. \A x \in Path \ ({<<>>} \cup HostsOwn) : entry[x] # Nothing => Due(x)'
  <2> SUFFICES ASSUME NEW x \in Path \ ({<<>>} \cup HostsOwn), entry[x] # Nothing
               PROVE  Due(x)'
    OBVIOUS
  <2>1. Due(x)
    BY <1>1, InTheCopy
  <2>2. CASE x = p
    BY <1>1, <2>2 DEF Due
  <2>3. CASE x # p
    <3>1. ASSUME NEW q \in toCopy, x \in Subtree[q]
          PROVE  \E c \in toCopy' : x \in Subtree[c]
      <4>1. CASE q # p
        BY <1>1, <3>1, <4>1
      <4>2. CASE q = p
        <5>1. x \in Subtree[p] \ {p}
          BY <2>3, <3>1, <4>2
        <5>2. \E c \in Children(stage, p) : x \in Subtree[c]
          BY <1>3, <5>1, WayDown DEF StageFits
        <5> QED BY <1>1, <5>2
      <4> QED BY <4>1, <4>2
    <3> QED BY <1>1, <1>2, <1>4, <2>1, <2>3, <3>1, DueElsewhere
  <2> QED BY <2>2, <2>3
<1>9. \A x \in Path : host'[x] # host[x] => x = p /\ Kind(host'[x]) = "dir"
  BY <1>1, <1>4
<1> QED BY <1>1, <1>4, <1>5, <1>6, <1>7, <1>8, <1>9, CopyGoesOn

LEMMA PutLinkKeeps ==
    ASSUME CopyInv, NEW p \in Path, PutLink(p)
    PROVE  CopyInv'
<1>1. /\ pc = "copy" /\ writing = <<>> /\ p \in toCopy /\ p \notin HostsOwn
      /\ Kind(stage[p]) = "link" /\ UNCHANGED fixed
      /\ host' = [host EXCEPT ![p] = stage[p]]
      /\ toCopy' = toCopy \ {p} /\ writing' = writing /\ walked' = walked
  BY SkippedIsHostsOwn DEF PutLink, Reached
<1>2. entry' = entry /\ before' = before /\ stage' = stage
  BY <1>1 DEF fixed, jobVars
<1>3. p # <<>> /\ StageFits /\ stage[p] \in Node /\ stage[p] # Nothing
  BY <1>1, InTheCopy, NodeKinds DEF CopyFits
<1>4. /\ host' \in [Path -> Node] /\ \A x \in Path \ {p} : host'[x] = host[x]
      /\ host'[p] = stage[p]
  BY <1>1, <1>3, InTheCopy
<1>5. entry[p] = stage[p] /\ \A q \in Subtree[p] \ {p} : entry[q] = Nothing
  <2>1. entry[p] = stage[p]
    BY <1>1, <1>3, StagedIsArchived
  <2> QED BY <1>1, <2>1, InTheCopy
<1>6. CopyFits'
  BY <1>1, <1>2, InTheCopy DEF CopyFits
<1>7. \A x \in Path \ ({<<>>} \cup HostsOwn) : entry[x] # Nothing => Due(x)'
  <2> SUFFICES ASSUME NEW x \in Path \ ({<<>>} \cup HostsOwn), entry[x] # Nothing
               PROVE  Due(x)'
    OBVIOUS
  <2>1. Due(x)
    BY <1>1, InTheCopy
  <2>2. CASE x = p
    BY <1>2, <1>4, <1>5, <2>2 DEF Due, Restored
  <2>3. CASE x # p
    <3>1. x \notin Subtree[p]
      BY <1>5, <2>3
    <3>2. \A q \in toCopy : x \in Subtree[q] => \E c \in toCopy' : x \in Subtree[c]
      BY <1>1, <3>1
    <3> QED BY <1>1, <1>2, <1>4, <2>1, <2>3, <3>2, DueElsewhere
  <2> QED BY <2>2, <2>3
<1>8. p \in Subtree[p]
  BY Order
<1>9. \A x \in Path : host'[x] # host[x] => x = p
  BY <1>4
<1> QED BY <1>1, <1>3, <1>4, <1>5, <1>6, <1>7, <1>8, <1>9, InTheCopy, CopyGoesOn

\* Opening an archived file opens it, or the file a link of the host leads to.
LEMMA OpenedIsKnown ==
    ASSUME CopyInv, pc = "copy", NEW p \in Path, p \notin HostsOwn, p # <<>>,
           Kind(stage[p]) = "file"
    PROVE  /\ Opened(p) \in Path /\ entry[p] = stage[p]
           /\ \A q \in Subtree[p] \ {p} : entry[q] = Nothing
           /\ \/ Opened(p) = p /\ Kind(host[p]) # "link"
              \/ /\ Opened(p) # p /\ host[p] = before[p] /\ host[p] = Link(Opened(p))
                 /\ ThroughLink(Opened(p))
<1>1. StageFits /\ host[p] \in Node /\ before \in HostTrees
  BY InTheCopy DEF CopyInv, ExtractionTypeOK
<1>2. entry[p] = stage[p] /\ \A q \in Subtree[p] \ {p} : entry[q] = Nothing
  <2>1. entry[p] = stage[p]
    BY <1>1, NodeKinds, StagedIsArchived
  <2> QED BY <2>1, InTheCopy
<1>3. CASE Kind(host[p]) # "link"
  BY <1>2, <1>3 DEF Opened
<1>4. CASE Kind(host[p]) = "link"
  <2>1. Opened(p) = host[p][2] /\ host[p] = Link(Opened(p)) /\ Opened(p) \in Path
    BY <1>1, <1>4, NodeForms DEF Opened
  <2>2. host[p] = before[p]
    BY <1>2, <1>4 DEF CopyInv
  <2>3. Opened(p) # p
    BY <1>1, <1>4, <2>1, <2>2, HostAssumption
  <2>4. ThroughLink(Opened(p))
    BY <1>2, <2>1, <2>2 DEF ThroughLink
  <2> QED BY <1>2, <2>1, <2>2, <2>3, <2>4
<1> QED BY <1>3, <1>4

LEMMA OpenTargetKeeps ==
    ASSUME CopyInv, NEW p \in Path, OpenTarget(p)
    PROVE  CopyInv'
<1>1. /\ pc = "copy" /\ writing = <<>> /\ p \in toCopy /\ p \notin HostsOwn
      /\ Kind(stage[p]) = "file" /\ UNCHANGED fixed
      /\ host' = [host EXCEPT ![Opened(p)] = File("empty")]
      /\ toCopy' = toCopy \ {p} /\ writing' = p /\ walked' = walked
  BY SkippedIsHostsOwn DEF OpenTarget, Reached
<1>2. entry' = entry /\ before' = before /\ stage' = stage
  BY <1>1 DEF fixed, jobVars
<1>3. p # <<>> /\ StageFits
  BY <1>1, InTheCopy DEF CopyFits
<1>4. /\ Opened(p) \in Path /\ entry[p] = stage[p]
      /\ \A q \in Subtree[p] \ {p} : entry[q] = Nothing
      /\ Opened(p) = p \/ ThroughLink(Opened(p))
  BY <1>1, <1>3, OpenedIsKnown
<1>5. File("empty") \in Node /\ Kind(File("empty")) = "file" /\ entry[p] # Nothing
  BY <1>1, <1>4, NodesMade, NodeKinds
<1>6. /\ host' \in [Path -> Node] /\ host'[Opened(p)] = File("empty")
      /\ \A x \in Path \ {Opened(p)} : host'[x] = host[x]
  BY <1>1, <1>4, <1>5, InTheCopy
<1>7. CopyFits'
  BY <1>1, <1>2, InTheCopy DEF CopyFits
<1>8. \A x \in Path \ ({<<>>} \cup HostsOwn) : entry[x] # Nothing => Due(x)'
  <2> SUFFICES ASSUME NEW x \in Path \ ({<<>>} \cup HostsOwn), entry[x] # Nothing
               PROVE  Due(x)'
    OBVIOUS
  <2>1. Due(x)
    BY <1>1, InTheCopy
  <2>2. CASE x = p
    BY <1>1, <2>2 DEF Due
  <2>3. CASE x # p
    <3>1. x \notin Subtree[p]
      BY <1>4, <2>3
    <3>2. \A q \in toCopy : x \in Subtree[q] => \E c \in toCopy' : x \in Subtree[c]
      BY <1>1, <3>1
    <3>3. x # Opened(p) \/ ThroughLink(x)
      BY <1>4, <2>3
    <3> QED BY <1>1, <1>2, <1>3, <1>4, <1>6, <2>1, <3>2, <3>3, DueElsewhere
  <2> QED BY <2>2, <2>3
<1>9. p \in Subtree[p]
  BY Order
<1>10. \A x \in Path : host'[x] # host[x] =>
           x = Opened(p) /\ Kind(host'[x]) = "file"
  BY <1>5, <1>6
<1>11. \A x \in Path : host'[x] # host[x] =>
           \/ x \notin HostsOwn /\ \E q \in Subtree[x] : entry[q] # Nothing
           \/ ThroughLink(x)
  BY <1>1, <1>4, <1>5, <1>9, <1>10
<1>12. toCopy' \subseteq Path /\ walked' \subseteq Path /\ writing' \in Path
  BY <1>1, InTheCopy
<1>13. \A x \in Path : host'[x] # host[x] /\ Kind(host'[x]) = "link" =>
           Kind(entry[x]) = "link"
  BY <1>10
<1> QED BY <1>1, <1>6, <1>7, <1>8, <1>11, <1>12, <1>13, CopyGoesOn

LEMMA WriteTargetKeeps ==
    ASSUME CopyInv, WriteTarget
    PROVE  CopyInv'
<1> DEFINE p == writing
<1>1. /\ pc = "copy" /\ p # <<>> /\ p \in Path /\ p \notin HostsOwn
      /\ Kind(stage[p]) = "file" /\ UNCHANGED fixed
      /\ host' = [host EXCEPT ![Opened(p)] = stage[p]]
      /\ toCopy' = toCopy /\ writing' = <<>> /\ walked' = walked
  <2>1. /\ p # <<>> /\ UNCHANGED fixed
        /\ host' = [host EXCEPT ![Opened(p)] = stage[p]]
        /\ toCopy' = toCopy /\ writing' = <<>> /\ walked' = walked
    BY DEF WriteTarget
  <2>2. pc = "copy"
    BY <2>1 DEF CopyInv
  <2> QED BY <2>1, <2>2, InTheCopy DEF CopyFits
<1>2. entry' = entry /\ before' = before /\ stage' = stage
  BY <1>1 DEF fixed, jobVars
<1>3. StageFits /\ stage[p] \in Node
  BY <1>1, InTheCopy
<1>4. /\ Opened(p) \in Path /\ entry[p] = stage[p]
      /\ \/ Opened(p) = p
         \/ Opened(p) # p /\ host[p] = before[p] /\ host[p] = Link(Opened(p))
            /\ ThroughLink(Opened(p))
  <2> HIDE DEF p
  <2> QED BY <1>1, <1>3, OpenedIsKnown
<1>5. /\ host' \in [Path -> Node] /\ host'[Opened(p)] = stage[p]
      /\ \A x \in Path \ {Opened(p)} : host'[x] = host[x]
  BY <1>1, <1>3, <1>4, InTheCopy
<1>6. CopyFits'
  BY <1>1, <1>2, InTheCopy DEF CopyFits
<1>7. \A x \in Path \ ({<<>>} \cup HostsOwn) : entry[x] # Nothing => Due(x)'
  <2> SUFFICES ASSUME NEW x \in Path \ ({<<>>} \cup HostsOwn), entry[x] # Nothing
               PROVE  Due(x)'
    OBVIOUS
  <2>1. Due(x)
    BY <1>1, InTheCopy
  <2>2. CASE x = p
    <3>1. CASE Opened(p) = p
      BY <1>2, <1>4, <1>5, <2>2, <3>1 DEF Due, Restored
    <3>2. CASE Opened(p) # p
      <4>1. host'[p] = before'[p] /\ Kind(before'[p]) = "link" /\ Kind(entry'[p]) = "file"
        BY <1>1, <1>2, <1>4, <1>5, <3>2, NodeKinds
      <4> QED BY <2>2, <4>1 DEF Due, Restored
    <3> QED BY <3>1, <3>2
  <2>3. CASE x # p
    <3>1. x # Opened(p) \/ ThroughLink(x)
      BY <1>4, <2>3
    <3>2. \A q \in toCopy : x \in Subtree[q] => \E c \in toCopy' : x \in Subtree[c]
      BY <1>1
    <3>3. x \in walked => x \in walked'
      BY <1>1
    <3> HIDE DEF p
    <3>4. x = writing => x = writing'
      BY <2>3 DEF p
    <3> QED BY <1>2, <1>4, <1>5, <2>1, <3>1, <3>2, <3>3, <3>4, DueElsewhere
  <2> QED BY <2>2, <2>3
<1>8. \A x \in Path : host'[x] # host[x] =>
          x = Opened(p) /\ Kind(host'[x]) = "file"
  BY <1>1, <1>5
<1>9. entry[p] # Nothing /\ p \in Subtree[p]
  BY <1>1, <1>4, NodeKinds, Order
<1>10. \A x \in Path : host'[x] # host[x] =>
           \/ x \notin HostsOwn /\ \E q \in Subtree[x] : entry[q] # Nothing
           \/ ThroughLink(x)
  BY <1>1, <1>4, <1>8, <1>9
<1>11. toCopy' \subseteq Path /\ walked' \subseteq Path /\ writing' \in Path
  BY <1>1, InTheCopy, TheTop
<1>12. \A x \in Path : host'[x] # host[x] /\ Kind(host'[x]) = "link" =>
           Kind(entry[x]) = "link"
  BY <1>8
<1> QED BY <1>1, <1>5, <1>6, <1>7, <1>10, <1>11, <1>12, CopyGoesOn

LEMMA ApplyMetadataKeeps ==
    ASSUME CopyInv, NEW p \in Path, ApplyMetadata(p)
    PROVE  CopyInv'
<1>1. /\ pc = "copy" /\ writing = <<>> /\ p \in walked /\ UNCHANGED fixed
      /\ host' = [host EXCEPT ![p] = stage[p]]
      /\ toCopy' = toCopy /\ writing' = writing /\ walked' = walked \ {p}
  BY DEF ApplyMetadata
<1>2. entry' = entry /\ before' = before /\ stage' = stage
  BY <1>1 DEF fixed, jobVars
<1>3. /\ p # <<>> /\ p \notin HostsOwn /\ StageFits
      /\ stage[p] \in Node /\ Kind(stage[p]) = "dir" /\ stage[p] # Nothing
  BY <1>1, InTheCopy, NodeKinds DEF CopyFits
<1>4. /\ host' \in [Path -> Node] /\ \A x \in Path \ {p} : host'[x] = host[x]
      /\ host'[p] = stage[p]
  BY <1>1, <1>3, InTheCopy
<1>5. /\ \E q \in Subtree[p] : entry[q] # Nothing
      /\ entry[p] # Nothing => entry[p] = stage[p]
  BY <1>3, StagedIsArchived
<1>6. CopyFits'
  BY <1>1, <1>2, InTheCopy DEF CopyFits
<1>7. \A x \in Path \ ({<<>>} \cup HostsOwn) : entry[x] # Nothing => Due(x)'
  <2> SUFFICES ASSUME NEW x \in Path \ ({<<>>} \cup HostsOwn), entry[x] # Nothing
               PROVE  Due(x)'
    OBVIOUS
  <2>1. Due(x)
    BY <1>1, InTheCopy
  <2>2. CASE x = p
    BY <1>2, <1>4, <1>5, <2>2 DEF Due, Restored
  <2>3. CASE x # p
    BY <1>1, <1>2, <1>4, <2>1, <2>3, DueElsewhere
  <2> QED BY <2>2, <2>3
<1>8. \A x \in Path : host'[x] # host[x] => x = p /\ Kind(host'[x]) = "dir"
  BY <1>3, <1>4
<1> QED BY <1>1, <1>3, <1>4, <1>5, <1>6, <1>7, <1>8, InTheCopy, CopyGoesOn

\* A step that leaves the host alone and neither begins nor goes on copying.
LEMMA HostUntouched ==
    ASSUME CopyInv, ArchiveInv', ExtractionTypeOK',
           UNCHANGED <<entry, host, before>>, Made, Made', pc' # "copy",
           toCopy' = {}, writing' = <<>>, walked' = {}, RestoredAsArchived'
    PROVE  CopyInv'
<1>1. OnlyArchivedPathsChange'
  BY DEF CopyInv, OnlyArchivedPathsChange, ThroughLink
<1>2. \A p \in Path : Kind(host'[p]) = "link" =>
          host'[p] = before'[p] \/ Kind(entry'[p]) = "link"
  BY DEF CopyInv
<1> QED BY <1>1, <1>2 DEF CopyInv

LEMMA CopyEndsKeeps ==
    ASSUME CopyInv, CopyEnds
    PROVE  CopyInv'
<1>1. /\ pc = "copy" /\ toCopy = {} /\ writing = <<>> /\ walked = {} /\ pc' = "restored"
      /\ UNCHANGED <<machineVars, jobVars, extractionVars>>
  BY DEF CopyEnds
<1>2. /\ entry' = entry /\ host' = host /\ before' = before /\ stage' = stage
      /\ toCopy' = {} /\ writing' = <<>> /\ walked' = {}
  BY <1>1 DEF jobVars, extractionVars
<1>3. Made /\ Made' /\ pc' \notin {"idle", "walk", "failed"}
  BY <1>1 DEF Made
<1>4. ArchiveInv'
  BY <1>1, <1>3, ArchiveUntouched DEF CopyInv
<1>5. ExtractionTypeOK'
  BY <1>1, <1>2, TheTop DEF CopyInv, ExtractionTypeOK
<1>6. RestoredAsArchived'
  <2> SUFFICES ASSUME NEW p \in Path \ {<<>>}, entry[p] # Nothing, p \notin HostsOwn
               PROVE  Restored(p)
    BY <1>2 DEF RestoredAsArchived, Restored, ThroughLink
  <2>1. Due(p)
    BY <1>1, InTheCopy
  <2> QED BY <1>1, <2>1 DEF Due
<1> QED BY <1>1, <1>2, <1>3, <1>4, <1>5, <1>6, HostUntouched

LEMMA CopyStopsKeeps ==
    ASSUME CopyInv, CopyStops
    PROVE  CopyInv'
<1>1. /\ pc = "copy" /\ pc' = "stopped"
      /\ toCopy' = {} /\ writing' = <<>> /\ walked' = {}
      /\ UNCHANGED <<machineVars, jobVars, stage, host, before>>
  BY DEF CopyStops
<1>2. Made /\ Made' /\ pc' \notin {"idle", "walk", "failed"} /\ entry' = entry
  BY <1>1 DEF Made, jobVars
<1>3. ArchiveInv'
  BY <1>1, <1>2, ArchiveUntouched DEF CopyInv
<1>4. ExtractionTypeOK'
  BY <1>1, TheTop DEF CopyInv, ExtractionTypeOK
<1>5. RestoredAsArchived'
  BY <1>1 DEF RestoredAsArchived
<1> QED BY <1>1, <1>2, <1>3, <1>4, <1>5, HostUntouched

LEMMA ExtractArchiveKeeps ==
    ASSUME CopyInv, ExtractArchive
    PROVE  CopyInv'
<1>1. PICK mode \in [Implied -> UNION {ModesFor(p) : p \in Implied}] :
          /\ \A p \in Implied : mode[p] \in ModesFor(p)
          /\ stage' = [p \in Path |-> IF p \in Implied THEN Dir(mode[p]) ELSE entry[p]]
  BY DEF ExtractArchive
<1>2. /\ pc \in {"made", "stopped", "restored"} /\ pc' = "copy"
      /\ toCopy' = Children(stage', <<>>) /\ writing' = <<>> /\ walked' = {}
      /\ UNCHANGED <<machineVars, jobVars, host, before>>
  BY DEF ExtractArchive
<1>3. Made /\ Made' /\ pc' \notin {"idle", "walk", "failed"} /\ entry' = entry
  BY <1>2 DEF Made, jobVars
<1>4. ArchiveInv'
  BY <1>2, <1>3, ArchiveUntouched DEF CopyInv
<1>5. entry \in [Path -> Node]
  BY DEF CopyInv, ArchiveInv, ArchiveTypeOK
<1>6. \A p \in Implied : mode[p] \in Mode
  <2>1. \A q \in Path : ParentMode(q) \in Mode
    BY <1>5, NodeForms, HostAssumption DEF ParentMode
  <2>2. \A p \in Implied : Below(p) \subseteq Path
    BY Order DEF Below, Implied
  <2>3. \A p \in Implied : ModesFor(p) \subseteq Mode
    BY <2>1, <2>2 DEF ModesFor
  <2> QED BY <1>1, <2>3
<1>7. stage' \in [Path -> Node]
  BY <1>1, <1>5, <1>6, NodesMade
<1>8. \A p \in Path \ {<<>>} :
          IF p \in Implied THEN Kind(stage'[p]) = "dir" ELSE stage'[p] = entry[p]
  BY <1>1, NodeKinds
<1>9. StageFits'
  BY <1>3, <1>8 DEF StageFits, Implied, Below
<1>10. \A c \in toCopy' : c \in Path /\ c # <<>> /\ stage'[c] # Nothing
  BY <1>2, TheTop, ChildrenAreBelow
<1>11. ExtractionTypeOK' /\ CopyFits'
  <2>1. ExtractionTypeOK'
    BY <1>2, <1>7, <1>10, TheTop DEF CopyInv, ExtractionTypeOK
  <2>2. CopyFits'
    BY <1>2, <1>10 DEF CopyFits
  <2> QED BY <2>1, <2>2
<1>12. \A x \in Path \ {<<>>} : entry[x] # Nothing => \E c \in toCopy' : x \in Subtree[c]
  BY <1>2, <1>8, TheTop, WayDown
<1>13. OnlyArchivedPathsChange' /\ RestoredAsArchived'
  BY <1>2, <1>3 DEF CopyInv, OnlyArchivedPathsChange, ThroughLink, RestoredAsArchived
<1>14. \A p \in Path : Kind(host'[p]) = "link" =>
           host'[p] = before'[p] \/ Kind(entry'[p]) = "link"
  BY <1>2, <1>3 DEF CopyInv
<1> QED BY <1>2, <1>3, <1>4, <1>9, <1>11, <1>12, <1>13, <1>14 DEF CopyInv

\* While an archive is made nothing is restored.
LEMMA BackupKeeps ==
    ASSUME CopyInv, Backup
    PROVE  CopyInv'
<1>1. ArchiveInv' /\ UNCHANGED extractionVars
  BY ArchiveStep DEF CopyInv, Backup
<1>2. UNCHANGED <<stage, host, before, toCopy, writing, walked>>
  BY <1>1 DEF extractionVars
<1>3. reading # NoFile => pc = "walk"
  BY DEF CopyInv, ArchiveInv
<1>4. pc \in {"idle", "walk", "failed"} /\ pc' \in {"walk", "failed", "made"}
  BY <1>3 DEF Backup, ArchiveNext, Rewrite, Replace, SkipPath, WarnOfPath, AddDirectory,
              AddUnreadDirectory, AddLink, OpenFile, Visited, ArchiveBegins, CopyFile,
              ArchiveFails, ArchiveEnds
<1>5. host = before /\ toCopy = {} /\ writing = <<>> /\ walked = {}
  BY <1>4 DEF CopyInv, Made
<1>6. ExtractionTypeOK'
  BY <1>2 DEF CopyInv, ExtractionTypeOK
<1>7. OnlyArchivedPathsChange' /\ RestoredAsArchived'
  BY <1>2, <1>4, <1>5 DEF OnlyArchivedPathsChange, RestoredAsArchived
<1> QED BY <1>1, <1>2, <1>4, <1>5, <1>6, <1>7 DEF CopyInv

\* What is archived and copied, in every state.
THEOREM CopyInvariant == Spec => []CopyInv
<1>1. Init => CopyInv
  <2> SUFFICES ASSUME Init PROVE CopyInv
    OBVIOUS
  <2>1. /\ ArchiveInit /\ host \in HostTrees /\ before = host
        /\ stage = [p \in Path |-> Nothing]
        /\ toCopy = {} /\ writing = <<>> /\ walked = {}
    BY DEF Init
  <2>2. ArchiveInv /\ pc = "idle"
    BY <2>1, ArchiveInitially DEF ArchiveInit
  <2>3. ExtractionTypeOK
    BY <2>1, HostAssumption, NodesMade, TheTop DEF ExtractionTypeOK, Tree
  <2>4. OnlyArchivedPathsChange /\ RestoredAsArchived
    BY <2>1, <2>2 DEF OnlyArchivedPathsChange, RestoredAsArchived
  <2> QED BY <2>1, <2>2, <2>3, <2>4 DEF CopyInv
<1>2. CopyInv /\ [Next]_vars => CopyInv'
  <2> SUFFICES ASSUME CopyInv, [Next]_vars PROVE CopyInv'
    OBVIOUS
  <2>1. CASE Backup
    BY <2>1, BackupKeeps
  <2>2. CASE ExtractArchive
    BY <2>2, ExtractArchiveKeeps
  <2>3. ASSUME NEW p \in Path,
               \/ SkipRestore(p) \/ MakeDirectory(p) \/ PutLink(p)
               \/ OpenTarget(p) \/ ApplyMetadata(p)
        PROVE  CopyInv'
    BY <2>3, SkipRestoreKeeps, MakeDirectoryKeeps, PutLinkKeeps, OpenTargetKeeps,
       ApplyMetadataKeeps
  <2>4. CASE WriteTarget
    BY <2>4, WriteTargetKeeps
  <2>5. CASE CopyEnds \/ CopyStops
    BY <2>5, CopyEndsKeeps, CopyStopsKeeps
  <2>6. CASE UNCHANGED vars
    <3>1. UNCHANGED <<archiveVars, extractionVars>>
      BY <2>6 DEF vars
    <3>2. /\ UNCHANGED <<machineVars, jobVars, entry, pc>>
          /\ UNCHANGED <<stage, host, before, toCopy, writing, walked>>
      BY <3>1 DEF archiveVars, extractionVars, machineVars, jobVars
    <3>3. ArchiveInv'
      BY <3>2, ArchiveUntouched DEF CopyInv
    <3>4. ExtractionTypeOK'
      BY <3>2 DEF CopyInv, ExtractionTypeOK
    <3>5. OnlyArchivedPathsChange' /\ RestoredAsArchived'
      BY <3>2 DEF CopyInv, OnlyArchivedPathsChange, RestoredAsArchived, ThroughLink
    <3>6. /\ StageFits' <=> StageFits
          /\ CopyFits' <=> CopyFits
          /\ \A p \in Path : Restored(p)' <=> Restored(p)
      BY <3>2 DEF StageFits, Implied, Below, CopyFits, Restored, ThroughLink
    <3>7. Made' <=> Made
      BY <3>2 DEF Made
    <3> QED BY <3>2, <3>3, <3>4, <3>5, <3>6, <3>7 DEF CopyInv
  <2> QED BY <2>1, <2>2, <2>3, <2>4, <2>5, <2>6 DEF Next, Restore
<1> QED BY <1>1, <1>2, PTL DEF Spec

\* A made archive holds exactly what is to be kept under the roots, but for
\* what was written to and what a warning names; nothing is pending when the
\* walk is over, so that everything wanted is accounted for.
THEOREM ArchivesExactly == Spec => []ArchiveIsExact
<1>1. CopyInv => ArchiveIsExact
  <2> SUFFICES ASSUME CopyInv, Made PROVE ArchiveIsExact
    BY DEF ArchiveIsExact
  <2>1. pc # "failed" /\ Pending = {}
    BY DEF Made, CopyInv, ArchiveInv, Pending
  <2>2. \A p \in Path : entry[p] # Nothing => Kept(p) /\ Covered(p, configured)
    BY DEF CopyInv, ArchiveInv
  <2>3. \A p \in Path : Wanted(p) => entry[p] = disk[p] \/ Covered(p, warned)
    BY <2>1 DEF CopyInv, ArchiveInv, Accounted
  <2> QED BY <2>2, <2>3 DEF ArchiveIsExact, Wanted
<1> QED BY <1>1, CopyInvariant, PTL

\* No path has two entries: of what is still to be visited nothing is below
\* anything else, and nothing is archived there yet.
THEOREM ArchivesNothingTwice == Spec => []NothingTwice
<1>1. CopyInv => NothingTwice
  BY DEF CopyInv, ArchiveInv, NothingTwice
<1> QED BY <1>1, CopyInvariant, PTL

\* Only what is written in place is archived damaged: the open file is the one
\* its header is about, whatever has its name now.
THEOREM ArchivesWhole == Spec => []WholeUnlessWrittenInPlace
<1>1. CopyInv => WholeUnlessWrittenInPlace
  BY DEF CopyInv, ArchiveInv
<1> QED BY <1>1, CopyInvariant, PTL

\* A restore changes nothing of the host's own and nothing the archive does not
\* have, after any number of interrupted executions.
THEOREM ChangesOnlyArchived == Spec => []OnlyArchivedPathsChange
<1>1. CopyInv => OnlyArchivedPathsChange
  BY DEF CopyInv
<1> QED BY <1>1, CopyInvariant, PTL

\* A copy that ends has put everything in place: each archived path was below
\* one still to be copied, open, among the directories or restored.
THEOREM RestoresAsArchived == Spec => []RestoredAsArchived
<1>1. CopyInv => RestoredAsArchived
  BY DEF CopyInv
<1> QED BY <1>1, CopyInvariant, PTL

\* From one machine to the other: what was wanted is in the archive unless a
\* warning says otherwise, and what is in the archive is on the host.
THEOREM MigratesAsItWas == Spec => []MigratesWhatWasThere
<1>1. CopyInv => MigratesWhatWasThere
  <2> SUFFICES ASSUME CopyInv, pc = "restored", NEW p \in Path \ ({<<>>} \cup HostsOwn), Wanted(p)
               PROVE  \/ host[p] = disk[p] \/ Covered(p, warned) \/ ThroughLink(p)
                      \/ /\ Kind(disk[p]) = "file" /\ Kind(before[p]) = "link"
                         /\ host[p] = before[p]
    BY DEF MigratesWhatWasThere
  <2>1. Pending = {}
    BY DEF Made, CopyInv, ArchiveInv, Pending
  <2>2. entry[p] = disk[p] \/ Covered(p, warned)
    BY <2>1 DEF CopyInv, ArchiveInv, Accounted
  <2>3. CASE entry[p] = disk[p]
    <3>1. entry[p] # Nothing
      BY <2>3 DEF Wanted
    <3> QED BY <2>3, <3>1 DEF CopyInv, RestoredAsArchived
  <2> QED BY <2>2, <2>3
<1> QED BY <1>1, CopyInvariant, PTL

-----------------------------------------------------------------------------
(* Whose mode a restore changes.                                            *)

\* The copy begins below the root and no link of the host leads to it.
TopStands == host[<<>>] = before[<<>>]

LEMMA LinkedAreFiles ==
    ASSUME CopyInv, NEW p \in Path, ThroughLink(p)
    PROVE  Kind(before[p]) = "file"
<1>1. PICK q \in Path : before[q] = Link(p)
  BY DEF ThroughLink
<1>2. Kind(before[q]) = "link" /\ before[q][2] = p
  BY <1>1, NodesMade, NodeKinds DEF Link, Kind
<1>3. before \in HostTrees
  BY DEF CopyInv, ExtractionTypeOK
<1>4. Kind(before[before[q][2]]) = "file"
  BY <1>2, <1>3, HostAssumption
<1> QED BY <1>2, <1>4

LEMMA TopIsNotOpened ==
    ASSUME CopyInv, pc = "copy", NEW p \in Path, p \notin HostsOwn, p # <<>>,
           Kind(stage[p]) = "file"
    PROVE  Opened(p) # <<>>
<1>1. /\ Opened(p) \in Path
      /\ Opened(p) = p \/ (host[p] = before[p] /\ host[p] = Link(Opened(p)))
  BY OpenedIsKnown
<1> SUFFICES ASSUME Opened(p) = <<>>, before[p] = Link(<<>>) PROVE FALSE
  BY <1>1
<1>2. before \in HostTrees /\ before \in Tree
  BY HostAssumption DEF CopyInv, ExtractionTypeOK
<1>3. Kind(before[p]) = "link" /\ before[p][2] = <<>> /\ before[p] # Nothing
  BY <1>1, NodesMade, NodeKinds DEF Link, Kind
<1>4. Kind(before[<<>>]) = "file"
  BY <1>2, <1>3, HostAssumption
<1>5. Kind(before[<<>>]) = "dir"
  BY <1>2, <1>3, TheTop DEF Tree
<1> QED BY <1>4, <1>5

LEMMA TopStaysAlways == Spec => []TopStands
<1>1. Init => TopStands
  BY DEF Init, TopStands
<1>2. CopyInv /\ TopStands /\ [Next]_vars => TopStands'
  <2> SUFFICES ASSUME CopyInv, TopStands, [Next]_vars PROVE TopStands'
    OBVIOUS
  <2>1. ASSUME NEW p \in Path, p # <<>>, NEW n, host' = [host EXCEPT ![p] = n], before' = before
        PROVE  TopStands'
    BY <2>1, TheTop DEF TopStands, CopyInv, ExtractionTypeOK
  <2>2. ASSUME UNCHANGED <<host, before>> PROVE TopStands'
    BY <2>2 DEF TopStands
  <2>3. CASE Backup \/ UNCHANGED vars
    BY <2>2, <2>3 DEF Backup, vars, extractionVars
  <2>4. CASE ExtractArchive \/ CopyEnds \/ CopyStops
    BY <2>2, <2>4 DEF ExtractArchive, CopyEnds, CopyStops, extractionVars
  <2>5. ASSUME NEW p \in Path, SkipRestore(p) \/ MakeDirectory(p) \/ PutLink(p)
        PROVE  TopStands'
    <3>1. p # <<>>
      BY <2>5, InTheCopy DEF SkipRestore, MakeDirectory, PutLink, Reached, CopyFits
    <3> QED BY <2>1, <2>2, <2>5, <3>1 DEF SkipRestore, MakeDirectory, PutLink, fixed
  <2>6. ASSUME NEW p \in Path, OpenTarget(p) PROVE TopStands'
    <3>1. pc = "copy" /\ p # <<>> /\ p \notin HostsOwn /\ Kind(stage[p]) = "file"
      BY <2>6, InTheCopy, SkippedIsHostsOwn DEF OpenTarget, Reached, CopyFits
    <3>2. Opened(p) # <<>> /\ Opened(p) \in Path
      BY <3>1, TopIsNotOpened, OpenedIsKnown
    <3> QED BY <2>1, <2>6, <3>2 DEF OpenTarget, fixed
  <2>7. CASE WriteTarget
    <3>1. pc = "copy" /\ writing # <<>>
      BY <2>7 DEF WriteTarget, CopyInv
    <3>2. writing \in Path /\ writing \notin HostsOwn /\ Kind(stage[writing]) = "file"
      BY <3>1, InTheCopy DEF CopyFits
    <3>3. Opened(writing) # <<>> /\ Opened(writing) \in Path
      BY <3>1, <3>2, TopIsNotOpened, OpenedIsKnown
    <3> QED BY <2>1, <2>7, <3>3 DEF WriteTarget, fixed
  <2>8. ASSUME NEW p \in Path, ApplyMetadata(p) PROVE TopStands'
    <3>1. p # <<>>
      BY <2>8, InTheCopy DEF ApplyMetadata, CopyFits
    <3> QED BY <2>1, <2>8, <3>1 DEF ApplyMetadata, fixed
  <2> QED BY <2>3, <2>4, <2>5, <2>6, <2>7, <2>8 DEF Next, Restore
<1> QED BY <1>1, <1>2, CopyInvariant, PTL DEF Spec

\* A directory of the host that is not in the archive loses its mode only if it
\* is above something that is: with roots whose parents are in the archive too
\* every directory keeps its own.
THEOREM ModesChangeAboveEntries ==
    Spec => [](/\ \A p \in Path \ Implied :
                     Kind(before[p]) = "dir" /\ entry[p] = Nothing => host[p] = before[p]
               /\ Implied = {} => DirectoriesKeepTheirModes)
<1>1. ASSUME CopyInv, TopStands, NEW p \in Path \ Implied, Kind(before[p]) = "dir",
             entry[p] = Nothing
      PROVE  host[p] = before[p]
  <2>1. CASE p = <<>>
    BY <1>1, <2>1 DEF TopStands
  <2>2. CASE p # <<>>
    <3> SUFFICES ASSUME host[p] # before[p] PROVE FALSE
      OBVIOUS
    <3>1. \A q \in Subtree[p] : entry[q] = Nothing
      BY <1>1, <2>2 DEF Implied, Below
    <3>2. ThroughLink(p)
      BY <1>1, <3>1 DEF CopyInv, OnlyArchivedPathsChange
    <3> QED BY <1>1, <3>2, LinkedAreFiles
  <2> QED BY <2>1, <2>2
<1>2. CopyInv /\ TopStands =>
        /\ \A p \in Path \ Implied :
              Kind(before[p]) = "dir" /\ entry[p] = Nothing => host[p] = before[p]
        /\ Implied = {} => DirectoriesKeepTheirModes
  BY <1>1 DEF DirectoriesKeepTheirModes
<1> QED BY <1>2, CopyInvariant, TopStaysAlways, PTL

\* The directories above entries: the stage has them with a mode ModesFor gives,
\* and each of them is still to be copied or has that mode.
AboveDue(x) ==
    \/ \E q \in toCopy : x \in Subtree[q]
    \/ x \in walked \/ host[x] = stage[x] \/ ThroughLink(x)

AboveFits ==
    pc \in {"copy", "restored"} =>
        /\ \A x \in Implied : \E mode \in ModesFor(x) : stage[x] = Dir(mode)
        /\ \A x \in Implied \ HostsOwn :
               IF pc = "copy" THEN AboveDue(x) ELSE host[x] = stage[x] \/ ThroughLink(x)

\* The way down leads to a directory above an entry as it does to the entry.
LEMMA WayDownAbove ==
    ASSUME NEW tree,
           \A p \in Path \ {<<>>} :
               IF p \in Implied THEN Kind(tree[p]) = "dir" ELSE tree[p] = entry[p],
           NEW p \in Path, NEW x \in Implied, x \in Subtree[p] \ {p}
    PROVE  \E c \in Children(tree, p) : x \in Subtree[c]
<1>1. PICK q \in Subtree[x] \ {x} : entry[q] # Nothing
  BY DEF Implied, Below
<1>2. x \in Path /\ entry[x] = Nothing
  BY DEF Implied
<1>3. PICK c \in Subtree[p] : Len(c) = Len(p) + 1 /\ x \in Subtree[c]
  BY NextPlace
<1>4. c \in Path /\ c # <<>> /\ q \in Subtree[c]
  BY <1>1, <1>2, <1>3, Order, PathsAreSequences
<1>5. c = x \/ q # c
  BY <1>1, <1>2, <1>3, <1>4, Order
<1>6. tree[c] # Nothing
  <2>1. CASE c \in Implied
    BY <1>4, <2>1, NodeKinds
  <2>2. CASE c \notin Implied
    <3>1. entry[c] # Nothing
      BY <1>1, <1>4, <1>5, <2>2 DEF Implied, Below
    <3> QED BY <1>4, <2>2, <3>1
  <2> QED BY <2>1, <2>2
<1> QED BY <1>3, <1>6 DEF Children

\* A step of the copy that writes p and leaves the rest as due as it was.
LEMMA AboveGoesOn ==
    ASSUME CopyInv, AboveFits, pc = "copy", UNCHANGED fixed, NEW p \in Path,
           \A x \in Path \ {p} : host'[x] = host[x] \/ ThroughLink(x),
           \A x \in Implied \ HostsOwn : x # p /\ x \in walked => x \in walked',
           \A x \in Implied \ HostsOwn : x # p => \A q \in toCopy :
               x \in Subtree[q] => \E c \in toCopy' : x \in Subtree[c],
           p \in Implied \ HostsOwn => AboveDue(p)'
    PROVE  AboveFits'
<1>1. /\ entry' = entry /\ before' = before /\ stage' = stage /\ pc' = pc
  BY DEF fixed, jobVars
<1>2. /\ Implied' = Implied
      /\ \A x : ModesFor(x)' = ModesFor(x)
      /\ \A x : ThroughLink(x)' <=> ThroughLink(x)
  BY <1>1 DEF Implied, Below, ModesFor, ParentMode, ThroughLink
<1>3. \A x \in Implied : \E mode \in ModesFor(x)' : stage'[x] = Dir(mode)
  BY <1>1, <1>2 DEF AboveFits
<1>4. ASSUME NEW x \in Implied \ HostsOwn PROVE AboveDue(x)'
  <2>1. x \in Path /\ AboveDue(x)
    BY DEF AboveFits, Implied
  <2>2. CASE x = p
    BY <1>4, <2>2
  <2>3. CASE x # p
    BY <1>1, <1>2, <2>1, <2>3 DEF AboveDue
  <2> QED BY <2>2, <2>3
<1> QED BY <1>1, <1>2, <1>3, <1>4 DEF AboveFits

LEMMA AboveStep ==
    ASSUME CopyInv, AboveFits, [Next]_vars
    PROVE  AboveFits'
<1>1. ASSUME NEW p \in Path, SkipRestore(p) PROVE AboveFits'
  <2>1. /\ pc = "copy" /\ p \in HostsOwn /\ UNCHANGED fixed /\ host' = host /\ walked' = walked
        /\ toCopy' = toCopy \ {p}
    BY <1>1, SkippedIsHostsOwn DEF SkipRestore, Reached
  <2>2. \A x \in Implied \ HostsOwn : x \notin Subtree[p] /\ x # p
    BY <2>1, SkippedIsHostsOwn
  <2> QED BY <2>1, <2>2, AboveGoesOn
<1>2. ASSUME NEW p \in Path, MakeDirectory(p) PROVE AboveFits'
  <2>1. /\ pc = "copy" /\ p \in toCopy /\ UNCHANGED fixed
        /\ \A x \in Path \ {p} : host'[x] = host[x]
        /\ toCopy' = (toCopy \ {p}) \cup Children(stage, p) /\ walked' = walked \cup {p}
    BY <1>2, InTheCopy DEF MakeDirectory, Reached
  <2>2. ASSUME NEW x \in Implied \ HostsOwn, x # p, NEW q \in toCopy, x \in Subtree[q]
        PROVE  \E c \in toCopy' : x \in Subtree[c]
    <3>1. CASE q # p
      BY <2>1, <2>2, <3>1
    <3>2. CASE q = p
      <4>1. StageFits
        BY <2>1, InTheCopy
      <4>2. \E c \in Children(stage, p) : x \in Subtree[c]
        BY <2>2, <3>2, <4>1, WayDownAbove DEF StageFits
      <4> QED BY <2>1, <4>2
    <3> QED BY <3>1, <3>2
  <2>3. p \in Implied \ HostsOwn => AboveDue(p)'
    BY <2>1 DEF AboveDue
  <2> QED BY <2>1, <2>2, <2>3, AboveGoesOn
<1>3. ASSUME NEW p \in Path, p \in toCopy, pc = "copy", UNCHANGED fixed, p \notin HostsOwn,
             Kind(stage[p]) \in {"file", "link"}, NEW y \in Path, y = p \/ ThroughLink(y),
             \A x \in Path \ {y} : host'[x] = host[x],
             toCopy' = toCopy \ {p}, walked' = walked
      PROVE  AboveFits'
  <2>1. p # <<>> /\ StageFits
    BY <1>3, InTheCopy DEF CopyFits
  <2>2. entry[p] = stage[p] /\ p \notin Implied
    BY <1>3, <2>1 DEF StageFits
  <2>3. ASSUME NEW x \in Implied PROVE x \notin Subtree[p]
    <3> SUFFICES ASSUME x \in Subtree[p] PROVE FALSE
      OBVIOUS
    <3>1. PICK q \in Subtree[x] \ {x} : entry[q] # Nothing
      BY DEF Implied, Below
    <3>2. x # p /\ q \in Subtree[p] /\ q # p
      BY <2>2, <3>1, Order DEF Implied
    <3> QED BY <1>3, <2>2, <3>1, <3>2, InTheCopy
  <2> QED BY <1>3, <2>2, <2>3, AboveGoesOn
<1>4. ASSUME NEW p \in Path, PutLink(p) PROVE AboveFits'
  BY <1>3, <1>4, SkippedIsHostsOwn, InTheCopy DEF PutLink, Reached
<1>5. ASSUME NEW p \in Path, OpenTarget(p) PROVE AboveFits'
  <2>1. /\ pc = "copy" /\ p \in toCopy /\ p \notin HostsOwn /\ Kind(stage[p]) = "file"
        /\ UNCHANGED fixed /\ toCopy' = toCopy \ {p} /\ walked' = walked
        /\ host' = [host EXCEPT ![Opened(p)] = File("empty")]
    BY <1>5, SkippedIsHostsOwn DEF OpenTarget, Reached
  <2>2. Opened(p) \in Path /\ (Opened(p) = p \/ ThroughLink(Opened(p)))
    BY <2>1, InTheCopy, OpenedIsKnown DEF CopyFits
  <2>3. \A x \in Path \ {Opened(p)} : host'[x] = host[x]
    BY <2>1, InTheCopy
  <2> QED BY <1>3, <2>1, <2>2, <2>3
<1>6. CASE WriteTarget
  <2> DEFINE p == writing
  <2>1. /\ pc = "copy" /\ p # <<>> /\ UNCHANGED fixed /\ toCopy' = toCopy /\ walked' = walked
        /\ host' = [host EXCEPT ![Opened(p)] = stage[p]]
    BY <1>6 DEF WriteTarget, CopyInv
  <2>2. p \in Path /\ p \notin HostsOwn /\ Kind(stage[p]) = "file" /\ StageFits
    BY <2>1, InTheCopy DEF CopyFits
  <2>3. Opened(p) \in Path /\ (Opened(p) = p \/ ThroughLink(Opened(p)))
    BY <2>1, <2>2, OpenedIsKnown
  <2>4. \A x \in Path \ {Opened(p)} : host'[x] = host[x]
    BY <2>1, InTheCopy
  <2>5. p \notin Implied
    BY <2>1, <2>2 DEF StageFits
  <2> QED BY <2>1, <2>2, <2>3, <2>4, <2>5, AboveGoesOn
<1>7. ASSUME NEW p \in Path, ApplyMetadata(p) PROVE AboveFits'
  <2>1. /\ pc = "copy" /\ UNCHANGED fixed /\ host' = [host EXCEPT ![p] = stage[p]]
        /\ toCopy' = toCopy /\ walked' = walked \ {p} /\ stage' = stage
    BY <1>7 DEF ApplyMetadata, fixed
  <2>2. host'[p] = stage'[p] /\ \A x \in Path \ {p} : host'[x] = host[x]
    BY <2>1, InTheCopy
  <2> QED BY <2>1, <2>2, AboveGoesOn DEF AboveDue
<1>8. ASSUME UNCHANGED <<entry, before, stage, host, toCopy, walked, pc>> PROVE AboveFits'
  <2>1. /\ Implied' = Implied /\ (\A x : ModesFor(x)' = ModesFor(x))
        /\ (\A x : ThroughLink(x)' <=> ThroughLink(x))
    BY <1>8 DEF Implied, Below, ModesFor, ParentMode, ThroughLink
  <2> QED BY <1>8, <2>1 DEF AboveFits, AboveDue
<1>9. CASE CopyEnds
  <2>1. /\ UNCHANGED <<entry, before, stage, host>> /\ pc = "copy" /\ pc' = "restored"
        /\ toCopy = {} /\ walked = {}
    BY <1>9 DEF CopyEnds, jobVars, extractionVars
  <2>2. /\ Implied' = Implied /\ (\A x : ModesFor(x)' = ModesFor(x))
        /\ (\A x : ThroughLink(x)' <=> ThroughLink(x))
    BY <2>1 DEF Implied, Below, ModesFor, ParentMode, ThroughLink
  <2> QED BY <2>1, <2>2 DEF AboveFits, AboveDue
<1>10. CASE ExtractArchive
  <2>1. PICK mode \in [Implied -> UNION {ModesFor(p) : p \in Implied}] :
            /\ \A p \in Implied : mode[p] \in ModesFor(p)
            /\ stage' = [p \in Path |-> IF p \in Implied THEN Dir(mode[p]) ELSE entry[p]]
    BY <1>10 DEF ExtractArchive
  <2>2. pc' = "copy" /\ toCopy' = Children(stage', <<>>) /\ entry' = entry
    BY <1>10 DEF ExtractArchive, jobVars
  <2>3. Implied' = Implied /\ \A x : ModesFor(x)' = ModesFor(x)
    BY <2>2 DEF Implied, Below, ModesFor, ParentMode
  <2>4. \A p \in Path \ {<<>>} :
            IF p \in Implied THEN Kind(stage'[p]) = "dir" ELSE stage'[p] = entry[p]
    BY <2>1, NodeKinds
  <2>5. \A x \in Implied : \E c \in toCopy' : x \in Subtree[c]
    <3>1. \A x \in Implied : x \in Subtree[<<>>] \ {<<>>}
      BY TheTop DEF Implied
    <3> QED BY <2>2, <2>4, <3>1, TheTop, WayDownAbove
  <2>6. \A x \in Implied : x \in Path
    BY DEF Implied
  <2> QED BY <2>1, <2>2, <2>3, <2>5, <2>6 DEF AboveFits, AboveDue
<1>11. CASE CopyStops
  BY <1>11 DEF CopyStops, AboveFits
<1>12. CASE Backup
  <2>1. pc' \notin {"copy", "restored"}
    <3>1. ASSUME NEW p \in Path,
                 \/ \E b \in Body : Rewrite(p, b)
                 \/ \E n \in {Nothing} \cup {File(b) : b \in Body} : Replace(p, n)
          PROVE  pc' = "walk"
      BY <3>1 DEF Rewrite, Replace
    <3>2. ASSUME NEW p \in Path, SkipPath(p) \/ WarnOfPath(p) \/ AddDirectory(p)
                                 \/ AddUnreadDirectory(p) \/ AddLink(p) \/ OpenFile(p)
          PROVE  pc' = "walk"
      BY <3>2 DEF SkipPath, WarnOfPath, AddDirectory, AddUnreadDirectory, AddLink, OpenFile,
                  Visited
    <3>3. ASSUME CopyFile PROVE pc' = "walk"
      BY <3>3 DEF CopyFile, CopyInv, ArchiveInv
    <3>4. ASSUME NEW roots, ArchiveBegins(roots) PROVE pc' = "walk"
      BY <3>4 DEF ArchiveBegins
    <3>5. CASE ArchiveFails \/ ArchiveEnds
      BY <3>5 DEF ArchiveFails, ArchiveEnds
    <3> QED BY <1>12, <3>1, <3>2, <3>3, <3>4, <3>5 DEF Backup, ArchiveNext
  <2> QED BY <2>1 DEF AboveFits
<1>13. CASE UNCHANGED vars
  BY <1>8, <1>13 DEF vars, archiveVars, extractionVars
<1> QED BY <1>1, <1>2, <1>4, <1>5, <1>6, <1>7, <1>9, <1>10, <1>11, <1>12, <1>13 DEF Next, Restore

\* And those above an entry, if they are not the host's own, do lose it: their
\* mode is the one the archive's reader made a missing parent with.
THEOREM ModesAboveAreReplaced ==
    Spec => [](pc = "restored" => \A p \in Implied \ HostsOwn :
                  Kind(before[p]) = "dir" => \E mode \in ModesFor(p) : host[p] = Dir(mode))
<1>1. Init => AboveFits
  BY DEF Init, ArchiveInit, AboveFits
<1>2. ASSUME CopyInv, AboveFits, pc = "restored", NEW p \in Implied \ HostsOwn,
             Kind(before[p]) = "dir"
      PROVE  \E mode \in ModesFor(p) : host[p] = Dir(mode)
  <2>1. ~ThroughLink(p)
    BY <1>2, LinkedAreFiles DEF Implied
  <2>2. host[p] = stage[p]
    BY <1>2, <2>1 DEF AboveFits
  <2> QED BY <1>2, <2>2 DEF AboveFits
<1>3. CopyInv /\ AboveFits /\ [Next]_vars => AboveFits'
  BY AboveStep
<1>4. CopyInv /\ AboveFits => (pc = "restored" => \A p \in Implied \ HostsOwn :
          Kind(before[p]) = "dir" => \E mode \in ModesFor(p) : host[p] = Dir(mode))
  BY <1>2
<1> QED BY <1>1, <1>3, <1>4, CopyInvariant, PTL DEF Spec

=============================================================================
