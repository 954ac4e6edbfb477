------------------------------ MODULE WebDAV ------------------------------
(***************************************************************************)
(* What internal/webdav asks of a server and how it adds up the answers.   *)
(*                                                                         *)
(* A path is the sequence of its parts.  The client's names are paths      *)
(* below the repository's URL: requestDepthSize puts base before each of   *)
(* them.  The hrefs of a PROPFIND response are paths from the root of the  *)
(* server.  The tree does not change while it is read, and every file      *)
(* counts as one; bytes are added up in the same places.                   *)
(***************************************************************************)
EXTENDS Integers, Sequences, FiniteSets

CONSTANT Base   \* the path in the repository's URL, <<>> if it has none

\* The collections of a server that holds the directories dirs of a repository.
Collections(dirs) == {Base \o d : d \in dirs \cup {<<>>}}

Within(p, q) == Len(p) <= Len(q) /\ SubSeq(q, 1, Len(p)) = p

\* The collections a PROPFIND with Depth 1 for p lists: p itself and those in it.
Listed(p, dirs) ==
    {q \in Collections(dirs) : Within(p, q) /\ Len(q) <= Len(p) + 1}

FilesAt(p, place) == {f \in DOMAIN place : Base \o place[f] = p}

\* MkdirAll asks for one collection after the other; 405 and 409 are no errors.
Prefixes(d) == {SubSeq(d, 1, n) : n \in 1..Len(d)}

-----------------------------------------------------------------------------
(* Usage.  A walk holds the names it still has to visit, the names it saw,  *)
(* how many files it counted and whether a request was refused.             *)

WalkBegins == [queue |-> {<<>>}, seen |-> {<<>>}, files |-> 0, failed |-> FALSE]

\* Mutant: a directory is queued again by its own listing, and counted again.
VisitAgain(w, dirs, place) ==
    LET name == CHOOSE p \in w.queue : TRUE
        at   == Base \o name
        new  == Listed(at, dirs) \ {<<>>} IN
    [queue  |-> (w.queue \ {name}) \cup new,
     seen   |-> w.seen \cup new,
     files  |-> w.files + Cardinality(FilesAt(at, place)),
     failed |-> FALSE]

\* One PROPFIND.  What it lists is queued by its href, as the code does.
Visit(w, dirs, place) ==
    LET name == CHOOSE p \in w.queue : TRUE
        at   == Base \o name
        new  == Listed(at, dirs) \ (w.seen \cup {<<>>}) IN
    IF at \notin Collections(dirs)
    THEN [w EXCEPT !.failed = TRUE]
    ELSE [queue  |-> (w.queue \ {name}) \cup new,
          seen   |-> w.seen \cup new,
          files  |-> w.files + Cardinality(FilesAt(at, place)),
          failed |-> FALSE]

\* Every name is visited once: a walk is over after as many steps as there are names.
UsageWalk(dirs, place) ==
    LET walk[n \in 0..(Cardinality(dirs) + 2)] ==
            IF n = 0 THEN WalkBegins
            ELSE IF walk[n - 1].queue = {} \/ walk[n - 1].failed THEN walk[n - 1]
            ELSE Visit(walk[n - 1], dirs, place) IN
    walk[Cardinality(dirs) + 2]

\* The panel's answer: one request where the server takes Depth infinity, the
\* walk where it does not.
Usage(deep, dirs, place) ==
    IF deep THEN [failed |-> FALSE, files |-> Cardinality(DOMAIN place)]
    ELSE LET w == UsageWalk(dirs, place) IN [failed |-> w.failed, files |-> w.files]
===========================================================================
