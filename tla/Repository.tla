---------------------------- MODULE Repository ----------------------------
(***************************************************************************)
(* Where the archives are: the objects of a WebDAV repository, the index   *)
(* entries of the controller that name them, and the results in the        *)
(* agents' results.json that will.  An agent uploads while it executes a   *)
(* command, and every upload has a name of its own; the controller lists   *)
(* the object when the result arrives; an administrator's request removes  *)
(* the object first and its entry afterwards.                              *)
(*                                                                         *)
(* The host's loop is Agent's.  Of the controller this module has the      *)
(* queue as far as it matters here: a command leaves it once, recorded or  *)
(* withdrawn (Controller has the details).  Two hosts may execute the same *)
(* command, as after a takeover of the node; which of them the controller  *)
(* still listens to is left open.                                          *)
(***************************************************************************)
EXTENDS Agent, WebDAV

CONSTANTS
    NoObject,   \* a result without a backup
    Request     \* requests for a deletion that may be in progress at once

ASSUME RepositoryAssumption ==
    /\ NoResult # "success"
    /\ NoObject \notin [host : Host, cmd : Command, run : Nat]

VARIABLES
    dirs,       \* directories of the repository
    stored,     \* objects in it
    broken,     \* stored objects that are not what was sent
    name,       \* the object named by what each host has in memory
    saved,      \* the object named by each result in results.json
    out,        \* commands that left the controller's queue
    entry,      \* the object of each command's index entry
    listed,     \* commands whose entry is in the index
    handler,    \* each request: the entry it deletes and how far it is
    begun       \* commands whose object a DELETE was sent for

hostVars == <<name, saved>>
davVars  == <<dirs, stored, broken>>
ctlVars  == <<out, entry, listed>>
delVars  == <<handler, begun>>
repositoryVars == <<agentVars, hostVars, davVars, ctlVars, delVars>>

Object == [host : Host, cmd : Command, run : Nat]

Idle == [step |-> "idle"]
Deletion == {Idle} \cup [step : {"remove", "commit"}, cmd : Command]

RepositoryInit ==
    /\ AgentInit
    /\ dirs = {} /\ stored = {} /\ broken = {}
    /\ name = [h \in Host |-> NoObject]
    /\ saved = [h \in Host |-> [c \in Command |-> NoObject]]
    /\ out = {}
    /\ entry = [c \in Command |-> NoObject]
    /\ listed = {}
    /\ handler = [t \in Request |-> Idle]
    /\ begun = {}

-----------------------------------------------------------------------------
(* The agent.                                                               *)

\* The directory of a node below the repository's base path.  (The plan's
\* directory in it would only make the path longer.)
Folder(h) == <<"backups", h>>

Drop(h) == name' = [name EXCEPT ![h] = NoObject] /\ UNCHANGED saved

\* The queue holds c.
Receive(h, c) ==
    /\ c \notin out /\ PollReceives(h, c)
    /\ UNCHANGED <<hostVars, davVars, ctlVars, delVars>>

\* MkdirAll: MKCOL for the next part of the path.
MakeDirectory(h) ==
    /\ phase[h] = "execute" /\ name[h] = NoObject
    /\ \E d \in Prefixes(Folder(h)) :
          /\ Prefixes(d) \ {d} \subseteq dirs
          /\ dirs' = dirs \cup {d}
    /\ UNCHANGED <<agentVars, hostVars, stored, broken, ctlVars, delVars>>

\* PUT: what is stored afterwards need not be what was sent.
Upload(h) ==
    /\ phase[h] = "execute" /\ name[h] = NoObject /\ Folder(h) \in dirs
    /\ LET o == [host |-> h, cmd |-> cmd[h], run |-> runs[h][cmd[h]]] IN
          /\ stored' = stored \cup {o}
          /\ broken' \in {broken, broken \cup {o}}
          /\ name' = [name EXCEPT ![h] = o]
    /\ UNCHANGED <<agentVars, saved, dirs, ctlVars, delVars>>

\* Mutant: an acknowledged PUT is a backup.
BackupEndsUnread(h, s) ==
    /\ s = "success" => name[h] # NoObject
    /\ ExecuteEnds(h, s)
    /\ UNCHANGED <<hostVars, davVars, ctlVars, delVars>>

\* backup succeeds with an object it has read back, and may fail anywhere.
BackupEnds(h, s) ==
    /\ s = "success" => name[h] \in stored \ broken
    /\ ExecuteEnds(h, s)
    /\ UNCHANGED <<hostVars, davVars, ctlVars, delVars>>

SaveResult(h) ==
    /\ SaveResults(h)
    /\ saved' = [saved EXCEPT ![h][cmd[h]] =
                    IF result[h] = "success" THEN name[h] ELSE NoObject]
    /\ UNCHANGED <<name, davVars, ctlVars, delVars>>

ReportAgain(h) ==
    /\ SavedResult(h)
    /\ name' = [name EXCEPT ![h] = saved[h][cmd[h]]]
    /\ UNCHANGED <<saved, davVars, ctlVars, delVars>>

\* Steps of the loop that leave the repository and the index alone.
LoopGoesOn(h) ==
    /\ HeartbeatAccepted(h) \/ ExecuteBegins(h)
    /\ UNCHANGED <<hostVars, davVars, ctlVars, delVars>>

CycleEnds(h) ==
    /\ \/ PollEmpty(h) \/ LoadResultsFails(h) \/ SaveResultsFails(h)
       \/ ReportFails(h) \/ ClearResult(h) \/ ClearResultFails(h) \/ Crash(h)
    /\ Drop(h)
    /\ UNCHANGED <<davVars, ctlVars, delVars>>

-----------------------------------------------------------------------------
(* The controller: a command leaves the queue once.                         *)

Records(h) ==
    /\ cmd[h] \notin out
    /\ out' = out \cup {cmd[h]}
    /\ IF result[h] = "success"
       THEN /\ entry' = [entry EXCEPT ![cmd[h]] = name[h]]
            /\ listed' = listed \cup {cmd[h]}
       ELSE UNCHANGED <<entry, listed>>
    /\ UNCHANGED <<davVars, delVars>>

ResultRecorded(h) == ReportAcknowledged(h) /\ Records(h) /\ UNCHANGED hostVars

\* The result is recorded, the response does not arrive.
ResultAnswerLost(h) == ReportFails(h) /\ Records(h) /\ Drop(h)

\* Cancelled, expired, or taken away with its plan or node.
Withdraw(c) ==
    /\ c \notin out
    /\ out' = out \cup {c}
    /\ UNCHANGED <<agentVars, hostVars, davVars, entry, listed, delVars>>

-----------------------------------------------------------------------------
(* handleDeleteBackup: the entry is looked up in a snapshot, the object is  *)
(* deleted, then Update removes the entry.  Requests may overlap.           *)

DeleteBegins(t, c) ==
    /\ handler[t] = Idle /\ c \in listed
    /\ handler' = [handler EXCEPT ![t] = [step |-> "remove", cmd |-> c]]
    /\ UNCHANGED <<agentVars, hostVars, davVars, ctlVars, begun>>

InStep(t, c, step) == handler[t] = [step |-> step, cmd |-> c]

Deleted(c) ==
    /\ stored' = stored \ {entry[c]}
    /\ broken' = broken \ {entry[c]}
    /\ begun' = begun \cup {c}
    /\ UNCHANGED dirs

\* Mutant: an object that is not there is an error.
RemoveObjectOnce(t, c) ==
    /\ InStep(t, c, "remove") /\ entry[c] \in stored
    /\ Deleted(c)
    /\ handler' = [handler EXCEPT ![t] = [step |-> "commit", cmd |-> c]]
    /\ UNCHANGED <<agentVars, hostVars, ctlVars>>

\* DELETE: 404 is as good as 204.
RemoveObject(t, c) ==
    /\ InStep(t, c, "remove")
    /\ Deleted(c)
    /\ handler' = [handler EXCEPT ![t] = [step |-> "commit", cmd |-> c]]
    /\ UNCHANGED <<agentVars, hostVars, ctlVars>>

\* Mutant: the entry is removed although the object may still be there.
RemoveFailsUnnoticed(t, c) ==
    /\ InStep(t, c, "remove")
    /\ handler' = [handler EXCEPT ![t] = [step |-> "commit", cmd |-> c]]
    /\ UNCHANGED <<agentVars, hostVars, davVars, ctlVars, begun>>

\* DELETE fails, or its response is lost: the entry stays.
RemoveFails(t, c) ==
    /\ InStep(t, c, "remove")
    /\ Deleted(c) \/ UNCHANGED <<davVars, begun>>
    /\ handler' = [handler EXCEPT ![t] = Idle]
    /\ UNCHANGED <<agentVars, hostVars, ctlVars>>

\* Another request may have removed the entry: errNotFound.
DeleteCommit(t, c) ==
    /\ InStep(t, c, "commit")
    /\ listed' = listed \ {c}
    /\ handler' = [handler EXCEPT ![t] = Idle]
    /\ UNCHANGED <<agentVars, hostVars, davVars, out, entry, begun>>

\* state.json cannot be written, or the controller stops.
DeleteCommitFails(t, c) ==
    /\ InStep(t, c, "commit")
    /\ handler' = [handler EXCEPT ![t] = Idle]
    /\ UNCHANGED <<agentVars, hostVars, davVars, ctlVars, begun>>

-----------------------------------------------------------------------------
HostStep(h) ==
    \/ \E c \in Command : Receive(h, c)
    \/ LoopGoesOn(h)
    \/ MakeDirectory(h)
    \/ Upload(h)
    \/ \E s \in Status : BackupEnds(h, s)
    \/ SaveResult(h)
    \/ ReportAgain(h)
    \/ ResultRecorded(h)
    \/ ResultAnswerLost(h)
    \/ CycleEnds(h)

DeleteStep(t, c) ==
    \/ DeleteBegins(t, c)
    \/ RemoveObject(t, c)
    \/ RemoveFails(t, c)
    \/ DeleteCommit(t, c)
    \/ DeleteCommitFails(t, c)

RepositoryNext ==
    \/ \E h \in Host : HostStep(h)
    \/ \E c \in Command : Withdraw(c) \/ \E t \in Request : DeleteStep(t, c)

RepositorySpec == RepositoryInit /\ [][RepositoryNext]_repositoryVars

(* An administrator who asked for a deletion asks again until the panel     *)
(* does not show the entry any more, and neither DELETE nor the save of     *)
(* state.json fails for ever.                                               *)
RepositoryFairness ==
    \A c \in Command :
        /\ SF_repositoryVars(\E t \in Request : c \in begun /\ DeleteBegins(t, c))
        /\ SF_repositoryVars(\E t \in Request : RemoveObject(t, c))
        /\ SF_repositoryVars(\E t \in Request : DeleteCommit(t, c))

RepositoryFairSpec == RepositorySpec /\ RepositoryFairness

-----------------------------------------------------------------------------
(* Properties.                                                              *)

\* Every variable keeps its type.
RepositoryTypeOK ==
    /\ stored \subseteq Object /\ broken \subseteq stored
    /\ name \in [Host -> Object \cup {NoObject}]
    /\ saved \in [Host -> [Command -> Object \cup {NoObject}]]
    /\ out \subseteq Command
    /\ entry \in [Command -> Object \cup {NoObject}]
    /\ listed \subseteq Command
    /\ handler \in [Request -> Deletion]
    /\ begun \subseteq Command

\* What the panel lists can be restored: the object of every entry is in the
\* repository as it was sent, although results are repeated, delayed and lost,
\* unless a deletion of it began and did not come to its end.
ListedIsStored ==
    \A c \in listed : entry[c] \in stored \ broken \/ c \in begun

\* The repository does not fill up behind the panel's back: of the objects a
\* host uploaded for a command, those the index does not list are the ones
\* whose result the host lost, and one more if the result was not recorded.
Unlisted(h, c) ==
    {o \in stored : o.host = h /\ o.cmd = c /\ ~(c \in listed /\ entry[c] = o)}

OrphansAreLosses ==
    \A h \in Host, c \in Command :
        Cardinality(Unlisted(h, c)) <=
            lost[h][c] + (IF entry[c] # NoObject /\ entry[c].host = h THEN 0 ELSE 1)

\* A deletion that stopped half-way, with the object gone and the entry left,
\* can be repeated to its end.
DeletionCompletes == \A c \in Command : c \in begun ~> c \notin listed

\* The usage the panel shows is that of every object in the repository,
\* whether or not the server takes Depth infinity.
UsageIsComplete ==
    \A deep \in BOOLEAN :
        Usage(deep, dirs, [o \in stored |-> Folder(o.host)])
            = [failed |-> FALSE, files |-> Cardinality(stored)]

\* "Walk one directory level at a time as a compatible fallback": where there is
\* something to count the walk counts what Depth infinity does.
FallbackIsCompatible ==
    LET place == [o \in stored |-> Folder(o.host)] IN
    stored # {} => Usage(FALSE, dirs, place) = Usage(TRUE, dirs, place)

\* The inductive invariant.  An object is named after the execution that
\* uploaded it; a result that says success names an intact object unless the
\* index had it and a deletion began; what was once listed and is not any more
\* is not in the repository, and no execution in progress is going to put it
\* back.
Names(o, h, c) == o \in Object /\ o.host = h /\ o.cmd = c /\ o.run \in 1..runs[h][c]

Kept(o, c) == o \in stored \ broken \/ (o = entry[c] /\ c \in begun)

HostNames(h) ==
    /\ name[h] # NoObject => cmd[h] # NoCmd /\ Names(name[h], h, cmd[h])
    /\ phase[h] \in {"save", "report", "clear"} /\ result[h] = "success" =>
          name[h] # NoObject /\ Kept(name[h], cmd[h])
    /\ phase[h] = "execute" => runs[h][cmd[h]] # 0

SavedNames(h, c) ==
    /\ saved[h][c] # NoObject => Names(saved[h][c], h, c)
    /\ file[h][c] = "success" => saved[h][c] # NoObject /\ Kept(saved[h][c], c)

\* Host h is not done with its present execution of c.
Before(h, c) == cmd[h] = c /\ phase[h] \in {"hold", "execute", "save"}

EntryNames(c) ==
    /\ entry[c] # NoObject =>
          /\ c \in out
          /\ Names(entry[c], entry[c].host, c)
          /\ ~Before(entry[c].host, c)
          /\ c \notin listed => entry[c] \notin stored
    /\ c \in listed \cup begun => entry[c] # NoObject

DeletionFits(t) ==
    handler[t] # Idle =>
        /\ entry[handler[t].cmd] # NoObject
        /\ handler[t].step = "commit" => entry[handler[t].cmd] \notin stored

RepositoryInv ==
    /\ RepositoryTypeOK
    /\ \A o \in stored : o.run \in 1..runs[o.host][o.cmd]
    /\ \A h \in Host : HostNames(h)
    /\ \A h \in Host, c \in Command : SavedNames(h, c)
    /\ \A c \in Command : EntryNames(c)
    /\ \A t \in Request : DeletionFits(t)
    /\ ListedIsStored
===========================================================================
