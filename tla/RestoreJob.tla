----------------------------- MODULE RestoreJob -----------------------------
(***************************************************************************)
(* One restore command on the machine it is sent to: the archive is        *)
(* downloaded, verified and unpacked aside, the services of its manifest   *)
(* are stopped, the files are copied over /, and the services, the Compose *)
(* projects and the database dumps are brought back.  Any command may      *)
(* fail: before the copy and in the copy that fails the restore, after it  *)
(* that is a warning.  The agent may be killed between any two steps; a    *)
(* result that was not saved makes it execute the command again.           *)
(***************************************************************************)
CONSTANTS
    Docker,         \* services by serviceRestorePriority: 0,
    Database,       \* 1,
    Application,    \* and 2
    Project,        \* Compose projects of the manifest
    Dump            \* database dumps of the manifest

ASSUME ClassAssumption ==
    /\ Docker \cap Database = {} /\ Docker \cap Application = {}
    /\ Database \cap Application = {}
    /\ Project \cap Dump = {}

Unit == Docker \cup Database \cup Application

VARIABLES
    manifest,   \* the archive's manifest
    up,         \* services that run
    before,     \* history: those that ran before the command came
    enabled,    \* services it starts at boot
    files,      \* the tree under /: old, mixed or new
    back,       \* projects that are up and dumps that are imported
    pc,         \* where restore is
    todo,       \* what the current loop has still to handle
    toEnable,   \* services the loop has still to enable
    skipped,    \* services passed over because they looked unavailable
    warned,     \* there are warnings
    outcome     \* the result of the last execution

vars == <<manifest, up, before, enabled, files, back, pc, todo, toEnable,
          skipped, warned, outcome>>

\* The services of a manifest that have a unit.  An old one (version 1) says
\* nothing of their state.
Manifest == {r \in [v2 : BOOLEAN, listed : SUBSET Unit,
                    active : SUBSET Unit, enabled : SUBSET Unit] :
                /\ r.active \subseteq r.listed /\ r.enabled \subseteq r.listed
                /\ ~r.v2 => r.active = {} /\ r.enabled = {}}

Step == {"idle", "prepare", "stop", "copy", "reload", "restart", "compose", "dumps"}

Init ==
    /\ manifest \in Manifest
    /\ up \in SUBSET Unit /\ before = up
    /\ enabled = {} /\ files = "old" /\ back = {}
    /\ pc = "idle" /\ todo = {} /\ toEnable = {} /\ skipped = {}
    /\ warned = FALSE /\ outcome = "none"

machineVars == <<up, enabled, files, back>>
fixedVars   == <<manifest, before>>

\* The services that are stopped and restarted.
Wanted == IF manifest.v2 THEN manifest.active ELSE manifest.listed

\* Mutant: the services keep the order of the manifest.
FirstUnsorted(S) == S

\* restorableServices sorts by priority; within one the order is the manifest's.
First(S) ==
    IF S \cap Docker # {} THEN S \cap Docker
    ELSE IF S \cap Database # {} THEN S \cap Database ELSE S

-----------------------------------------------------------------------------
(* Until the archive is unpacked the machine is not touched.                *)

Begin ==
    /\ pc = "idle"
    /\ pc' = "prepare" /\ outcome' = "none" /\ warned' = FALSE /\ skipped' = {}
    /\ UNCHANGED <<fixedVars, machineVars, todo, toEnable>>

\* No confirmation, no credentials, no download with the backup's size and hash
\* within five minutes, no space, a damaged archive or manifest.
BeginFails ==
    /\ pc = "idle" /\ outcome' = "failed"
    /\ UNCHANGED <<fixedVars, machineVars, pc, todo, toEnable, skipped, warned>>

\* Mutant: StopServices does not look at WasActive.
PrepareRuntimeStopsAll(installed, ok) ==
    /\ pc = "prepare" /\ pc' = "stop" /\ todo' = manifest.listed
    /\ installed => Docker \cap up = {}
    /\ up' = IF installed THEN up \cup Docker ELSE up
    /\ enabled' = IF installed THEN enabled \cup Docker ELSE enabled
    /\ warned' = ~ok
    /\ UNCHANGED <<fixedVars, files, back, toEnable, skipped, outcome>>

\* PrepareRestoreRuntime installs Docker where it is needed and missing.
PrepareRuntime(installed, ok) ==
    /\ pc = "prepare" /\ pc' = "stop" /\ todo' = Wanted
    /\ installed => Docker \cap up = {}
    /\ up' = IF installed THEN up \cup Docker ELSE up
    /\ enabled' = IF installed THEN enabled \cup Docker ELSE enabled
    /\ warned' = ~ok
    /\ UNCHANGED <<fixedVars, files, back, toEnable, skipped, outcome>>

-----------------------------------------------------------------------------
(* StopServices.                                                            *)

StopUnit(u) ==
    /\ pc = "stop" /\ u \in First(todo)
    /\ todo' = todo \ {u} /\ up' = up \ {u}
    /\ UNCHANGED <<fixedVars, enabled, files, back, pc, toEnable, skipped,
                   warned, outcome>>

\* Mutant: a failed stop makes no warning.
StopUnitFailsSilently(u) ==
    /\ pc = "stop" /\ u \in First(todo)
    /\ todo' = todo \ {u} /\ up' \in {up, up \ {u}}
    /\ UNCHANGED <<fixedVars, enabled, files, back, pc, toEnable, skipped,
                   warned, outcome>>

StopUnitFails(u) ==
    /\ pc = "stop" /\ u \in First(todo)
    /\ todo' = todo \ {u} /\ up' \in {up, up \ {u}}
    /\ warned' = TRUE
    /\ UNCHANGED <<fixedVars, enabled, files, back, pc, toEnable, skipped,
                   outcome>>

\* serviceUnitAvailable: the unit is not there, or the question failed.
SkipUnit(u) ==
    /\ pc = "stop" /\ u \in First(todo)
    /\ todo' = todo \ {u} /\ skipped' = skipped \cup {u}
    /\ UNCHANGED <<fixedVars, machineVars, pc, toEnable, warned, outcome>>

\* The first file of the archive is written.
CopyBegins ==
    /\ pc = "stop" /\ todo = {}
    /\ pc' = "copy" /\ files' = "mixed"
    /\ UNCHANGED <<fixedVars, up, enabled, back, todo, toEnable, skipped,
                   warned, outcome>>

CopyEnds ==
    /\ pc = "copy" /\ pc' = "reload"
    /\ files' = "new"
    /\ UNCHANGED <<fixedVars, up, enabled, back, todo, toEnable, skipped, warned,
                   outcome>>

\* The stopped services stay down.
CopyFails ==
    /\ pc = "copy" /\ pc' = "idle" /\ outcome' = "failed"
    /\ UNCHANGED <<fixedVars, machineVars, todo, toEnable, skipped, warned>>

-----------------------------------------------------------------------------
(* RestoreServices.                                                         *)

\* redis.rdb is put in its place and systemd reads the unit files.
Reload(ok) ==
    /\ pc = "reload" /\ pc' = "restart"
    /\ todo' = manifest.listed /\ toEnable' = manifest.enabled
    /\ warned' = (warned \/ ~ok)
    /\ UNCHANGED <<fixedVars, machineVars, skipped, outcome>>

Enable(u, ok) ==
    /\ pc = "restart" /\ u \in First(todo) \cap toEnable
    /\ toEnable' = toEnable \ {u}
    /\ enabled' = IF ok THEN enabled \cup {u} ELSE enabled
    /\ warned' = (warned \/ ~ok)
    /\ UNCHANGED <<fixedVars, up, files, back, pc, todo, skipped, outcome>>

\* A service that was not active keeps the state it has.
LeaveUnit(u) ==
    /\ pc = "restart" /\ u \in First(todo) \ (toEnable \cup Wanted)
    /\ todo' = todo \ {u}
    /\ UNCHANGED <<fixedVars, machineVars, pc, toEnable, skipped, warned, outcome>>

\* Mutant: whether the service became active is not looked at.
RestartUnverified(u, active) ==
    /\ pc = "restart" /\ u \in (First(todo) \cap Wanted) \ toEnable
    /\ todo' = todo \ {u}
    /\ up' = IF active THEN up \cup {u} ELSE up \ {u}
    /\ UNCHANGED <<fixedVars, enabled, files, back, pc, toEnable, skipped,
                   warned, outcome>>

\* The restart fails, or five looks in five seconds do not find the service
\* active, or they do.
RestartUnit(u, active) ==
    /\ pc = "restart" /\ u \in (First(todo) \cap Wanted) \ toEnable
    /\ todo' = todo \ {u}
    /\ IF active THEN up' = up \cup {u} ELSE up' \in {up, up \ {u}}
    /\ warned' = (warned \/ ~active)
    /\ UNCHANGED <<fixedVars, enabled, files, back, pc, toEnable, skipped,
                   outcome>>

ServicesHandled ==
    /\ pc = "restart" /\ todo = {}
    /\ pc' = "compose" /\ todo' = Project
    /\ UNCHANGED <<fixedVars, machineVars, toEnable, skipped, warned, outcome>>

\* A project's files are restored and docker compose starts it; a dump is fed
\* to its database.
BringBack(x, ok) ==
    /\ pc \in {"compose", "dumps"} /\ x \in todo
    /\ todo' = todo \ {x}
    /\ back' = IF ok THEN back \cup {x} ELSE back
    /\ warned' = (warned \/ ~ok)
    /\ UNCHANGED <<fixedVars, up, enabled, files, pc, toEnable, skipped,
                   outcome>>

ProjectsHandled ==
    /\ pc = "compose" /\ todo = {}
    /\ pc' = "dumps" /\ todo' = Dump
    /\ UNCHANGED <<fixedVars, machineVars, toEnable, skipped, warned, outcome>>

Finish ==
    /\ pc = "dumps" /\ todo = {}
    /\ pc' = "idle" /\ outcome' = IF warned THEN "warning" ELSE "success"
    /\ UNCHANGED <<fixedVars, machineVars, todo, toEnable, skipped, warned>>

\* The agent is killed; nothing it had in memory survives.
Crash ==
    /\ pc # "idle" /\ pc' = "idle"
    /\ todo' = {} /\ toEnable' = {} /\ skipped' = {} /\ warned' = FALSE
    /\ UNCHANGED <<fixedVars, machineVars, outcome>>

Next ==
    \/ Begin \/ BeginFails
    \/ \E installed, ok \in BOOLEAN : PrepareRuntime(installed, ok)
    \/ \E u \in Unit :
         \/ StopUnit(u) \/ StopUnitFails(u) \/ SkipUnit(u) \/ LeaveUnit(u)
         \/ \E ok \in BOOLEAN : Enable(u, ok) \/ RestartUnit(u, ok)
    \/ CopyBegins \/ CopyEnds \/ CopyFails
    \/ \E ok \in BOOLEAN : Reload(ok)
    \/ ServicesHandled
    \/ \E x \in Project \cup Dump, ok \in BOOLEAN : BringBack(x, ok)
    \/ ProjectsHandled
    \/ Finish
    \/ Crash

Spec == Init /\ [][Next]_vars

-----------------------------------------------------------------------------
(* Properties.                                                              *)

\* Every variable keeps its type.
TypeOK ==
    /\ manifest \in Manifest
    /\ up \subseteq Unit /\ before \subseteq Unit
    /\ enabled \subseteq Unit
    /\ files \in {"old", "mixed", "new"} /\ back \subseteq Project \cup Dump
    /\ pc \in Step /\ todo \subseteq Unit \cup Project \cup Dump
    /\ toEnable \subseteq Unit /\ skipped \subseteq Unit
    /\ warned \in BOOLEAN /\ outcome \in {"none", "success", "warning", "failed"}

\* A restore that reports success has done all of it: no error of a step was
\* lost on the way to the result.
SuccessIsComplete ==
    outcome = "success" =>
        /\ files = "new"
        /\ Wanted \subseteq up /\ manifest.enabled \subseteq enabled
        /\ back = Project \cup Dump

\* After a successful restore everything runs that ran before the command came,
\* also when earlier executions of it failed or were killed with services down,
\* and services the manifest does not want up keep running.
NothingSilentlyStopped == outcome = "success" => before \subseteq up

\* While files are replaced, the services the restore will restart are down, or
\* they looked unavailable, or there is a warning.
QuietWhileCopied == pc = "copy" /\ ~warned => Wanted \cap up \subseteq skipped

\* When the first application is restarted the databases it may need are back,
\* or there is a warning.
DatabasesFirst ==
    pc = "restart" /\ ~warned /\ ~(Application \cap Wanted \subseteq todo) =>
        Database \cap Wanted \subseteq up

\* The inductive invariant behind them: in each loop, without a warning, what
\* is no longer to do is done.
RestoreInv ==
    /\ TypeOK
    /\ SuccessIsComplete /\ NothingSilentlyStopped
    /\ QuietWhileCopied /\ DatabasesFirst
    /\ before \subseteq up \cup Wanted
    /\ pc = "stop" => todo \subseteq Wanted
    /\ pc = "restart" => todo \subseteq Unit
    /\ pc = "stop" /\ ~warned => Wanted \cap up \subseteq todo \cup skipped
    /\ pc = "restart" => toEnable \subseteq todo
    /\ pc = "restart" /\ ~warned =>
           /\ Wanted \subseteq todo \cup up
           /\ manifest.enabled \subseteq toEnable \cup enabled
           /\ \A u \in Wanted \ todo : u \in Application => Database \cap todo = {}
    /\ pc \in {"compose", "dumps"} /\ ~warned =>
           Wanted \subseteq up /\ manifest.enabled \subseteq enabled
    /\ pc = "compose" /\ ~warned => Project \subseteq todo \cup back
    /\ pc = "dumps" /\ ~warned => Project \subseteq back /\ Dump \subseteq todo \cup back
    /\ pc \in {"reload", "restart", "compose", "dumps"} => files = "new"
    /\ pc # "idle" => outcome = "none"
=============================================================================
