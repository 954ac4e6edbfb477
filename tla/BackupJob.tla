----------------------------- MODULE BackupJob -----------------------------
(***************************************************************************)
(* One machine and the backups its agent makes of it: createArchive pauses *)
(* the application services and, if the plan asks for it, the containers,  *)
(* walks the paths, starts what it paused, writes the manifest; backup     *)
(* uploads the archive, waits until the repository shows it in full and    *)
(* downloads it again to compare the hash.                                 *)
(*                                                                         *)
(* A unit is a service or a container.  systemctl and docker may fail on   *)
(* any of them, files and the repository may fail at any step, and the     *)
(* process may be killed between any two steps.                            *)
(***************************************************************************)
CONSTANTS
    App,            \* services an archive pauses: neither Docker nor a database
    Other,          \* Docker and the databases: they stay up
    Container

ASSUME UnitAssumption ==
    App \cap Other = {} /\ (App \cup Other) \cap Container = {}

Service == App \cup Other
Unit    == Service \cup Container

VARIABLES
    up,         \* units that run
    intended,   \* history: units that ran before the first backup
    pc,         \* where backup is
    docker,     \* the plan's include_docker
    active,     \* Service.WasActive of the job's Discovery
    todo,       \* units the current loop has still to handle
    paused,     \* stoppedServices and restartContainers
    refused,    \* units whose stop or start command failed: each makes a warning
    error,      \* createArchive is returning an error (and drops its warnings)
    stored,     \* what the repository holds under the job's remote path
    shown,      \* what the repository shows of it
    outcome     \* the result of the last backup

vars == <<up, intended, pc, docker, active, todo, paused, refused, error,
          stored, shown, outcome>>

Archiving == {"stopServices", "stopContainers", "walk", "startContainers",
              "startServices"}
Step == Archiving \cup {"idle", "manifest", "put", "wait", "verify"}

\* none: no object; partial: shorter than the archive; corrupt: as long as the
\* archive with another hash; whole: the archive.
Object == {"none", "partial", "corrupt", "whole"}

Init ==
    /\ up \in SUBSET Unit /\ intended = up
    /\ pc = "idle" /\ docker = FALSE /\ error = FALSE
    /\ active = {} /\ todo = {} /\ paused = {} /\ refused = {}
    /\ stored = "none" /\ shown = "none" /\ outcome = "none"

jobVars    == <<docker, active, error>>
remoteVars == <<stored, shown>>

\* backup returns; every later step is a new job's.
Finish(result) == pc' = "idle" /\ outcome' = result

-----------------------------------------------------------------------------
(* createArchive.                                                           *)

\* Discover, then the loop of stopApplicationServices.
BeginJob(includeDocker) ==
    /\ pc = "idle"
    /\ docker' = includeDocker
    /\ active' = up \cap Service
    /\ todo' = up \cap App
    /\ paused' = {} /\ refused' = {} /\ error' = FALSE
    /\ stored' = "none" /\ shown' = "none" /\ outcome' = "none"
    /\ pc' = "stopServices"
    /\ UNCHANGED <<up, intended>>

\* Credentials, temporary files or directories fail before anything is paused.
BeginFails ==
    /\ pc = "idle"
    /\ outcome' = "failed"
    /\ UNCHANGED <<up, intended, pc, jobVars, todo, paused, refused, remoteVars>>

Stop(u) ==
    /\ pc \in {"stopServices", "stopContainers"} /\ u \in todo
    /\ todo' = todo \ {u}
    /\ up' = up \ {u}
    /\ paused' = paused \cup {u}
    /\ UNCHANGED <<pc, jobVars, refused, remoteVars, outcome, intended>>

\* Mutant: a unit that could not be stopped is passed over in silence.
StopFailsSilently(u) ==
    /\ pc \in {"stopServices", "stopContainers"} /\ u \in todo
    /\ todo' = todo \ {u}
    /\ up' \in {up, up \ {u}}
    /\ UNCHANGED <<pc, jobVars, paused, refused, remoteVars, outcome, intended>>

\* The command fails: the unit is not remembered, whether it runs or not.
StopFails(u) ==
    /\ pc \in {"stopServices", "stopContainers"} /\ u \in todo
    /\ todo' = todo \ {u}
    /\ up' \in {up, up \ {u}}
    /\ refused' = refused \cup {u}
    /\ UNCHANGED <<pc, jobVars, paused, remoteVars, outcome, intended>>

\* docker inspect fails: the container is passed over.
InspectFails(c) ==
    /\ pc = "stopContainers" /\ c \in todo
    /\ todo' = todo \ {c}
    /\ UNCHANGED <<up, pc, jobVars, paused, refused, remoteVars, outcome, intended>>

ServicesStopped ==
    /\ pc = "stopServices" /\ todo = {}
    /\ pc' = "stopContainers"
    /\ todo' = IF docker THEN up \cap Container ELSE {}
    /\ UNCHANGED <<up, jobVars, paused, refused, remoteVars, outcome, intended>>

ContainersStopped ==
    /\ pc = "stopContainers" /\ todo = {}
    /\ pc' = "walk"
    /\ UNCHANGED <<up, jobVars, todo, paused, refused, remoteVars, outcome, intended>>

\* Mutant: after a failed walk nothing is started.
WalkAbandoning(failed) ==
    /\ pc = "walk"
    /\ error' = failed
    /\ pc' = IF failed THEN "idle" ELSE "startContainers"
    /\ outcome' = IF failed THEN "failed" ELSE outcome
    /\ todo' = paused \cap Container
    /\ UNCHANGED <<up, docker, active, paused, refused, remoteVars, intended>>

\* addTree over the paths, or the creation of the archive, may fail: the
\* deferred functions start what was paused, in the same order.
Walk(failed) ==
    /\ pc = "walk"
    /\ error' = failed
    /\ pc' = "startContainers"
    /\ todo' = paused \cap Container
    /\ UNCHANGED <<up, docker, active, paused, refused, remoteVars, outcome, intended>>

Start(u) ==
    /\ pc \in {"startContainers", "startServices"} /\ u \in todo
    /\ todo' = todo \ {u}
    /\ up' = up \cup {u}
    /\ UNCHANGED <<pc, jobVars, paused, refused, remoteVars, outcome, intended>>

StartFails(u) ==
    /\ pc \in {"startContainers", "startServices"} /\ u \in todo
    /\ todo' = todo \ {u}
    /\ refused' = refused \cup {u}
    /\ UNCHANGED <<up, pc, jobVars, paused, remoteVars, outcome, intended>>

ContainersStarted ==
    /\ pc = "startContainers" /\ todo = {}
    /\ pc' = "startServices"
    /\ todo' = paused \cap Service
    /\ UNCHANGED <<up, jobVars, paused, refused, remoteVars, outcome, intended>>

\* Mutant: the upload begins while the services are still being started.
ServicesStartedLater ==
    /\ pc = "startServices"
    /\ IF error THEN Finish("failed") ELSE pc' = "manifest" /\ UNCHANGED outcome
    /\ UNCHANGED <<up, jobVars, todo, paused, refused, remoteVars, intended>>

ServicesStarted ==
    /\ pc = "startServices" /\ todo = {}
    /\ IF error THEN Finish("failed") ELSE pc' = "manifest" /\ UNCHANGED outcome
    /\ UNCHANGED <<up, jobVars, todo, paused, refused, remoteVars, intended>>

\* manifest.json and the dumps are added, the archive is closed and hashed.
WriteManifest ==
    /\ pc = "manifest" /\ pc' = "put"
    /\ UNCHANGED <<up, jobVars, todo, paused, refused, remoteVars, outcome, intended>>

WriteManifestFails ==
    /\ pc = "manifest" /\ Finish("failed")
    /\ UNCHANGED <<up, jobVars, todo, paused, refused, remoteVars, intended>>

-----------------------------------------------------------------------------
(* The upload.                                                              *)

\* PUT is acknowledged; the object may show later than that, or be damaged.
Put ==
    /\ pc = "put" /\ pc' = "wait"
    /\ stored' \in {"corrupt", "whole"}
    /\ shown' \in {"none", "partial", stored'}
    /\ UNCHANGED <<up, jobVars, todo, paused, refused, outcome, intended>>

\* The request fails, or its acknowledgement is lost.
PutFails ==
    /\ pc = "put" /\ Finish("failed")
    /\ stored' \in Object /\ shown' \in {"none", "partial", stored'}
    /\ UNCHANGED <<up, jobVars, todo, paused, refused, intended>>

\* The repository catches up.
Appear ==
    /\ shown # stored /\ shown' = stored
    /\ UNCHANGED <<up, pc, jobVars, todo, paused, refused, stored, outcome, intended>>

\* waitForRemoteSize: the size is the archive's.
SizeAgrees ==
    /\ pc = "wait" /\ shown \in {"corrupt", "whole"}
    /\ pc' = "verify"
    /\ UNCHANGED <<up, jobVars, todo, paused, refused, remoteVars, outcome, intended>>

\* Mutant: the size is enough.
HashNotCompared ==
    /\ pc = "verify" /\ shown \in {"corrupt", "whole"}
    /\ Finish("success")
    /\ UNCHANGED <<up, jobVars, todo, paused, refused, remoteVars, intended>>

\* downloadVerified: a download has the archive's size and hash.
HashAgrees ==
    /\ pc = "verify" /\ shown = "whole"
    /\ Finish("success")
    /\ UNCHANGED <<up, jobVars, todo, paused, refused, remoteVars, intended>>

\* Both give up after five minutes of retries, the first one also at once when
\* the object is longer than the archive.
DeadlinePasses ==
    /\ pc \in {"wait", "verify"} /\ Finish("failed")
    /\ UNCHANGED <<up, jobVars, todo, paused, refused, remoteVars, intended>>

-----------------------------------------------------------------------------
\* The agent is killed, by its automatic upgrade or with the machine's shell;
\* deferred functions do not run, and the next agent knows nothing of the job.
Crash ==
    /\ pc # "idle"
    /\ pc' = "idle" /\ docker' = FALSE /\ error' = FALSE
    /\ active' = {} /\ todo' = {} /\ paused' = {} /\ refused' = {}
    /\ stored' \in IF pc = "put" THEN Object ELSE {stored}
    /\ shown' = IF pc = "put" THEN stored' ELSE shown
    /\ UNCHANGED <<up, intended, outcome>>

Next ==
    \/ \E d \in BOOLEAN : BeginJob(d)
    \/ BeginFails
    \/ \E u \in Unit : Stop(u) \/ StopFails(u) \/ Start(u) \/ StartFails(u)
    \/ \E c \in Container : InspectFails(c)
    \/ ServicesStopped \/ ContainersStopped
    \/ \E failed \in BOOLEAN : Walk(failed)
    \/ ContainersStarted \/ ServicesStarted
    \/ WriteManifest \/ WriteManifestFails
    \/ Put \/ PutFails \/ Appear
    \/ SizeAgrees \/ HashAgrees \/ DeadlinePasses
    \/ Crash

Spec == Init /\ [][Next]_vars

-----------------------------------------------------------------------------
(* Properties.                                                              *)

\* Every variable keeps its type.
TypeOK ==
    /\ up \subseteq Unit /\ intended \subseteq Unit
    /\ pc \in Step /\ docker \in BOOLEAN /\ error \in BOOLEAN
    /\ active \subseteq Service /\ todo \subseteq Unit
    /\ paused \subseteq App \cup Container /\ refused \subseteq Unit
    /\ stored \in Object /\ shown \in Object
    /\ outcome \in {"none", "success", "failed"}

\* Outside of the archiving itself every application that was running, and
\* every container the job paused, runs, or a command to stop or start it
\* failed: on the error paths too, and before the upload, whose waits would
\* otherwise be down time.
PausedOnlyWhileArchiving ==
    pc \notin Archiving => (active \cap App) \cup paused \subseteq up \cup refused

\* While the paths are read, an application that was running is down, or it
\* could not be stopped, which a warning says.
ReadWhileStopped ==
    pc = "walk" => \A u \in active \cap App : u \notin up \/ u \in refused

\* A backup that reports success can be read from the repository, whatever
\* was acknowledged, shown late or damaged on the way.
SuccessIsReadable == outcome = "success" => stored = "whole" /\ shown = "whole"

\* The inductive invariant behind them: in each loop, what has to be handled is
\* still to do, or was paused and is where the loop leaves it, or refused.
JobInv ==
    /\ TypeOK /\ PausedOnlyWhileArchiving /\ ReadWhileStopped /\ SuccessIsReadable
    /\ pc = "stopServices" => /\ todo \subseteq App
                              /\ active \cap App \subseteq todo \cup paused \cup refused
    /\ pc = "stopContainers" => todo \subseteq Container
    /\ pc \in Archiving \ {"stopServices"} =>
           active \cap App \subseteq paused \cup refused
    /\ pc \in {"stopServices", "stopContainers", "walk"} => paused \cap up = {}
    /\ pc = "startContainers" => paused \cap Container \subseteq todo \cup up \cup refused
    /\ pc = "startServices" => /\ paused \cap Container \subseteq up \cup refused
                               /\ paused \cap Service \subseteq todo \cup up \cup refused
    /\ pc # "idle" => outcome = "none"
    /\ pc = "verify" => shown \in {"corrupt", "whole"}
    /\ shown \in {"corrupt", "whole"} => stored = shown

\* "归档结束后恢复运行", "在完成后恢复原状态": when no backup is being made,
\* everything that ran before the backups runs, or a warning names it.
IntendedUnitsRun == pc = "idle" => intended \subseteq up \cup refused
=============================================================================
