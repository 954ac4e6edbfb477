-------------------------- MODULE BackupJob_proofs --------------------------
(***************************************************************************)
(* Proofs about BackupJob, for any number of services and containers.      *)
(***************************************************************************)
EXTENDS BackupJob, TLAPS

\* No backup has been made yet.
LEMMA JobInitInv == Init => JobInv
BY UnitAssumption
   DEF Init, JobInv, TypeOK, PausedOnlyWhileArchiving, ReadWhileStopped,
       SuccessIsReadable, Archiving, Step, Object, Unit, Service

\* Beginning a backup, or failing to, keeps the invariant.
LEMMA BeginInv ==
    ASSUME JobInv, (\E d \in BOOLEAN : BeginJob(d)) \/ BeginFails
    PROVE  JobInv'
<1> USE UnitAssumption
    DEF JobInv, TypeOK, PausedOnlyWhileArchiving, ReadWhileStopped, SuccessIsReadable,
        Archiving, Step, Object, Unit, Service
<1>1. CASE \E d \in BOOLEAN : BeginJob(d)
  BY <1>1 DEF BeginJob
<1>2. CASE BeginFails
  BY <1>2 DEF BeginFails, jobVars, remoteVars
<1> QED
  BY <1>1, <1>2

\* A unit that is stopped, or cannot be, keeps the invariant.
LEMMA StopInv ==
    ASSUME NEW u \in Unit, JobInv, Stop(u) \/ StopFails(u)
    PROVE  JobInv'
<1> USE UnitAssumption
    DEF JobInv, TypeOK, PausedOnlyWhileArchiving, ReadWhileStopped, SuccessIsReadable,
        Archiving, Step, Object, Unit, Service, jobVars, remoteVars
<1>1. CASE Stop(u)
  BY <1>1 DEF Stop
<1>2. CASE StopFails(u)
  BY <1>2 DEF StopFails
<1> QED
  BY <1>1, <1>2

\* A unit that is started, or cannot be, keeps the invariant.
LEMMA StartInv ==
    ASSUME NEW u \in Unit, JobInv, Start(u) \/ StartFails(u)
    PROVE  JobInv'
<1> USE UnitAssumption
    DEF JobInv, TypeOK, PausedOnlyWhileArchiving, ReadWhileStopped, SuccessIsReadable,
        Archiving, Step, Object, Unit, Service, jobVars, remoteVars
<1>1. CASE Start(u)
  BY <1>1 DEF Start
<1>2. CASE StartFails(u)
  BY <1>2 DEF StartFails
<1> QED
  BY <1>1, <1>2

\* Going from one loop of createArchive to the next keeps the invariant.
LEMMA LoopInv ==
    ASSUME JobInv,
           \/ \E c \in Container : InspectFails(c)
           \/ ServicesStopped \/ ContainersStopped
           \/ \E failed \in BOOLEAN : Walk(failed)
           \/ ContainersStarted \/ ServicesStarted
    PROVE  JobInv'
<1> USE UnitAssumption
    DEF JobInv, TypeOK, PausedOnlyWhileArchiving, ReadWhileStopped, SuccessIsReadable,
        Archiving, Step, Object, Unit, Service, jobVars, remoteVars, Finish
<1>1. CASE \E c \in Container : InspectFails(c)
  BY <1>1 DEF InspectFails
<1>2. CASE ServicesStopped
  BY <1>2 DEF ServicesStopped
<1>3. CASE ContainersStopped
  BY <1>3 DEF ContainersStopped
<1>4. CASE \E failed \in BOOLEAN : Walk(failed)
  BY <1>4 DEF Walk
<1>5. CASE ContainersStarted
  BY <1>5 DEF ContainersStarted
<1>6. CASE ServicesStarted
  BY <1>6 DEF ServicesStarted
<1> QED
  BY <1>1, <1>2, <1>3, <1>4, <1>5, <1>6

\* The manifest and the upload keep the invariant.
LEMMA UploadInv ==
    ASSUME JobInv,
           \/ WriteManifest \/ WriteManifestFails
           \/ Put \/ PutFails \/ Appear
           \/ SizeAgrees \/ HashAgrees \/ DeadlinePasses
    PROVE  JobInv'
<1> USE UnitAssumption
    DEF JobInv, TypeOK, PausedOnlyWhileArchiving, ReadWhileStopped, SuccessIsReadable,
        Archiving, Step, Object, Unit, Service, jobVars, remoteVars, Finish
<1>1. CASE WriteManifest
  BY <1>1 DEF WriteManifest
<1>2. CASE WriteManifestFails
  BY <1>2 DEF WriteManifestFails
<1>3. CASE Put
  BY <1>3 DEF Put
<1>4. CASE PutFails
  BY <1>4 DEF PutFails
<1>5. CASE Appear
  BY <1>5 DEF Appear
<1>6. CASE SizeAgrees
  BY <1>6 DEF SizeAgrees
<1>7. CASE HashAgrees
  BY <1>7 DEF HashAgrees
<1>8. CASE DeadlinePasses
  BY <1>8 DEF DeadlinePasses
<1> QED
  BY <1>1, <1>2, <1>3, <1>4, <1>5, <1>6, <1>7, <1>8

\* A killed agent keeps it too: what it says of units is about the job, and the
\* job is forgotten.
LEMMA CrashInv ==
    ASSUME JobInv, Crash
    PROVE  JobInv'
BY UnitAssumption
   DEF JobInv, TypeOK, PausedOnlyWhileArchiving, ReadWhileStopped, SuccessIsReadable,
       Archiving, Step, Object, Unit, Service, Crash

\* Every state of every backup satisfies the inductive invariant.
THEOREM JobInvariant == Spec => []JobInv
<1>1. JobInv /\ [Next]_vars => JobInv'
  <2> SUFFICES ASSUME JobInv, [Next]_vars PROVE JobInv'
    OBVIOUS
  <2>1. CASE Next
    BY <2>1, BeginInv, StopInv, StartInv, LoopInv, UploadInv, CrashInv DEF Next
  <2>2. CASE UNCHANGED vars
    BY <2>2
       DEF vars, JobInv, TypeOK, PausedOnlyWhileArchiving, ReadWhileStopped,
           SuccessIsReadable
  <2> QED
    BY <2>1, <2>2
<1> QED
  BY <1>1, JobInitInv, PTL DEF Spec

\* Whichever command, file or request fails, createArchive ends with every
\* application up that it found up, unless systemctl or docker refused.
THEOREM ServicesComeBack == Spec => []PausedOnlyWhileArchiving
<1>1. JobInv => PausedOnlyWhileArchiving
  BY DEF JobInv
<1> QED
  BY <1>1, JobInvariant, PTL

\* The paths are read while the applications are down.
THEOREM ArchiveIsQuiet == Spec => []ReadWhileStopped
<1>1. JobInv => ReadWhileStopped
  BY DEF JobInv
<1> QED
  BY <1>1, JobInvariant, PTL

\* A backup reported as made can be read.
THEOREM ReportedBackupIsReadable == Spec => []SuccessIsReadable
<1>1. JobInv => SuccessIsReadable
  BY DEF JobInv
<1> QED
  BY <1>1, JobInvariant, PTL

-----------------------------------------------------------------------------
(* When units stay down.                                                    *)

\* What ran before the first backup runs, or the present job has yet to start it.
IntendedFits ==
    /\ pc \notin Archiving => intended \subseteq up
    /\ pc \in {"stopServices", "stopContainers", "walk"} => intended \subseteq up \cup paused
    /\ pc = "startContainers" => intended \subseteq up \cup todo \cup (paused \cap Service)
    /\ pc = "startServices" => intended \subseteq up \cup todo

\* A kill while it archives, or a command that fails, is the only way in which
\* an agent leaves a unit down that ran before: in a behaviour without them
\* everything is brought back after every job, however walks, manifests and
\* uploads fail and whenever else the agent is killed.
THEOREM OnlyKillsLeaveUnitsDown ==
    Spec /\ [](refused = {}) /\ [][Crash => pc \notin Archiving]_vars => []IntendedUnitsRun
<1>1. Init => IntendedFits
  BY DEF Init, IntendedFits, Archiving
<1>2. ASSUME TypeOK, IntendedFits, refused' = {}, [Next]_vars,
             [Crash => pc \notin Archiving]_vars
      PROVE  IntendedFits'
  <2>1. CASE UNCHANGED vars
    BY <1>2, <2>1 DEF vars, IntendedFits
  <2>2. CASE Next /\ ~UNCHANGED vars
    <3> USE <1>2, UnitAssumption DEF IntendedFits, Archiving
    <3>1. CASE (\E d \in BOOLEAN : BeginJob(d)) \/ BeginFails
      BY <3>1 DEF BeginJob, BeginFails
    <3>2. ASSUME NEW u \in Unit, Stop(u) \/ Start(u) PROVE IntendedFits'
      BY <3>2 DEF Stop, Start
    <3>3. ASSUME NEW u \in Unit, StopFails(u) \/ StartFails(u) PROVE FALSE
      BY <3>3 DEF StopFails, StartFails
    <3>4. ASSUME NEW c \in Container, InspectFails(c) PROVE IntendedFits'
      BY <3>4 DEF InspectFails
    <3>5. CASE ServicesStopped \/ ContainersStopped
      BY <3>5 DEF ServicesStopped, ContainersStopped
    <3>6. CASE \E failed \in BOOLEAN : Walk(failed)
      <4>1. paused \subseteq Container \cup Service
        BY DEF TypeOK, Service
      <4> QED BY <3>6, <4>1 DEF Walk
    <3>7. CASE ContainersStarted \/ ServicesStarted
      BY <3>7 DEF ContainersStarted, ServicesStarted, Finish
    <3>8. CASE WriteManifest \/ WriteManifestFails
      BY <3>8 DEF WriteManifest, WriteManifestFails, Finish
    <3>9. CASE Put \/ PutFails \/ Appear
      BY <3>9 DEF Put, PutFails, Appear, Finish
    <3>10. CASE SizeAgrees \/ HashAgrees \/ DeadlinePasses
      BY <3>10 DEF SizeAgrees, HashAgrees, DeadlinePasses, Finish
    <3>11. CASE Crash
      BY <2>2, <3>11 DEF Crash
    <3> QED
      BY <2>2, <3>1, <3>2, <3>3, <3>4, <3>5, <3>6, <3>7, <3>8, <3>9, <3>10, <3>11 DEF Next
  <2> QED BY <1>2, <2>1, <2>2
<1>3. IntendedFits => IntendedUnitsRun
  BY DEF IntendedFits, IntendedUnitsRun, Archiving
<1>4. JobInv => TypeOK
  BY DEF JobInv
<1>5. TypeOK /\ IntendedFits /\ (refused = {})' /\ [Next]_vars /\ [Crash => pc \notin Archiving]_vars
          => IntendedFits'
  BY <1>2
<1> QED BY <1>1, <1>3, <1>4, <1>5, JobInvariant, PTL DEF Spec
=============================================================================
