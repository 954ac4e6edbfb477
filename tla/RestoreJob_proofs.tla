-------------------------- MODULE RestoreJob_proofs --------------------------
(***************************************************************************)
(* Proofs about RestoreJob, for any services, projects and dumps.          *)
(***************************************************************************)
EXTENDS RestoreJob, TLAPS

\* What the proofs need of a manifest.
LEMMA ManifestFacts ==
    ASSUME TypeOK
    PROVE  /\ Wanted \subseteq Unit /\ Wanted \subseteq manifest.listed
           /\ manifest.listed \subseteq Unit
           /\ manifest.enabled \subseteq manifest.listed
BY DEF TypeOK, Manifest, Wanted

\* The first of the services to handle are among them, and an application is
\* one only when no database is left.
LEMMA FirstFacts ==
    ASSUME NEW S \in SUBSET Unit, NEW u \in First(S)
    PROVE  /\ u \in S
           /\ u \in Application => Database \cap S = {}
BY ClassAssumption DEF First, Unit

\* Before the command comes nothing is in progress.
LEMMA RestoreInitInv == Init => RestoreInv
BY DEF Init, RestoreInv, TypeOK, SuccessIsComplete, NothingSilentlyStopped,
       QuietWhileCopied, DatabasesFirst, Step, Unit

\* Until the archive is unpacked nothing is touched.
LEMMA BeginInv ==
    ASSUME RestoreInv,
           \/ Begin \/ BeginFails
           \/ \E installed, ok \in BOOLEAN : PrepareRuntime(installed, ok)
    PROVE  RestoreInv'
<1> USE DEF RestoreInv, TypeOK, SuccessIsComplete, NothingSilentlyStopped, QuietWhileCopied,
        DatabasesFirst, Wanted, Step, Unit,
        fixedVars, machineVars
<1>1. CASE Begin
  BY <1>1 DEF Begin
<1>2. CASE BeginFails
  BY <1>2 DEF BeginFails
<1>3. CASE \E installed, ok \in BOOLEAN : PrepareRuntime(installed, ok)
  BY <1>3, ManifestFacts DEF PrepareRuntime
<1> QED
  BY <1>1, <1>2, <1>3

\* Stopping a service, or failing to, keeps the invariant.
LEMMA StopInv ==
    ASSUME NEW u \in Unit, RestoreInv, StopUnit(u) \/ StopUnitFails(u) \/ SkipUnit(u)
    PROVE  RestoreInv'
<1>1. /\ pc = "stop" /\ pc' = "stop" /\ u \in First(todo) /\ todo' = todo \ {u}
      /\ UNCHANGED <<manifest, before, enabled, files, back, toEnable, outcome>>
  BY DEF StopUnit, StopUnitFails, SkipUnit, fixedVars, machineVars
<1>2. u \in todo /\ todo \subseteq Unit /\ todo \subseteq Wanted
  BY <1>1, FirstFacts, ManifestFacts DEF RestoreInv
<1>3. /\ up' = up \/ up' = up \ {u}
      /\ skipped' = skipped \/ skipped' = skipped \cup {u}
      /\ warned' \in BOOLEAN /\ (~warned' => ~warned)
      /\ ~warned' => u \notin up' \/ u \in skipped'
  BY DEF StopUnit, StopUnitFails, SkipUnit, fixedVars, machineVars, RestoreInv, TypeOK
<1>4. Wanted' = Wanted
  BY <1>1 DEF Wanted
<1>5. TypeOK'
  BY <1>1, <1>2, <1>3 DEF RestoreInv, TypeOK
<1>6. outcome' = "none"
  BY <1>1 DEF RestoreInv
<1>7. (before \subseteq up \cup Wanted)'
  BY <1>1, <1>2, <1>3, <1>4 DEF RestoreInv
<1>8. (pc = "stop" /\ ~warned => Wanted \cap up \subseteq todo \cup skipped)'
  BY <1>1, <1>3, <1>4 DEF RestoreInv
<1> QED
  BY <1>1, <1>2, <1>4, <1>5, <1>6, <1>7, <1>8
     DEF RestoreInv, SuccessIsComplete, NothingSilentlyStopped, QuietWhileCopied,
         DatabasesFirst

\* Copying keeps the invariant.
LEMMA CopyInv ==
    ASSUME RestoreInv, CopyBegins \/ CopyEnds \/ CopyFails
    PROVE  RestoreInv'
<1> USE DEF RestoreInv, TypeOK, SuccessIsComplete, NothingSilentlyStopped, QuietWhileCopied,
        DatabasesFirst, Wanted, Step, Unit,
        fixedVars, machineVars
<1>1. CASE CopyBegins
  BY <1>1 DEF CopyBegins
<1>2. CASE CopyEnds
  BY <1>2 DEF CopyEnds
<1>3. CASE CopyFails
  BY <1>3 DEF CopyFails
<1> QED
  BY <1>1, <1>2, <1>3

\* Reading the unit files again keeps the invariant.
LEMMA ReloadInv ==
    ASSUME NEW ok \in BOOLEAN, RestoreInv, Reload(ok)
    PROVE  RestoreInv'
BY ManifestFacts
   DEF Reload, RestoreInv, TypeOK, SuccessIsComplete, NothingSilentlyStopped,
       QuietWhileCopied, DatabasesFirst, Wanted, Step, Unit, fixedVars, machineVars

\* The loop that enables and restarts services keeps the invariant.
LEMMA RestartInv ==
    ASSUME NEW u \in Unit, NEW ok \in BOOLEAN, RestoreInv,
           Enable(u, ok) \/ LeaveUnit(u) \/ RestartUnit(u, ok)
    PROVE  RestoreInv'
<1> USE DEF RestoreInv, TypeOK, SuccessIsComplete, NothingSilentlyStopped, QuietWhileCopied,
        DatabasesFirst, Wanted, Step, Unit,
        fixedVars, machineVars
<1>1. CASE Enable(u, ok)
  BY <1>1, ManifestFacts, FirstFacts DEF Enable
<1>2. CASE LeaveUnit(u)
  BY <1>2, ManifestFacts, FirstFacts DEF LeaveUnit
<1>3. CASE RestartUnit(u, ok)
  <2>1. /\ pc = "restart" /\ pc' = "restart" /\ todo' = todo \ {u}
        /\ UNCHANGED <<manifest, before, enabled, files, back, toEnable,
                       skipped, outcome>>
    BY <1>3 DEF RestartUnit
  <2>2. u \in todo /\ u \in Wanted /\ u \notin toEnable /\ todo \subseteq Unit
    BY <1>3, FirstFacts DEF RestartUnit
  <2>3. u \in Application => Database \cap todo = {}
    BY <1>3, FirstFacts DEF RestartUnit
  <2>4. /\ up' = up \/ up' = up \ {u} \/ up' = up \cup {u}
        /\ warned' \in BOOLEAN /\ (~warned' => ~warned /\ up' = up \cup {u})
    BY <1>3 DEF RestartUnit
  <2>5. Wanted' = Wanted
    BY <2>1
  <2>6. TypeOK'
    BY <2>1, <2>2, <2>4
  <2> HIDE DEF Wanted
  <2>7. (before \subseteq up \cup Wanted)'
    BY <2>1, <2>2, <2>4, <2>5
  <2>8. (pc = "restart" => toEnable \subseteq todo)'
    BY <2>1, <2>2
  <2>9. (pc = "restart" /\ ~warned =>
             /\ Wanted \subseteq todo \cup up
             /\ manifest.enabled \subseteq toEnable \cup enabled
             /\ \A v \in Wanted \ todo : v \in Application => Database \cap todo = {})'
    BY <2>1, <2>2, <2>3, <2>4, <2>5
  <2>10. DatabasesFirst'
    BY <2>1, <2>2, <2>3, <2>4, <2>5, ClassAssumption
  <2>11. outcome' = "none" /\ files' = "new" /\ todo' \subseteq Unit
    BY <2>1, <2>2
  <2> QED
    BY <2>1, <2>6, <2>7, <2>8, <2>9, <2>10, <2>11
<1> QED
  BY <1>1, <1>2, <1>3

\* Projects and dumps keep the invariant, and so does the result.
LEMMA BringBackInv ==
    ASSUME RestoreInv,
           \/ ServicesHandled \/ ProjectsHandled \/ Finish \/ Crash
           \/ \E x \in Project \cup Dump, ok \in BOOLEAN : BringBack(x, ok)
    PROVE  RestoreInv'
<1> USE DEF RestoreInv, TypeOK, SuccessIsComplete, NothingSilentlyStopped, QuietWhileCopied,
        DatabasesFirst, Wanted, Step, Unit,
        fixedVars, machineVars
<1>1. CASE ServicesHandled
  BY <1>1 DEF ServicesHandled
<1>2. CASE ProjectsHandled
  BY <1>2 DEF ProjectsHandled
<1>3. CASE Finish
  BY <1>3 DEF Finish
<1>4. CASE Crash
  BY <1>4 DEF Crash
<1>5. CASE \E x \in Project \cup Dump, ok \in BOOLEAN : BringBack(x, ok)
  BY <1>5 DEF BringBack
<1> QED
  BY <1>1, <1>2, <1>3, <1>4, <1>5

\* Every state of every execution of the command satisfies the invariant.
THEOREM RestoreInvariant == Spec => []RestoreInv
<1>1. RestoreInv /\ [Next]_vars => RestoreInv'
  <2> SUFFICES ASSUME RestoreInv, [Next]_vars PROVE RestoreInv'
    OBVIOUS
  <2>1. CASE Next
    <3>1. CASE \/ Begin \/ BeginFails
               \/ \E installed, ok \in BOOLEAN : PrepareRuntime(installed, ok)
      BY <3>1, BeginInv
    <3>2. CASE \E u \in Unit : StopUnit(u) \/ StopUnitFails(u) \/ SkipUnit(u)
      BY <3>2, StopInv
    <3>3. CASE CopyBegins \/ CopyEnds \/ CopyFails
      BY <3>3, CopyInv
    <3>4. CASE \E u \in Unit, ok \in BOOLEAN :
                   Enable(u, ok) \/ LeaveUnit(u) \/ RestartUnit(u, ok)
      BY <3>4, RestartInv
    <3>5. CASE \E ok \in BOOLEAN : Reload(ok)
      BY <3>5, ReloadInv
    <3>6. CASE \/ ServicesHandled \/ ProjectsHandled \/ Finish \/ Crash
               \/ \E x \in Project \cup Dump, ok \in BOOLEAN : BringBack(x, ok)
      BY <3>6, BringBackInv
    <3> QED
      BY <2>1, <3>1, <3>2, <3>3, <3>4, <3>5, <3>6 DEF Next
  <2>2. CASE UNCHANGED vars
    BY <2>2
       DEF vars, RestoreInv, TypeOK, SuccessIsComplete, NothingSilentlyStopped,
           QuietWhileCopied, DatabasesFirst, Wanted
  <2> QED
    BY <2>1, <2>2
<1> QED
  BY <1>1, RestoreInitInv, PTL DEF Spec

\* A restore reported as successful is complete.
THEOREM ReportedRestoreIsComplete == Spec => []SuccessIsComplete
<1>1. RestoreInv => SuccessIsComplete
  BY DEF RestoreInv
<1> QED
  BY <1>1, RestoreInvariant, PTL

\* A successful restore, a repeated one too, has everything running that ran
\* before the command came.
THEOREM RestoreBringsBack == Spec => []NothingSilentlyStopped
<1>1. RestoreInv => NothingSilentlyStopped
  BY DEF RestoreInv
<1> QED
  BY <1>1, RestoreInvariant, PTL

\* While a restore replaces the files of an application its services are not
\* running, unless that was warned of.
THEOREM FilesChangeUnderNobody == Spec => []QuietWhileCopied
<1>1. RestoreInv => QuietWhileCopied
  BY DEF RestoreInv
<1> QED
  BY <1>1, RestoreInvariant, PTL

\* Applications come back after the databases they need.
THEOREM DatabasesComeFirst == Spec => []DatabasesFirst
<1>1. RestoreInv => DatabasesFirst
  BY DEF RestoreInv
<1> QED
  BY <1>1, RestoreInvariant, PTL
=============================================================================
