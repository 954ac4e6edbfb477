------------------------- MODULE Repository_proofs -------------------------
(***************************************************************************)
(* Proofs about Repository, for any number of hosts, commands and requests *)
(* and any number of lost results.                                         *)
(***************************************************************************)
EXTENDS Repository, Agent_proofs, FiniteSetTheorems, SequenceTheorems,
        WellFoundedInduction

\* An empty repository and an empty index fit.
LEMMA RepositoryInitInv == RepositoryInit => AgentInv /\ RepositoryInv
<1> SUFFICES ASSUME RepositoryInit PROVE AgentInv /\ RepositoryInv
  OBVIOUS
<1>1. AgentInv
  BY AgentInitInv DEF RepositoryInit
<1>2. RepositoryTypeOK
  BY DEF RepositoryInit, RepositoryTypeOK, Deletion
<1>3. ListedIsStored /\ \A o \in stored : o.run \in 1..runs[o.host][o.cmd]
  BY DEF RepositoryInit, ListedIsStored
<1>4. \A h \in Host : HostNames(h)
  BY DEF RepositoryInit, AgentInit, HostNames
<1>5. \A h \in Host, c \in Command : SavedNames(h, c)
  BY RepositoryAssumption DEF RepositoryInit, AgentInit, SavedNames
<1>6. /\ \A c \in Command : EntryNames(c)
      /\ \A t \in Request : DeletionFits(t)
  BY DEF RepositoryInit, EntryNames, DeletionFits
<1> QED
  BY <1>1, <1>2, <1>3, <1>4, <1>5, <1>6 DEF RepositoryInv

-----------------------------------------------------------------------------
(* What most steps leave alone.                                             *)

\* Executions are only counted up.
RunsGrow == \A g \in Host, c \in Command : runs[g][c] \in Nat /\ runs[g][c] <= runs'[g][c]
                                            /\ runs'[g][c] \in Nat

\* A host's own memory and file stay as they are.
HostStands(g) ==
    /\ phase'[g] = phase[g] /\ cmd'[g] = cmd[g] /\ result'[g] = result[g]
    /\ file'[g] = file[g] /\ name'[g] = name[g] /\ saved'[g] = saved[g]

LEMMA NamesGrow ==
    ASSUME RunsGrow, NEW g \in Host, NEW c \in Command, NEW o, Names(o, g, c)
    PROVE  /\ o \in Object /\ o.host = g /\ o.cmd = c /\ o.run \in 1..runs'[g][c]
BY DEF RunsGrow, Names, Object

\* What the agent's invariant says of a host.
LEMMA HandTyped ==
    ASSUME NEW h \in Host, AgentInv
    PROVE  /\ cmd \in [Host -> Command \cup {NoCmd}]
           /\ NoCmd \notin Command
           /\ \A g \in Host, c \in Command : runs[g][c] \in Nat
           /\ phase[h] \in {"rest", "poll"} <=> cmd[h] = NoCmd
           /\ cmd[h] = NoCmd \/ cmd[h] \in Command
BY AgentAssumption DEF AgentInv, AgentTypeOK, HandFits

\* Steps of a host that touch neither the repository nor the index.
LEMMA HostSideInv ==
    ASSUME NEW h \in Host, RepositoryInv, RunsGrow,
           UNCHANGED <<davVars, ctlVars, delVars>>,
           name' \in [Host -> Object \cup {NoObject}],
           saved' \in [Host -> [Command -> Object \cup {NoObject}]],
           AgentInv,
           \A g \in Host : g = h \/ HostStands(g),
           HostNames(h)', \A c \in Command : SavedNames(h, c)',
           \A c \in Command : Before(h, c)' => Before(h, c) \/ c \notin out
    PROVE  RepositoryInv'
<1>1. UNCHANGED <<dirs, stored, broken, out, entry, listed, handler, begun>>
  BY DEF davVars, ctlVars, delVars
<1>2. RepositoryTypeOK'
  BY <1>1 DEF RepositoryInv, RepositoryTypeOK
<1>3. \A o \in stored' : o.run \in 1..runs'[o.host][o.cmd]
  <2> SUFFICES ASSUME NEW o \in stored PROVE o.run \in 1..runs'[o.host][o.cmd]
    BY <1>1
  <2>1. o.host \in Host /\ o.cmd \in Command /\ o.run \in 1..runs[o.host][o.cmd]
    BY DEF RepositoryInv, RepositoryTypeOK, Object
  <2> QED
    BY <2>1 DEF RunsGrow
<1>4. ASSUME NEW g \in Host PROVE HostNames(g)'
  <2>1. CASE g = h
    BY <2>1
  <2>2. CASE g # h
    <3>1. HostNames(g) /\ HostStands(g)
      BY <2>2 DEF RepositoryInv
    <3>2. cmd[g] # NoCmd => cmd[g] \in Command
      BY HandTyped
    <3>3. name'[g] # NoObject => cmd'[g] # NoCmd /\ Names(name[g], g, cmd[g])'
      BY <3>1, <3>2, NamesGrow DEF HostNames, HostStands, Names
    <3>4. phase'[g] = "execute" => runs'[g][cmd'[g]] # 0
      <4>1. phase[g] = "execute" => cmd[g] \in Command /\ runs[g][cmd[g]] # 0
        BY <3>1, HandTyped DEF HostNames
      <4> QED
        BY <3>1, <4>1 DEF HostStands, RunsGrow
    <3> QED
      BY <1>1, <3>1, <3>3, <3>4 DEF HostNames, HostStands, Kept, Names
  <2> QED
    BY <2>1, <2>2
<1>5. ASSUME NEW g \in Host, NEW c \in Command PROVE SavedNames(g, c)'
  <2>1. CASE g = h
    BY <2>1
  <2>2. CASE g # h
    <3>1. SavedNames(g, c) /\ HostStands(g)
      BY <2>2 DEF RepositoryInv
    <3>2. Names(saved[g][c], g, c) => Names(saved[g][c], g, c)'
      BY <3>1, NamesGrow DEF HostStands, Names
    <3> QED
      BY <1>1, <3>1, <3>2 DEF SavedNames, HostStands, Kept
  <2> QED
    BY <2>1, <2>2
<1>6. ASSUME NEW c \in Command PROVE EntryNames(c)'
  <2>1. EntryNames(c)
    BY DEF RepositoryInv
  <2>2. entry[c] # NoObject => entry[c].host \in Host
    BY RepositoryAssumption DEF RepositoryInv, RepositoryTypeOK, Object
  <2>3. entry[c] # NoObject => Names(entry[c], entry[c].host, c)'
    BY <1>1, <2>1, <2>2, NamesGrow DEF EntryNames, Names
  <2>4. entry[c] # NoObject => ~Before(entry[c].host, c)'
    BY <1>1, <2>1, <2>2 DEF EntryNames, Before, HostStands
  <2> QED
    BY <1>1, <2>1, <2>3, <2>4 DEF EntryNames
<1>7. (\A t \in Request : DeletionFits(t))' /\ ListedIsStored'
  BY <1>1 DEF RepositoryInv, DeletionFits, ListedIsStored
<1> QED
  BY <1>2, <1>3, <1>4, <1>5, <1>6, <1>7 DEF RepositoryInv

-----------------------------------------------------------------------------
(* The host's actions.                                                      *)

LEMMA ReceiveInv ==
    ASSUME NEW h \in Host, NEW c \in Command, AgentInv, RepositoryInv, Receive(h, c)
    PROVE  RepositoryInv'
<1>1. /\ phase[h] = "poll" /\ phase' = [phase EXCEPT ![h] = "hold"]
      /\ cmd' = [cmd EXCEPT ![h] = c] /\ c \notin out
      /\ UNCHANGED <<result, file, runs, name, saved>>
      /\ UNCHANGED <<davVars, ctlVars, delVars>>
  BY DEF Receive, PollReceives, Receives, GoTo, hostVars
<1>2. RunsGrow
  BY <1>1, HandTyped DEF RunsGrow
<1>3. \A g \in Host : g = h \/ HostStands(g)
  BY <1>1 DEF HostStands, AgentInv, AgentTypeOK
<1>4. name[h] = NoObject
  BY <1>1, HandTyped DEF RepositoryInv, HostNames
<1>5. HostNames(h)'
  BY <1>1, <1>4 DEF HostNames, AgentInv, AgentTypeOK
<1>6. \A d \in Command : SavedNames(h, d)'
  BY <1>1 DEF RepositoryInv, SavedNames, Names, Kept, davVars, ctlVars, delVars
<1>7. \A d \in Command : Before(h, d)' => d \notin out
  BY <1>1 DEF Before, AgentInv, AgentTypeOK
<1> QED
  BY <1>1, <1>2, <1>3, <1>5, <1>6, <1>7, HandTyped, HostSideInv
     DEF RepositoryInv, RepositoryTypeOK

LEMMA LoopGoesOnInv ==
    ASSUME NEW h \in Host, AgentInv, RepositoryInv, LoopGoesOn(h)
    PROVE  RepositoryInv'
<1>1. /\ UNCHANGED <<cmd, result, file, name, saved>>
      /\ UNCHANGED <<davVars, ctlVars, delVars>>
      /\ \/ phase[h] = "rest" /\ phase' = [phase EXCEPT ![h] = "poll"] /\ runs' = runs
         \/ /\ phase[h] = "hold" /\ phase' = [phase EXCEPT ![h] = "execute"]
            /\ runs' = [runs EXCEPT ![h][cmd[h]] = @ + 1]
  BY DEF LoopGoesOn, HeartbeatAccepted, ExecuteBegins, GoTo, hostVars
<1>2. RunsGrow
  <2> SUFFICES ASSUME NEW g \in Host, NEW c \in Command
               PROVE  runs[g][c] \in Nat /\ runs'[g][c] \in Nat /\ runs[g][c] <= runs'[g][c]
    BY DEF RunsGrow
  <2>1. runs[g][c] \in Nat
    BY HandTyped
  <2>2. runs'[g][c] \in {runs[g][c], runs[g][c] + 1}
    <3>1. CASE g = h /\ c = cmd[h] /\ runs' = [runs EXCEPT ![h][cmd[h]] = @ + 1]
      BY <3>1 DEF AgentInv, AgentTypeOK
    <3>2. CASE ~(g = h /\ c = cmd[h]) \/ runs' = runs
      BY <1>1, <3>2 DEF AgentInv, AgentTypeOK
    <3> QED
      BY <1>1, <3>1, <3>2
  <2> QED
    BY <2>1, <2>2
<1>3. \A g \in Host : g = h \/ HostStands(g)
  BY <1>1 DEF HostStands, AgentInv, AgentTypeOK
<1>4. phase'[h] \in {"poll", "execute"}
  BY <1>1 DEF AgentInv, AgentTypeOK
<1>5. phase'[h] = "execute" => runs'[h][cmd[h]] # 0
  <2>1. CASE phase[h] = "rest"
    BY <2>1, <1>1 DEF AgentInv, AgentTypeOK
  <2>2. CASE phase[h] = "hold"
    <3>1. cmd[h] \in Command
      BY <2>2, HandTyped
    <3>2. runs'[h][cmd[h]] = runs[h][cmd[h]] + 1
      BY <1>1, <2>2, <3>1 DEF AgentInv, AgentTypeOK
    <3> QED
      BY <3>1, <3>2, HandTyped
  <2> QED
    BY <1>1, <2>1, <2>2
<1>6. name[h] # NoObject => cmd[h] # NoCmd /\ Names(name[h], h, cmd[h])'
  BY <1>1, <1>2, HandTyped, NamesGrow DEF RepositoryInv, HostNames, Names
<1>7. HostNames(h)'
  BY <1>1, <1>4, <1>5, <1>6 DEF HostNames, Names
<1>8. ASSUME NEW d \in Command PROVE SavedNames(h, d)'
  <2>1. Names(saved[h][d], h, d) => Names(saved[h][d], h, d)'
    BY <1>1, <1>2, NamesGrow DEF Names
  <2> QED
    BY <1>1, <2>1 DEF RepositoryInv, SavedNames, Kept, davVars, ctlVars, delVars
<1>9. \A d \in Command : Before(h, d)' => Before(h, d)
  BY <1>1, <1>4, HandTyped DEF Before
<1> QED
  BY <1>1, <1>2, <1>3, <1>7, <1>8, <1>9, HandTyped, HostSideInv
     DEF RepositoryInv, RepositoryTypeOK

LEMMA BackupEndsInv ==
    ASSUME NEW h \in Host, NEW s \in Status, AgentInv, RepositoryInv, BackupEnds(h, s)
    PROVE  RepositoryInv'
<1>1. /\ UNCHANGED <<cmd, runs, file, name, saved>>
      /\ UNCHANGED <<davVars, ctlVars, delVars>>
      /\ phase[h] = "execute" /\ phase' = [phase EXCEPT ![h] = "save"]
      /\ result' = [result EXCEPT ![h] = s]
      /\ s = "success" => name[h] \in stored \ broken
  BY DEF BackupEnds, ExecuteEnds, GoTo, hostVars
<1>2. RunsGrow
  BY <1>1, HandTyped DEF RunsGrow
<1>3. \A g \in Host : g = h \/ HostStands(g)
  BY <1>1 DEF HostStands, AgentInv, AgentTypeOK
<1>4. phase'[h] = "save" /\ result'[h] = s
  BY <1>1 DEF AgentInv, AgentTypeOK
<1>5. s = "success" => name[h] # NoObject
  BY <1>1, RepositoryAssumption DEF RepositoryInv, RepositoryTypeOK, Object
<1>6. HostNames(h)'
  BY <1>1, <1>4, <1>5 DEF RepositoryInv, HostNames, Names, Kept, davVars
<1>7. \A d \in Command : SavedNames(h, d)'
  BY <1>1 DEF RepositoryInv, SavedNames, Names, Kept, davVars, ctlVars, delVars
<1>8. \A d \in Command : Before(h, d)' => Before(h, d)
  BY <1>1, <1>4 DEF Before
<1> QED
  BY <1>1, <1>2, <1>3, <1>6, <1>7, <1>8, HandTyped, HostSideInv
     DEF RepositoryInv, RepositoryTypeOK

LEMMA SaveResultInv ==
    ASSUME NEW h \in Host, AgentInv, RepositoryInv, SaveResult(h)
    PROVE  RepositoryInv'
<1> DEFINE kept == IF result[h] = "success" THEN name[h] ELSE NoObject
<1>1. /\ UNCHANGED <<cmd, result, runs, name>>
      /\ UNCHANGED <<davVars, ctlVars, delVars>>
      /\ phase[h] = "save" /\ phase' = [phase EXCEPT ![h] = "report"]
      /\ file' = [file EXCEPT ![h][cmd[h]] = result[h]]
      /\ saved' = [saved EXCEPT ![h][cmd[h]] = kept]
  BY DEF SaveResult, SaveResults, GoTo
<1>2. RunsGrow
  BY <1>1, HandTyped DEF RunsGrow
<1>3. name[h] \in Object \cup {NoObject} /\ cmd[h] \in Command
  BY <1>1, HandTyped DEF RepositoryInv, RepositoryTypeOK
<1>4. saved \in [Host -> [Command -> Object \cup {NoObject}]]
  BY DEF RepositoryInv, RepositoryTypeOK
<1>5. saved' \in [Host -> [Command -> Object \cup {NoObject}]]
  BY <1>1, <1>3, <1>4
<1>6. \A g \in Host : g = h \/ HostStands(g)
  BY <1>1, <1>4 DEF HostStands, AgentInv, AgentTypeOK
<1>7. phase'[h] = "report"
  BY <1>1 DEF AgentInv, AgentTypeOK
<1>8. HostNames(h) /\ HostNames(h)'
  BY <1>1, <1>7 DEF RepositoryInv, HostNames, Names, Kept, davVars, ctlVars, delVars
<1>9. ASSUME NEW d \in Command PROVE SavedNames(h, d)'
  <2>1. CASE d = cmd[h]
    <3>1. file'[h][d] = result[h] /\ saved'[h][d] = kept
      BY <1>1, <1>3, <1>4, <2>1 DEF AgentInv, AgentTypeOK
    <3>2. kept # NoObject => Names(kept, h, d)'
      BY <1>1, <1>8, <2>1 DEF HostNames, Names
    <3>3. result[h] = "success" => kept # NoObject /\ Kept(name[h], d)'
      BY <1>1, <1>8, <2>1 DEF HostNames, Kept, davVars, ctlVars, delVars
    <3> QED
      BY <1>1, <3>1, <3>2, <3>3 DEF SavedNames, Names, Kept
  <2>2. CASE d # cmd[h]
    <3>1. file'[h][d] = file[h][d] /\ saved'[h][d] = saved[h][d]
      BY <1>1, <1>3, <1>4, <2>2 DEF AgentInv, AgentTypeOK
    <3> QED
      BY <1>1, <3>1 DEF RepositoryInv, SavedNames, Names, Kept, davVars, ctlVars, delVars
  <2> QED
    BY <2>1, <2>2
<1>10. \A d \in Command : Before(h, d)' => Before(h, d)
  BY <1>1, <1>7 DEF Before
<1> QED
  BY <1>1, <1>2, <1>5, <1>6, <1>8, <1>9, <1>10, HandTyped, HostSideInv
     DEF RepositoryInv, RepositoryTypeOK

LEMMA ReportAgainInv ==
    ASSUME NEW h \in Host, AgentInv, RepositoryInv, ReportAgain(h)
    PROVE  RepositoryInv'
<1>1. /\ UNCHANGED <<cmd, file, runs, saved>>
      /\ UNCHANGED <<davVars, ctlVars, delVars>>
      /\ phase[h] = "hold" /\ phase' = [phase EXCEPT ![h] = "report"]
      /\ result' = [result EXCEPT ![h] = file[h][cmd[h]]]
      /\ name' = [name EXCEPT ![h] = saved[h][cmd[h]]]
  BY DEF ReportAgain, SavedResult, GoTo
<1>2. RunsGrow
  BY <1>1, HandTyped DEF RunsGrow
<1>3. cmd[h] \in Command /\ cmd[h] # NoCmd
  BY <1>1, HandTyped
<1>4. saved[h][cmd[h]] \in Object \cup {NoObject} /\ name \in [Host -> Object \cup {NoObject}]
  BY <1>3 DEF RepositoryInv, RepositoryTypeOK
<1>5. name' \in [Host -> Object \cup {NoObject}]
  BY <1>1, <1>4
<1>6. \A g \in Host : g = h \/ HostStands(g)
  BY <1>1, <1>4 DEF HostStands, AgentInv, AgentTypeOK
<1>7. phase'[h] = "report" /\ result'[h] = file[h][cmd[h]] /\ name'[h] = saved[h][cmd[h]]
  BY <1>1, <1>4 DEF AgentInv, AgentTypeOK
<1>8. \A d \in Command : SavedNames(h, d) /\ SavedNames(h, d)'
  BY <1>1 DEF RepositoryInv, SavedNames, Names, Kept, davVars, ctlVars, delVars
<1>9. HostNames(h)'
  BY <1>1, <1>3, <1>7, <1>8 DEF SavedNames, HostNames, Names, Kept
<1>10. \A d \in Command : Before(h, d)' => Before(h, d)
  BY <1>1, <1>7 DEF Before
<1> QED
  BY <1>1, <1>2, <1>5, <1>6, <1>8, <1>9, <1>10, HandTyped, HostSideInv
     DEF RepositoryInv, RepositoryTypeOK

LEMMA CycleEndsInv ==
    ASSUME NEW h \in Host, AgentInv, RepositoryInv, CycleEnds(h)
    PROVE  RepositoryInv'
<1>1. /\ EndCycle(h) /\ UNCHANGED <<runs, saved>>
      /\ UNCHANGED <<davVars, ctlVars, delVars>>
      /\ name' = [name EXCEPT ![h] = NoObject]
      /\ file' \in {file, [file EXCEPT ![h][cmd[h]] = NoResult]}
  BY DEF CycleEnds, Drop, PollEmpty, LoadResultsFails, SaveResultsFails, ReportFails,
         ClearResult, ClearResultFails, Crash
<1>2. RunsGrow
  BY <1>1, HandTyped DEF RunsGrow
<1>3. name' \in [Host -> Object \cup {NoObject}]
  BY <1>1 DEF RepositoryInv, RepositoryTypeOK
<1>4. \A g \in Host : g = h \/ HostStands(g)
  BY <1>1 DEF EndCycle, HostStands, AgentInv, AgentTypeOK, RepositoryInv, RepositoryTypeOK
<1>5. phase'[h] = "rest" /\ name'[h] = NoObject
  BY <1>1 DEF EndCycle, AgentInv, AgentTypeOK, RepositoryInv, RepositoryTypeOK
<1>6. HostNames(h)'
  BY <1>5 DEF HostNames
<1>7. ASSUME NEW d \in Command PROVE SavedNames(h, d)'
  <2>1. file'[h][d] = "success" => file[h][d] = "success"
    BY <1>1, RepositoryAssumption DEF AgentInv, AgentTypeOK
  <2> QED
    BY <1>1, <2>1 DEF RepositoryInv, SavedNames, Names, Kept, davVars, ctlVars, delVars
<1>8. \A d \in Command : ~Before(h, d)'
  BY <1>5 DEF Before
<1> QED
  BY <1>1, <1>2, <1>3, <1>4, <1>6, <1>7, <1>8, HandTyped, HostSideInv
     DEF RepositoryInv, RepositoryTypeOK

LEMMA MakeDirectoryInv ==
    ASSUME NEW h \in Host, RepositoryInv, MakeDirectory(h)
    PROVE  RepositoryInv'
<1>1. UNCHANGED <<phase, cmd, result, file, runs, stored, broken, name, saved, out, entry,
                  listed, handler, begun>>
  BY DEF MakeDirectory, agentVars, hostVars, ctlVars, delVars
<1>2. RepositoryTypeOK' /\ ListedIsStored'
  BY <1>1 DEF RepositoryInv, RepositoryTypeOK, ListedIsStored
<1>3. (\A o \in stored : o.run \in 1..runs[o.host][o.cmd])'
  BY <1>1 DEF RepositoryInv
<1>4. \A g \in Host : HostNames(g)'
  BY <1>1 DEF RepositoryInv, HostNames, Names, Kept
<1>5. \A g \in Host, c \in Command : SavedNames(g, c)'
  BY <1>1 DEF RepositoryInv, SavedNames, Names, Kept
<1>6. (\A c \in Command : EntryNames(c))' /\ (\A t \in Request : DeletionFits(t))'
  BY <1>1 DEF RepositoryInv, EntryNames, Names, Before, DeletionFits
<1> QED
  BY <1>2, <1>3, <1>4, <1>5, <1>6 DEF RepositoryInv

\* The new object is no object that any name in use stands for.
LEMMA UploadInv ==
    ASSUME NEW h \in Host, AgentInv, RepositoryInv, Upload(h)
    PROVE  RepositoryInv'
<1> DEFINE o == [host |-> h, cmd |-> cmd[h], run |-> runs[h][cmd[h]]]
<1>1. /\ UNCHANGED <<phase, cmd, result, file, runs, saved, out, entry, listed, handler, begun>>
      /\ phase[h] = "execute"
      /\ stored' = stored \cup {o} /\ broken' \in {broken, broken \cup {o}}
      /\ name' = [name EXCEPT ![h] = o]
  BY DEF Upload, agentVars, ctlVars, delVars
<1>2. cmd[h] \in Command /\ runs[h][cmd[h]] \in Nat /\ runs[h][cmd[h]] # 0
  BY <1>1, HandTyped DEF RepositoryInv, HostNames
<1>3. o \in Object /\ o # NoObject /\ Names(o, h, cmd[h])
  BY <1>2, RepositoryAssumption DEF Object, Names
<1>4. RepositoryTypeOK'
  BY <1>1, <1>3 DEF RepositoryInv, RepositoryTypeOK
<1>5. (\A p \in stored : p.run \in 1..runs[p.host][p.cmd])'
  BY <1>1, <1>3 DEF RepositoryInv, Names
<1>6. ASSUME NEW p, NEW c \in Command, Kept(p, c), p # o PROVE Kept(p, c)'
  BY <1>1, <1>6 DEF Kept
<1>7. ASSUME NEW g \in Host PROVE HostNames(g)'
  <2>1. CASE g = h
    <3>1. name'[g] = o
      BY <1>1, <2>1 DEF RepositoryInv, RepositoryTypeOK
    <3> QED
      BY <1>1, <1>2, <1>3, <2>1, <3>1, HandTyped DEF HostNames, Names
  <2>2. CASE g # h
    <3>1. name'[g] = name[g] /\ HostNames(g)
      BY <1>1, <2>2 DEF RepositoryInv, RepositoryTypeOK
    <3>2. Names(name[g], g, cmd[g]) => name[g] # o
      BY <2>2 DEF Names
    <3>3. cmd[g] = NoCmd \/ cmd[g] \in Command
      BY HandTyped
    <3> QED
      BY <1>1, <1>6, <3>1, <3>2, <3>3 DEF HostNames, Names
  <2> QED
    BY <2>1, <2>2
<1>8. ASSUME NEW g \in Host, NEW c \in Command PROVE SavedNames(g, c)'
  <2>1. SavedNames(g, c)
    BY DEF RepositoryInv
  <2>2. file[g][c] = "success" => ~(g = h /\ c = cmd[h])
    BY <1>1, RepositoryAssumption DEF AgentInv, HandFits
  <2>3. file[g][c] = "success" => saved[g][c] # o
    BY <2>1, <2>2 DEF SavedNames, Names
  <2> QED
    BY <1>1, <1>6, <2>1, <2>3 DEF SavedNames, Names
<1>9. ASSUME NEW c \in Command PROVE EntryNames(c)' /\ entry[c] # o
  <2>1. EntryNames(c)
    BY DEF RepositoryInv
  <2>2. entry[c] # o
    BY <1>1, <1>3, <2>1 DEF EntryNames, Before, Names
  <2> QED
    BY <1>1, <2>1, <2>2 DEF EntryNames, Names, Before
<1>10. ListedIsStored'
  BY <1>1, <1>9 DEF RepositoryInv, RepositoryTypeOK, ListedIsStored
<1>11. ASSUME NEW t \in Request PROVE DeletionFits(t)'
  <2>1. handler[t] # Idle => handler[t].cmd \in Command
    BY DEF RepositoryInv, RepositoryTypeOK, Deletion
  <2> QED
    BY <1>1, <1>9, <2>1 DEF RepositoryInv, DeletionFits
<1> QED
  BY <1>4, <1>5, <1>7, <1>8, <1>9, <1>10, <1>11 DEF RepositoryInv

\* The controller records the result that h reports, whether or not h hears of it.
LEMMA RecordsInv ==
    ASSUME NEW h \in Host, AgentInv, RepositoryInv, phase[h] = "report", Records(h),
           UNCHANGED <<file, runs, saved>>,
           \A g \in Host : g = h \/ HostStands(g),
           name' \in [Host -> Object \cup {NoObject}],
           phase'[h] \in {"clear", "rest"},
           \/ name'[h] = NoObject
           \/ name'[h] = name[h] /\ cmd'[h] = cmd[h] /\ result'[h] = result[h],
           phase'[h] = "clear" => name'[h] = name[h] /\ cmd'[h] = cmd[h] /\ result'[h] = result[h]
    PROVE  RepositoryInv'
<1> DEFINE k == cmd[h]
<1>1. /\ k \notin out /\ out' = out \cup {k}
      /\ UNCHANGED <<dirs, stored, broken, handler, begun>>
      /\ \/ /\ result[h] = "success"
            /\ entry' = [entry EXCEPT ![k] = name[h]] /\ listed' = listed \cup {k}
         \/ entry' = entry /\ listed' = listed
  BY DEF Records, davVars, delVars
<1>2. k \in Command /\ k # NoCmd
  BY HandTyped
<1>3. entry[k] = NoObject /\ k \notin listed \cup begun
  BY <1>1, <1>2 DEF RepositoryInv, EntryNames
<1>4. result[h] = "success" => /\ name[h] # NoObject /\ name[h] \in stored \ broken
                               /\ Names(name[h], h, k)
  BY <1>2, <1>3 DEF RepositoryInv, HostNames, Kept
<1>5. name \in [Host -> Object \cup {NoObject}] /\ entry \in [Command -> Object \cup {NoObject}]
  BY DEF RepositoryInv, RepositoryTypeOK
<1>6. RepositoryTypeOK'
  <2>1. entry' \in [Command -> Object \cup {NoObject}]
    BY <1>1, <1>2, <1>5
  <2> QED
    BY <1>1, <1>2, <2>1 DEF RepositoryInv, RepositoryTypeOK
<1>7. (\A p \in stored : p.run \in 1..runs[p.host][p.cmd])'
  BY <1>1 DEF RepositoryInv
<1>8. \A c \in Command : c # k => entry'[c] = entry[c] /\ (c \in listed' <=> c \in listed)
  BY <1>1, <1>5
<1>9. ASSUME NEW p, NEW c \in Command, Kept(p, c) PROVE Kept(p, c)'
  BY <1>1, <1>3, <1>8, <1>9 DEF Kept
<1>10. ASSUME NEW g \in Host PROVE HostNames(g)'
  <2>1. HostNames(g) /\ (cmd[g] = NoCmd \/ cmd[g] \in Command)
    BY HandTyped DEF RepositoryInv
  <2>2. CASE g # h
    BY <1>9, <2>1, <2>2 DEF HostNames, HostStands, Names
  <2>3. CASE g = h
    BY <1>2, <1>9, <2>1, <2>3 DEF HostNames, Names
  <2> QED
    BY <2>2, <2>3
<1>11. ASSUME NEW g \in Host, NEW c \in Command PROVE SavedNames(g, c)'
  BY <1>9 DEF RepositoryInv, SavedNames, Names
<1>12. ASSUME NEW c \in Command PROVE EntryNames(c)'
  <2>1. EntryNames(c)
    BY DEF RepositoryInv
  <2>2. CASE c # k
    <3>1. entry[c] # NoObject => entry[c].host \in Host
      BY <1>5, RepositoryAssumption DEF Object
    <3>2. ASSUME NEW g \in Host, ~Before(g, c) PROVE ~Before(g, c)'
      <4>1. CASE g = h
        BY <4>1 DEF Before
      <4>2. CASE g # h
        BY <3>2, <4>2 DEF Before, HostStands
      <4> QED
        BY <4>1, <4>2
    <3>3. entry[c] # NoObject => entry[c].host \in Host /\ ~Before(entry[c].host, c)
      BY <2>1, <3>1 DEF EntryNames
    <3>4. entry'[c] = entry[c] /\ (c \in listed' <=> c \in listed)
      BY <1>8, <2>2
    <3>5. entry[c] # NoObject => (~Before(entry[c].host, c))'
      <4>1. ASSUME entry[c] # NoObject, NEW g \in Host, g = entry[c].host PROVE ~Before(g, c)'
        BY <3>2, <3>3, <4>1
      <4> QED
        BY <3>3, <3>4, <4>1 DEF Before
    <3> QED
      BY <1>1, <2>1, <3>4, <3>5 DEF EntryNames, Names
  <2>3. CASE c = k
    <3>1. entry'[c] = NoObject \/ (entry'[c] = name[h] /\ result[h] = "success" /\ c \in listed')
      BY <1>1, <1>3, <1>5, <2>3
    <3>2. entry'[c] # NoObject => /\ entry'[c].host = h
                                  /\ Names(entry[c], h, c)'
      BY <1>4, <2>3, <3>1 DEF Names
    <3>3. ~Before(h, c)'
      BY DEF Before
    <3>4. c \in listed' => entry'[c] # NoObject
      BY <1>1, <1>2, <1>3, <1>4, <1>5, <2>3
    <3> QED
      BY <1>1, <1>3, <2>3, <3>1, <3>2, <3>3, <3>4 DEF EntryNames
  <2> QED
    BY <2>2, <2>3
<1>13. ASSUME NEW t \in Request PROVE DeletionFits(t)'
  <2>1. handler[t] # Idle => handler[t].cmd \in Command /\ handler[t].cmd # k
    BY <1>3 DEF RepositoryInv, RepositoryTypeOK, Deletion, DeletionFits
  <2> QED
    BY <1>1, <1>8, <2>1 DEF RepositoryInv, DeletionFits
<1>14. ListedIsStored'
  <2> SUFFICES ASSUME NEW c \in listed' PROVE entry'[c] \in stored \ broken \/ c \in begun
    BY <1>1 DEF ListedIsStored
  <2>1. CASE c = k
    BY <1>1, <1>2, <1>3, <1>4, <1>5, <2>1
  <2>2. CASE c # k
    BY <1>1, <1>8, <2>2 DEF RepositoryInv, RepositoryTypeOK, ListedIsStored
  <2> QED
    BY <2>1, <2>2
<1> QED
  BY <1>6, <1>7, <1>10, <1>11, <1>12, <1>13, <1>14 DEF RepositoryInv

LEMMA ResultRecordedInv ==
    ASSUME NEW h \in Host, AgentInv, RepositoryInv, ResultRecorded(h)
    PROVE  RepositoryInv'
<1>1. /\ phase[h] = "report" /\ phase' = [phase EXCEPT ![h] = "clear"]
      /\ UNCHANGED <<cmd, result, file, runs, name, saved>> /\ Records(h)
  BY DEF ResultRecorded, ReportAcknowledged, GoTo, hostVars
<1>2. phase'[h] = "clear" /\ \A g \in Host : g = h \/ HostStands(g)
  BY <1>1 DEF HostStands, AgentInv, AgentTypeOK
<1> QED
  BY <1>1, <1>2, RecordsInv DEF RepositoryInv, RepositoryTypeOK

LEMMA ResultAnswerLostInv ==
    ASSUME NEW h \in Host, AgentInv, RepositoryInv, ResultAnswerLost(h)
    PROVE  RepositoryInv'
<1>1. /\ phase[h] = "report" /\ EndCycle(h) /\ Records(h)
      /\ UNCHANGED <<file, runs, saved>> /\ name' = [name EXCEPT ![h] = NoObject]
  BY DEF ResultAnswerLost, ReportFails, Drop
<1>2. phase'[h] = "rest" /\ name'[h] = NoObject /\ \A g \in Host : g = h \/ HostStands(g)
  BY <1>1 DEF EndCycle, HostStands, AgentInv, AgentTypeOK, RepositoryInv, RepositoryTypeOK
<1>3. name' \in [Host -> Object \cup {NoObject}]
  BY <1>1 DEF RepositoryInv, RepositoryTypeOK
<1> QED
  BY <1>1, <1>2, <1>3, RecordsInv

-----------------------------------------------------------------------------
(* The controller's actions.                                                *)

LEMMA WithdrawInv ==
    ASSUME NEW c \in Command, RepositoryInv, Withdraw(c)
    PROVE  RepositoryInv'
<1>1. /\ UNCHANGED <<phase, cmd, result, file, runs, name, saved, dirs, stored, broken, entry,
                     listed, handler, begun>>
      /\ out' = out \cup {c}
  BY DEF Withdraw, agentVars, hostVars, davVars, delVars
<1>2. RepositoryTypeOK' /\ ListedIsStored'
  BY <1>1 DEF RepositoryInv, RepositoryTypeOK, ListedIsStored
<1>3. (\A o \in stored : o.run \in 1..runs[o.host][o.cmd])'
  BY <1>1 DEF RepositoryInv
<1>4. \A g \in Host : HostNames(g)'
  BY <1>1 DEF RepositoryInv, HostNames, Names, Kept
<1>5. \A g \in Host, d \in Command : SavedNames(g, d)'
  BY <1>1 DEF RepositoryInv, SavedNames, Names, Kept
<1>6. (\A d \in Command : EntryNames(d))' /\ (\A t \in Request : DeletionFits(t))'
  BY <1>1 DEF RepositoryInv, EntryNames, Names, Before, DeletionFits
<1> QED
  BY <1>2, <1>3, <1>4, <1>5, <1>6 DEF RepositoryInv

\* A request for a deletion: the object of its entry is gone, or it is not, and
\* the entry is removed only when it is.
LEMMA DeletionInv ==
    ASSUME NEW t \in Request, NEW c \in Command, RepositoryInv,
           UNCHANGED <<agentVars, hostVars, out, entry, dirs>>,
           entry[c] # NoObject,
           handler' \in [Request -> Deletion],
           \A r \in Request : r = t \/ handler'[r] = handler[r],
           \/ handler'[t] = Idle
           \/ handler'[t] = [step |-> "remove", cmd |-> c]
           \/ handler'[t] = [step |-> "commit", cmd |-> c] /\ entry[c] \notin stored',
           Deleted(c) \/ UNCHANGED <<davVars, begun>>,
           listed' = listed \/ (listed' = listed \ {c} /\ entry[c] \notin stored')
    PROVE  RepositoryInv'
<1>1. /\ UNCHANGED <<phase, cmd, result, file, runs, name, saved, out, entry>>
      /\ \/ /\ stored' = stored \ {entry[c]} /\ broken' = broken \ {entry[c]}
            /\ begun' = begun \cup {c}
         \/ stored' = stored /\ broken' = broken /\ begun' = begun
  BY DEF agentVars, hostVars, davVars, Deleted
<1>2. RepositoryTypeOK'
  BY <1>1 DEF RepositoryInv, RepositoryTypeOK
<1>3. (\A o \in stored : o.run \in 1..runs[o.host][o.cmd])'
  BY <1>1 DEF RepositoryInv
<1>4. entry[c] \in Object /\ entry[c].cmd = c
  BY DEF RepositoryInv, RepositoryTypeOK, EntryNames, Names
<1>5. ASSUME NEW o, NEW d \in Command, Kept(o, d), o.cmd = d PROVE Kept(o, d)'
  <2>1. CASE o = entry[c]
    BY <1>1, <1>4, <1>5, <2>1 DEF Kept
  <2>2. CASE o # entry[c]
    BY <1>1, <1>5, <2>2 DEF Kept
  <2> QED
    BY <2>1, <2>2
<1>6. ASSUME NEW g \in Host PROVE HostNames(g)'
  <2>1. HostNames(g)
    BY DEF RepositoryInv
  <2>2. name[g] # NoObject => cmd[g] \in Command /\ name[g].cmd = cmd[g]
    BY <2>1 DEF HostNames, Names, Object
  <2> QED
    BY <1>1, <1>5, <2>1, <2>2 DEF HostNames, Names
<1>7. ASSUME NEW g \in Host, NEW d \in Command PROVE SavedNames(g, d)'
  BY <1>1, <1>5 DEF RepositoryInv, SavedNames, Names
<1>8. ASSUME NEW d \in Command PROVE EntryNames(d)'
  BY <1>1 DEF RepositoryInv, EntryNames, Names, Before
<1>9. ASSUME NEW r \in Request PROVE DeletionFits(r)'
  <2>1. CASE r = t
    BY <1>1, <2>1 DEF DeletionFits, Idle
  <2>2. CASE r # t
    BY <1>1, <2>2 DEF RepositoryInv, DeletionFits
  <2> QED
    BY <2>1, <2>2
<1>10. ListedIsStored'
  <2> SUFFICES ASSUME NEW d \in listed' PROVE entry[d] \in stored' \ broken' \/ d \in begun'
    BY <1>1 DEF ListedIsStored
  <2>1. d \in Command /\ entry[d].cmd = d /\ Kept(entry[d], d)
    BY DEF RepositoryInv, RepositoryTypeOK, ListedIsStored, EntryNames, Names, Kept
  <2> QED
    BY <1>1, <1>5, <2>1 DEF Kept
<1> QED
  BY <1>2, <1>3, <1>6, <1>7, <1>8, <1>9, <1>10 DEF RepositoryInv

LEMMA DeleteStepInv ==
    ASSUME NEW t \in Request, NEW c \in Command, RepositoryInv, DeleteStep(t, c)
    PROVE  RepositoryInv'
<1> USE DEF InStep, agentVars, hostVars, davVars, ctlVars, delVars
<1>1. handler \in [Request -> Deletion] /\ Idle \in Deletion
  BY DEF RepositoryInv, RepositoryTypeOK, Deletion
<1>2. \A s \in {"remove", "commit"} : [step |-> s, cmd |-> c] \in Deletion
  BY DEF Deletion
<1>3. CASE DeleteBegins(t, c)
  <2>1. entry[c] # NoObject
    BY <1>3 DEF DeleteBegins, RepositoryInv, EntryNames
  <2> QED
    BY <1>1, <1>2, <1>3, <2>1, DeletionInv DEF DeleteBegins
<1>4. CASE RemoveObject(t, c)
  <2>1. entry[c] # NoObject
    BY <1>4 DEF RemoveObject, Idle, RepositoryInv, DeletionFits
  <2> QED
    BY <1>1, <1>2, <1>4, <2>1, DeletionInv DEF RemoveObject, Deleted
<1>5. CASE RemoveFails(t, c)
  <2>1. entry[c] # NoObject
    BY <1>5 DEF RemoveFails, Idle, RepositoryInv, DeletionFits
  <2> QED
    BY <1>1, <1>5, <2>1, DeletionInv DEF RemoveFails, Deleted
<1>6. CASE DeleteCommit(t, c)
  <2>1. entry[c] # NoObject /\ entry[c] \notin stored
    BY <1>6 DEF DeleteCommit, Idle, RepositoryInv, DeletionFits
  <2> QED
    BY <1>1, <1>6, <2>1, DeletionInv DEF DeleteCommit
<1>7. CASE DeleteCommitFails(t, c)
  <2>1. entry[c] # NoObject
    BY <1>7 DEF DeleteCommitFails, Idle, RepositoryInv, DeletionFits
  <2> QED
    BY <1>1, <1>7, <2>1, DeletionInv DEF DeleteCommitFails
<1> QED
  BY <1>3, <1>4, <1>5, <1>6, <1>7 DEF DeleteStep

-----------------------------------------------------------------------------
(* Every step.                                                              *)

\* The hosts do nothing that Agent's do not.
LEMMA StepOfAgent == RepositoryNext => [AgentNext]_agentVars
<1>1. ASSUME NEW h \in Host, HostStep(h) PROVE [AgentNext]_agentVars
  <2>1. CASE \E c \in Command : Receive(h, c)
    BY <2>1 DEF Receive, AgentNext, Cycle
  <2>2. CASE MakeDirectory(h) \/ Upload(h)
    BY <2>2 DEF MakeDirectory, Upload
  <2>3. CASE LoopGoesOn(h) \/ \E s \in Status : BackupEnds(h, s)
    BY <2>3 DEF LoopGoesOn, BackupEnds, AgentNext, Cycle
  <2>4. CASE SaveResult(h) \/ ReportAgain(h) \/ ResultRecorded(h) \/ ResultAnswerLost(h)
    BY <2>4 DEF SaveResult, ReportAgain, ResultRecorded, ResultAnswerLost, AgentNext, Cycle
  <2>5. CASE CycleEnds(h)
    BY <2>5 DEF CycleEnds, AgentNext, Cycle
  <2> QED
    BY <1>1, <2>1, <2>2, <2>3, <2>4, <2>5 DEF HostStep
<1>2. ASSUME NEW c \in Command, NEW t \in Request, DeleteStep(t, c) PROVE UNCHANGED agentVars
  BY <1>2 DEF DeleteStep, DeleteBegins, RemoveObject, RemoveFails, DeleteCommit,
              DeleteCommitFails
<1>3. ASSUME NEW c \in Command, Withdraw(c) PROVE UNCHANGED agentVars
  BY <1>3 DEF Withdraw
<1> QED
  BY <1>1, <1>2, <1>3 DEF RepositoryNext

LEMMA RepositoryStepInv ==
    AgentInv /\ RepositoryInv /\ [RepositoryNext]_repositoryVars => AgentInv' /\ RepositoryInv'
<1> SUFFICES ASSUME AgentInv, RepositoryInv, [RepositoryNext]_repositoryVars
             PROVE  AgentInv' /\ RepositoryInv'
  OBVIOUS
<1>1. AgentInv'
  <2>1. [AgentNext]_agentVars
    BY StepOfAgent DEF repositoryVars
  <2> QED
    BY <2>1, AgentStepInv
<1>2. ASSUME NEW h \in Host, HostStep(h) PROVE RepositoryInv'
  BY <1>2, ReceiveInv, LoopGoesOnInv, MakeDirectoryInv, UploadInv, BackupEndsInv,
     SaveResultInv, ReportAgainInv, ResultRecordedInv, ResultAnswerLostInv, CycleEndsInv
     DEF HostStep
<1>3. ASSUME UNCHANGED repositoryVars PROVE RepositoryInv'
  <2>1. UNCHANGED <<phase, cmd, result, file, runs, name, saved, dirs, stored, broken, out,
                    entry, listed, handler, begun>>
    BY <1>3 DEF repositoryVars, agentVars, hostVars, davVars, ctlVars, delVars
  <2>2. RepositoryTypeOK' /\ ListedIsStored'
    BY <2>1 DEF RepositoryInv, RepositoryTypeOK, ListedIsStored
  <2>3. (\A o \in stored : o.run \in 1..runs[o.host][o.cmd])'
    BY <2>1 DEF RepositoryInv
  <2>4. \A g \in Host : HostNames(g)'
    BY <2>1 DEF RepositoryInv, HostNames, Names, Kept
  <2>5. \A g \in Host, d \in Command : SavedNames(g, d)'
    BY <2>1 DEF RepositoryInv, SavedNames, Names, Kept
  <2>6. (\A d \in Command : EntryNames(d))' /\ (\A t \in Request : DeletionFits(t))'
    BY <2>1 DEF RepositoryInv, EntryNames, Names, Before, DeletionFits
  <2> QED
    BY <2>2, <2>3, <2>4, <2>5, <2>6 DEF RepositoryInv
<1> QED
  BY <1>1, <1>2, <1>3, WithdrawInv, DeleteStepInv DEF RepositoryNext

\* The bookkeeping of objects, results and entries is an invariant, whatever
\* requests are lost and wherever hosts and controller stop.
THEOREM RepositoryInvariant == RepositorySpec => [](AgentInv /\ RepositoryInv)
<1>1. RepositoryInit => AgentInv /\ RepositoryInv
  BY RepositoryInitInv
<1> QED
  BY <1>1, RepositoryStepInv, PTL DEF RepositorySpec

\* Every entry of the index names an intact object, or a deletion of it began.
THEOREM ListedBackupsAreStored == RepositorySpec => []ListedIsStored
<1>1. RepositoryInv => ListedIsStored
  BY DEF RepositoryInv
<1> QED
  BY <1>1, RepositoryInvariant, PTL

\* The hosts behave as Agent says, although the queue is the controller's and
\* results are recorded without the host hearing of it.
THEOREM RepositoryImplementsAgent == RepositorySpec => AgentSpec
<1>1. RepositoryInit => AgentInit
  BY DEF RepositoryInit
<1>2. [RepositoryNext]_repositoryVars => [AgentNext]_agentVars
  BY StepOfAgent DEF repositoryVars
<1> QED
  BY <1>1, <1>2, PTL DEF RepositorySpec, AgentSpec

-----------------------------------------------------------------------------
(* Orphans.                                                                 *)

\* The objects in question are told apart by their execution.
LEMMA UnlistedBounded ==
    ASSUME NEW h \in Host, NEW c \in Command, AgentInv, RepositoryInv,
           NEW R, IsFiniteSet(R), \A o \in Unlisted(h, c) : o.run \in R
    PROVE  /\ Cardinality(Unlisted(h, c)) \in Nat
           /\ Cardinality(Unlisted(h, c)) <= Cardinality(R)
<1> DEFINE f == [o \in Unlisted(h, c) |-> o.run]
<1>1. \A o \in Unlisted(h, c) : o \in Object /\ o.host = h /\ o.cmd = c
  BY DEF Unlisted, RepositoryInv, RepositoryTypeOK
<1>2. \A o, p \in Unlisted(h, c) : o.run = p.run => o = p
  BY <1>1 DEF Object
<1>3. f \in [Unlisted(h, c) -> R]
  OBVIOUS
<1>4. \A o, p \in Unlisted(h, c) : f[o] = f[p] => o = p
  BY <1>2
<1>5. f \in Injection(Unlisted(h, c), R)
  BY <1>3, <1>4 DEF Injection, IsInjective
<1> QED
  BY <1>5, FS_Injection, FS_CardinalityType

LEMMA OrphansCounted == AgentInv /\ RepositoryInv => OrphansAreLosses
<1> SUFFICES ASSUME AgentInv, RepositoryInv, NEW h \in Host, NEW c \in Command
             PROVE  Cardinality(Unlisted(h, c)) <=
                      lost[h][c] + (IF entry[c] # NoObject /\ entry[c].host = h THEN 0 ELSE 1)
  BY DEF OrphansAreLosses
<1> DEFINE n == runs[h][c]
<1>1. n \in Nat /\ lost[h][c] \in Nat /\ n <= 1 + lost[h][c]
  BY AgentAssumption DEF AgentInv, AgentTypeOK, RunsCounted
<1>2. IsFiniteSet(1..n) /\ Cardinality(1..n) = n
  <2>1. 1 \in Int /\ n \in Int
    BY <1>1
  <2>2. IsFiniteSet(1..n) /\ Cardinality(1..n) = IF 1 > n THEN 0 ELSE n - 1 + 1
    BY <2>1, FS_Interval
  <2> QED
    BY <1>1, <2>2
<1>3. \A o \in Unlisted(h, c) : o.run \in 1..n
  BY DEF Unlisted, RepositoryInv
<1>4. CASE ~(entry[c] # NoObject /\ entry[c].host = h)
  <2>1. Cardinality(Unlisted(h, c)) \in Nat /\ Cardinality(Unlisted(h, c)) <= n
    BY <1>2, <1>3, UnlistedBounded
  <2> QED
    BY <1>1, <1>4, <2>1
<1>5. CASE entry[c] # NoObject /\ entry[c].host = h
  <2> DEFINE R == (1..n) \ {entry[c].run}
  <2>1. entry[c] \in Object /\ entry[c].cmd = c /\ entry[c].run \in 1..n
    BY <1>5 DEF RepositoryInv, EntryNames, Names
  <2>2. c \notin listed => entry[c] \notin stored
    BY <1>5 DEF RepositoryInv, EntryNames
  <2>3. ASSUME NEW o \in Unlisted(h, c) PROVE o.run \in R
    <3>1. o \in Object /\ o.host = h /\ o.cmd = c /\ o # entry[c]
      BY <2>2 DEF Unlisted, RepositoryInv, RepositoryTypeOK
    <3>2. o.run # entry[c].run
      BY <1>5, <2>1, <3>1 DEF Object
    <3> QED
      BY <1>3, <3>2
  <2>4. IsFiniteSet(R) /\ Cardinality(R) = n - 1
    BY <1>2, <2>1, FS_RemoveElement
  <2>5. Cardinality(Unlisted(h, c)) \in Nat /\ Cardinality(Unlisted(h, c)) <= n - 1
    BY <2>3, <2>4, UnlistedBounded
  <2> QED
    BY <1>1, <1>5, <2>5
<1> QED
  BY <1>4, <1>5

\* However often results are lost, of the objects a host uploaded for a command
\* no more than those results, and the one not recorded, are out of the index.
THEOREM OrphansAreBounded == RepositorySpec => []OrphansAreLosses
BY RepositoryInvariant, OrphansCounted, PTL

-----------------------------------------------------------------------------
(* The walk that adds up the usage.                                         *)

\* The parts of paths.
Part == STRING \cup {"backups"} \cup Host

\* One turn of the walk's loop.
WalkStep(w, D, place) ==
    IF w.queue = {} \/ w.failed THEN w ELSE Visit(w, D, place)

IsWalk(f, n, D, place) ==
    f = [m \in 0..n |-> IF m = 0 THEN WalkBegins ELSE WalkStep(f[m - 1], D, place)]

\* A walk of any length exists: the least length without one would have a walk
\* that is one shorter, which a step makes longer.
LEMMA WalkExists ==
    ASSUME NEW D, NEW place, NEW N \in Nat
    PROVE  \E f : IsWalk(f, N, D, place)
<1> DEFINE Short == {n \in Nat : ~\E f : IsWalk(f, n, D, place)}
<1> SUFFICES ASSUME Short # {} PROVE FALSE
  OBVIOUS
<1>1. \E n \in Short : \A m \in Short : ~(<<m, n>> \in OpToRel(<, Nat))
  <2>1. Short \subseteq Nat
    OBVIOUS
  <2> HIDE DEF Short
  <2> QED BY <2>1, NatLessThanWellFounded, WFMin
<1>2. PICK n \in Short : \A m \in Short : ~(m < n)
  BY <1>1 DEF OpToRel
<1>3. n # 0
  <2> DEFINE g == [m \in 0..0 |-> WalkBegins]
  <2>1. IsWalk(g, 0, D, place)
    BY DEF IsWalk
  <2> QED BY <2>1, <1>2
<1>4. n - 1 \in Nat /\ n - 1 < n
  BY <1>2, <1>3
<1>5. n - 1 \notin Short
  BY <1>2, <1>4
<1>6. PICK f : IsWalk(f, n - 1, D, place)
  BY <1>4, <1>5
<1> DEFINE g == [m \in 0..n |-> IF m = n THEN WalkStep(f[n - 1], D, place) ELSE f[m]]
<1>7. \A m \in 0..(n - 1) : f[m] = IF m = 0 THEN WalkBegins ELSE WalkStep(f[m - 1], D, place)
  BY <1>6, <1>4 DEF IsWalk
<1>8. \A m \in 0..n : g[m] = IF m = 0 THEN WalkBegins ELSE WalkStep(g[m - 1], D, place)
  <2> TAKE m \in 0..n
  <2>1. CASE m = n
    <3>1. g[m] = WalkStep(f[n - 1], D, place) /\ g[n - 1] = f[n - 1]
      BY <1>2, <1>4, <2>1
    <3> QED BY <1>3, <2>1, <3>1
  <2>2. CASE m # n
    <3>1. m \in 0..(n - 1)
      BY <1>2, <2>2
    <3>2. g[m] = f[m]
      BY <2>2
    <3>3. m # 0 => g[m - 1] = f[m - 1]
      BY <1>2, <3>1
    <3> HIDE DEF g
    <3> QED BY <1>7, <3>1, <3>2, <3>3
  <2> QED BY <2>1, <2>2
<1>9. IsWalk(g, n, D, place)
  <2>1. g = [m \in 0..n |-> g[m]]
    OBVIOUS
  <2> HIDE DEF g
  <2> QED BY <1>8, <2>1 DEF IsWalk
<1> QED BY <1>2, <1>9

LEMMA UsageWalkIsWalk ==
    ASSUME NEW D, NEW place, Cardinality(D) \in Nat
    PROVE  \E f : /\ f[0] = WalkBegins
                  /\ \A n \in 0..(Cardinality(D) + 1) :
                        f[n + 1] = WalkStep(f[n], D, place)
                  /\ UsageWalk(D, place) = f[Cardinality(D) + 2]
<1> DEFINE N == Cardinality(D) + 2
           Body(walk) == [n \in 0..N |->
                            IF n = 0 THEN WalkBegins
                            ELSE IF walk[n - 1].queue = {} \/ walk[n - 1].failed THEN walk[n - 1]
                            ELSE Visit(walk[n - 1], D, place)]
           w == CHOOSE walk : walk = Body(walk)
<1>1. \E f : f = Body(f)
  <2>1. N \in Nat
    OBVIOUS
  <2>2. \E f : IsWalk(f, N, D, place)
    <3> HIDE DEF N
    <3> QED BY <2>1, WalkExists
  <2>3. PICK f : IsWalk(f, N, D, place)
    BY <2>2
  <2> QED BY <2>3 DEF IsWalk, WalkStep
<1>2. w = Body(w)
  <2> HIDE DEF Body
  <2> QED BY <1>1
<1>3. UsageWalk(D, place) = w[N]
  BY DEF UsageWalk
<1> HIDE DEF w
<1>4. w[0] = WalkBegins
  BY <1>2
<1>5. ASSUME NEW n \in 0..(Cardinality(D) + 1) PROVE w[n + 1] = WalkStep(w[n], D, place)
  <2>1. n + 1 \in 0..N /\ n + 1 # 0 /\ (n + 1) - 1 = n
    OBVIOUS
  <2> QED BY <1>2, <2>1 DEF WalkStep
<1> QED BY <1>3, <1>4, <1>5

\* What the walk relies on: finitely many directories, each inside another or
\* inside the repository, and finitely many files with a directory each.
TreeFits(D, place) ==
    /\ IsFiniteSet(D) /\ D \subseteq Seq(Part) \ {<<>>}
    /\ \A d \in D : Prefixes(d) \subseteq D
    /\ IsFiniteSet(DOMAIN place)
    /\ \A f \in DOMAIN place : place[f] \in D

LEMMA CollectionsCounted ==
    ASSUME NEW D, IsFiniteSet(D), D \subseteq Seq(Part), Base \in Seq(Part)
    PROVE  /\ Collections(D) \subseteq Seq(Part)
           /\ IsFiniteSet(Collections(D))
           /\ Cardinality(Collections(D)) <= Cardinality(D) + 1
<1> DEFINE E == D \cup {<<>>}
           f == [d \in E |-> Base \o d]
<1>1. IsFiniteSet(E) /\ Cardinality(E) <= Cardinality(D) + 1 /\ E \subseteq Seq(Part)
      /\ Cardinality(E) \in Nat /\ Cardinality(D) \in Nat
  <2>1. IsFiniteSet(E) /\ (Cardinality(E) = Cardinality(D) \/ Cardinality(E) = Cardinality(D) + 1)
    BY FS_AddElement
  <2>2. Cardinality(E) \in Nat /\ Cardinality(D) \in Nat
    BY <2>1, FS_CardinalityType
  <2>3. E \subseteq Seq(Part)
    BY EmptySeq
  <2> QED BY <2>1, <2>2, <2>3
<1>2. Collections(D) = {Base \o d : d \in E}
  BY DEF Collections
<1>3. f \in Surjection(E, Collections(D))
  BY <1>2 DEF Surjection
<1>4. IsFiniteSet(Collections(D)) /\ Cardinality(Collections(D)) <= Cardinality(E)
  BY <1>1, <1>3, FS_Surjection
<1>5. Cardinality(Collections(D)) \in Nat
  BY <1>4, FS_CardinalityType
<1>6. \A d \in E : Base \o d \in Seq(Part)
  BY <1>1, ConcatProperties
<1>7. Collections(D) \subseteq Seq(Part)
  BY <1>2, <1>6
<1> QED BY <1>1, <1>4, <1>5, <1>7

\* The files in the directories of T.
FilesIn(T, place) == {f \in DOMAIN place : place[f] \in T}

\* After n turns n names have been visited or the walk is over; what a visited
\* name lists was seen, and the files counted are those in visited directories.
WalkFits(w, n, D, place) ==
    /\ w \in [queue : SUBSET w.seen, seen : SUBSET (Collections(D) \cup {<<>>}),
              files : Nat, failed : BOOLEAN]
    /\ <<>> \in w.seen /\ (w.failed => Base # <<>>)
    /\ \A v \in w.seen \ w.queue : /\ Base \o v \in Collections(D)
                                   /\ Listed(Base \o v, D) \subseteq w.seen
    /\ w.files = Cardinality(FilesIn(w.seen \ w.queue, place))
    /\ w.queue = {} \/ w.failed \/ Cardinality(w.seen \ w.queue) = n

\* What is visited is finite, and so is what is counted.
LEMMA VisitedCounted ==
    ASSUME NEW D, NEW place, TreeFits(D, place), Base \in Seq(Part), NEW T,
           T \subseteq Collections(D) \cup {<<>>}
    PROVE  /\ IsFiniteSet(T) /\ Cardinality(T) \in Nat /\ T \subseteq Seq(Part)
           /\ IsFiniteSet(FilesIn(T, place)) /\ Cardinality(FilesIn(T, place)) \in Nat
<1>1. IsFiniteSet(Collections(D)) /\ Collections(D) \subseteq Seq(Part)
  BY CollectionsCounted DEF TreeFits
<1>2. IsFiniteSet(Collections(D) \cup {<<>>})
  BY <1>1, FS_AddElement
<1>3. IsFiniteSet(T) /\ Cardinality(T) \in Nat
  BY <1>2, FS_Subset, FS_CardinalityType
<1>4. T \subseteq Seq(Part)
  BY <1>1, EmptySeq
<1>5. FilesIn(T, place) \in SUBSET (DOMAIN place)
  BY DEF FilesIn
<1>6. IsFiniteSet(FilesIn(T, place))
  BY <1>5, FS_Subset DEF TreeFits
<1> QED BY <1>3, <1>4, <1>6, FS_CardinalityType

LEMMA DisjointCounted ==
    ASSUME NEW A, NEW B, IsFiniteSet(A), IsFiniteSet(B), A \cap B = {}
    PROVE  Cardinality(A \cup B) = Cardinality(A) + Cardinality(B)
<1>1. Cardinality(A \cup B) = Cardinality(A) + Cardinality(B) - Cardinality(A \cap B)
  BY FS_Union
<1>2. Cardinality(A \cap B) = 0 /\ Cardinality(A) \in Nat /\ Cardinality(B) \in Nat
  BY FS_EmptySet, FS_CardinalityType
<1> QED BY <1>1, <1>2

LEMMA WalkStepFits ==
    ASSUME NEW D, NEW place, TreeFits(D, place), Base \in Seq(Part), NEW n \in Nat,
           NEW w, WalkFits(w, n, D, place)
    PROVE  WalkFits(WalkStep(w, D, place), n + 1, D, place)
<1>1. CASE w.queue = {} \/ w.failed
  BY <1>1 DEF WalkFits, WalkStep
<1>2. CASE ~(w.queue = {} \/ w.failed)
  <2> DEFINE v   == CHOOSE p \in w.queue : TRUE
             at  == Base \o v
             new == Listed(at, D) \ (w.seen \cup {<<>>})
             done == w.seen \ w.queue
  <2>1. WalkStep(w, D, place) = Visit(w, D, place) /\ v \in w.queue
    BY <1>2 DEF WalkStep
  <2>2. w.seen \subseteq Collections(D) \cup {<<>>} /\ w.queue \subseteq w.seen
    BY DEF WalkFits
  <2>3. w.seen \subseteq Seq(Part) /\ Collections(D) \subseteq Seq(Part)
    BY <2>2, VisitedCounted
  <2>4. CASE at \notin Collections(D)
    <3>1. Visit(w, D, place) = [w EXCEPT !.failed = TRUE]
      BY <2>4 DEF Visit
    <3>2. Base # <<>>
      <4> SUFFICES ASSUME Base = <<>> PROVE FALSE
        OBVIOUS
      <4>1. at = v
        BY <2>1, <2>2, <2>3
      <4>2. <<>> \in Collections(D)
        BY DEF Collections
      <4> QED BY <2>1, <2>2, <2>4, <4>1, <4>2
    <3> HIDE DEF v
    <3>3. WalkFits([w EXCEPT !.failed = TRUE], n + 1, D, place)
      BY <3>2 DEF WalkFits
    <3> QED BY <2>1, <3>1, <3>3
  <2>5. CASE at \in Collections(D)
    <3> DEFINE u == [queue |-> (w.queue \ {v}) \cup new, seen |-> w.seen \cup new,
                     files |-> w.files + Cardinality(FilesAt(at, place)), failed |-> FALSE]
    <3>1. Visit(w, D, place) = u
      BY <2>5 DEF Visit
    <3>2. new \subseteq Collections(D) /\ Listed(at, D) \subseteq u.seen
      BY DEF WalkFits, Listed
    <3>3. u.seen \ u.queue = done \cup {v} /\ v \notin done
      BY <2>1, <2>2
    <3>4. IsFiniteSet(done) /\ Cardinality(done) \in Nat
      BY <2>2, VisitedCounted
    <3>5. Cardinality(done \cup {v}) = Cardinality(done) + 1
      BY <3>3, <3>4, FS_AddElement
    <3>6. Cardinality(done) = n
      BY <1>2 DEF WalkFits
    <3>7. FilesAt(at, place) = FilesIn({v}, place)
      <4>1. ASSUME NEW f \in DOMAIN place PROVE Base \o place[f] = at <=> place[f] = v
        <5>1. place[f] \in Seq(Part) /\ v \in Seq(Part)
          BY <2>1, <2>2, <2>3 DEF TreeFits
        <5> HIDE DEF v
        <5> QED BY <5>1, ConcatSimplifications
      <4> QED BY <4>1 DEF FilesAt, FilesIn
    <3>8. Cardinality(FilesIn(done \cup {v}, place))
             = Cardinality(FilesIn(done, place)) + Cardinality(FilesIn({v}, place))
      <4>1. IsFiniteSet(FilesIn(done, place)) /\ Cardinality(FilesIn(done, place)) \in Nat
        BY <2>2, VisitedCounted
      <4>2. {v} \subseteq Collections(D) \cup {<<>>}
        BY <2>1, <2>2
      <4>3. IsFiniteSet(FilesIn({v}, place)) /\ Cardinality(FilesIn({v}, place)) \in Nat
        BY <4>2, VisitedCounted
      <4>4. /\ FilesIn(done, place) \cap FilesIn({v}, place) = {}
            /\ FilesIn(done \cup {v}, place) = FilesIn(done, place) \cup FilesIn({v}, place)
        BY <3>3 DEF FilesIn
      <4> HIDE DEF v, done
      <4> QED BY <4>1, <4>3, <4>4, DisjointCounted
    <3>9. /\ Cardinality(FilesIn({v}, place)) \in Nat
          /\ w.files \in Nat /\ w.files = Cardinality(FilesIn(done, place))
      <4>1. {v} \subseteq Collections(D) \cup {<<>>}
        BY <2>1, <2>2
      <4> QED BY <4>1, VisitedCounted DEF WalkFits
    <3>10. u.files = Cardinality(FilesIn(u.seen \ u.queue, place)) /\ u.files \in Nat
      <4>1. u.files = Cardinality(FilesIn(done \cup {v}, place)) /\ u.files \in Nat
        BY <3>7, <3>8, <3>9
      <4> QED BY <3>3, <4>1
    <3>11. \A p \in done \cup {v} : /\ Base \o p \in Collections(D)
                                    /\ Listed(Base \o p, D) \subseteq u.seen
      BY <2>5, <3>2 DEF WalkFits
    <3>12. u \in [queue : SUBSET u.seen, seen : SUBSET (Collections(D) \cup {<<>>}),
                  files : Nat, failed : BOOLEAN]
      BY <2>2, <3>2, <3>10
    <3>13. <<>> \in u.seen /\ ~u.failed
      BY DEF WalkFits
    <3>14. Cardinality(u.seen \ u.queue) = n + 1
      BY <3>3, <3>5, <3>6
    <3>15. WalkFits(u, n + 1, D, place)
      <4>1. \A p \in u.seen \ u.queue : /\ Base \o p \in Collections(D)
                                        /\ Listed(Base \o p, D) \subseteq u.seen
        BY <3>3, <3>11
      <4> HIDE DEF u
      <4> QED BY <4>1, <3>10, <3>12, <3>13, <3>14 DEF WalkFits
    <3> QED BY <2>1, <3>1, <3>15
  <2> QED BY <2>4, <2>5
<1> QED BY <1>1, <1>2

\* At the end of a walk every name it saw was visited, unless it failed: the
\* names visited are told apart by the collections they name.
LEMMA WalkEnds ==
    ASSUME NEW D, NEW place, TreeFits(D, place), Base \in Seq(Part)
    PROVE  LET w == UsageWalk(D, place) IN
           /\ WalkFits(w, Cardinality(D) + 2, D, place)
           /\ w.queue = {} \/ w.failed
<1>1. Cardinality(D) \in Nat
  BY FS_CardinalityType DEF TreeFits
<1>2. PICK f : /\ f[0] = WalkBegins
               /\ \A n \in 0..(Cardinality(D) + 1) : f[n + 1] = WalkStep(f[n], D, place)
               /\ UsageWalk(D, place) = f[Cardinality(D) + 2]
  BY <1>1, UsageWalkIsWalk
<1> DEFINE N == Cardinality(D) + 2
           Bad == {n \in 0..N : ~WalkFits(f[n], n, D, place)}
<1>3. WalkFits(f[0], 0, D, place)
  <2>1. FilesIn({}, place) = {}
    BY DEF FilesIn
  <2>2. WalkBegins.seen \ WalkBegins.queue = {}
    BY DEF WalkBegins
  <2>3. WalkFits(WalkBegins, 0, D, place)
    BY <2>1, <2>2, FS_EmptySet DEF WalkFits, WalkBegins
  <2> QED BY <1>2, <2>3
<1>4. Bad = {}
  <2> SUFFICES ASSUME Bad # {} PROVE FALSE
    OBVIOUS
  <2>1. Bad \subseteq Nat
    BY <1>1
  <2>2. \E n \in Bad : \A m \in Bad : ~(<<m, n>> \in OpToRel(<, Nat))
    <3> HIDE DEF Bad
    <3> QED BY <2>1, NatLessThanWellFounded, WFMin
  <2>3. PICK n \in Bad : \A m \in Bad : ~(m < n)
    BY <2>1, <2>2 DEF OpToRel
  <2>4. n # 0 /\ n - 1 \in Nat /\ n - 1 < n /\ n - 1 \in 0..(Cardinality(D) + 1) /\ (n - 1) + 1 = n
    BY <1>1, <1>3
  <2>5. WalkFits(f[n - 1], n - 1, D, place)
    BY <1>1, <2>3, <2>4
  <2>6. f[n] = WalkStep(f[n - 1], D, place)
    BY <1>2, <2>4
  <2> HIDE DEF Bad
  <2>7. WalkFits(f[n], n, D, place)
    BY <2>4, <2>5, <2>6, WalkStepFits
  <2> QED BY <2>3, <2>7 DEF Bad
<1> DEFINE w == f[N]
           done == w.seen \ w.queue
           g == [v \in done |-> Base \o v]
<1>5. WalkFits(w, N, D, place)
  BY <1>1, <1>4
<1> HIDE DEF w
<1>6. w.seen \subseteq Collections(D) \cup {<<>>}
  BY <1>5 DEF WalkFits
<1>7. done \subseteq Seq(Part)
  BY <1>6, VisitedCounted
<1>8. g \in Injection(done, Collections(D))
  <2>1. g \in [done -> Collections(D)]
    BY <1>5 DEF WalkFits
  <2>2. \A p, q \in done : g[p] = g[q] => p = q
    BY <1>7, ConcatSimplifications
  <2> HIDE DEF g, done
  <2> QED BY <2>1, <2>2 DEF Injection, IsInjective
<1>9. /\ IsFiniteSet(Collections(D)) /\ Cardinality(Collections(D)) \in Nat
      /\ Cardinality(Collections(D)) <= Cardinality(D) + 1
  BY CollectionsCounted, FS_CardinalityType DEF TreeFits
<1>10. Cardinality(done) \in Nat /\ Cardinality(done) <= Cardinality(Collections(D))
  BY <1>8, <1>9, FS_Injection, FS_CardinalityType
<1>11. Cardinality(done) # N
  BY <1>1, <1>9, <1>10
<1>12. w.queue = {} \/ w.failed
  BY <1>5, <1>11 DEF WalkFits
<1> QED BY <1>2, <1>5, <1>12 DEF w

-----------------------------------------------------------------------------
(* Where the walk is enough, and where it is not.                           *)

\* Without a path in the URL the walk comes to every directory: the shortest
\* one it did not see would be listed by the one it is in.
LEMMA RootWalkCounts ==
    ASSUME NEW D, NEW place, TreeFits(D, place), Base = <<>>
    PROVE  LET w == UsageWalk(D, place) IN
           ~w.failed /\ w.files = Cardinality(DOMAIN place)
<1> DEFINE w == UsageWalk(D, place)
           Missed == {d \in D : d \notin w.seen}
           T == {Len(d) : d \in Missed}
<1>1. Base \in Seq(Part)
  BY EmptySeq
<1>2. WalkFits(w, Cardinality(D) + 2, D, place) /\ (w.queue = {} \/ w.failed)
  BY <1>1, WalkEnds
<1>3. ~w.failed /\ w.queue = {}
  BY <1>2 DEF WalkFits
<1> HIDE DEF w
<1>4. D \subseteq Seq(Part) \ {<<>>} /\ \A d \in D : Prefixes(d) \subseteq D
  BY DEF TreeFits
<1>5. \A v \in w.seen : Listed(v, D) \subseteq w.seen /\ v \in Seq(Part)
  <2>1. TAKE v \in w.seen
  <2>2. Listed(Base \o v, D) \subseteq w.seen /\ w.seen \subseteq Collections(D) \cup {<<>>}
    BY <1>2, <1>3 DEF WalkFits
  <2>3. v \in Seq(Part)
    BY <1>1, <2>2, VisitedCounted
  <2> QED BY <2>2, <2>3, ConcatEmptySeq
<1>6. Missed = {}
  <2> SUFFICES ASSUME Missed # {} PROVE FALSE
    OBVIOUS
  <2>1. T # {} /\ T \subseteq Nat
    BY <1>4, LenProperties
  <2>2. \E n \in T : \A m \in T : ~(<<m, n>> \in OpToRel(<, Nat))
    <3> HIDE DEF T
    <3> QED BY <2>1, NatLessThanWellFounded, WFMin
  <2>3. PICK n \in T : \A m \in T : ~(m < n)
    BY <2>1, <2>2 DEF OpToRel
  <2>4. PICK d \in Missed : n = Len(d)
    BY <2>3
  <2> DEFINE p == SubSeq(d, 1, n - 1)
  <2>5. d \in Seq(Part) /\ d # <<>> /\ d \in D /\ n \in Nat \ {0}
    BY <1>4, <2>4, EmptySeq
  <2>6. p \in Seq(Part) /\ Len(p) = n - 1 /\ \A i \in 1..(n - 1) : p[i] = d[i]
    BY <2>4, <2>5
  <2>7. p \in w.seen
    <3>1. CASE n = 1
      <4>1. p = <<>>
        BY <2>6, <3>1
      <4> QED BY <1>2, <4>1 DEF WalkFits
    <3>2. CASE n # 1
      <4>1. p \in Prefixes(d)
        BY <2>4, <2>5, <3>2 DEF Prefixes
      <4>2. p \in D
        BY <1>4, <2>5, <4>1
      <4>3. ~(Len(p) \in T)
        BY <2>3, <2>5, <2>6
      <4> QED BY <4>2, <4>3
    <3> QED BY <3>1, <3>2
  <2>8. Within(p, d)
    BY <2>4, <2>5, <2>6 DEF Within
  <2>9. d \in Collections(D)
    BY <2>5, ConcatEmptySeq DEF Collections
  <2>10. d \in Listed(p, D)
    BY <2>4, <2>5, <2>6, <2>8, <2>9 DEF Listed
  <2> QED BY <1>5, <2>4, <2>7, <2>10
<1>7. FilesIn(w.seen \ w.queue, place) = DOMAIN place
  BY <1>3, <1>6 DEF FilesIn, TreeFits
<1> QED BY <1>2, <1>3, <1>7 DEF WalkFits, w

\* With one, every walk comes to a name that is no collection: it would take
\* each name it saw to another, longer by the path, and never back to the first.
LEMMA PathWalkFails ==
    ASSUME NEW D, NEW place, TreeFits(D, place), Base \in Seq(Part), Base # <<>>
    PROVE  UsageWalk(D, place).failed
<1> DEFINE w == UsageWalk(D, place)
           g == [v \in w.seen |-> Base \o v]
           R == w.seen \ {<<>>}
<1>1. WalkFits(w, Cardinality(D) + 2, D, place) /\ (w.queue = {} \/ w.failed)
  BY WalkEnds
<1> HIDE DEF w
<1> SUFFICES ASSUME ~w.failed PROVE FALSE
  BY DEF w, WalkFits
<1>2. <<>> \in w.seen /\ w.seen \subseteq Collections(D) \cup {<<>>}
  BY <1>1 DEF WalkFits
<1>3. IsFiniteSet(w.seen) /\ Cardinality(w.seen) \in Nat /\ w.seen \subseteq Seq(Part)
  BY <1>2, VisitedCounted
<1>4. ASSUME NEW v \in w.seen PROVE Base \o v \in R
  <2>1. Base \o v \in Collections(D) /\ Listed(Base \o v, D) \subseteq w.seen
    BY <1>1 DEF WalkFits
  <2>2. Base \o v \in Seq(Part) /\ Base \o v # <<>>
    BY <1>3, ConcatProperties, ConcatSimplifications
  <2>3. Within(Base \o v, Base \o v)
    BY <2>2, SubSeqFull, LenProperties DEF Within
  <2>4. Base \o v \in Listed(Base \o v, D)
    BY <2>1, <2>2, <2>3, LenProperties DEF Listed
  <2> QED BY <2>1, <2>2, <2>4
<1>5. g \in Injection(w.seen, R)
  <2>1. g \in [w.seen -> R]
    BY <1>4
  <2>2. \A p, q \in w.seen : g[p] = g[q] => p = q
    BY <1>3, ConcatSimplifications
  <2> HIDE DEF g, R
  <2> QED BY <2>1, <2>2 DEF Injection, IsInjective
<1>6. IsFiniteSet(R) /\ Cardinality(R) = Cardinality(w.seen) - 1
  BY <1>2, <1>3, FS_RemoveElement
<1>7. Cardinality(w.seen) <= Cardinality(R)
  BY <1>5, <1>6, FS_Injection
<1> QED BY <1>3, <1>6, <1>7

-----------------------------------------------------------------------------
(* The directories of a repository.                                         *)

\* Directories are made from the outside in, and a file is put into one.
DirectoriesFit ==
    /\ IsFiniteSet(dirs) /\ IsFiniteSet(stored)
    /\ \A d \in dirs : /\ \E h \in Host : d \in Prefixes(Folder(h))
                       /\ Prefixes(d) \subseteq dirs
    /\ stored \subseteq Object /\ \A o \in stored : Folder(o.host) \in dirs

LEMMA FolderPrefixes ==
    ASSUME NEW h \in Host, NEW d \in Prefixes(Folder(h))
    PROVE  d \in Seq(Part) \ {<<>>}
<1>1. PICK n \in 1..2 : d = SubSeq(<<"backups", h>>, 1, n)
  BY DEF Prefixes, Folder
<1>2. Folder(h) \in Seq(Part) /\ Len(Folder(h)) = 2
  <2>1. "backups" \in Part /\ h \in Part
    BY DEF Part
  <2> QED BY <2>1 DEF Folder
<1>3. d \in Seq(Part) /\ Len(d) = n
  BY <1>1, <1>2 DEF Folder
<1> QED BY <1>3

LEMMA TreeOfRepository ==
    ASSUME DirectoriesFit
    PROVE  TreeFits(dirs, [o \in stored |-> Folder(o.host)])
BY FolderPrefixes DEF DirectoriesFit, TreeFits

LEMMA DirectoriesStepFit ==
    ASSUME RepositoryInv, RepositoryInv', DirectoriesFit, [RepositoryNext]_repositoryVars
    PROVE  DirectoriesFit'
<1>1. ASSUME dirs' = dirs, stored' \subseteq stored PROVE DirectoriesFit'
  <2>1. IsFiniteSet(stored')
    BY <1>1, FS_Subset DEF DirectoriesFit
  <2> QED BY <1>1, <2>1 DEF DirectoriesFit
<1>2. ASSUME NEW h \in Host, MakeDirectory(h) PROVE DirectoriesFit'
  <2>1. PICK d \in Prefixes(Folder(h)) : /\ Prefixes(d) \ {d} \subseteq dirs
                                         /\ dirs' = dirs \cup {d} /\ stored' = stored
    BY <1>2 DEF MakeDirectory
  <2>2. IsFiniteSet(dirs')
    BY <2>1, FS_AddElement DEF DirectoriesFit
  <2> QED BY <2>1, <2>2 DEF DirectoriesFit
<1>3. ASSUME NEW h \in Host, Upload(h) PROVE DirectoriesFit'
  <2> DEFINE o == [host |-> h, cmd |-> cmd[h], run |-> runs[h][cmd[h]]]
  <2>1. stored' = stored \cup {o} /\ o.host = h
    BY <1>3 DEF Upload
  <2>2. dirs' = dirs /\ Folder(h) \in dirs
    BY <1>3 DEF Upload
  <2> HIDE DEF o
  <2>3. IsFiniteSet(stored')
    BY <2>1, FS_AddElement DEF DirectoriesFit
  <2> QED BY <2>1, <2>2, <2>3 DEF DirectoriesFit, RepositoryInv, RepositoryTypeOK
<1>4. ASSUME NEW h \in Host, HostStep(h) PROVE DirectoriesFit'
  <2>1. CASE LoopGoesOn(h) \/ \E c \in Command : Receive(h, c)
    BY <1>1, <2>1 DEF LoopGoesOn, Receive, davVars
  <2>2. CASE \E s \in Status : BackupEnds(h, s)
    BY <1>1, <2>2 DEF BackupEnds, davVars
  <2>3. CASE SaveResult(h) \/ ReportAgain(h) \/ CycleEnds(h)
    BY <1>1, <2>3 DEF SaveResult, ReportAgain, CycleEnds, davVars
  <2>4. CASE ResultRecorded(h) \/ ResultAnswerLost(h)
    BY <1>1, <2>4 DEF ResultRecorded, ResultAnswerLost, Records, davVars
  <2> QED BY <1>2, <1>3, <1>4, <2>1, <2>2, <2>3, <2>4 DEF HostStep
<1>5. ASSUME NEW c \in Command, Withdraw(c) PROVE DirectoriesFit'
  BY <1>1, <1>5 DEF Withdraw, davVars
<1>6. ASSUME NEW t \in Request, NEW c \in Command, DeleteStep(t, c) PROVE DirectoriesFit'
  <2>1. CASE DeleteBegins(t, c) \/ DeleteCommit(t, c) \/ DeleteCommitFails(t, c)
    BY <1>1, <2>1 DEF DeleteBegins, DeleteCommit, DeleteCommitFails, davVars
  <2>2. CASE RemoveObject(t, c) \/ RemoveFails(t, c)
    BY <1>1, <2>2 DEF RemoveObject, RemoveFails, Deleted, davVars
  <2> QED BY <1>6, <2>1, <2>2 DEF DeleteStep
<1>7. CASE UNCHANGED repositoryVars
  BY <1>1, <1>7 DEF repositoryVars, davVars
<1> QED BY <1>4, <1>5, <1>6, <1>7 DEF RepositoryNext

LEMMA DirectoriesInvariant == RepositorySpec => []DirectoriesFit
<1>1. RepositoryInit => DirectoriesFit
  BY FS_EmptySet DEF RepositoryInit, DirectoriesFit
<1>2. RepositoryInv /\ RepositoryInv' /\ DirectoriesFit /\ [RepositoryNext]_repositoryVars
          => DirectoriesFit'
  BY DirectoriesStepFit
<1> QED BY <1>1, <1>2, RepositoryInvariant, PTL DEF RepositorySpec

LEMMA RootCounts ==
    ASSUME DirectoriesFit, Base = <<>> PROVE UsageIsComplete
<1> DEFINE place == [o \in stored |-> Folder(o.host)]
           w == UsageWalk(dirs, place)
<1>1. TreeFits(dirs, place) /\ DOMAIN place = stored
  BY TreeOfRepository
<1>2. ~w.failed /\ w.files = Cardinality(stored)
  BY <1>1, RootWalkCounts
<1>3. w.failed \in BOOLEAN
  BY <1>1, EmptySeq, WalkEnds DEF WalkFits
<1> HIDE DEF place, w
<1>4. \A deep \in BOOLEAN :
        Usage(deep, dirs, place) = [failed |-> FALSE, files |-> Cardinality(stored)]
  BY <1>1, <1>2, <1>3 DEF Usage, w
<1> QED BY <1>4 DEF UsageIsComplete, place

\* Without a path in the URL the panel's usage is that of every object, whatever
\* Depth the server takes.
THEOREM UsageCounts ==
    ASSUME Base = <<>> PROVE RepositorySpec => []UsageIsComplete
BY DirectoriesInvariant, RootCounts, PTL

\* The walk one level at a time is a compatible fallback exactly where the
\* repository's URL has no path, or nothing is stored.
THEOREM FallbackNeedsRoot ==
    ASSUME Base \in Seq(STRING)
    PROVE  RepositorySpec => [](FallbackIsCompatible <=> Base = <<>> \/ stored = {})
<1>1. ASSUME DirectoriesFit PROVE FallbackIsCompatible <=> Base = <<>> \/ stored = {}
  <2> DEFINE place == [o \in stored |-> Folder(o.host)]
  <2>1. Base \in Seq(Part) /\ TreeFits(dirs, place)
    BY <1>1, SeqMonotonic, TreeOfRepository DEF Part
  <2>2. Usage(TRUE, dirs, place) = [failed |-> FALSE, files |-> Cardinality(DOMAIN place)]
    BY DEF Usage
  <2>3. ASSUME Base # <<>> PROVE Usage(FALSE, dirs, place) # Usage(TRUE, dirs, place)
    <3>1. UsageWalk(dirs, place).failed
      BY <2>1, <2>3, PathWalkFails
    <3> HIDE DEF place
    <3> QED BY <2>2, <3>1 DEF Usage
  <2>4. ASSUME Base = <<>> PROVE FallbackIsCompatible
    <3>1. UsageIsComplete
      BY <1>1, <2>4, RootCounts
    <3> QED BY <2>2, <3>1 DEF UsageIsComplete, FallbackIsCompatible
  <2>5. FallbackIsCompatible
           <=> (stored # {} => Usage(FALSE, dirs, place) = Usage(TRUE, dirs, place))
    BY DEF FallbackIsCompatible
  <2> HIDE DEF place
  <2> QED BY <2>3, <2>4, <2>5
<1> QED BY <1>1, DirectoriesInvariant, PTL
=============================================================================
