---------------------------- MODULE Agent_proofs ----------------------------
(***************************************************************************)
(* Proofs about Agent, for any number of hosts and commands.               *)
(***************************************************************************)
EXTENDS Agent, TLAPS

\* Nothing is in hand, saved or run when an agent starts for the first time.
LEMMA AgentInitInv == AgentInit => AgentInv
BY AgentAssumption
   DEF AgentInit, AgentInv, AgentTypeOK, ReportedIsSaved, HandFits, RunsCounted,
       InProgress, Phase

\* Outside of rest and poll a command is in hand, and what is kept about it has
\* the type of an entry.
LEMMA InHandTyped ==
    ASSUME NEW h \in Host, AgentInv, phase[h] \notin {"rest", "poll"}
    PROVE  /\ cmd[h] \in Command
           /\ file[h][cmd[h]] \in Status \cup {NoResult}
           /\ runs[h][cmd[h]] \in Nat
           /\ lost[h][cmd[h]] \in 0..MaxLost
           /\ acked[h] \cup {cmd[h]} \in SUBSET Command
<1>1. cmd[h] \in Command
  BY DEF AgentInv, AgentTypeOK, HandFits
<1>2. /\ file[h] \in [Command -> Status \cup {NoResult}]
      /\ runs[h] \in [Command -> Nat]
      /\ lost[h] \in [Command -> 0..MaxLost]
      /\ acked[h] \in SUBSET Command
  BY DEF AgentInv, AgentTypeOK
<1> QED
  BY <1>1, <1>2

\* HeartbeatAccepted keeps the invariant.
LEMMA HeartbeatAcceptedInv ==
    ASSUME NEW h \in Host, AgentInv, HeartbeatAccepted(h)
    PROVE  AgentInv'
<1> USE AgentAssumption DEF AgentInv, HeartbeatAccepted, GoTo
<1>1. AgentTypeOK'
  BY DEF AgentTypeOK, Phase, HandFits
<1>2. ReportedIsSaved'
  BY DEF AgentTypeOK, ReportedIsSaved, HandFits
<1>3. ASSUME NEW g \in Host PROVE HandFits(g)'
  BY DEF AgentTypeOK, ReportedIsSaved, HandFits
<1>4. ASSUME NEW g \in Host, NEW d \in Command PROVE RunsCounted(g, d)'
  BY DEF AgentTypeOK, ReportedIsSaved, HandFits, RunsCounted, InProgress
<1> QED
  BY <1>1, <1>2, <1>3, <1>4 DEF AgentInv

\* PollReceives keeps the invariant.
LEMMA PollReceivesInv ==
    ASSUME NEW h \in Host, NEW c \in Command, AgentInv, PollReceives(h, c)
    PROVE  AgentInv'
<1> USE AgentAssumption DEF AgentInv, PollReceives, Receives, GoTo
<1>1. AgentTypeOK'
  BY DEF AgentTypeOK, Phase, HandFits
<1>2. ReportedIsSaved'
  BY DEF AgentTypeOK, ReportedIsSaved, HandFits
<1>3. ASSUME NEW g \in Host PROVE HandFits(g)'
  BY DEF AgentTypeOK, ReportedIsSaved, HandFits
<1>4. ASSUME NEW g \in Host, NEW d \in Command PROVE RunsCounted(g, d)'
  BY DEF AgentTypeOK, ReportedIsSaved, HandFits, RunsCounted, InProgress
<1> QED
  BY <1>1, <1>2, <1>3, <1>4 DEF AgentInv

\* PollEmpty keeps the invariant.
LEMMA PollEmptyInv ==
    ASSUME NEW h \in Host, AgentInv, PollEmpty(h)
    PROVE  AgentInv'
<1> USE AgentAssumption DEF AgentInv, PollEmpty, EndCycle
<1>1. AgentTypeOK'
  BY DEF AgentTypeOK, Phase, HandFits
<1>2. ReportedIsSaved'
  BY DEF AgentTypeOK, ReportedIsSaved, HandFits
<1>3. ASSUME NEW g \in Host PROVE HandFits(g)'
  BY DEF AgentTypeOK, ReportedIsSaved, HandFits
<1>4. ASSUME NEW g \in Host, NEW d \in Command PROVE RunsCounted(g, d)'
  BY DEF AgentTypeOK, ReportedIsSaved, HandFits, RunsCounted, InProgress
<1> QED
  BY <1>1, <1>2, <1>3, <1>4 DEF AgentInv

\* LoadResultsFails keeps the invariant.
LEMMA LoadResultsFailsInv ==
    ASSUME NEW h \in Host, AgentInv, LoadResultsFails(h)
    PROVE  AgentInv'
<1> USE AgentAssumption DEF AgentInv, LoadResultsFails, EndCycle
<1>1. AgentTypeOK'
  BY DEF AgentTypeOK, Phase, HandFits
<1>2. ReportedIsSaved'
  BY DEF AgentTypeOK, ReportedIsSaved, HandFits
<1>3. ASSUME NEW g \in Host PROVE HandFits(g)'
  BY DEF AgentTypeOK, ReportedIsSaved, HandFits
<1>4. ASSUME NEW g \in Host, NEW d \in Command PROVE RunsCounted(g, d)'
  BY DEF AgentTypeOK, ReportedIsSaved, HandFits, RunsCounted, InProgress
<1> QED
  BY <1>1, <1>2, <1>3, <1>4 DEF AgentInv

\* SavedResult keeps the invariant.
LEMMA SavedResultInv ==
    ASSUME NEW h \in Host, AgentInv, SavedResult(h)
    PROVE  AgentInv'
<1> USE AgentAssumption DEF AgentInv, SavedResult, GoTo
<1>1. AgentTypeOK'
  BY InHandTyped DEF AgentTypeOK, Phase
<1>2. ReportedIsSaved'
  BY DEF AgentTypeOK, ReportedIsSaved, HandFits
<1>3. ASSUME NEW g \in Host PROVE HandFits(g)'
  BY DEF AgentTypeOK, ReportedIsSaved, HandFits
<1>4. ASSUME NEW g \in Host, NEW d \in Command PROVE RunsCounted(g, d)'
  BY DEF AgentTypeOK, ReportedIsSaved, HandFits, RunsCounted, InProgress
<1> QED
  BY <1>1, <1>2, <1>3, <1>4 DEF AgentInv

\* ExecuteBegins keeps the invariant.
LEMMA ExecuteBeginsInv ==
    ASSUME NEW h \in Host, AgentInv, ExecuteBegins(h)
    PROVE  AgentInv'
<1> USE AgentAssumption DEF AgentInv, ExecuteBegins, GoTo
<1>1. AgentTypeOK'
  <2>1. cmd[h] \in Command /\ runs[h][cmd[h]] + 1 \in Nat
    BY InHandTyped
  <2>2. [runs[h] EXCEPT ![cmd[h]] = @ + 1] \in [Command -> Nat]
    BY <2>1 DEF AgentTypeOK
  <2> QED
    BY <2>2 DEF AgentTypeOK, Phase
<1>2. ReportedIsSaved'
  BY DEF AgentTypeOK, ReportedIsSaved, HandFits
<1>3. ASSUME NEW g \in Host PROVE HandFits(g)'
  BY DEF AgentTypeOK, ReportedIsSaved, HandFits
<1>4. ASSUME NEW g \in Host, NEW d \in Command PROVE RunsCounted(g, d)'
  BY DEF AgentTypeOK, ReportedIsSaved, HandFits, RunsCounted, InProgress
<1> QED
  BY <1>1, <1>2, <1>3, <1>4 DEF AgentInv

\* ExecuteEnds keeps the invariant.
LEMMA ExecuteEndsInv ==
    ASSUME NEW h \in Host, NEW s \in Status, AgentInv, ExecuteEnds(h, s)
    PROVE  AgentInv'
<1> USE AgentAssumption DEF AgentInv, ExecuteEnds, GoTo
<1>1. AgentTypeOK'
  BY DEF AgentTypeOK, Phase, HandFits
<1>2. ReportedIsSaved'
  BY DEF AgentTypeOK, ReportedIsSaved, HandFits
<1>3. ASSUME NEW g \in Host PROVE HandFits(g)'
  BY DEF AgentTypeOK, ReportedIsSaved, HandFits
<1>4. ASSUME NEW g \in Host, NEW d \in Command PROVE RunsCounted(g, d)'
  BY DEF AgentTypeOK, ReportedIsSaved, HandFits, RunsCounted, InProgress
<1> QED
  BY <1>1, <1>2, <1>3, <1>4 DEF AgentInv

\* SaveResults keeps the invariant.
LEMMA SaveResultsInv ==
    ASSUME NEW h \in Host, AgentInv, SaveResults(h)
    PROVE  AgentInv'
<1> USE AgentAssumption DEF AgentInv, SaveResults, GoTo
<1>1. AgentTypeOK'
  <2>1. cmd[h] \in Command /\ result[h] \in Status \cup {NoResult}
    BY InHandTyped DEF ReportedIsSaved, AgentTypeOK, HandFits
  <2>2. [file[h] EXCEPT ![cmd[h]] = result[h]] \in [Command -> Status \cup {NoResult}]
    BY <2>1 DEF AgentTypeOK
  <2> QED
    BY <2>2 DEF AgentTypeOK, Phase
<1>2. ReportedIsSaved'
  BY DEF AgentTypeOK, ReportedIsSaved, HandFits
<1>3. ASSUME NEW g \in Host PROVE HandFits(g)'
  BY DEF AgentTypeOK, ReportedIsSaved, HandFits
<1>4. ASSUME NEW g \in Host, NEW d \in Command PROVE RunsCounted(g, d)'
  BY DEF AgentTypeOK, ReportedIsSaved, HandFits, RunsCounted, InProgress
<1> QED
  BY <1>1, <1>2, <1>3, <1>4 DEF AgentInv

\* SaveResultsFails keeps the invariant.
LEMMA SaveResultsFailsInv ==
    ASSUME NEW h \in Host, AgentInv, SaveResultsFails(h)
    PROVE  AgentInv'
<1> USE AgentAssumption DEF AgentInv, SaveResultsFails, EndCycle, LoseExecution
<1>1. AgentTypeOK'
  <2>1. cmd[h] \in Command /\ lost[h][cmd[h]] + 1 \in 0..MaxLost
    BY InHandTyped, AgentAssumption
  <2>2. [lost[h] EXCEPT ![cmd[h]] = @ + 1] \in [Command -> 0..MaxLost]
    BY <2>1 DEF AgentTypeOK
  <2> QED
    BY <2>2 DEF AgentTypeOK, Phase
<1>2. ReportedIsSaved'
  BY DEF AgentTypeOK, ReportedIsSaved, HandFits
<1>3. ASSUME NEW g \in Host PROVE HandFits(g)'
  BY DEF AgentTypeOK, ReportedIsSaved, HandFits
<1>4. ASSUME NEW g \in Host, NEW d \in Command PROVE RunsCounted(g, d)'
  BY DEF AgentTypeOK, ReportedIsSaved, HandFits, RunsCounted, InProgress
<1> QED
  BY <1>1, <1>2, <1>3, <1>4 DEF AgentInv

\* ReportAcknowledged keeps the invariant.
LEMMA ReportAcknowledgedInv ==
    ASSUME NEW h \in Host, AgentInv, ReportAcknowledged(h)
    PROVE  AgentInv'
<1> USE AgentAssumption DEF AgentInv, ReportAcknowledged, GoTo
<1>1. AgentTypeOK'
  BY InHandTyped DEF AgentTypeOK, Phase
<1>2. ReportedIsSaved'
  BY DEF AgentTypeOK, ReportedIsSaved, HandFits
<1>3. ASSUME NEW g \in Host PROVE HandFits(g)'
  BY DEF AgentTypeOK, ReportedIsSaved, HandFits
<1>4. ASSUME NEW g \in Host, NEW d \in Command PROVE RunsCounted(g, d)'
  BY DEF AgentTypeOK, ReportedIsSaved, HandFits, RunsCounted, InProgress
<1> QED
  BY <1>1, <1>2, <1>3, <1>4 DEF AgentInv

\* ReportFails keeps the invariant.
LEMMA ReportFailsInv ==
    ASSUME NEW h \in Host, AgentInv, ReportFails(h)
    PROVE  AgentInv'
<1> USE AgentAssumption DEF AgentInv, ReportFails, EndCycle
<1>1. AgentTypeOK'
  BY DEF AgentTypeOK, Phase, HandFits
<1>2. ReportedIsSaved'
  BY DEF AgentTypeOK, ReportedIsSaved, HandFits
<1>3. ASSUME NEW g \in Host PROVE HandFits(g)'
  BY DEF AgentTypeOK, ReportedIsSaved, HandFits
<1>4. ASSUME NEW g \in Host, NEW d \in Command PROVE RunsCounted(g, d)'
  BY DEF AgentTypeOK, ReportedIsSaved, HandFits, RunsCounted, InProgress
<1> QED
  BY <1>1, <1>2, <1>3, <1>4 DEF AgentInv

\* ClearResult keeps the invariant.
LEMMA ClearResultInv ==
    ASSUME NEW h \in Host, AgentInv, ClearResult(h)
    PROVE  AgentInv'
<1> USE AgentAssumption DEF AgentInv, ClearResult, EndCycle
<1>1. AgentTypeOK'
  <2>1. cmd[h] \in Command /\ NoResult \in Status \cup {NoResult}
    BY InHandTyped
  <2>2. [file[h] EXCEPT ![cmd[h]] = NoResult] \in [Command -> Status \cup {NoResult}]
    BY <2>1 DEF AgentTypeOK
  <2> QED
    BY <2>2 DEF AgentTypeOK, Phase
<1>2. ReportedIsSaved'
  BY DEF AgentTypeOK, ReportedIsSaved, HandFits
<1>3. ASSUME NEW g \in Host PROVE HandFits(g)'
  BY DEF AgentTypeOK, ReportedIsSaved, HandFits
<1>4. ASSUME NEW g \in Host, NEW d \in Command PROVE RunsCounted(g, d)'
  BY DEF AgentTypeOK, ReportedIsSaved, HandFits, RunsCounted, InProgress
<1> QED
  BY <1>1, <1>2, <1>3, <1>4 DEF AgentInv

\* ClearResultFails keeps the invariant.
LEMMA ClearResultFailsInv ==
    ASSUME NEW h \in Host, AgentInv, ClearResultFails(h)
    PROVE  AgentInv'
<1> USE AgentAssumption DEF AgentInv, ClearResultFails, EndCycle
<1>1. AgentTypeOK'
  BY DEF AgentTypeOK, Phase, HandFits
<1>2. ReportedIsSaved'
  BY DEF AgentTypeOK, ReportedIsSaved, HandFits
<1>3. ASSUME NEW g \in Host PROVE HandFits(g)'
  BY DEF AgentTypeOK, ReportedIsSaved, HandFits
<1>4. ASSUME NEW g \in Host, NEW d \in Command PROVE RunsCounted(g, d)'
  BY DEF AgentTypeOK, ReportedIsSaved, HandFits, RunsCounted, InProgress
<1> QED
  BY <1>1, <1>2, <1>3, <1>4 DEF AgentInv

\* Crash keeps the invariant.
LEMMA CrashInv ==
    ASSUME NEW h \in Host, AgentInv, Crash(h)
    PROVE  AgentInv'
<1> USE AgentAssumption DEF AgentInv, Crash, EndCycle, LoseExecution
<1>1. AgentTypeOK'
  <2>1. CASE phase[h] \in {"execute", "save"}
    <3>1. cmd[h] \in Command /\ lost[h][cmd[h]] + 1 \in 0..MaxLost
      BY <2>1 DEF AgentTypeOK, HandFits
    <3>2. [lost[h] EXCEPT ![cmd[h]] = @ + 1] \in [Command -> 0..MaxLost]
      BY <3>1 DEF AgentTypeOK
    <3> QED
      BY <2>1, <3>2 DEF AgentTypeOK, Phase
  <2>2. CASE phase[h] \notin {"execute", "save"}
    BY <2>2 DEF AgentTypeOK, Phase
  <2> QED
    BY <2>1, <2>2
<1>2. ReportedIsSaved'
  BY DEF AgentTypeOK, ReportedIsSaved, HandFits
<1>3. ASSUME NEW g \in Host PROVE HandFits(g)'
  BY DEF AgentTypeOK, ReportedIsSaved, HandFits
<1>4. ASSUME NEW g \in Host, NEW d \in Command PROVE RunsCounted(g, d)'
  BY DEF AgentTypeOK, ReportedIsSaved, HandFits, RunsCounted, InProgress
<1> QED
  BY <1>1, <1>2, <1>3, <1>4 DEF AgentInv

\* A step of any host, or a step that changes nothing, keeps the invariant.
LEMMA AgentStepInv == AgentInv /\ [AgentNext]_agentVars => AgentInv'
<1> SUFFICES ASSUME AgentInv, [AgentNext]_agentVars PROVE AgentInv'
  OBVIOUS
<1>1. CASE AgentNext
  BY <1>1, HeartbeatAcceptedInv, PollReceivesInv, PollEmptyInv,
     LoadResultsFailsInv, SavedResultInv, ExecuteBeginsInv,
     ExecuteEndsInv, SaveResultsInv, SaveResultsFailsInv,
     ReportAcknowledgedInv, ReportFailsInv, ClearResultInv,
     ClearResultFailsInv, CrashInv
  DEF AgentNext, Cycle
<1>2. CASE UNCHANGED agentVars
  BY <1>2 DEF AgentInv, AgentTypeOK, ReportedIsSaved, HandFits, RunsCounted,
              InProgress, agentVars
<1> QED
  BY <1>1, <1>2

\* The bookkeeping of results.json is an invariant of every agent.
THEOREM AgentInvariant == AgentSpec => []AgentInv
<1>1. AgentInit => AgentInv
  BY AgentInitInv
<1> QED
  BY <1>1, AgentStepInv, PTL DEF AgentSpec

\* No command is executed again while the result of an earlier execution is
\* kept, whatever requests fail, repeat or get lost.
THEOREM RepeatsAreLosses == AgentSpec => []RepeatedOnlyAfterLoss
<1>1. AgentInv => RepeatedOnlyAfterLoss
  BY DEF AgentInv, AgentTypeOK, RunsCounted, RepeatedOnlyAfterLoss
<1> QED
  BY <1>1, AgentInvariant, PTL

\* One step does not touch a saved result that was not acknowledged.
LEMMA SavedStandsStep ==
    AgentInv /\ [AgentNext]_agentVars =>
      [\A h \in Host, c \in Command :
         file[h][c] # NoResult /\ c \notin acked[h] => file'[h][c] = file[h][c]]_agentVars
<1> SUFFICES ASSUME AgentInv, AgentNext,
                    NEW h \in Host, NEW c \in Command,
                    file[h][c] # NoResult, c \notin acked[h]
             PROVE  file'[h][c] = file[h][c]
  OBVIOUS
<1>1. PICK g \in Host : Cycle(g) \/ Crash(g)
  BY DEF AgentNext
<1>2. CASE SaveResults(g)
  <2>1. ~(g = h /\ cmd[g] = c)
    BY <1>2 DEF AgentInv, HandFits, SaveResults, GoTo
  <2> QED
    BY <1>2, <2>1 DEF AgentInv, AgentTypeOK, SaveResults
<1>3. CASE ClearResult(g)
  <2>1. ~(g = h /\ cmd[g] = c)
    BY <1>3 DEF AgentInv, HandFits, ClearResult
  <2> QED
    BY <1>3, <2>1 DEF AgentInv, AgentTypeOK, ClearResult
<1>4. CASE ~SaveResults(g) /\ ~ClearResult(g)
  <2>1. file' = file
    BY <1>1, <1>4
    DEF Cycle, HeartbeatAccepted, PollReceives, Receives, PollEmpty, LoadResultsFails,
       SavedResult, ExecuteBegins, ExecuteEnds, SaveResults,
       SaveResultsFails, ReportAcknowledged, ReportFails,
       ClearResult, ClearResultFails, Crash
  <2> QED
    BY <2>1
<1> QED
  BY <1>2, <1>3, <1>4

\* Repeated reports of a command say the same until one is acknowledged.
THEOREM RepeatedReportsAgree == AgentSpec => SavedResultStands
BY AgentInvariant, SavedStandsStep, PTL DEF AgentSpec, SavedResultStands
=============================================================================
