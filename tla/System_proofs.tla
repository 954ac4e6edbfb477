---------------------------- MODULE System_proofs ----------------------------
(***************************************************************************)
(* Proofs about System, for any number of hosts, handlers and commands.    *)
(* What Controller_proofs and Agent_proofs show of the two sides is used   *)
(* for them together.                                                      *)
(***************************************************************************)
EXTENDS System, Controller_proofs

AP == INSTANCE Agent_proofs WITH
    Command <- CmdId, NoCmd <- None, NoResult <- "none",
    Status <- {"success", "warning", "failed"}

-----------------------------------------------------------------------------
(* The agents' side.                                                        *)

LEMMA AgentConstants ==
    /\ None \notin CmdId /\ "none" \notin {"success", "warning", "failed"}
    /\ MaxLost \in Nat
BY LinkAssumption

\* Both instances are the same module.
LEMMA SameAgent ==
    /\ A!AgentInit <=> AP!AgentInit
    /\ A!AgentInv <=> AP!AgentInv
    /\ A!AgentInv' <=> AP!AgentInv'
BY DEF A!AgentInit, AP!AgentInit, A!AgentInv, AP!AgentInv, A!AgentTypeOK, AP!AgentTypeOK,
       A!ReportedIsSaved, AP!ReportedIsSaved, A!HandFits, AP!HandFits, A!RunsCounted,
       AP!RunsCounted, A!InProgress, AP!InProgress, A!Phase, AP!Phase

LEMMA SameAgentNext == A!AgentNext <=> AP!AgentNext
BY DEF A!AgentNext, AP!AgentNext, A!Cycle, AP!Cycle,
       A!HeartbeatAccepted, AP!HeartbeatAccepted, A!Receives, AP!Receives,
       A!PollReceives, AP!PollReceives, A!PollEmpty, AP!PollEmpty,
       A!LoadResultsFails, AP!LoadResultsFails, A!SavedResult, AP!SavedResult,
       A!ExecuteBegins, AP!ExecuteBegins, A!ExecuteEnds, AP!ExecuteEnds,
       A!SaveResults, AP!SaveResults, A!SaveResultsFails, AP!SaveResultsFails,
       A!ReportAcknowledged, AP!ReportAcknowledged, A!ReportFails, AP!ReportFails,
       A!ClearResult, AP!ClearResult, A!ClearResultFails, AP!ClearResultFails,
       A!Crash, AP!Crash, A!LoseExecution, AP!LoseExecution, A!GoTo, AP!GoTo,
       A!EndCycle, AP!EndCycle

LEMMA AgentInvHolds ==
    /\ A!AgentInit => A!AgentInv
    /\ A!AgentInv /\ (A!AgentNext \/ UNCHANGED agentVars) => A!AgentInv'
<1>1. AP!AgentInit => AP!AgentInv
  BY AgentConstants, AP!AgentInitInv
<1>2. AP!AgentInv /\ [AP!AgentNext]_AP!agentVars => AP!AgentInv'
  BY AgentConstants, AP!AgentStepInv
<1> QED
  BY <1>1, <1>2, SameAgent, SameAgentNext DEF agentVars, AP!agentVars

\* What the loop never does: it does not touch a saved result before it is
\* acknowledged.
LEMMA SavedStands ==
    ASSUME A!AgentInv, A!AgentNext \/ UNCHANGED agentVars,
           NEW h \in Host, NEW c \in CmdId, file[h][c] # "none", c \notin acked[h]
    PROVE  file'[h][c] = file[h][c]
<1>1. AP!AgentInv /\ [AP!AgentNext]_AP!agentVars =>
        [\A g \in Host, d \in CmdId :
           file[g][d] # "none" /\ d \notin acked[g] => file'[g][d] = file[g][d]]_AP!agentVars
  BY AgentConstants, AP!SavedStandsStep
<1> QED
  BY <1>1, SameAgent, SameAgentNext DEF agentVars, AP!agentVars

\* Executions are counted and acknowledgements kept.
LEMMA AgentGrows ==
    ASSUME A!AgentInv, A!AgentNext \/ UNCHANGED agentVars, NEW h \in Host, NEW c \in CmdId
    PROVE  /\ runs[h][c] > 0 => runs'[h][c] > 0
           /\ c \in acked[h] => c \in acked'[h]
<1>1. /\ runs \in [Host -> [CmdId -> Nat]] /\ acked \in [Host -> SUBSET CmdId]
      /\ cmd \in [Host -> CmdId \cup {None}]
  BY DEF A!AgentInv, A!AgentTypeOK
<1>2. CASE UNCHANGED agentVars
  BY <1>2 DEF agentVars
<1>3. CASE A!AgentNext
  <2>1. PICK g \in Host : A!Cycle(g) \/ A!Crash(g)
    BY <1>3 DEF A!AgentNext
  <2>2. CASE A!ExecuteBegins(g)
    <3>1. runs' = [runs EXCEPT ![g][cmd[g]] = @ + 1] /\ acked' = acked
      BY <2>2 DEF A!ExecuteBegins
    <3>2. runs'[h][c] \in {runs[h][c], runs[h][c] + 1} /\ runs[h][c] \in Nat
      BY <1>1, <3>1
    <3> QED
      BY <3>1, <3>2
  <2>3. CASE A!ReportAcknowledged(g)
    BY <1>1, <2>3 DEF A!ReportAcknowledged
  <2>4. CASE ~A!ExecuteBegins(g) /\ ~A!ReportAcknowledged(g)
    <3>1. runs' = runs /\ acked' = acked
      BY <2>1, <2>4
      DEF A!Cycle, A!HeartbeatAccepted, A!PollReceives, A!Receives, A!PollEmpty,
          A!LoadResultsFails, A!SavedResult, A!ExecuteEnds, A!SaveResults,
          A!SaveResultsFails, A!ReportFails, A!ClearResult, A!ClearResultFails, A!Crash
    <3> QED
      BY <3>1
  <2> QED
    BY <2>2, <2>3, <2>4
<1> QED
  BY <1>2, <1>3

\* What a host vouches for it goes on to vouch for.
LEMMA VouchStands ==
    ASSUME A!AgentInv, A!AgentNext \/ UNCHANGED agentVars,
           NEW h \in Host, NEW c \in CmdId, NEW s, s # "none", Vouches(h, c, s)
    PROVE  Vouches(h, c, s)'
<1>1. runs'[h][c] > 0
  BY AgentGrows DEF Vouches
<1>2. CASE c \in acked[h]
  BY <1>1, <1>2, AgentGrows DEF Vouches
<1>3. CASE c \notin acked[h]
  BY <1>1, <1>3, SavedStands DEF Vouches
<1> QED
  BY <1>2, <1>3

-----------------------------------------------------------------------------
(* The controller's side.                                                   *)

\* Commands never change once they have an id, and never come back.
Grown ==
    /\ \A c \in CmdId \ Unborn : command'[c] = command[c]
    /\ delivered \subseteq delivered'
    /\ queue' \subseteq queue \cup Unborn /\ Unborn' \subseteq Unborn
    /\ \A c \in CmdId : backups'[c] > 0 =>
           \/ backups[c] > 0
           \/ \E t \in Runner : /\ pending[t].kind = "result" /\ pending[t].cmd = c
                                /\ pending[t].status = "success"

LEMMA EnqueueGrows ==
    ASSUME TypeOK, NEW t \in Runner,
           QueueBackupCommit(t) \/ RestoreCommit(t) \/ ConfigureCommit(t)
    PROVE  Grown
<1>1. /\ next <= MaxCmd /\ next' = next + 1 /\ queue' = queue \cup {next}
      /\ \E c : command' = [command EXCEPT ![next] = c]
      /\ UNCHANGED <<delivered, backups>>
  BY DEF QueueBackupCommit, RestoreCommit, ConfigureCommit, Enqueue
<1>2. next \in CmdId /\ next \in Unborn /\ next \in Nat
  BY <1>1 DEF TypeOK, CmdId, Unborn
<1>3. Unborn' \subseteq Unborn
  BY <1>1, <1>2 DEF Unborn, CmdId
<1>4. \A c \in CmdId \ Unborn : command'[c] = command[c]
  BY <1>1, <1>2 DEF TypeOK
<1> QED
  BY <1>1, <1>2, <1>3, <1>4 DEF Grown

LEMMA ControllerGrows ==
    ASSUME CommandInv, Next \/ UNCHANGED vars
    PROVE  Grown
<1>1. TypeOK
  BY DEF CommandInv
<1>2. CASE UNCHANGED vars
  BY <1>2 DEF vars, queueVars, Grown, Unborn
<1>3. CASE Quiet
  BY <1>3 DEF Quiet, Grown, Unborn
<1>4. ASSUME NEW n \in Node, HandleReconnect(n) PROVE Grown
  BY <1>4 DEF HandleReconnect, Grown, Unborn
<1>5. ASSUME NEW c \in CmdId, HandleCancelOperation(c) PROVE Grown
  BY <1>5 DEF HandleCancelOperation, Remove, Grown, Unborn
<1>6. CASE ExpireQueuedCommands
  BY <1>6 DEF ExpireQueuedCommands, Remove, Grown, Unborn
<1>7. ASSUME NEW t \in Runner, ClaimCommand(t) PROVE Grown
  BY <1>7 DEF ClaimCommand, Grown, Unborn
<1>8. ASSUME NEW t \in Runner, DeliverCommand(t) PROVE Grown
  BY <1>8 DEF DeliverCommand, queueVars, Grown, Unborn
<1>9. ASSUME NEW t \in Runner, HandleCommandResult(t) PROVE Grown
  <2> DEFINE c == pending[t].cmd
             s == pending[t].status
  <2>1. /\ pending[t].kind = "result" /\ queue' \subseteq queue
        /\ UNCHANGED <<next, command, delivered>>
        /\ \/ UNCHANGED backups
           \/ s = "success" /\ backups' = [backups EXCEPT ![c] = @ + 1]
    BY <1>9 DEF HandleCommandResult, Remove, queueVars
  <2>2. \A d \in CmdId : backups'[d] > 0 =>
            backups[d] > 0 \/ (d = c /\ s = "success")
    BY <1>1, <2>1 DEF TypeOK
  <2> QED
    BY <2>1, <2>2 DEF Grown, Unborn
<1>10. ASSUME NEW t \in Runner, DeleteBackupCommit(t) PROVE Grown
  <2>1. /\ UNCHANGED <<next, queue, command, delivered>>
        /\ \A d \in CmdId : backups'[d] > 0 => backups[d] > 0
    BY <1>1, <1>10 DEF DeleteBackupCommit, queueVars, TypeOK
  <2> QED
    BY <2>1 DEF Grown, Unborn
<1> QED
  BY <1>1, <1>2, <1>3, <1>4, <1>5, <1>6, <1>7, <1>8, <1>9, <1>10, EnqueueGrows, Steps

\* The panel and the scheduler leave the agents' requests alone.
AgentKinds == {"heartbeat", "claim", "deliver", "result"}
LeavesAgentsAlone ==
    \A t \in Runner : pending'[t] # pending[t] =>
        pending[t].kind \notin AgentKinds /\ pending'[t].kind \notin AgentKinds

LEMMA EndsAlone ==
    ASSUME TypeOK, NEW t \in Runner, Finish(t), pending[t].kind \notin AgentKinds
    PROVE  LeavesAgentsAlone
BY DEF TypeOK, Finish, Idle, AgentKinds, LeavesAgentsAlone

LEMMA BeginsAlone ==
    ASSUME TypeOK, NEW t \in Runner, NEW r, Begin(t, r), r.kind \notin AgentKinds
    PROVE  LeavesAgentsAlone
BY DEF TypeOK, Begin, Idle, AgentKinds, LeavesAgentsAlone

LEMMA PanelAlone ==
    ASSUME TypeOK, AdminStep
    PROVE  LeavesAgentsAlone
<1>0. Thread \subseteq Runner
  BY DEF Runner
<1>1. ASSUME UNCHANGED pending PROVE LeavesAgentsAlone
  BY <1>1 DEF LeavesAgentsAlone
<1>2. ASSUME NEW n \in Node, HandleReconnectCommand(n) \/ HandleDeleteNode(n)
      PROVE  LeavesAgentsAlone
  BY <1>1, <1>2 DEF HandleReconnectCommand, HandleDeleteNode
<1>3. ASSUME NEW r \in Repo, HandleCreateRepository(r) \/ HandleDeleteRepository(r)
      PROVE  LeavesAgentsAlone
  BY <1>1, <1>3 DEF HandleCreateRepository, HandleDeleteRepository
<1>4. ASSUME NEW k \in Task, HandleDeleteTask(k) PROVE LeavesAgentsAlone
  BY <1>1, <1>4 DEF HandleDeleteTask
<1>5. ASSUME NEW c \in CmdId, HandleCancelOperation(c) PROVE LeavesAgentsAlone
  BY <1>1, <1>5 DEF HandleCancelOperation
<1>6. ASSUME NEW t \in Thread, NEW n \in Node, NEW r \in Repo, NEW e \in BOOLEAN,
             CreateTaskValidate(t, n, r, e)
      PROVE  LeavesAgentsAlone
  BY <1>0, <1>6, BeginsAlone DEF CreateTaskValidate, AgentKinds
<1>7. ASSUME NEW t \in Thread, NEW k \in Task, NEW n \in Node, NEW r \in Repo,
             NEW e \in BOOLEAN, UpdateTaskValidate(t, k, n, r, e)
      PROVE  LeavesAgentsAlone
  BY <1>0, <1>7, BeginsAlone DEF UpdateTaskValidate, AgentKinds
<1>8. ASSUME NEW t \in Thread, NEW k \in Task, HandleRunTask(t, k)
      PROVE  LeavesAgentsAlone
  BY <1>0, <1>8, BeginsAlone DEF HandleRunTask, QueueBackupSnapshot, AgentKinds
<1>9. ASSUME NEW t \in Thread, NEW b \in CmdId, HandleDeleteBackup(t, b)
      PROVE  LeavesAgentsAlone
  BY <1>0, <1>9, BeginsAlone DEF HandleDeleteBackup, AgentKinds
<1>10. ASSUME NEW t \in Thread, NEW b \in CmdId, NEW n \in Node, HandleRestore(t, b, n)
       PROVE  LeavesAgentsAlone
  BY <1>0, <1>10, BeginsAlone DEF HandleRestore, AgentKinds
<1>11. ASSUME NEW t \in Thread, NEW n \in Node, HandleNodeAutoUpdate(t, n)
       PROVE  LeavesAgentsAlone
  BY <1>0, <1>11, BeginsAlone DEF HandleNodeAutoUpdate, AgentKinds
<1>12. ASSUME NEW t \in Thread,
              \/ \E k \in Task : CreateTaskCommit(t, k)
              \/ UpdateTaskCommit(t) \/ RestoreCommit(t) \/ ConfigureCommit(t)
              \/ DeleteBackupCommit(t) \/ DeleteBackupFails(t)
       PROVE  LeavesAgentsAlone
  <2>1. Finish(t) /\ pending[t].kind \notin AgentKinds
    BY <1>12
    DEF CreateTaskCommit, UpdateTaskCommit, RestoreCommit, ConfigureCommit,
        DeleteBackupCommit, DeleteBackupFails, AgentKinds
  <2> QED
    BY <1>0, <2>1, EndsAlone
<1> QED
  BY <1>2, <1>3, <1>4, <1>5, <1>6, <1>7, <1>8, <1>9, <1>10, <1>11, <1>12 DEF AdminStep

LEMMA ControllerAlone ==
    ASSUME TypeOK, ControllerStep
    PROVE  LeavesAgentsAlone /\ Next /\ UNCHANGED <<agentVars, linkVars>>
<1>0. Scheduler \in Runner
  BY DEF Runner
<1>1. CASE AdminStep
  BY <1>1, PanelAlone DEF ControllerStep, Next
<1>2. CASE SchedulerStep
  <2>1. ASSUME TickSnapshot PROVE LeavesAgentsAlone
    BY <1>0, <2>1, BeginsAlone DEF TickSnapshot, AgentKinds
  <2>2. ASSUME ExpireQueuedCommands PROVE LeavesAgentsAlone
    BY <1>0, <2>2, EndsAlone DEF ExpireQueuedCommands, AgentKinds
  <2>3. ASSUME NEW k \in Task, TickQueueBackup(k) PROVE LeavesAgentsAlone
    BY <1>0, <2>3, BeginsAlone
    DEF TickQueueBackup, QueueBackupSnapshot, AgentKinds, LeavesAgentsAlone
  <2> QED
    BY <1>2, <2>1, <2>2, <2>3 DEF SchedulerStep, ControllerStep, Next
<1>3. ASSUME NEW t \in Runner, QueueBackupCommit(t) PROVE LeavesAgentsAlone
  BY <1>3, EndsAlone DEF QueueBackupCommit, AgentKinds
<1>4. CASE Elapse
  BY <1>4 DEF Elapse, ControllerStep, Next, LeavesAgentsAlone
<1> QED
  BY <1>1, <1>2, <1>3, <1>4 DEF ControllerStep, Next

-----------------------------------------------------------------------------
(* Each side does only what its own module allows.                          *)

LEMMA ServedHost ==
    ASSUME SysInv, NEW h \in Host, NEW t \in Thread, waits[h] = t
    PROVE  /\ home[h] # None /\ Serves(pending[t], h)
           /\ \A g \in Host : waits[g] = t => g = h
<1>1. waits[h] # None
  BY LinkAssumption
<1> QED
  BY <1>1 DEF SysInv, WaitsFit

\* The answer to a poll was not acknowledged by the host that hears it.
LEMMA DeliveredIsFresh ==
    ASSUME SysInv, NEW h \in Host, NEW t \in Thread, waits[h] = t,
           pending[t].kind = "deliver"
    PROVE  /\ pending[t].cmd \in CmdId /\ pending[t].cmd \notin acked[h]
           /\ command[pending[t].cmd].node = home[h]
<1>1. t \in Runner /\ pending[t] \in Request
  BY DEF SysInv, CommandInv, TypeOK, Runner
<1>2. pending[t].cmd \in CmdId
  BY <1>1, RequestFields
<1>3. Serves(pending[t], h)
  BY ServedHost
<1> QED
  BY <1>2, <1>3 DEF Serves

LEMMA AgentTyped ==
    ASSUME SysInv
    PROVE  /\ phase \in [Host -> A!Phase] /\ cmd \in [Host -> CmdId \cup {None}]
           /\ result \in [Host -> {"success", "warning", "failed"} \cup {"none"}]
           /\ file \in [Host -> [CmdId -> {"success", "warning", "failed"} \cup {"none"}]]
           /\ runs \in [Host -> [CmdId -> Nat]] /\ acked \in [Host -> SUBSET CmdId]
           /\ \A h \in Host : phase[h] \in {"rest", "poll"} <=> cmd[h] = None
BY DEF SysInv, A!AgentInv, A!AgentTypeOK, A!HandFits

LEMMA AnswersAreStatus ==
    ASSUME SysInv, NEW c \in CmdId
    PROVE  Answers[command[c].type] \subseteq {"success", "warning", "failed"}
<1>1. command[c].type \in {"backup", "restore", "configure"}
  BY DEF SysInv, CommandInv, TypeOK, CommandRecord
<1> QED
  BY <1>1 DEF Answers

\* What a host does is a step of the loop.
LEMMA HostsFollowAgent ==
    ASSUME SysInv, SysNext
    PROVE  A!AgentNext \/ UNCHANGED agentVars
<1>1. ASSUME NEW h \in Host,
             \/ \E n \in Node : Install(h, n)
             \/ \E t \in Thread : SendHeartbeat(h, t) \/ SendPoll(h, t) \/ SendResult(h, t)
      PROVE  UNCHANGED agentVars
  BY <1>1 DEF Install, SendHeartbeat, SendPoll, SendResult, Sends
<1>2. ASSUME NEW h \in Host, GiveUp(h) PROVE A!AgentNext \/ UNCHANGED agentVars
  BY <1>2 DEF GiveUp, A!AgentNext, A!Cycle
<1>3. ASSUME NEW h \in Host, Work(h) PROVE A!AgentNext
  <2>1. ASSUME NEW s \in Answers[command[cmd[h]].type], phase[h] = "execute",
               A!ExecuteEnds(h, s)
        PROVE  A!AgentNext
    <3>1. cmd[h] \in CmdId
      BY <2>1, AgentTyped
    <3>2. s \in {"success", "warning", "failed"}
      BY <2>1, <3>1, AnswersAreStatus
    <3> QED
      BY <2>1, <3>2 DEF A!AgentNext, A!Cycle
  <2> QED
    BY <1>3, <2>1 DEF Work, A!AgentNext, A!Cycle
<1>4. ASSUME NEW h \in Host, HostCrash(h) PROVE A!AgentNext
  BY <1>4 DEF HostCrash, A!AgentNext
<1>5. ASSUME NEW t \in Thread, AnswerHeartbeat(t) \/ Claim(t) \/ AnswerResult(t)
      PROVE  A!AgentNext \/ UNCHANGED agentVars
  BY <1>5 DEF AnswerHeartbeat, Claim, AnswerResult, Unheard, A!AgentNext, A!Cycle
<1>6. ASSUME NEW t \in Thread, AnswerPoll(t) PROVE A!AgentNext \/ UNCHANGED agentVars
  <2>1. ASSUME NEW h \in Host, DeliverCommand(t), Hears(h, t), A!Receives(h, pending[t].cmd)
        PROVE  A!AgentNext
    <3>1. pending[t].cmd \in CmdId /\ pending[t].cmd \notin acked[h]
      BY <2>1, DeliveredIsFresh DEF Hears, DeliverCommand
    <3> QED
      BY <2>1, <3>1 DEF A!AgentNext, A!Cycle, A!PollReceives
  <2> QED
    BY <1>6, <2>1 DEF AnswerPoll, Unheard, A!AgentNext, A!Cycle
<1>7. ASSUME ControllerStep \/ ControllerRestart PROVE UNCHANGED agentVars
  BY <1>7 DEF ControllerStep, ControllerRestart
<1> QED
  BY <1>1, <1>2, <1>3, <1>4, <1>5, <1>6, <1>7 DEF SysNext

\* What a host sends is an answer to a command that was delivered to its node.
LEMMA ResultIsAllowed ==
    ASSUME SysInv, NEW h \in Host, NEW t \in Thread, SendResult(h, t)
    PROVE  /\ cmd[h] \in CmdId /\ ResultAuth(t, cmd[h])
           /\ Vouches(h, cmd[h], result[h]) /\ result[h] # "none"
<1>1. phase[h] = "report"
  BY DEF SendResult, Sends
<1>2. cmd[h] \in CmdId /\ cmd[h] # None
  BY <1>1, AgentTyped
<1>3. result[h] # "none" /\ file[h][cmd[h]] = result[h]
  BY <1>1 DEF SysInv, A!AgentInv, A!ReportedIsSaved
<1>4. /\ cmd[h] \in delivered /\ command[cmd[h]].node = home[h]
      /\ result[h] \in Answers[command[cmd[h]].type]
  BY <1>2, <1>3 DEF SysInv, InHand
<1>5. ResultAuth(t, cmd[h])
  BY <1>4 DEF SendResult, ResultAuth
<1>6. Vouches(h, cmd[h], result[h])
  BY <1>2, <1>3 DEF SysInv, OnFile, Vouches
<1> QED
  BY <1>2, <1>3, <1>5, <1>6

\* What the handlers do is a step of the controller.
LEMMA HandlersFollowController ==
    ASSUME SysInv, SysNext
    PROVE  Next \/ UNCHANGED vars
<1>1. ASSUME NEW h \in Host, NEW n \in Node, Install(h, n) PROVE Next
  BY <1>1 DEF Install, Next, AgentStep
<1>2. ASSUME NEW h \in Host, NEW t \in Thread, SendHeartbeat(h, t) \/ SendPoll(h, t)
      PROVE  Next
  <2>1. home[h] \in Node
    BY <1>2 DEF SendHeartbeat, SendPoll, HeartbeatAuth, CommandsAuth, Authenticate,
                SysInv, CommandInv, TypeOK
  <2> QED
    BY <1>2, <2>1 DEF SendHeartbeat, SendPoll, Next, AgentStep
<1>3. ASSUME NEW h \in Host, NEW t \in Thread, SendResult(h, t) PROVE Next
  BY <1>3, ResultIsAllowed DEF Next, AgentStep
<1>4. ASSUME NEW h \in Host, GiveUp(h) \/ Work(h) \/ HostCrash(h) PROVE UNCHANGED vars
  BY <1>4 DEF GiveUp, Work, HostCrash
<1>5. ASSUME NEW t \in Thread,
             AnswerHeartbeat(t) \/ Claim(t) \/ AnswerPoll(t) \/ AnswerResult(t)
      PROVE  Next
  BY <1>5 DEF AnswerHeartbeat, Claim, AnswerPoll, AnswerResult, Next, AgentStep
<1>6. ASSUME ControllerStep \/ ControllerRestart PROVE Next
  BY <1>6, ControllerAlone DEF ControllerRestart, Next, SysInv, CommandInv
<1> QED
  BY <1>1, <1>2, <1>3, <1>4, <1>5, <1>6 DEF SysNext

-----------------------------------------------------------------------------
(* What the hosts have.                                                     *)

Kept ==
    /\ SysInv /\ CommandInv' /\ A!AgentInv' /\ Grown
    /\ A!AgentNext \/ UNCHANGED agentVars
    /\ \A h \in Host : home[h] # None => home'[h] = home[h]

LEMMA KeptHolds == SysInv /\ SysNext => Kept
<1> SUFFICES ASSUME SysInv, SysNext PROVE Kept
  OBVIOUS
<1>1. A!AgentNext \/ UNCHANGED agentVars
  BY HostsFollowAgent
<1>2. Next \/ UNCHANGED vars
  BY HandlersFollowController
<1>3. CommandInv' /\ Grown
  BY <1>2, CommandInvStep, CommandInvStutter, ControllerGrows DEF SysInv
<1>4. A!AgentInv'
  BY <1>1, AgentInvHolds DEF SysInv
<1>5. \A h \in Host : home[h] # None => home'[h] = home[h]
  <2>1. ASSUME NEW g \in Host, NEW n \in Node, Install(g, n)
        PROVE  \A h \in Host : home[h] # None => home'[h] = home[h]
    BY <2>1 DEF Install, SysInv, LinkTypeOK
  <2>2. ASSUME ~ \E g \in Host, n \in Node : Install(g, n)
        PROVE  home' = home
    BY <2>2
    DEF SysNext, SendHeartbeat, SendPoll, SendResult, Sends, GiveUp, Work, HostCrash,
        AnswerHeartbeat, Claim, AnswerPoll, AnswerResult, Hears, Unheard,
        ControllerStep, ControllerRestart, linkVars
  <2> QED
    BY <2>1, <2>2
<1> QED
  BY <1>1, <1>3, <1>4, <1>5 DEF Kept

\* A delivered command is what it was.
LEMMA DeliveredStays ==
    ASSUME Kept, NEW c \in CmdId, c \in delivered
    PROVE  /\ c \in delivered' /\ command'[c] = command[c]
           /\ c \notin queue => c \notin queue'
<1>1. c \notin Unborn
  BY DEF Kept, SysInv, CommandInv, IdsFresh
<1> QED
  BY <1>1 DEF Kept, Grown

LEMMA RunsStay ==
    ASSUME Kept, NEW h \in Host, NEW c \in CmdId
    PROVE  /\ runs[h][c] > 0 => runs'[h][c] > 0
           /\ c \in acked[h] => c \in acked'[h]
BY AgentGrows DEF Kept, SysInv

LEMMA InHandStays ==
    ASSUME Kept, NEW h \in Host, cmd'[h] = cmd[h], result'[h] = result[h],
           phase'[h] \in {"execute", "save"} =>
               phase[h] \in {"execute", "save"} \/ runs'[h][cmd[h]] > 0
    PROVE  InHand(h)'
<1>1. InHand(h)
  BY DEF Kept, SysInv
<1>2. CASE cmd[h] = None
  BY <1>1, <1>2 DEF InHand
<1>3. CASE cmd[h] # None
  <2>1. cmd[h] \in CmdId /\ cmd[h] \in delivered /\ home[h] # None
    BY <1>1, <1>3, AgentTyped DEF InHand, Kept
  <2>2. /\ cmd[h] \in delivered' /\ command'[cmd[h]] = command[cmd[h]]
        /\ home'[h] = home[h]
    BY <2>1, DeliveredStays DEF Kept
  <2>3. phase'[h] \in {"execute", "save"} => runs'[h][cmd[h]] > 0
    BY <1>1, <1>3, <2>1, RunsStay DEF InHand
  <2> QED
    BY <1>1, <1>3, <2>1, <2>2, <2>3 DEF InHand
<1> QED
  BY <1>2, <1>3

LEMMA OnFileStays ==
    ASSUME Kept,
           \A h \in Host, c \in CmdId : file'[h][c] # "none" =>
               \/ file'[h][c] = file[h][c]
               \/ /\ c \in delivered /\ runs[h][c] > 0
                  /\ file'[h][c] \in Answers[command[c].type],
           \A h \in Host, c \in CmdId : c \in acked'[h] =>
               \/ c \in acked[h]
               \/ c \in delivered /\ runs[h][c] > 0 /\ c \notin queue'
    PROVE  OnFile'
<1> SUFFICES ASSUME NEW h \in Host, NEW c \in CmdId
             PROVE  /\ file'[h][c] # "none" =>
                          /\ c \in delivered' /\ runs'[h][c] > 0
                          /\ file'[h][c] \in Answers[command'[c].type]
                    /\ c \in acked'[h] =>
                          c \in delivered' /\ c \notin queue' /\ runs'[h][c] > 0
  BY DEF OnFile
<1>1. /\ file[h][c] # "none" => /\ c \in delivered /\ runs[h][c] > 0
                                /\ file[h][c] \in Answers[command[c].type]
      /\ c \in acked[h] => c \in delivered /\ c \notin queue /\ runs[h][c] > 0
  BY DEF Kept, SysInv, OnFile
<1>2. ASSUME file'[h][c] # "none"
      PROVE  /\ c \in delivered' /\ runs'[h][c] > 0
             /\ file'[h][c] \in Answers[command'[c].type]
  BY <1>1, <1>2, DeliveredStays, RunsStay
<1>3. ASSUME c \in acked'[h]
      PROVE  c \in delivered' /\ c \notin queue' /\ runs'[h][c] > 0
  BY <1>1, <1>3, DeliveredStays, RunsStay
<1> QED
  BY <1>2, <1>3

\* A cycle ends.
LEMMA EndedFits ==
    ASSUME Kept, NEW g \in Host, A!EndCycle(g), UNCHANGED <<file, acked>>
    PROVE  OnFile' /\ \A h \in Host : InHand(h)'
<1>1. OnFile'
  BY OnFileStays
<1>2. /\ cmd'[g] = None /\ result'[g] = "none"
      /\ \A h \in Host \ {g} : /\ cmd'[h] = cmd[h] /\ result'[h] = result[h]
                              /\ phase'[h] = phase[h]
  BY AgentTyped DEF A!EndCycle, Kept
<1>3. InHand(g)'
  BY <1>2 DEF InHand
<1> QED
  BY <1>1, <1>2, <1>3, InHandStays

\* The host goes on with what it has.
LEMMA GoneToFits ==
    ASSUME Kept, NEW g \in Host, NEW from, NEW to, A!GoTo(g, from, to),
           UNCHANGED <<cmd, result, file, acked>>,
           to \in {"execute", "save"} =>
               from \in {"execute", "save"} \/ runs'[g][cmd[g]] > 0
    PROVE  OnFile' /\ \A h \in Host : InHand(h)'
<1>1. OnFile'
  BY OnFileStays
<1>2. phase'[g] = to /\ phase[g] = from /\ \A h \in Host \ {g} : phase'[h] = phase[h]
  BY AgentTyped DEF A!GoTo, Kept
<1> QED
  BY <1>1, <1>2, InHandStays

LEMMA NothingDoneFits ==
    ASSUME Kept, UNCHANGED agentVars
    PROVE  OnFile' /\ \A h \in Host : InHand(h)'
<1>1. UNCHANGED <<phase, cmd, result, file, runs, acked>>
  BY DEF agentVars
<1> QED
  BY <1>1, OnFileStays, InHandStays

LEMMA WorkFits ==
    ASSUME Kept, NEW g \in Host, Work(g)
    PROVE  OnFile' /\ \A h \in Host : InHand(h)'
<1>0. /\ phase \in [Host -> A!Phase] /\ cmd \in [Host -> CmdId \cup {None}]
      /\ result \in [Host -> {"success", "warning", "failed"} \cup {"none"}]
      /\ file \in [Host -> [CmdId -> {"success", "warning", "failed"} \cup {"none"}]]
      /\ runs \in [Host -> [CmdId -> Nat]] /\ acked \in [Host -> SUBSET CmdId]
      /\ phase[g] \in {"rest", "poll"} <=> cmd[g] = None
      /\ cmd[g] # None => cmd[g] \in CmdId
  BY AgentTyped DEF Kept
<1>1. InHand(g) /\ OnFile /\ SysInv
  BY DEF Kept, SysInv
<1>2. CASE \/ A!LoadResultsFails(g) \/ A!SaveResultsFails(g) \/ A!ClearResultFails(g)
  BY <1>2, EndedFits
  DEF A!LoadResultsFails, A!SaveResultsFails, A!ClearResultFails
<1>3. CASE A!SavedResult(g)
  <2>1. /\ cmd[g] # None /\ cmd[g] \in CmdId /\ file[g][cmd[g]] # "none"
        /\ phase' = [phase EXCEPT ![g] = "report"]
        /\ result' = [result EXCEPT ![g] = file[g][cmd[g]]]
        /\ UNCHANGED <<cmd, file, acked>>
    BY <1>0, <1>3 DEF A!SavedResult, A!GoTo
  <2>2. OnFile'
    BY <2>1, OnFileStays
  <2>3. /\ cmd'[g] = cmd[g] /\ phase'[g] = "report" /\ result'[g] = file[g][cmd[g]]
        /\ \A h \in Host \ {g} : /\ phase'[h] = phase[h] /\ cmd'[h] = cmd[h]
                                /\ result'[h] = result[h]
    BY <1>0, <2>1
  <2>4. file[g][cmd[g]] \in Answers[command[cmd[g]].type] /\ cmd[g] \in delivered
    BY <1>1, <2>1 DEF OnFile
  <2>5. InHand(g)'
    <3>1. /\ cmd[g] \in delivered' /\ command'[cmd[g]] = command[cmd[g]]
          /\ home[g] # None /\ home'[g] = home[g] /\ command[cmd[g]].node = home[g]
      BY <1>1, <2>1, <2>4, DeliveredStays DEF InHand, Kept
    <3> QED
      BY <2>1, <2>3, <2>4, <3>1 DEF InHand
  <2> QED
    BY <2>2, <2>3, <2>5, InHandStays
<1>4. CASE A!ExecuteBegins(g)
  <2>1. /\ A!GoTo(g, "hold", "execute") /\ UNCHANGED <<cmd, result, file, acked>>
        /\ runs' = [runs EXCEPT ![g][cmd[g]] = @ + 1]
    BY <1>4 DEF A!ExecuteBegins
  <2>2. cmd[g] \in CmdId /\ runs[g][cmd[g]] \in Nat
    BY <1>0, <2>1 DEF A!GoTo
  <2>3. runs'[g][cmd[g]] > 0
    BY <1>0, <2>1, <2>2
  <2> QED
    BY <2>1, <2>3, GoneToFits
<1>5. ASSUME NEW s \in Answers[command[cmd[g]].type], phase[g] = "execute",
             A!ExecuteEnds(g, s)
      PROVE  OnFile' /\ \A h \in Host : InHand(h)'
  <2>1. /\ cmd[g] # None /\ cmd[g] \in CmdId
        /\ phase' = [phase EXCEPT ![g] = "save"]
        /\ result' = [result EXCEPT ![g] = s]
        /\ UNCHANGED <<cmd, file, runs, acked>>
    BY <1>0, <1>5 DEF A!ExecuteEnds, A!GoTo
  <2>2. OnFile'
    BY <2>1, OnFileStays
  <2>3. /\ cmd'[g] = cmd[g] /\ phase'[g] = "save" /\ result'[g] = s
        /\ \A h \in Host \ {g} : /\ phase'[h] = phase[h] /\ cmd'[h] = cmd[h]
                                /\ result'[h] = result[h]
    BY <1>0, <2>1
  <2>4. InHand(g)'
    <3>1. cmd[g] \in delivered /\ home[g] # None /\ command[cmd[g]].node = home[g]
          /\ runs[g][cmd[g]] > 0
      BY <1>1, <1>5, <2>1 DEF InHand
    <3>2. /\ cmd[g] \in delivered' /\ command'[cmd[g]] = command[cmd[g]]
          /\ home'[g] = home[g]
      BY <2>1, <3>1, DeliveredStays DEF Kept
    <3> QED
      BY <1>5, <2>1, <2>3, <3>1, <3>2 DEF InHand
  <2> QED
    BY <2>2, <2>3, <2>4, InHandStays
<1>6. CASE A!SaveResults(g)
  <2>1. /\ phase[g] = "save" /\ cmd[g] # None /\ cmd[g] \in CmdId
        /\ phase' = [phase EXCEPT ![g] = "report"]
        /\ file' = [file EXCEPT ![g][cmd[g]] = result[g]]
        /\ UNCHANGED <<cmd, result, runs, acked>>
    BY <1>0, <1>6 DEF A!SaveResults, A!GoTo
  <2>2. result[g] # "none"
    BY <2>1 DEF Kept, SysInv, A!AgentInv, A!HandFits
  <2>3. /\ cmd[g] \in delivered /\ runs[g][cmd[g]] > 0
        /\ result[g] \in Answers[command[cmd[g]].type]
    BY <1>1, <2>1, <2>2 DEF InHand
  <2>4. /\ file'[g][cmd[g]] = result[g]
        /\ \A h \in Host, c \in CmdId : ~(h = g /\ c = cmd[g]) => file'[h][c] = file[h][c]
        /\ \A h \in Host : phase'[h] = IF h = g THEN "report" ELSE phase[h]
    BY <1>0, <2>1
  <2>5. OnFile'
    BY <2>1, <2>3, <2>4, OnFileStays
  <2> QED
    BY <2>1, <2>4, <2>5, InHandStays
<1>7. CASE A!ClearResult(g)
  <2>1. /\ phase[g] = "clear" /\ A!EndCycle(g) /\ cmd[g] \in CmdId
        /\ file' = [file EXCEPT ![g][cmd[g]] = "none"]
        /\ UNCHANGED acked
    BY <1>0, <1>7 DEF A!ClearResult
  <2>2. \A h \in Host, c \in CmdId : file'[h][c] \in {file[h][c], "none"}
    BY <1>0, <2>1
  <2>3. OnFile'
    BY <2>1, <2>2, OnFileStays
  <2>4. /\ cmd'[g] = None /\ result'[g] = "none"
        /\ \A h \in Host \ {g} : /\ cmd'[h] = cmd[h] /\ result'[h] = result[h]
                                /\ phase'[h] = phase[h]
    BY <1>0, <2>1 DEF A!EndCycle
  <2>5. InHand(g)'
    BY <2>4 DEF InHand
  <2> QED
    BY <2>3, <2>4, <2>5, InHandStays
<1> QED
  BY <1>2, <1>3, <1>4, <1>5, <1>6, <1>7 DEF Work

\* The poll brings the command it waited for.
LEMMA ReceivedFits ==
    ASSUME Kept, NEW t \in Thread, NEW g \in Host,
           DeliverCommand(t), Hears(g, t), A!Receives(g, pending[t].cmd)
    PROVE  OnFile' /\ \A h \in Host : InHand(h)'
<1> DEFINE c == pending[t].cmd
<1>0. SysInv /\ InHand(g) /\ waits[g] = t /\ home' = home /\ pending[t].kind = "deliver"
  BY DEF Kept, SysInv, Hears, DeliverCommand
<1>1. c \in CmdId /\ command[c].node = home[g] /\ home[g] # None
  BY <1>0, ServedHost, DeliveredIsFresh
<1>2. c \in delivered' /\ command'[c] = command[c]
  BY <1>1 DEF DeliverCommand, queueVars
<1>3. phase[g] = "poll" /\ cmd[g] = None
  BY <1>0, AgentTyped DEF A!Receives, A!GoTo
<1>4. /\ cmd'[g] = c /\ phase'[g] = "hold" /\ result'[g] = "none"
      /\ \A h \in Host \ {g} : /\ phase'[h] = phase[h] /\ cmd'[h] = cmd[h]
                              /\ result'[h] = result[h]
      /\ UNCHANGED <<file, acked>>
  BY <1>0, <1>3, AgentTyped DEF A!Receives, A!GoTo, InHand
<1>5. InHand(g)'
  <2> HIDE DEF c
  <2> QED
    BY <1>0, <1>1, <1>2, <1>4, LinkAssumption DEF InHand
<1>6. OnFile'
  BY <1>4, OnFileStays
<1> QED
  BY <1>4, <1>5, <1>6, InHandStays

\* An acknowledged result takes its command out of the queue.
LEMMA AcknowledgedFits ==
    ASSUME Kept, NEW t \in Thread, NEW g \in Host,
           HandleCommandResult(t), Hears(g, t), A!ReportAcknowledged(g),
           pending[t].cmd \in queue, command[pending[t].cmd].node = pending[t].node
    PROVE  OnFile' /\ \A h \in Host : InHand(h)'
<1>0. SysInv /\ waits[g] = t /\ pending[t].kind = "result" /\ phase[g] = "report"
  BY DEF Kept, Hears, HandleCommandResult, A!ReportAcknowledged, A!GoTo
<1>1. pending[t].cmd = cmd[g]
  BY <1>0, ServedHost DEF Serves
<1>2. cmd[g] \in CmdId /\ cmd[g] # None
  BY <1>0, AgentTyped
<1>3. cmd[g] \notin queue'
  BY <1>1 DEF HandleCommandResult, Remove
<1>4. result[g] # "none" /\ file[g][cmd[g]] = result[g]
  BY <1>0 DEF SysInv, A!AgentInv, A!ReportedIsSaved
<1>5. cmd[g] \in delivered /\ runs[g][cmd[g]] > 0
  BY <1>0, <1>2, <1>4 DEF SysInv, OnFile
<1>6. /\ UNCHANGED <<cmd, result, file>> /\ phase' = [phase EXCEPT ![g] = "clear"]
      /\ acked' = [acked EXCEPT ![g] = @ \cup {cmd[g]}]
  BY DEF A!ReportAcknowledged, A!GoTo
<1>7. \A h \in Host : \A c \in acked'[h] : c \in acked[h] \/ (h = g /\ c = cmd[g])
  BY <1>0, <1>6, AgentTyped
<1>8. \A h \in Host : phase'[h] = IF h = g THEN "clear" ELSE phase[h]
  BY <1>0, <1>6, AgentTyped
<1>9. OnFile'
  BY <1>3, <1>5, <1>6, <1>7, OnFileStays
<1> QED
  BY <1>6, <1>8, <1>9, InHandStays

LEMMA HandsFit ==
    ASSUME Kept, SysNext
    PROVE  OnFile' /\ \A h \in Host : InHand(h)'
<1> DEFINE Goal == OnFile' /\ \A h \in Host : InHand(h)'
<1>1. ASSUME UNCHANGED agentVars PROVE Goal
  BY <1>1, NothingDoneFits
<1>2. ASSUME NEW h \in Host, A!PollEmpty(h) \/ A!ReportFails(h) PROVE Goal
  BY <1>2, EndedFits DEF A!PollEmpty, A!ReportFails
<1>3. ASSUME NEW h \in Host, A!Crash(h) PROVE Goal
  BY <1>3, EndedFits DEF A!Crash
<1>4. ASSUME NEW h \in Host, A!HeartbeatAccepted(h) PROVE Goal
  <2>1. A!GoTo(h, "rest", "poll") /\ UNCHANGED <<cmd, result, file, acked>>
    BY <1>4 DEF A!HeartbeatAccepted
  <2> QED
    BY <2>1, GoneToFits
<1> HIDE DEF Goal
<1>5. ASSUME NEW h \in Host,
             \/ \E n \in Node : Install(h, n)
             \/ \E t \in Thread : SendHeartbeat(h, t) \/ SendPoll(h, t) \/ SendResult(h, t)
      PROVE  Goal
  BY <1>1, <1>5 DEF Install, SendHeartbeat, SendPoll, SendResult, Sends
<1>6. ASSUME NEW h \in Host, GiveUp(h) PROVE Goal
  BY <1>1, <1>2, <1>6 DEF GiveUp
<1>7. ASSUME NEW h \in Host, Work(h) PROVE Goal
  BY <1>7, WorkFits DEF Goal
<1>8. ASSUME NEW h \in Host, HostCrash(h) PROVE Goal
  BY <1>3, <1>8 DEF HostCrash
<1>9. ASSUME NEW t \in Thread, AnswerHeartbeat(t) \/ Claim(t) PROVE Goal
  BY <1>1, <1>4, <1>9 DEF AnswerHeartbeat, Claim, Unheard
<1>10. ASSUME NEW t \in Thread, AnswerPoll(t) PROVE Goal
  <2>1. ASSUME NEW h \in Host, DeliverCommand(t), Hears(h, t), A!Receives(h, pending[t].cmd)
        PROVE  Goal
    BY <2>1, ReceivedFits DEF Goal
  <2> QED
    BY <1>1, <1>2, <1>10, <2>1 DEF AnswerPoll, Unheard
<1>11. ASSUME NEW t \in Thread, AnswerResult(t) PROVE Goal
  <2>1. ASSUME NEW h \in Host, HandleCommandResult(t), Hears(h, t), A!ReportAcknowledged(h),
               pending[t].cmd \in queue, command[pending[t].cmd].node = pending[t].node
        PROVE  Goal
    BY <2>1, AcknowledgedFits DEF Goal
  <2> QED
    BY <1>1, <1>2, <1>11, <2>1 DEF AnswerResult, Unheard
<1>12. ASSUME ControllerStep \/ ControllerRestart PROVE Goal
  BY <1>1, <1>12 DEF ControllerStep, ControllerRestart
<1> QED
  BY <1>5, <1>6, <1>7, <1>8, <1>9, <1>10, <1>11, <1>12 DEF SysNext, Goal

-----------------------------------------------------------------------------
(* Who waits for whom.                                                      *)

LEMMA LinkTypeStays ==
    ASSUME SysInv, SysNext
    PROVE  LinkTypeOK'
<1>0. LinkTypeOK
  BY DEF SysInv
<1>1. ASSUME NEW h \in Host, NEW n \in Node, Install(h, n) PROVE LinkTypeOK'
  BY <1>0, <1>1 DEF Install, LinkTypeOK
<1>2. ASSUME NEW h \in Host, NEW t \in Thread, SendHeartbeat(h, t) \/ SendPoll(h, t) \/ SendResult(h, t)
      PROVE  LinkTypeOK'
  BY <1>0, <1>2 DEF SendHeartbeat, SendPoll, SendResult, Sends, LinkTypeOK
<1>3. ASSUME NEW h \in Host, GiveUp(h) \/ HostCrash(h) PROVE LinkTypeOK'
  BY <1>0, <1>3 DEF GiveUp, HostCrash, LinkTypeOK
<1>4. ASSUME NEW h \in Host, Work(h) PROVE LinkTypeOK'
  BY <1>0, <1>4 DEF Work, linkVars, LinkTypeOK
<1>5. ASSUME NEW t \in Thread, Unheard(t) \/ \E h \in Host : Hears(h, t) PROVE LinkTypeOK'
  BY <1>0, <1>5 DEF Unheard, Hears, linkVars, LinkTypeOK
<1>6. ASSUME NEW t \in Thread, AnswerHeartbeat(t) \/ AnswerPoll(t) \/ AnswerResult(t)
      PROVE  LinkTypeOK'
  BY <1>5, <1>6 DEF AnswerHeartbeat, AnswerPoll, AnswerResult
<1>7. ASSUME ControllerStep \/ \E t \in Thread : Claim(t) PROVE LinkTypeOK'
  BY <1>0, <1>7 DEF ControllerStep, Claim, linkVars, LinkTypeOK
<1>8. ASSUME ControllerRestart PROVE LinkTypeOK'
  BY <1>0, <1>8 DEF ControllerRestart, LinkTypeOK
<1> QED
  BY <1>1, <1>2, <1>3, <1>4, <1>6, <1>7, <1>8 DEF SysNext

\* The part of WaitsFit that is about one host.
HostWaits(h) ==
    waits[h] # None =>
        /\ home[h] # None /\ phase[h] \in {"rest", "poll", "report"}
        /\ waits[h] \in Thread =>
               /\ Serves(pending[waits[h]], h)
               /\ \A g \in Host : waits[g] = waits[h] => g = h

\* A host waits on while neither its loop nor its handler takes a step.
LEMMA WaitStays ==
    ASSUME Kept, NEW h \in Host, waits'[h] = waits[h],
           phase'[h] = phase[h], cmd'[h] = cmd[h], acked'[h] = acked[h],
           \A g \in Host : waits'[g] = waits[h] => waits[g] = waits[h],
           waits[h] \in Thread => pending'[waits[h]] = pending[waits[h]]
    PROVE  HostWaits(h)'
<1> SUFFICES ASSUME waits[h] # None PROVE HostWaits(h)'
  BY DEF HostWaits
<1>1. home[h] # None /\ home'[h] = home[h] /\ phase[h] \in {"rest", "poll", "report"}
  BY DEF Kept, SysInv, WaitsFit
<1>2. CASE waits[h] \notin Thread
  BY <1>1, <1>2 DEF HostWaits
<1>3. CASE waits[h] \in Thread
  <2> DEFINE p == pending[waits[h]]
  <2>1. Serves(p, h) /\ \A g \in Host : waits[g] = waits[h] => g = h
    BY <1>3, ServedHost DEF Kept
  <2>2. p.kind = "deliver" => command'[p.cmd] = command[p.cmd]
    <3> SUFFICES ASSUME p.kind = "deliver" PROVE command'[p.cmd] = command[p.cmd]
      OBVIOUS
    <3>1. p.cmd \in CmdId /\ waits[h] \in Runner
      BY <1>3, DeliveredIsFresh DEF Kept, Runner
    <3>2. p.cmd \in claimed
      BY <3>1 DEF Kept, SysInv, CommandInv, DeliveryAfterClaim
    <3>3. p.cmd \notin Unborn
      BY <3>2 DEF Kept, SysInv, CommandInv, IdsFresh
    <3> QED
      BY <3>1, <3>3 DEF Kept, Grown
  <2>3. Serves(p, h)'
    <3>1. p' = p
      BY <1>3
    <3> HIDE DEF p
    <3> QED
      BY <1>1, <2>1, <2>2, <3>1 DEF Serves
  <2>4. Serves(pending[waits[h]], h)'
    BY <2>3
  <2> QED
    BY <1>1, <2>1, <2>4 DEF HostWaits
<1> QED
  BY <1>2, <1>3

\* A step of one host's loop leaves the other hosts alone.
Elsewhere(g) ==
    \A h \in Host \ {g} : phase'[h] = phase[h] /\ cmd'[h] = cmd[h] /\ acked'[h] = acked[h]

LEMMA LoopElsewhere ==
    ASSUME SysInv, NEW g \in Host,
           \/ A!HeartbeatAccepted(g) \/ A!PollEmpty(g) \/ A!ReportFails(g)
           \/ A!ReportAcknowledged(g) \/ A!Crash(g) \/ Work(g)
           \/ \E c : A!Receives(g, c)
    PROVE  Elsewhere(g)
<1>1. /\ phase \in [Host -> A!Phase] /\ cmd \in [Host -> CmdId \cup {None}]
      /\ acked \in [Host -> SUBSET CmdId]
  BY AgentTyped
<1>2. /\ \E p : phase' = [phase EXCEPT ![g] = p]
      /\ cmd' = cmd \/ \E c : cmd' = [cmd EXCEPT ![g] = c]
      /\ acked' = acked \/ \E S : acked' = [acked EXCEPT ![g] = S]
  BY DEF A!HeartbeatAccepted, A!PollEmpty, A!ReportFails, A!ReportAcknowledged, A!Crash, Work,
         A!Receives, A!LoadResultsFails, A!SavedResult, A!ExecuteBegins, A!ExecuteEnds,
         A!SaveResults, A!SaveResultsFails, A!ClearResult, A!ClearResultFails, A!GoTo, A!EndCycle
<1> QED
  BY <1>1, <1>2 DEF Elsewhere

LEMMA AllWait == (\A h \in Host : HostWaits(h)') => WaitsFit'
BY DEF HostWaits, WaitsFit

LEMMA InstallWaits ==
    ASSUME Kept, NEW g \in Host, NEW n \in Node, Install(g, n)
    PROVE  WaitsFit'
<1>1. UNCHANGED <<pending, waits, phase, cmd, acked>>
  BY DEF Install, HandleRegister, HandleReconnect, agentVars
<1> QED
  BY <1>1, WaitStays, AllWait

\* Nobody waits for an idle handler.
LEMMA IdleIsFree ==
    ASSUME SysInv, NEW t \in Thread, pending[t] = Idle, NEW h \in Host
    PROVE  waits[h] # t
BY ServedHost DEF Serves, Idle

LEMMA SendWaits ==
    ASSUME Kept, NEW g \in Host, NEW t \in Thread,
           SendHeartbeat(g, t) \/ SendPoll(g, t) \/ SendResult(g, t)
    PROVE  WaitsFit'
<1>0. SysInv /\ t \in Runner /\ t # None
  BY LinkAssumption DEF Kept, Runner
<1>1. /\ waits' = [waits EXCEPT ![g] = t] /\ waits[g] = None /\ HasToken(g)
      /\ UNCHANGED <<phase, cmd, acked, home>>
  BY DEF SendHeartbeat, SendPoll, SendResult, Sends, agentVars
<1>2. PICK r : /\ Begin(t, r)
               /\ \/ phase[g] = "rest" /\ r.kind = "heartbeat"
                  \/ phase[g] = "poll" /\ r.kind = "claim" /\ r.node = home[g]
                  \/ phase[g] = "report" /\ r.kind = "result" /\ r.cmd = cmd[g]
  BY DEF SendHeartbeat, SendPoll, SendResult, Sends, HeartbeatAuth, CommandsAuth, Authenticate
<1>3. \A h \in Host : waits[h] # t
  BY <1>0, <1>2, IdleIsFree DEF Begin
<1>4. waits \in [Host -> Thread \cup {None, Broken}] /\ home[g] # None
  BY <1>0, <1>1 DEF SysInv, LinkTypeOK, HasToken
<1>5. pending'[t] = r /\ \A u \in Runner \ {t} : pending'[u] = pending[u]
  BY <1>0, <1>2 DEF Begin, SysInv, CommandInv, TypeOK
<1>6. waits'[g] = t /\ \A h \in Host \ {g} : waits'[h] = waits[h]
  BY <1>1, <1>4
<1>7. HostWaits(g)'
  <2>1. Serves(pending[t], g)'
    BY <1>1, <1>2, <1>5 DEF Serves
  <2>2. Serves(pending[waits[g]], g)'
    BY <1>6, <2>1
  <2>3. phase'[g] \in {"rest", "poll", "report"} /\ home'[g] # None
    BY <1>1, <1>2, <1>4
  <2>4. \A h \in Host : waits'[h] = waits'[g] => h = g
    BY <1>3, <1>6
  <2> QED
    BY <2>2, <2>3, <2>4 DEF HostWaits
<1>8. ASSUME NEW h \in Host \ {g} PROVE HostWaits(h)'
  <2>1. waits'[h] = waits[h] /\ waits[h] # t
    BY <1>3, <1>6
  <2>2. \A f \in Host : waits'[f] = waits[h] => waits[f] = waits[h]
    BY <1>6, <2>1
  <2>3. waits[h] \in Thread => pending'[waits[h]] = pending[waits[h]]
    BY <1>5, <2>1 DEF Runner
  <2> QED
    BY <1>1, <2>1, <2>2, <2>3, WaitStays
<1> QED
  BY <1>7, <1>8, AllWait

\* A host waits no more, and the handler it waited for is done.
LEMMA OneStopsWaiting ==
    ASSUME Kept, NEW g \in Host, Elsewhere(g), waits' = [waits EXCEPT ![g] = None],
           \A t \in Thread : waits[g] # t => pending'[t] = pending[t]
    PROVE  WaitsFit'
<1>1. /\ waits \in [Host -> Thread \cup {None, Broken}] /\ SysInv
      /\ \A t \in Thread : t # None
  BY LinkAssumption DEF Kept, SysInv, LinkTypeOK
<1>2. waits'[g] = None /\ \A h \in Host \ {g} : waits'[h] = waits[h]
  BY <1>1
<1>3. HostWaits(g)'
  BY <1>2 DEF HostWaits
<1>4. ASSUME NEW h \in Host \ {g} PROVE HostWaits(h)'
  <2>1. CASE waits[h] = None
    BY <1>2, <2>1 DEF HostWaits
  <2>2. CASE waits[h] # None
    <3>1. waits[h] \in Thread => waits[g] # waits[h]
      BY <1>1, ServedHost
    <3> QED
      BY <1>2, <2>2, <3>1, WaitStays DEF Elsewhere
  <2> QED
    BY <2>1, <2>2
<1> QED
  BY <1>3, <1>4, AllWait

\* A handler that nobody waits for any more is done.
LEMMA UnheardWaits ==
    ASSUME Kept, NEW t \in Thread, Unheard(t),
           \A u \in Thread \ {t} : pending'[u] = pending[u]
    PROVE  WaitsFit'
<1>1. UNCHANGED <<phase, cmd, acked, waits>> /\ \A h \in Host : waits[h] # t
  BY DEF Unheard, agentVars, linkVars
<1> QED
  BY <1>1, WaitStays, AllWait

LEMMA ClaimWaits ==
    ASSUME Kept, NEW t \in Thread, Claim(t)
    PROVE  WaitsFit'
<1>0. SysInv /\ t \in Runner /\ TypeOK /\ pending[t].kind = "claim"
  BY DEF Kept, SysInv, CommandInv, Runner, Claim, ClaimCommand
<1>1. UNCHANGED <<phase, cmd, acked, waits, home, command>>
  BY DEF Claim, ClaimCommand, agentVars, linkVars
<1>2. PICK c \in Claimable(pending[t].node) :
          pending' = [pending EXCEPT ![t] = [kind |-> "deliver", cmd |-> c]]
  BY DEF Claim, ClaimCommand
<1>3. pending'[t] = [kind |-> "deliver", cmd |-> c]
      /\ \A u \in Runner \ {t} : pending'[u] = pending[u]
  BY <1>0, <1>2 DEF TypeOK
<1>4. c \in CmdId /\ c \in queue /\ command[c].node = pending[t].node
  BY <1>0 DEF Claimable, TypeOK
<1>5. ASSUME NEW h \in Host PROVE HostWaits(h)'
  <2>1. CASE waits[h] = t
    <3>1. /\ home[h] # None /\ Serves(pending[t], h) /\ \A g \in Host : waits[g] = t => g = h
      BY <1>0, <2>1, ServedHost
    <3>2. phase[h] = "poll" /\ pending[t].node = home[h]
      BY <1>0, <3>1 DEF Serves
    <3>3. c \notin acked[h]
      BY <1>0, <1>4 DEF SysInv, OnFile
    <3>4. Serves(pending[t], h)'
      BY <1>1, <1>3, <1>4, <3>2, <3>3 DEF Serves
    <3>5. waits'[h] = t
      BY <1>1, <2>1
    <3>6. Serves(pending[waits[h]], h)'
      BY <3>4, <3>5
    <3> QED
      BY <1>1, <2>1, <3>1, <3>2, <3>6 DEF HostWaits
  <2>2. CASE waits[h] # t
    <3>1. waits[h] \in Thread => pending'[waits[h]] = pending[waits[h]]
      BY <1>3, <2>2 DEF Runner
    <3> QED
      BY <1>1, <3>1, WaitStays
  <2> QED
    BY <2>1, <2>2
<1> QED
  BY <1>5, AllWait

LEMMA RestartWaits ==
    ASSUME Kept, ControllerRestart
    PROVE  WaitsFit'
<1>1. /\ waits' = [h \in Host |-> IF waits[h] = None THEN None ELSE Broken]
      /\ UNCHANGED <<phase, home>> /\ Broken \notin Thread
  BY LinkAssumption DEF ControllerRestart, agentVars
<1>2. \A h \in Host : waits[h] # None => home[h] # None /\ phase[h] \in {"rest", "poll", "report"}
  BY DEF Kept, SysInv, WaitsFit
<1>3. \A h \in Host : waits'[h] \notin Thread /\ (waits'[h] # None => waits[h] # None)
  BY <1>1, LinkAssumption
<1> QED
  BY <1>1, <1>2, <1>3 DEF WaitsFit

LEMMA ControllerWaits ==
    ASSUME Kept, ControllerStep
    PROVE  WaitsFit'
<1>0. SysInv /\ TypeOK
  BY DEF Kept, SysInv, CommandInv
<1>1. LeavesAgentsAlone /\ UNCHANGED <<phase, cmd, acked, waits>>
  BY <1>0, ControllerAlone DEF agentVars, linkVars
<1>2. ASSUME NEW h \in Host, waits[h] \in Thread PROVE pending'[waits[h]] = pending[waits[h]]
  <2>1. pending[waits[h]].kind \in AgentKinds
    BY <1>0, <1>2, ServedHost DEF Serves, AgentKinds
  <2> QED
    BY <1>1, <1>2, <2>1 DEF LeavesAgentsAlone, Runner
<1> QED
  BY <1>1, <1>2, WaitStays, AllWait

LEMMA AnswerWaits ==
    ASSUME Kept, NEW t \in Thread, AnswerHeartbeat(t) \/ AnswerPoll(t) \/ AnswerResult(t)
    PROVE  WaitsFit'
<1>0. SysInv /\ TypeOK
  BY DEF Kept, SysInv, CommandInv
<1>1. Finish(t)
  BY DEF AnswerHeartbeat, AnswerPoll, AnswerResult, HeartbeatCommit, ClaimNothing, DeliveryFails,
         DeliverCommand, HandleCommandResult
<1>2. \A u \in Thread \ {t} : pending'[u] = pending[u]
  BY <1>0, <1>1 DEF Finish, TypeOK, Runner
<1>3. ASSUME NEW h \in Host, Hears(h, t),
             \/ A!HeartbeatAccepted(h) \/ A!PollEmpty(h) \/ A!ReportFails(h)
             \/ A!ReportAcknowledged(h) \/ UNCHANGED agentVars
             \/ \E c : A!Receives(h, c)
      PROVE  WaitsFit'
  <2>1. Elsewhere(h)
    BY <1>0, <1>3, LoopElsewhere DEF Elsewhere, agentVars
  <2> QED
    BY <1>2, <1>3, <2>1, OneStopsWaiting DEF Hears
<1>4. ASSUME Unheard(t) PROVE WaitsFit'
  BY <1>2, <1>4, UnheardWaits
<1> QED
  BY <1>3, <1>4 DEF AnswerHeartbeat, AnswerPoll, AnswerResult

LEMMA HostStepWaits ==
    ASSUME Kept, NEW g \in Host, GiveUp(g) \/ Work(g) \/ HostCrash(g)
    PROVE  WaitsFit'
<1>0. SysInv /\ waits \in [Host -> Thread \cup {None, Broken}]
  BY DEF Kept, SysInv, LinkTypeOK
<1>1. pending' = pending
  BY DEF GiveUp, Work, HostCrash, vars
<1>2. Elsewhere(g)
  BY <1>0, LoopElsewhere DEF GiveUp, HostCrash, Elsewhere, agentVars
<1>3. ASSUME Work(g) PROVE waits[g] = None /\ waits' = waits
  <2>1. phase[g] \in {"hold", "execute", "save", "clear"} /\ waits' = waits
    BY <1>3
    DEF Work, linkVars, A!LoadResultsFails, A!SavedResult, A!ExecuteBegins, A!ExecuteEnds,
        A!SaveResults, A!SaveResultsFails, A!ClearResult, A!ClearResultFails, A!GoTo
  <2> QED
    BY <1>0, <2>1 DEF SysInv, WaitsFit
<1>4. waits' = [waits EXCEPT ![g] = None]
  BY <1>0, <1>3 DEF GiveUp, HostCrash
<1> QED
  BY <1>1, <1>2, <1>4, OneStopsWaiting

LEMMA WaitsFitStays == Kept /\ SysNext => WaitsFit'
BY InstallWaits, SendWaits, ClaimWaits, RestartWaits, ControllerWaits, AnswerWaits, HostStepWaits
DEF SysNext

-----------------------------------------------------------------------------
(* What is reported and what is recorded.                                   *)

\* A report in progress was in progress before, or its host sends it now.
ReportsStay ==
    \A t \in Runner : pending'[t].kind = "result" =>
        \/ pending'[t] = pending[t]
        \/ /\ t \in Thread
           /\ \E h \in Host : SendResult(h, t) /\ pending'[t].cmd = cmd[h]
                                               /\ pending'[t].status = result[h]

LEMMA ReportsAreSent ==
    ASSUME SysInv, SysNext
    PROVE  ReportsStay
<1>0. TypeOK /\ Thread \subseteq Runner
  BY DEF SysInv, CommandInv, Runner
<1>1. ASSUME pending' = pending PROVE ReportsStay
  BY <1>1 DEF ReportsStay
<1>2. ASSUME NEW t \in Thread, NEW r, Begin(t, r), r.kind # "result" PROVE ReportsStay
  BY <1>0, <1>2 DEF Begin, TypeOK, ReportsStay
<1>3. ASSUME NEW t \in Thread, Finish(t) PROVE ReportsStay
  BY <1>0, <1>3 DEF Finish, Idle, TypeOK, ReportsStay
<1>4. ASSUME NEW h \in Host, NEW n \in Node, Install(h, n) PROVE ReportsStay
  BY <1>1, <1>4 DEF Install, HandleRegister, HandleReconnect
<1>5. ASSUME NEW h \in Host, NEW t \in Thread, SendHeartbeat(h, t) \/ SendPoll(h, t)
      PROVE  ReportsStay
  BY <1>2, <1>5 DEF SendHeartbeat, SendPoll, HeartbeatAuth, CommandsAuth, Authenticate
<1>6. ASSUME NEW h \in Host, NEW t \in Thread, SendResult(h, t) PROVE ReportsStay
  <2>1. PICK r : Begin(t, r) /\ r.cmd = cmd[h] /\ r.status = result[h]
    BY <1>6 DEF SendResult, Authenticate
  <2>2. pending'[t] = r /\ \A u \in Runner \ {t} : pending'[u] = pending[u]
    BY <1>0, <2>1 DEF Begin, TypeOK
  <2> QED
    BY <1>6, <2>1, <2>2 DEF ReportsStay
<1>7. ASSUME NEW h \in Host, GiveUp(h) \/ Work(h) \/ HostCrash(h) PROVE ReportsStay
  BY <1>1, <1>7 DEF GiveUp, Work, HostCrash, vars
<1>8. ASSUME NEW t \in Thread, AnswerHeartbeat(t) \/ AnswerPoll(t) \/ AnswerResult(t)
      PROVE  ReportsStay
  BY <1>3, <1>8
  DEF AnswerHeartbeat, AnswerPoll, AnswerResult, HeartbeatCommit, ClaimNothing, DeliveryFails,
      DeliverCommand, HandleCommandResult
<1>9. ASSUME NEW t \in Thread, Claim(t) PROVE ReportsStay
  BY <1>0, <1>9 DEF Claim, ClaimCommand, TypeOK, ReportsStay
<1>10. ASSUME ControllerStep PROVE ReportsStay
  BY <1>0, <1>10, ControllerAlone DEF LeavesAgentsAlone, AgentKinds, ReportsStay
<1>11. ASSUME ControllerRestart PROVE ReportsStay
  BY <1>11 DEF ControllerRestart, Restart, Idle, ReportsStay
<1> QED
  BY <1>4, <1>5, <1>6, <1>7, <1>8, <1>9, <1>10, <1>11 DEF SysNext

LEMMA VouchedStays ==
    ASSUME Kept, SysNext
    PROVE  AnswersVouched' /\ RecordedIsSaved'
<1>0. SysInv /\ TypeOK /\ ReportsStay /\ A!AgentInv
  BY ReportsAreSent DEF Kept, SysInv, CommandInv
<1>1. \A h \in Host, c \in CmdId : \A s :
        s # "none" /\ Vouches(h, c, s) => Vouches(h, c, s)'
  BY <1>0, VouchStands DEF Kept
<1>2. \A t \in Runner : pending[t].kind = "result" =>
        pending[t].cmd \in CmdId /\ pending[t].status # "none"
  BY <1>0, RequestFields DEF TypeOK, Terminal
<1>3. ASSUME NEW t \in Runner, pending'[t].kind = "result"
      PROVE  (\E h \in Host : Vouches(h, pending[t].cmd, pending[t].status))'
  <2> DEFINE c == pending'[t].cmd
             s == pending'[t].status
  <2>1. c \in CmdId /\ s # "none" /\ \E h \in Host : Vouches(h, c, s)
    <3>1. CASE pending'[t] = pending[t]
      BY <1>0, <1>2, <1>3, <3>1 DEF SysInv, AnswersVouched
    <3>2. ASSUME NEW h \in Host, t \in Thread, SendResult(h, t),
                 pending'[t].cmd = cmd[h], pending'[t].status = result[h]
          PROVE  c \in CmdId /\ s # "none" /\ \E g \in Host : Vouches(g, c, s)
      BY <1>0, <3>2, ResultIsAllowed
    <3> QED
      BY <1>0, <1>3, <3>1, <3>2 DEF ReportsStay
  <2> HIDE DEF c, s
  <2>2. \E h \in Host : runs'[h][c] > 0 /\ (c \in acked'[h] \/ file'[h][c] = s)
    BY <1>1, <2>1 DEF Vouches
  <2>3. \E h \in Host : /\ runs'[h][pending'[t].cmd] > 0
                        /\ \/ pending'[t].cmd \in acked'[h]
                           \/ file'[h][pending'[t].cmd] = pending'[t].status
    BY <2>2 DEF c, s
  <2> QED
    BY <2>3 DEF Vouches
<1>4. AnswersVouched'
  BY <1>3 DEF AnswersVouched
<1>5. ASSUME NEW c \in CmdId, backups'[c] > 0
      PROVE  \E h \in Host : runs'[h][c] > 0 /\ (c \in acked'[h] \/ file'[h][c] = "success")
  <2>1. \E h \in Host : Vouches(h, c, "success")
    <3>1. CASE backups[c] > 0
      BY <1>0, <3>1 DEF SysInv, RecordedIsSaved, Vouches
    <3>2. ASSUME NEW t \in Runner, pending[t].kind = "result", pending[t].cmd = c,
                 pending[t].status = "success"
          PROVE  \E h \in Host : Vouches(h, c, "success")
      BY <1>0, <3>2 DEF SysInv, AnswersVouched
    <3> QED
      BY <1>5, <3>1, <3>2 DEF Kept, Grown
  <2> QED
    BY <1>1, <2>1 DEF Vouches
<1>6. RecordedIsSaved'
  BY <1>5 DEF RecordedIsSaved
<1> QED
  BY <1>4, <1>6

-----------------------------------------------------------------------------
(* The theorems.                                                            *)

LEMMA SysInvInit == SysInit => SysInv
<1> SUFFICES ASSUME SysInit PROVE SysInv
  OBVIOUS
<1>1. CommandInv /\ A!AgentInv
  BY CommandInvInit, AgentInvHolds DEF SysInit
<1>2. LinkTypeOK /\ WaitsFit
  BY DEF SysInit, LinkTypeOK, WaitsFit
<1>3. OnFile /\ \A h \in Host : InHand(h)
  BY DEF SysInit, A!AgentInit, OnFile, InHand
<1>4. AnswersVouched /\ RecordedIsSaved
  BY DEF SysInit, Init, Idle, CmdId, AnswersVouched, RecordedIsSaved
<1> QED
  BY <1>1, <1>2, <1>3, <1>4 DEF SysInv

LEMMA SysInvStep == SysInv /\ SysNext => SysInv'
<1> SUFFICES ASSUME SysInv, SysNext PROVE SysInv'
  OBVIOUS
<1>1. Kept
  BY KeptHolds
<1>2. OnFile' /\ \A h \in Host : InHand(h)'
  BY <1>1, HandsFit
<1>3. LinkTypeOK' /\ WaitsFit' /\ AnswersVouched' /\ RecordedIsSaved'
  BY <1>1, LinkTypeStays, WaitsFitStays, VouchedStays
<1> QED
  BY <1>1, <1>2, <1>3 DEF SysInv, Kept

LEMMA SysInvStutter == SysInv /\ UNCHANGED sysVars => SysInv'
<1> SUFFICES ASSUME SysInv, UNCHANGED sysVars PROVE SysInv'
  OBVIOUS
<1>1. UNCHANGED vars /\ UNCHANGED agentVars /\ UNCHANGED linkVars
  BY DEF sysVars
<1>2. CommandInv' /\ A!AgentInv'
  BY <1>1, CommandInvStutter, AgentInvHolds DEF SysInv
<1>3. LinkTypeOK' /\ WaitsFit' /\ OnFile' /\ \A h \in Host : InHand(h)'
  BY <1>1
  DEF SysInv, vars, queueVars, agentVars, linkVars, LinkTypeOK, WaitsFit, Serves, OnFile, InHand
<1>4. AnswersVouched' /\ RecordedIsSaved'
  BY <1>1 DEF SysInv, vars, agentVars, AnswersVouched, Vouches, RecordedIsSaved
<1> QED
  BY <1>2, <1>3, <1>4 DEF SysInv

\* Requests, handlers, files and the queue fit together whatever the order of
\* polls, claims, answers, reports, lost responses, crashes, takeovers and
\* restarts, for any number of hosts and of handlers at work at the same time.
THEOREM SysInvariant == SysSpec => []SysInv
BY SysInvInit, SysInvStep, SysInvStutter, PTL DEF SysSpec

\* With its hosts the controller does only what Controller allows: what is
\* proved of Controller holds of the whole.
THEOREM SystemImplementsController == SysSpec => ImplementsController
<1>1. SysInit => Init
  BY DEF SysInit
<1>2. SysInv /\ [SysNext]_sysVars => [Next]_vars
  BY HandlersFollowController DEF sysVars
<1> QED
  BY <1>1, <1>2, SysInvariant, PTL DEF SysSpec, ImplementsController, Spec

\* To each host the controller is the one Agent expects: after the
\* acknowledgement of a result the command does not come again.
THEOREM SystemImplementsAgent == SysSpec => ImplementsAgent
<1>1. SysInit => A!AgentInit
  BY DEF SysInit
<1>2. SysInv /\ [SysNext]_sysVars => [A!AgentNext]_A!agentVars
  BY HostsFollowAgent DEF sysVars, agentVars, A!agentVars
<1> QED
  BY <1>1, <1>2, SysInvariant, PTL DEF SysSpec, ImplementsAgent, A!AgentSpec

\* A command is executed again on a host only after the host lost a result of
\* it, with the real controller on the other side.
THEOREM SystemRepeatsAreLosses == SysSpec => []RepeatedOnlyAfterLoss
<1>1. AP!AgentInv => AP!RepeatedOnlyAfterLoss
  BY AgentConstants
  DEF AP!AgentInv, AP!AgentTypeOK, AP!RunsCounted, AP!RepeatedOnlyAfterLoss
<1>2. SysInv => RepeatedOnlyAfterLoss
  BY <1>1, SameAgent DEF SysInv, RepeatedOnlyAfterLoss, A!RepeatedOnlyAfterLoss,
                         AP!RepeatedOnlyAfterLoss
<1> QED
  BY <1>2, SysInvariant, PTL

\* What the index says was backed up some host did back up, and it can still
\* say so until it knows that the controller wrote it down.
THEOREM RecordsAreVouched == SysSpec => []RecordedIsSaved
<1>1. SysInv => RecordedIsSaved
  BY DEF SysInv
<1> QED
  BY <1>1, SysInvariant, PTL
-----------------------------------------------------------------------------
(* What follows for the whole.                                              *)

\* With its hosts the controller takes every command through its lifecycle.
THEOREM SystemImplementsLifecycle == SysSpec => ImplementsLifecycle
BY SystemImplementsController, ControllerImplementsLifecycle, PTL
DEF ImplementsController

\* What was proved of the controller with any agents holds with the real ones:
\* outcomes are final, deleted backups do not come back, no plan is left showing
\* "queued", and the page and the index fit the queue.
THEOREM SystemKeepsPromises ==
    SysSpec => /\ [](OpMatchesCommand /\ OneRecordPerCommand /\ QueuedPlanHasCommand)
               /\ TerminalStatusFinal /\ StoppedNeverDelivered /\ DeletedBackupStaysDeleted
BY SystemImplementsController, PageMatchesQueue, RecordedOnce, QueuedPlansAreTold,
   OutcomesAreFinal, StoppedIsNeverDelivered, DeletedBackupIsGone, PTL
DEF ImplementsController

\* A host begins only what it has in hand.
LEMMA OnlyHandRuns ==
    ASSUME A!AgentInv, A!AgentNext \/ UNCHANGED agentVars,
           NEW h \in Host, NEW c \in CmdId, runs'[h][c] > 0
    PROVE  runs[h][c] > 0 \/ cmd[h] = c
<1>1. /\ runs \in [Host -> [CmdId -> Nat]] /\ cmd \in [Host -> CmdId \cup {None}]
  BY DEF A!AgentInv, A!AgentTypeOK
<1>2. CASE UNCHANGED agentVars
  BY <1>2 DEF agentVars
<1>3. CASE A!AgentNext
  <2>1. PICK g \in Host : A!Cycle(g) \/ A!Crash(g)
    BY <1>3 DEF A!AgentNext
  <2>2. CASE A!ExecuteBegins(g)
    <3>1. runs' = [runs EXCEPT ![g][cmd[g]] = @ + 1]
      BY <2>2 DEF A!ExecuteBegins
    <3>2. CASE h = g /\ c = cmd[g]
      BY <3>2
    <3>3. CASE ~(h = g /\ c = cmd[g])
      <4>1. runs'[h][c] = runs[h][c]
        BY <1>1, <3>1, <3>3
      <4> QED
        BY <4>1
    <3> QED
      BY <3>2, <3>3
  <2>3. CASE ~A!ExecuteBegins(g)
    <3>1. runs' = runs
      BY <2>1, <2>3
      DEF A!Cycle, A!HeartbeatAccepted, A!PollReceives, A!Receives, A!PollEmpty,
          A!LoadResultsFails, A!SavedResult, A!ExecuteEnds, A!SaveResults,
          A!SaveResultsFails, A!ReportAcknowledged, A!ReportFails, A!ClearResult,
          A!ClearResultFails, A!Crash
    <3> QED
      BY <3>1
  <2> QED
    BY <2>2, <2>3
<1> QED
  BY <1>2, <1>3

\* A host executes only what the controller handed out, for the host's node.
ExecutedIsDelivered ==
    \A h \in Host, c \in CmdId : runs[h][c] > 0 =>
        c \in delivered /\ home[h] # None /\ command[c].node = home[h]

LEMMA ExecutedStays ==
    ASSUME SysInv, SysNext, ExecutedIsDelivered
    PROVE  ExecutedIsDelivered'
<1>0. Kept
  BY KeptHolds
<1> SUFFICES ASSUME NEW h \in Host, NEW c \in CmdId, runs'[h][c] > 0
             PROVE  c \in delivered' /\ home'[h] # None /\ command'[c].node = home'[h]
  BY DEF ExecutedIsDelivered
<1>1. c \in delivered /\ home[h] # None /\ command[c].node = home[h]
  <2>1. CASE runs[h][c] > 0
    BY <2>1 DEF ExecutedIsDelivered
  <2>2. CASE cmd[h] = c
    BY <2>2, LinkAssumption DEF SysInv, InHand
  <2> QED
    BY <1>0, <2>1, <2>2, OnlyHandRuns DEF Kept, SysInv
<1> QED
  BY <1>0, <1>1, DeliveredStays DEF Kept

\* No host executes what was not handed out, nor a command of another node.
THEOREM ExecutedWasDelivered == SysSpec => []ExecutedIsDelivered
<1>1. SysInit => ExecutedIsDelivered
  BY DEF SysInit, A!AgentInit, ExecutedIsDelivered
<1>2. ExecutedIsDelivered /\ UNCHANGED sysVars => ExecutedIsDelivered'
  <2>1. UNCHANGED sysVars => UNCHANGED <<runs, delivered, home, command>>
    BY DEF sysVars, agentVars, linkVars, vars, queueVars
  <2> QED
    BY <2>1 DEF ExecutedIsDelivered
<1> QED
  BY <1>1, <1>2, ExecutedStays, SysInvariant, PTL DEF SysSpec

\* A command that was stopped, or that expired, before a node took it is not
\* executed on any host, then or later, not even by an agent that polled when
\* the user stopped it.
WithdrawnIsNotExecuted ==
    \A c \in CmdId : Stage[c] = "withdrawn" => \A h \in Host : runs[h][c] = 0

THEOREM WithdrawnIsNeverExecuted ==
    SysSpec => /\ []WithdrawnIsNotExecuted
               /\ [][\A c \in CmdId : Stage[c] = "withdrawn" => Stage'[c] = "withdrawn"]_sysVars
<1>1. SysInv /\ ExecutedIsDelivered => WithdrawnIsNotExecuted
  <2> SUFFICES ASSUME SysInv, ExecutedIsDelivered, NEW c \in CmdId, NEW h \in Host,
                      Stage[c] = "withdrawn"
               PROVE  runs[h][c] = 0
    BY DEF WithdrawnIsNotExecuted
  <2>1. c \notin claimed
    BY DEF Stage
  <2>2. c \notin delivered
    BY <2>1 DEF SysInv, CommandInv, DeliveryAfterClaim
  <2>3. runs[h][c] \in Nat /\ ~(runs[h][c] > 0)
    BY <2>2, AgentTyped DEF ExecutedIsDelivered
  <2> QED
    BY <2>3
<1>2. [LifecycleGoesOn]_vars =>
        [\A c \in CmdId : Stage[c] = "withdrawn" => Stage'[c] = "withdrawn"]_sysVars
  <2>1. LifecycleGoesOn => \A c \in CmdId : Stage[c] = "withdrawn" => Stage'[c] = "withdrawn"
    BY DEF LifecycleGoesOn, StagesAfter
  <2>2. UNCHANGED vars => Stage' = Stage
    BY DEF vars, queueVars, Stage, Waiting, Running, Unborn
  <2> QED
    BY <2>1, <2>2
<1> QED
  BY <1>1, <1>2, SysInvariant, ExecutedWasDelivered, SystemImplementsController,
     CommandsGoOn, PTL DEF ImplementsController
=============================================================================
