------------------------------- MODULE System -------------------------------
(***************************************************************************)
(* The controller and its agents together.  Each host runs the loop of     *)
(* Agent and talks to one handler of Controller at a time: an HTTP request *)
(* begins a handler on a thread, and the handler's last step answers the   *)
(* host if it still waits.  A host gives up when it likes (90 s without    *)
(* response headers, a broken connection); the handler runs on, so a host  *)
(* that gives up early or late covers the loss of the request and the loss *)
(* of the response.                                                        *)
(*                                                                         *)
(* A reconnect gives the node to another host.  The replaced host runs on  *)
(* with a token that no longer matches.                                    *)
(***************************************************************************)
EXTENDS Controller

CONSTANTS
    Host,       \* installations of the agent
    Broken,     \* a connection that died with the controller
    MaxLost     \* bound: see Agent

ASSUME LinkAssumption ==
    /\ None \notin Host \cup Thread \cup CmdId /\ Broken \notin Thread \cup {None}
    /\ MaxLost \in Nat

VARIABLES
    phase, cmd, result, file, runs, lost, acked,    \* see Agent
    home,       \* config.NodeID of each host, None before it is installed
    owner,      \* the host whose token the node's TokenHash matches
    waits       \* the thread that serves each host's outstanding request

A == INSTANCE Agent WITH
    Command <- CmdId, NoCmd <- None, NoResult <- "none",
    Status <- {"success", "warning", "failed"}

agentVars == <<phase, cmd, result, file, runs, lost, acked>>
linkVars  == <<home, owner, waits>>
sysVars   == <<vars, agentVars, linkVars>>

SysInit ==
    /\ Init /\ A!AgentInit
    /\ home = [h \in Host |-> None]
    /\ owner = [n \in Node |-> None]
    /\ waits = [h \in Host |-> None]

-----------------------------------------------------------------------------
(* Installation: install.sh registers a new node or takes one over.         *)

Install(h, n) ==
    /\ home[h] = None
    /\ HandleRegister(n) \/ HandleReconnect(n)
    /\ home' = [home EXCEPT ![h] = n]
    /\ owner' = [owner EXCEPT ![n] = h]
    /\ UNCHANGED <<agentVars, waits>>

-----------------------------------------------------------------------------
(* Requests.                                                                *)

\* authenticateNode compares the host's token with the node's.
HasToken(h) == home[h] # None /\ owner[home[h]] = h

\* h sends a request when it is in the given phase; t serves it.
Sends(h, t, from) ==
    /\ phase[h] = from /\ waits[h] = None /\ HasToken(h)
    /\ waits' = [waits EXCEPT ![h] = t]
    /\ UNCHANGED <<agentVars, home, owner>>

SendHeartbeat(h, t) == Sends(h, t, "rest") /\ HeartbeatAuth(t, home[h])
SendPoll(h, t)      == Sends(h, t, "poll") /\ CommandsAuth(t, home[h])
SendResult(h, t) ==
    /\ Sends(h, t, "report")
    /\ Authenticate(t, home[h], [kind |-> "result", node |-> home[h],
                                 cmd |-> cmd[h], status |-> result[h]])

\* The answer of thread t reaches h.
Hears(h, t) ==
    /\ waits[h] = t
    /\ waits' = [waits EXCEPT ![h] = None]
    /\ UNCHANGED <<home, owner>>

\* Nobody waits for t any more.
Unheard(t) ==
    /\ \A h \in Host : waits[h] # t
    /\ UNCHANGED <<agentVars, linkVars>>

AnswerHeartbeat(t) ==
    /\ HeartbeatCommit(t)
    /\ \/ Unheard(t)
       \/ \E h \in Host :
            /\ Hears(h, t)
            /\ \/ pending[t].node \in nodes /\ A!HeartbeatAccepted(h)
               \/ pending[t].node \notin nodes /\ UNCHANGED agentVars

AnswerPoll(t) ==
    \/ /\ ClaimNothing(t) \/ DeliveryFails(t)
       /\ \/ Unheard(t)
          \/ \E h \in Host : Hears(h, t) /\ A!PollEmpty(h)
    \/ \E h \in Host :
         /\ DeliverCommand(t)
         /\ Hears(h, t)
         /\ A!Receives(h, pending[t].cmd)

Claim(t) == ClaimCommand(t) /\ UNCHANGED <<agentVars, linkVars>>

\* A result for a command that is no longer in the queue is refused.
AnswerResult(t) ==
    /\ HandleCommandResult(t)
    /\ LET known == /\ pending[t].cmd \in queue
                    /\ command[pending[t].cmd].node = pending[t].node IN
       \/ Unheard(t)
       \/ \E h \in Host :
            /\ Hears(h, t)
            /\ \/ known /\ A!ReportAcknowledged(h)
               \/ ~known /\ A!ReportFails(h)

\* h stops waiting, or its request fails before it reaches a handler.
GiveUp(h) ==
    /\ \/ phase[h] = "rest" /\ waits[h] # None /\ UNCHANGED agentVars
       \/ A!PollEmpty(h)
       \/ A!ReportFails(h)
    /\ waits' = [waits EXCEPT ![h] = None]
    /\ UNCHANGED <<vars, home, owner>>

-----------------------------------------------------------------------------
(* The host's own steps.                                                    *)

\* Mutant: every command may end with a warning.
WorkAnyStatus(h) ==
    /\ \/ A!LoadResultsFails(h)
       \/ A!SavedResult(h)
       \/ A!ExecuteBegins(h)
       \/ /\ phase[h] = "execute"
          /\ \E s \in {"success", "warning", "failed"} : A!ExecuteEnds(h, s)
       \/ A!SaveResults(h)
       \/ A!SaveResultsFails(h)
       \/ A!ClearResult(h)
       \/ A!ClearResultFails(h)
    /\ UNCHANGED <<vars, linkVars>>

Work(h) ==
    /\ \/ A!LoadResultsFails(h)
       \/ A!SavedResult(h)
       \/ A!ExecuteBegins(h)
       \/ /\ phase[h] = "execute"
          /\ \E s \in Answers[command[cmd[h]].type] : A!ExecuteEnds(h, s)
       \/ A!SaveResults(h)
       \/ A!SaveResultsFails(h)
       \/ A!ClearResult(h)
       \/ A!ClearResultFails(h)
    /\ UNCHANGED <<vars, linkVars>>

HostCrash(h) ==
    /\ A!Crash(h)
    /\ waits' = [waits EXCEPT ![h] = None]
    /\ UNCHANGED <<vars, home, owner>>

-----------------------------------------------------------------------------
(* Steps of the controller in which no host takes part.                     *)

ControllerStep ==
    /\ \/ AdminStep
       \/ SchedulerStep
       \/ \E t \in Runner : QueueBackupCommit(t)
       \/ Elapse
    /\ UNCHANGED <<agentVars, linkVars>>

ControllerRestart ==
    /\ Restart
    /\ waits' = [h \in Host |-> IF waits[h] = None THEN None ELSE Broken]
    /\ UNCHANGED <<agentVars, home, owner>>

-----------------------------------------------------------------------------
SysNext ==
    \/ \E h \in Host :
         \/ \E n \in Node : Install(h, n)
         \/ \E t \in Thread : SendHeartbeat(h, t) \/ SendPoll(h, t) \/ SendResult(h, t)
         \/ GiveUp(h)
         \/ Work(h)
         \/ HostCrash(h)
    \/ \E t \in Thread :
         \/ AnswerHeartbeat(t)
         \/ Claim(t)
         \/ AnswerPoll(t)
         \/ AnswerResult(t)
    \/ ControllerStep
    \/ ControllerRestart

SysSpec == SysInit /\ [][SysNext]_sysVars

(* Fairness: time passes, the goroutines of the scheduler and of every      *)
(* handler run, and so does the loop of every host; a host's requests find  *)
(* a free handler now and then.                                             *)
Silent == UNCHANGED <<agentVars, linkVars>>

HandlerRuns(t) ==
    \/ AnswerHeartbeat(t) \/ Claim(t) \/ AnswerPoll(t) \/ AnswerResult(t)
    \/ /\ \/ QueueBackupCommit(t) \/ RestoreCommit(t) \/ ConfigureCommit(t)
          \/ UpdateTaskCommit(t) \/ DeleteBackupCommit(t) \/ DeleteBackupFails(t)
          \/ \E k \in Task : CreateTaskCommit(t, k)
       /\ Silent

HostRuns(h) ==
    \/ Work(h)
    \/ \E t \in Thread : SendHeartbeat(h, t) \/ SendPoll(h, t) \/ SendResult(h, t)

\* The node and the repository of a command exist.
Reachable(c) == /\ command[c].node \in nodes
                /\ command[c].type = "configure" \/ command[c].repo \in repos

\* What can keep a host from finishing a cycle: a request or its answer lost,
\* a file that cannot be read or written, a crash.
Disturbed(h) ==
    \/ GiveUp(h) /\ waits[h] # Broken /\ HasToken(h)
    \/ HostCrash(h)
    \/ phase[h] \in {"hold", "save"} /\ phase'[h] = "rest"
    \/ \E t \in Thread : /\ waits[h] = t /\ pending[t].kind = "deliver"
                         /\ phase[h] = "poll" /\ phase'[h] = "rest"
                         /\ Reachable(pending[t].cmd)

SysFairness ==
    /\ SF_sysVars(Elapse /\ Silent)
    /\ WF_sysVars(SchedulerStep /\ Silent)
    /\ WF_sysVars(QueueBackupCommit(Scheduler) /\ Silent)
    /\ \A t \in Thread : WF_sysVars(HandlerRuns(t))
    /\ \A h \in Host : SF_sysVars(HostRuns(h)) /\ WF_sysVars(GiveUp(h) /\ waits[h] = Broken)

\* Disturbances end at some point.
Calm == <>[][\A h \in Host : ~Disturbed(h)]_sysVars

SysFairSpec == SysSpec /\ SysFairness /\ Calm
-----------------------------------------------------------------------------
(* Properties.                                                              *)

\* Together with their hosts the handlers do nothing Controller does not
\* allow: what its agents may do covers what the real ones do.
ImplementsController == Spec

\* The controller keeps the promise the agents rely on: a command is not
\* offered again to a host whose result for it was acknowledged, although the
\* poll, the claim, the answer and the results of earlier deliveries overlap.
ImplementsAgent == A!AgentSpec

\* A host executes a command once for every result it lost, plus once,
\* whatever the controller offers again after a lost response or a timeout.
RepeatedOnlyAfterLoss == A!RepeatedOnlyAfterLoss

\* The index and results.json agree: a recorded backup is one that some host
\* executed with success, and until the host knows it was recorded its file
\* still says so.
RecordedIsSaved ==
    \A c \in CmdId : backups[c] > 0 =>
        \E h \in Host : runs[h][c] > 0 /\ (c \in acked[h] \/ file[h][c] = "success")

\* A command a node took is answered, or taken away with the node: nobody
\* waits for it for ever while its node and its repository exist.
RunningIsSettled ==
    \A c \in CmdId : (c \in Running) ~> (c \notin queue \/ ~Reachable(c))

-----------------------------------------------------------------------------
(* The inductive invariant behind them.                                     *)

LinkTypeOK ==
    /\ home \in [Host -> Node \cup {None}]
    /\ owner \in [Node -> Host \cup {None}]
    /\ waits \in [Host -> Thread \cup {None, Broken}]

\* The handler a host waits for does what the host asked for, and what it is
\* about to deliver was not acknowledged; no two hosts wait for the same one.
Serves(p, h) ==
    \/ phase[h] = "rest" /\ p.kind = "heartbeat"
    \/ phase[h] = "poll" /\ p.kind = "claim" /\ p.node = home[h]
    \/ /\ phase[h] = "poll" /\ p.kind = "deliver"
       /\ command[p.cmd].node = home[h] /\ p.cmd \notin acked[h]
    \/ phase[h] = "report" /\ p.kind = "result" /\ p.cmd = cmd[h]

WaitsFit ==
    \A h \in Host : waits[h] # None =>
        /\ home[h] # None /\ phase[h] \in {"rest", "poll", "report"}
        /\ waits[h] \in Thread =>
               /\ Serves(pending[waits[h]], h)
               /\ \A g \in Host : waits[g] = waits[h] => g = h

\* What a host has in hand is a command of its node that was delivered.
InHand(h) ==
    /\ cmd[h] = None => result[h] = "none"
    /\ cmd[h] # None =>
           /\ home[h] # None
           /\ cmd[h] \in delivered /\ command[cmd[h]].node = home[h]
           /\ result[h] # "none" => result[h] \in Answers[command[cmd[h]].type]
           /\ phase[h] \in {"execute", "save"} => runs[h][cmd[h]] > 0

\* What it saved it executed; what was acknowledged has left the queue.
OnFile ==
    \A h \in Host, c \in CmdId :
        /\ file[h][c] # "none" => /\ c \in delivered /\ runs[h][c] > 0
                                  /\ file[h][c] \in Answers[command[c].type]
        /\ c \in acked[h] => c \in delivered /\ c \notin queue /\ runs[h][c] > 0

\* h executed c, and has s on file for it until it knows that s was recorded.
Vouches(h, c, s) == runs[h][c] > 0 /\ (c \in acked[h] \/ file[h][c] = s)

AnswersVouched ==
    \A t \in Runner : pending[t].kind = "result" =>
        \E h \in Host : Vouches(h, pending[t].cmd, pending[t].status)

SysInv ==
    /\ CommandInv /\ A!AgentInv
    /\ LinkTypeOK /\ WaitsFit /\ OnFile /\ \A h \in Host : InHand(h)
    /\ AnswersVouched /\ RecordedIsSaved
=============================================================================
