------------------------------- MODULE Agent -------------------------------
(***************************************************************************)
(* The agent's loop (cmd/agent): each installation (host) runs one cycle   *)
(* after the other, on one goroutine.  A cycle is a heartbeat, a poll that *)
(* brings at most one command, its execution unless results.json already   *)
(* holds its result, the saving of the result, the report, and the removal *)
(* of the reported result.  Every error ends the cycle; the process may    *)
(* die at any point and only results.json survives.                        *)
(*                                                                         *)
(* The controller is seen through the answers it gives.  The one thing the *)
(* agent relies on is that a command whose result was acknowledged to it   *)
(* is not offered to it again (PollReceives); System shows that the        *)
(* controller keeps that promise.                                          *)
(***************************************************************************)
EXTENDS Integers

CONSTANTS
    Host,       \* installations of the agent
    Command,    \* command ids
    NoCmd,      \* no command in hand
    Status,     \* what an execution may answer
    NoResult,   \* no entry in results.json
    MaxLost     \* bound: executions of a command whose result a host loses

ASSUME AgentAssumption ==
    /\ NoCmd \notin Command /\ NoResult \notin Status
    /\ MaxLost \in Nat

VARIABLES
    phase,      \* where each host is in its cycle
    cmd,        \* the command in hand
    result,     \* its result, in memory
    file,       \* results.json: the saved result of each command
    runs,       \* executions of each command begun on each host
    lost,       \* executions that ended without a saved result
    acked       \* commands whose result was acknowledged to each host

agentVars == <<phase, cmd, result, file, runs, lost, acked>>

Phase == {"rest", "poll", "hold", "execute", "save", "report", "clear"}

AgentInit ==
    /\ phase = [h \in Host |-> "rest"]
    /\ cmd = [h \in Host |-> NoCmd]
    /\ result = [h \in Host |-> NoResult]
    /\ file = [h \in Host |-> [c \in Command |-> NoResult]]
    /\ runs = [h \in Host |-> [c \in Command |-> 0]]
    /\ lost = [h \in Host |-> [c \in Command |-> 0]]
    /\ acked = [h \in Host |-> {}]

-----------------------------------------------------------------------------
GoTo(h, from, to) == phase[h] = from /\ phase' = [phase EXCEPT ![h] = to]

\* The cycle ends: the loop drops what it had in memory and sleeps.
EndCycle(h) ==
    /\ phase' = [phase EXCEPT ![h] = "rest"]
    /\ cmd' = [cmd EXCEPT ![h] = NoCmd]
    /\ result' = [result EXCEPT ![h] = NoResult]

HeartbeatAccepted(h) ==
    /\ GoTo(h, "rest", "poll")
    /\ UNCHANGED <<cmd, result, file, runs, lost, acked>>

\* The response of the poll brings c.
Receives(h, c) ==
    /\ GoTo(h, "poll", "hold")
    /\ cmd' = [cmd EXCEPT ![h] = c]
    /\ UNCHANGED <<result, file, runs, lost, acked>>

\* What the loop expects of a controller: an acknowledged command does not come
\* again.  (System shows that the controller is one.)
PollReceives(h, c) == c \notin acked[h] /\ Receives(h, c)

\* No command is offered, or the poll fails.
PollEmpty(h) ==
    /\ phase[h] = "poll" /\ EndCycle(h)
    /\ UNCHANGED <<file, runs, lost, acked>>

\* results.json cannot be read: the command is passed over.
LoadResultsFails(h) ==
    /\ phase[h] = "hold" /\ EndCycle(h)
    /\ UNCHANGED <<file, runs, lost, acked>>

\* The command was executed before: its saved result is reported again.
SavedResult(h) ==
    /\ GoTo(h, "hold", "report")
    /\ file[h][cmd[h]] # NoResult
    /\ result' = [result EXCEPT ![h] = file[h][cmd[h]]]
    /\ UNCHANGED <<cmd, file, runs, lost, acked>>

\* Mutant: a command in hand is always executed.
ExecuteBeginsAlways(h) ==
    /\ GoTo(h, "hold", "execute")
    /\ runs' = [runs EXCEPT ![h][cmd[h]] = @ + 1]
    /\ UNCHANGED <<cmd, result, file, lost, acked>>

ExecuteBegins(h) ==
    /\ GoTo(h, "hold", "execute")
    /\ file[h][cmd[h]] = NoResult
    /\ runs' = [runs EXCEPT ![h][cmd[h]] = @ + 1]
    /\ UNCHANGED <<cmd, result, file, lost, acked>>

ExecuteEnds(h, s) ==
    /\ GoTo(h, "execute", "save")
    /\ result' = [result EXCEPT ![h] = s]
    /\ UNCHANGED <<cmd, file, runs, lost, acked>>

\* Mutant: the result is reported before it is saved.
SaveResultsLate(h) ==
    /\ GoTo(h, "save", "report")
    /\ UNCHANGED <<cmd, result, file, runs, lost, acked>>

\* The file is replaced by rename: a crash leaves the old one or the new one.
SaveResults(h) ==
    /\ GoTo(h, "save", "report")
    /\ file' = [file EXCEPT ![h][cmd[h]] = result[h]]
    /\ UNCHANGED <<cmd, result, runs, lost, acked>>

\* Bound: MaxLost results of a command are lost.
LoseExecution(h) ==
    /\ lost[h][cmd[h]] < MaxLost
    /\ lost' = [lost EXCEPT ![h][cmd[h]] = @ + 1]

\* The result cannot be saved: it is not reported either.
SaveResultsFails(h) ==
    /\ phase[h] = "save" /\ EndCycle(h) /\ LoseExecution(h)
    /\ UNCHANGED <<file, runs, acked>>

ReportAcknowledged(h) ==
    /\ GoTo(h, "report", "clear")
    /\ acked' = [acked EXCEPT ![h] = @ \cup {cmd[h]}]
    /\ UNCHANGED <<cmd, result, file, runs, lost>>

\* Mutant: the entry is dropped even though the report failed.
ReportFailsClearing(h) ==
    /\ phase[h] = "report" /\ EndCycle(h)
    /\ file' = [file EXCEPT ![h][cmd[h]] = NoResult]
    /\ UNCHANGED <<runs, lost, acked>>

\* The request or its response is lost, or the controller refuses it: the
\* entry stays in results.json.
ReportFails(h) ==
    /\ phase[h] = "report" /\ EndCycle(h)
    /\ UNCHANGED <<file, runs, lost, acked>>

ClearResult(h) ==
    /\ phase[h] = "clear" /\ EndCycle(h)
    /\ file' = [file EXCEPT ![h][cmd[h]] = NoResult]
    /\ UNCHANGED <<runs, lost, acked>>

ClearResultFails(h) ==
    /\ phase[h] = "clear" /\ EndCycle(h)
    /\ UNCHANGED <<file, runs, lost, acked>>

\* The process is killed (the automatic upgrade restarts it) or the machine
\* goes down; main starts again with the file that is on disk.
Crash(h) ==
    /\ phase[h] # "rest" /\ EndCycle(h)
    /\ IF phase[h] \in {"execute", "save"} THEN LoseExecution(h) ELSE UNCHANGED lost
    /\ UNCHANGED <<file, runs, acked>>

-----------------------------------------------------------------------------
Cycle(h) ==
    \/ HeartbeatAccepted(h)
    \/ \E c \in Command : PollReceives(h, c)
    \/ PollEmpty(h)
    \/ LoadResultsFails(h)
    \/ SavedResult(h)
    \/ ExecuteBegins(h)
    \/ \E s \in Status : ExecuteEnds(h, s)
    \/ SaveResults(h)
    \/ SaveResultsFails(h)
    \/ ReportAcknowledged(h)
    \/ ReportFails(h)
    \/ ClearResult(h)
    \/ ClearResultFails(h)

AgentNext == \E h \in Host : Cycle(h) \/ Crash(h)

AgentSpec == AgentInit /\ [][AgentNext]_agentVars

-----------------------------------------------------------------------------
(* Properties.                                                              *)

\* Every variable keeps its type.
AgentTypeOK ==
    /\ phase \in [Host -> Phase]
    /\ cmd \in [Host -> Command \cup {NoCmd}]
    /\ result \in [Host -> Status \cup {NoResult}]
    /\ file \in [Host -> [Command -> Status \cup {NoResult}]]
    /\ runs \in [Host -> [Command -> Nat]]
    /\ lost \in [Host -> [Command -> 0..MaxLost]]
    /\ acked \in [Host -> SUBSET Command]

\* A host executes a command again only if it lost the result of an earlier
\* execution: neither a repeated delivery, nor a lost response, nor a crash
\* outside of the execution makes it back up or restore twice.
RepeatedOnlyAfterLoss ==
    \A h \in Host, c \in Command : runs[h][c] <= 1 + lost[h][c]

\* What a host reports is in results.json: if the report fails it can be
\* repeated with the same result, also after a crash.
ReportedIsSaved ==
    \A h \in Host : phase[h] = "report" =>
        /\ result[h] # NoResult
        /\ file[h][cmd[h]] = result[h]

\* The saved result of a command does not change until it is acknowledged:
\* a repeated report never tells the controller something else.
SavedResultStands ==
    [][\A h \in Host, c \in Command :
          file[h][c] # NoResult /\ c \notin acked[h] => file'[h][c] = file[h][c]]_agentVars

\* The inductive invariant.  What each host holds fits the phase it is in, and
\* an execution of a command is in progress, saved, acknowledged or lost: at
\* most one of each command's executions is not lost.
InProgress(h, c) == cmd[h] = c /\ phase[h] \in {"execute", "save"}

HandFits(h) ==
    /\ phase[h] \in {"rest", "poll"} <=> cmd[h] = NoCmd
    /\ phase[h] = "save" => result[h] # NoResult
    /\ phase[h] \in {"hold", "execute", "save"} => cmd[h] \notin acked[h]
    /\ phase[h] \in {"execute", "save"} => file[h][cmd[h]] = NoResult
    /\ phase[h] = "clear" => cmd[h] \in acked[h]

RunsCounted(h, c) ==
    IF InProgress(h, c) \/ file[h][c] # NoResult \/ c \in acked[h]
    THEN runs[h][c] <= 1 + lost[h][c]
    ELSE runs[h][c] <= lost[h][c]

AgentInv ==
    /\ AgentTypeOK
    /\ ReportedIsSaved
    /\ \A h \in Host : HandFits(h)
    /\ \A h \in Host, c \in Command : RunsCounted(h, c)
===========================================================================
