---------------------------- MODULE Controller ----------------------------
(***************************************************************************)
(* The vbakup controller: the shared state of internal/store, and every    *)
(* HTTP handler and scheduler step of cmd/controller that reads or writes  *)
(* it.                                                                     *)
(*                                                                         *)
(* Store.Snapshot and Store.Update each hold the store's lock once, so a   *)
(* handler that does both is two actions: the first records in pending[t]  *)
(* what the handler's closure carries from the snapshot, the second is the *)
(* Update.  A handler that only calls Update is one action.                *)
(***************************************************************************)
EXTENDS Integers, FiniteSets

CONSTANTS
    Node, Repo, Task,  \* identities that may be registered or created, once each
    Thread,            \* HTTP requests the controller serves at a time
    Scheduler,         \* the scheduler's goroutine
    None,              \* absence of a task or of a repository
    MaxCmd,            \* bound: commands ever queued
    MaxRestarts,       \* bound: restarts of the controller
    OpsLimit,          \* operations kept when a backup is queued (200)
    OnlineWindow,      \* 90 s   since the last heartbeat
    QueueTimeout,      \* 10 min an unclaimed command may wait
    ClaimTimeout,      \* 30 min before a claimed command is offered again
    ReconnectWindow,   \* 15 min a reconnect command is valid
    Interval           \* a plan's schedule, at least 15 min

Runner == Thread \cup {Scheduler}
CmdId  == 1..MaxCmd

ASSUME RunnerAssumption == Scheduler \notin Thread
ASSUME NoneAssumption   == None \notin Node \cup Repo \cup Task
ASSUME BoundAssumption  == MaxCmd \in Nat /\ MaxRestarts \in Nat
ASSUME LimitAssumption  == OpsLimit \in Nat \ {0}
ASSUME WindowAssumption ==
    /\ {OnlineWindow, QueueTimeout, ClaimTimeout, ReconnectWindow, Interval}
         \subseteq Nat
    /\ OnlineWindow < QueueTimeout /\ QueueTimeout < ClaimTimeout
    /\ QueueTimeout < Interval

VARIABLES
    nodes,      \* State.Nodes: registered and not deleted
    silence,    \* time since Node.LastSeen
    ticket,     \* age of Node.ReconnectTokenHash; past the window: none
    repos,      \* State.Repositories
    tasks,      \* State.Tasks
    task,       \* the Task record of each plan
    used,       \* identities taken so far, deleted ones included
    next,       \* the next command id: queue order is id order
    queue,      \* State.Commands
    command,    \* the Command record of each id
    claimed,    \* commands whose ClaimedAt was ever set
    age,        \* time since ClaimedAt, or since CreatedAt when unclaimed
    ops,        \* status of each operation in State.Operations, or "none"
    backups,    \* State.Backups: entries recorded for each backup command
    delivered,  \* commands an agent has received
    due,        \* plans the current scheduler tick has still to queue
    pending,    \* what each request in progress carries past its snapshot
    restarts    \* number of restarts so far

nodeVars  == <<nodes, silence, ticket>>
planVars  == <<tasks, task>>
queueVars == <<next, queue, command, claimed, age, ops>>
vars == <<nodeVars, repos, planVars, used, queueVars, backups, delivered,
          due, pending, restarts>>

-----------------------------------------------------------------------------
Terminal == {"success", "warning", "failed", "cancelled"}
OpStatus == {"none", "queued", "running"} \cup Terminal
\* What an agent answers to each type of command.
Answers == [backup    |-> {"success", "failed"},
            restore   |-> {"success", "warning", "failed"},
            configure |-> {"success", "failed"}]

TaskRecord == [node : Node \cup {None}, repo : Repo \cup {None},
               enabled : BOOLEAN, lastRun : 0..Interval,
               lastStatus : {""} \cup OpStatus]
CommandRecord == [type : {"backup", "restore", "configure"},
                  node : Node \cup {None}, task : Task \cup {None},
                  repo : Repo \cup {None}]

NoTask    == [node |-> None, repo |-> None, enabled |-> FALSE,
              lastRun |-> Interval, lastStatus |-> ""]
NoCommand == [type |-> "configure", node |-> None, task |-> None, repo |-> None]

Idle == [kind |-> "idle"]
Request ==
    {Idle, [kind |-> "tick"]}
    \cup [kind : {"backup"}, task : Task, node : Node \cup {None},
          repo : Repo \cup {None}]
    \cup [kind : {"restore"}, node : Node, repo : Repo \cup {None}]
    \cup [kind : {"configure", "heartbeat", "claim"}, node : Node]
    \cup [kind : {"createTask"}, node : Node, repo : Repo, enabled : BOOLEAN]
    \cup [kind : {"updateTask"}, task : Task, node : Node, repo : Repo,
          enabled : BOOLEAN]
    \cup [kind : {"deleteBackup"}, backup : CmdId]
    \cup [kind : {"deliver"}, cmd : CmdId]
    \cup [kind : {"result"}, node : Node, cmd : CmdId, status : Terminal]

Init ==
    /\ nodes = {} /\ repos = {} /\ tasks = {} /\ used = {}
    /\ silence = [n \in Node |-> OnlineWindow + 1]
    /\ ticket = [n \in Node |-> ReconnectWindow + 1]
    /\ task = [k \in Task |-> NoTask]
    /\ next = 1 /\ queue = {} /\ claimed = {} /\ delivered = {}
    /\ command = [c \in CmdId |-> NoCommand]
    /\ age = [c \in CmdId |-> 0]
    /\ ops = [c \in CmdId |-> "none"]
    /\ backups = [c \in CmdId |-> 0]
    /\ due = {} /\ restarts = 0
    /\ pending = [t \in Runner |-> Idle]

-----------------------------------------------------------------------------
(* Requests in progress.                                                    *)

Begin(t, request) ==
    /\ pending[t] = Idle
    /\ pending' = [pending EXCEPT ![t] = request]

Finish(t) == pending' = [pending EXCEPT ![t] = Idle]

\* Bound: a request that will append a command starts only if an id is left.
Appending == {t \in Runner : pending[t].kind \in {"backup", "restore", "configure"}}
Room == next + Cardinality(Appending) <= MaxCmd

Online(n) == n \in nodes /\ silence[n] <= OnlineWindow

-----------------------------------------------------------------------------
(* The command queue and the operations list.                               *)

\* Append a command; list is the operations list the handler leaves.
Enqueue(cmd, list) ==
    /\ next <= MaxCmd
    /\ next' = next + 1
    /\ queue' = queue \cup {next}
    /\ command' = [command EXCEPT ![next] = cmd]
    /\ age' = [age EXCEPT ![next] = 0]
    /\ ops' = list
    /\ UNCHANGED claimed

Prepended == [ops EXCEPT ![next] = "queued"]

\* Ids are given in order, so the newest OpsLimit entries have the highest ids.
Truncated(list) ==
    [c \in CmdId |-> IF c + OpsLimit <= next THEN "none" ELSE list[c]]

\* Take the commands of S out of the queue and show status for them.
Remove(S, status) ==
    /\ queue' = queue \ S
    /\ age' = [c \in CmdId |-> IF c \in S THEN 0 ELSE age[c]]
    /\ ops' = [c \in CmdId |-> IF c \in S /\ ops[c] # "none" THEN status ELSE ops[c]]
    /\ UNCHANGED <<next, command, claimed>>

\* The plans of the commands of S show status, if they still exist.
SetLastStatus(S, status) ==
    task' = [k \in Task |->
               IF k \in tasks /\ \E c \in S : command[c].task = k
               THEN [task[k] EXCEPT !.lastStatus = status] ELSE task[k]]

-----------------------------------------------------------------------------
(* Nodes.                                                                   *)

HandleRegister(n) ==
    /\ n \notin used
    /\ used' = used \cup {n}
    /\ nodes' = nodes \cup {n}
    /\ silence' = [silence EXCEPT ![n] = 0]
    /\ UNCHANGED <<ticket, repos, planVars, queueVars, backups, delivered,
                   due, pending, restarts>>

HandleReconnectCommand(n) ==
    /\ n \in nodes
    /\ ticket' = [ticket EXCEPT ![n] = 0]
    /\ UNCHANGED <<nodes, silence, repos, planVars, used, queueVars, backups,
                   delivered, due, pending, restarts>>

\* Mutant: operations a node holds are not cancelled.
HandleReconnectQueuedOnly(n) ==
    /\ n \in nodes
    /\ ticket[n] <= ReconnectWindow
    /\ ticket' = [ticket EXCEPT ![n] = ReconnectWindow + 1]
    /\ silence' = [silence EXCEPT ![n] = 0]
    /\ LET own == {c \in queue : command[c].node = n} IN
         /\ queue' = queue \ own
         /\ age' = [c \in CmdId |-> IF c \in own THEN 0 ELSE age[c]]
         /\ ops' = [c \in CmdId |->
                      IF c \in own /\ ops[c] = "queued" THEN "cancelled" ELSE ops[c]]
         /\ UNCHANGED <<next, command, claimed>>
    /\ UNCHANGED <<nodes, repos, planVars, used, backups, delivered, due,
                   pending, restarts>>

\* Mutant: the operations are cancelled and the commands stay.
HandleReconnectKeepsCommands(n) ==
    /\ n \in nodes
    /\ ticket[n] <= ReconnectWindow
    /\ ticket' = [ticket EXCEPT ![n] = ReconnectWindow + 1]
    /\ silence' = [silence EXCEPT ![n] = 0]
    /\ ops' = [c \in CmdId |->
                 IF c \in queue /\ command[c].node = n THEN "cancelled" ELSE ops[c]]
    /\ UNCHANGED <<nodes, repos, planVars, used, next, queue, command, claimed, age,
                   backups, delivered, due, pending, restarts>>

\* The new machine takes the node over: its commands are removed, and the
\* operations still open are cancelled.  No plan's lastStatus is touched.
HandleReconnect(n) ==
    /\ n \in nodes
    /\ ticket[n] <= ReconnectWindow
    /\ ticket' = [ticket EXCEPT ![n] = ReconnectWindow + 1]
    /\ silence' = [silence EXCEPT ![n] = 0]
    /\ LET own == {c \in queue : command[c].node = n} IN
         /\ queue' = queue \ own
         /\ age' = [c \in CmdId |-> IF c \in own THEN 0 ELSE age[c]]
         /\ ops' = [c \in CmdId |->
                      IF c \in own /\ ops[c] \in {"queued", "running"}
                      THEN "cancelled" ELSE ops[c]]
         /\ UNCHANGED <<next, command, claimed>>
    /\ UNCHANGED <<nodes, repos, planVars, used, backups, delivered, due,
                   pending, restarts>>

HandleDeleteNode(n) ==
    /\ n \in nodes
    /\ \A k \in tasks : task[k].node # n
    /\ \A c \in CmdId : command[c].node = n => ops[c] # "queued"
    /\ nodes' = nodes \ {n}
    /\ UNCHANGED <<silence, ticket, repos, planVars, used, queueVars, backups,
                   delivered, due, pending, restarts>>

-----------------------------------------------------------------------------
(* Repositories and plans.                                                  *)

HandleCreateRepository(r) ==
    /\ r \notin used
    /\ used' = used \cup {r}
    /\ repos' = repos \cup {r}
    /\ UNCHANGED <<nodeVars, planVars, queueVars, backups, delivered, due,
                   pending, restarts>>

HandleDeleteRepository(r) ==
    /\ r \in repos
    /\ \A k \in tasks : task[k].repo # r
    /\ \A c \in CmdId : backups[c] > 0 => command[c].repo # r
    /\ repos' = repos \ {r}
    /\ UNCHANGED <<nodeVars, planVars, used, queueVars, backups, delivered,
                   due, pending, restarts>>

\* validateTask reads a snapshot; the plan is saved by a later Update.
\* Bound: one plan is created at a time, and only if an identity is left.
CreateTaskValidate(t, n, r, enabled) ==
    /\ t \in Thread /\ n \in nodes /\ r \in repos
    /\ Task \ used # {}
    /\ Begin(t, [kind |-> "createTask", node |-> n, repo |-> r, enabled |-> enabled])
    /\ UNCHANGED <<nodeVars, repos, planVars, used, queueVars, backups,
                   delivered, due, restarts>>

CreateTaskCommit(t, k) ==
    /\ pending[t].kind = "createTask" /\ Finish(t)
    /\ k \notin used
    /\ used' = used \cup {k}
    /\ tasks' = tasks \cup {k}
    /\ task' = [task EXCEPT ![k] =
                  [node |-> pending[t].node, repo |-> pending[t].repo,
                   enabled |-> pending[t].enabled, lastRun |-> Interval,
                   lastStatus |-> ""]]
    /\ UNCHANGED <<nodeVars, repos, queueVars, backups, delivered, due, restarts>>

UpdateTaskValidate(t, k, n, r, enabled) ==
    /\ t \in Thread /\ k \in tasks /\ n \in nodes /\ r \in repos
    /\ Begin(t, [kind |-> "updateTask", task |-> k, node |-> n, repo |-> r,
                 enabled |-> enabled])
    /\ UNCHANGED <<nodeVars, repos, planVars, used, queueVars, backups,
                   delivered, due, restarts>>

\* lastRun and lastStatus are kept; nothing is checked against the queue.
UpdateTaskCommit(t) ==
    /\ pending[t].kind = "updateTask" /\ Finish(t)
    /\ LET k == pending[t].task IN
         task' = IF k \in tasks
                 THEN [task EXCEPT ![k] =
                         [@ EXCEPT !.node = pending[t].node, !.repo = pending[t].repo,
                                   !.enabled = pending[t].enabled]]
                 ELSE task
    /\ UNCHANGED <<nodeVars, repos, tasks, used, queueVars, backups, delivered,
                   due, restarts>>

HandleDeleteTask(k) ==
    /\ k \in tasks
    /\ \A c \in queue : command[c].task # k
    /\ tasks' = tasks \ {k}
    /\ task' = [task EXCEPT ![k] = NoTask]
    /\ UNCHANGED <<nodeVars, repos, used, queueVars, backups, delivered, due,
                   pending, restarts>>

-----------------------------------------------------------------------------
(* Queueing commands.                                                       *)

\* The checks of queueBackup, all made on its snapshot.
BackupAllowed(k, force) ==
    /\ k \in tasks /\ Online(task[k].node) /\ Room
    /\ ~ \E c \in queue : command[c].type = "backup" /\ command[c].task = k
    /\ force \/ task[k].lastRun >= Interval

QueueBackupSnapshot(t, k) ==
    Begin(t, [kind |-> "backup", task |-> k, node |-> task[k].node,
              repo |-> task[k].repo])

HandleRunTask(t, k) ==
    /\ t \in Thread /\ BackupAllowed(k, TRUE)
    /\ QueueBackupSnapshot(t, k)
    /\ UNCHANGED <<nodeVars, repos, planVars, used, queueVars, backups,
                   delivered, due, restarts>>

\* The Update of queueBackup repeats none of the checks.
QueueBackupCommit(t) ==
    /\ pending[t].kind = "backup" /\ Finish(t)
    /\ LET p == pending[t] IN
         /\ Enqueue([type |-> "backup", node |-> p.node, task |-> p.task,
                     repo |-> p.repo], Truncated(Prepended))
         /\ task' = IF p.task \in tasks
                    THEN [task EXCEPT ![p.task] =
                            [@ EXCEPT !.lastRun = 0, !.lastStatus = "queued"]]
                    ELSE task
    /\ UNCHANGED <<nodeVars, repos, tasks, used, backups, delivered, due, restarts>>

HandleRestore(t, b, n) ==
    /\ t \in Thread /\ backups[b] > 0 /\ Online(n) /\ Room
    /\ Begin(t, [kind |-> "restore", node |-> n, repo |-> command[b].repo])
    /\ UNCHANGED <<nodeVars, repos, planVars, used, queueVars, backups,
                   delivered, due, restarts>>

HandleNodeAutoUpdate(t, n) ==
    /\ t \in Thread /\ Online(n) /\ Room
    /\ Begin(t, [kind |-> "configure", node |-> n])
    /\ UNCHANGED <<nodeVars, repos, planVars, used, queueVars, backups,
                   delivered, due, restarts>>

RestoreCommit(t) ==
    /\ pending[t].kind = "restore" /\ Finish(t)
    /\ Enqueue([type |-> "restore", node |-> pending[t].node, task |-> None,
                repo |-> pending[t].repo], Prepended)
    /\ UNCHANGED <<nodeVars, repos, planVars, used, backups, delivered, due, restarts>>

ConfigureCommit(t) ==
    /\ pending[t].kind = "configure" /\ Finish(t)
    /\ Enqueue([type |-> "configure", node |-> pending[t].node, task |-> None,
                repo |-> None], Prepended)
    /\ UNCHANGED <<nodeVars, repos, planVars, used, backups, delivered, due, restarts>>

HandleCancelOperation(c) ==
    /\ c \in queue \ claimed
    /\ Remove({c}, "cancelled")
    /\ SetLastStatus({c}, "cancelled")
    /\ UNCHANGED <<nodeVars, repos, tasks, used, backups, delivered, due,
                   pending, restarts>>

-----------------------------------------------------------------------------
(* Requests of the agents.  authenticateNode reads a snapshot; the Update   *)
(* that follows does not look at the token again.                           *)

Authenticate(t, n, request) ==
    /\ t \in Thread /\ n \in nodes
    /\ Begin(t, request)
    /\ UNCHANGED <<nodeVars, repos, planVars, used, queueVars, backups,
                   delivered, due, restarts>>

HeartbeatAuth(t, n) == Authenticate(t, n, [kind |-> "heartbeat", node |-> n])
CommandsAuth(t, n)  == Authenticate(t, n, [kind |-> "claim", node |-> n])
ResultAuth(t, c) ==
    /\ c \in delivered
    /\ \E s \in Answers[command[c].type] :
         Authenticate(t, command[c].node,
           [kind |-> "result", node |-> command[c].node, cmd |-> c, status |-> s])

HeartbeatCommit(t) ==
    /\ pending[t].kind = "heartbeat" /\ Finish(t)
    /\ silence' = IF pending[t].node \in nodes
                  THEN [silence EXCEPT ![pending[t].node] = 0] ELSE silence
    /\ UNCHANGED <<nodes, ticket, repos, planVars, used, queueVars, backups,
                   delivered, due, restarts>>

\* Mutant: a claimed command is not offered again.
ClaimableOnce(n) == {c \in queue : command[c].node = n /\ c \notin claimed}

Claimable(n) ==
    {c \in queue : command[c].node = n /\ (c \in claimed => age[c] > ClaimTimeout)}

\* Mutant: the command is offered without setting ClaimedAt.
ClaimCommandUnmarked(t) ==
    /\ pending[t].kind = "claim"
    /\ \E c \in Claimable(pending[t].node) :
         /\ \A d \in Claimable(pending[t].node) : c <= d
         /\ pending' = [pending EXCEPT ![t] = [kind |-> "deliver", cmd |-> c]]
    /\ UNCHANGED <<nodeVars, repos, planVars, used, queueVars, backups, delivered,
                   due, restarts>>

\* The first claimable command is marked before its credentials are read.
ClaimCommand(t) ==
    /\ pending[t].kind = "claim"
    /\ \E c \in Claimable(pending[t].node) :
         /\ \A d \in Claimable(pending[t].node) : c <= d
         /\ claimed' = claimed \cup {c}
         /\ age' = [age EXCEPT ![c] = 0]
         /\ ops' = [ops EXCEPT ![c] = IF @ = "none" THEN @ ELSE "running"]
         /\ pending' = [pending EXCEPT ![t] = [kind |-> "deliver", cmd |-> c]]
    /\ UNCHANGED <<nodeVars, repos, planVars, used, next, queue, command,
                   backups, delivered, due, restarts>>

ClaimNothing(t) ==
    /\ pending[t].kind = "claim" /\ Finish(t)
    /\ Claimable(pending[t].node) = {}
    /\ UNCHANGED <<nodeVars, repos, planVars, used, queueVars, backups,
                   delivered, due, restarts>>

\* injectRepositoryCredentials, then the response reaches the agent.
DeliverCommand(t) ==
    /\ pending[t].kind = "deliver" /\ Finish(t)
    /\ LET c == pending[t].cmd IN
         /\ command[c].type = "configure" \/ command[c].repo \in repos
         /\ delivered' = delivered \cup {c}
    /\ UNCHANGED <<nodeVars, repos, planVars, used, queueVars, backups, due, restarts>>

\* The repository is gone (error 500), or the response is lost on the way.
\* The command stays claimed.
DeliveryFails(t) ==
    /\ pending[t].kind = "deliver" /\ Finish(t)
    /\ UNCHANGED <<nodeVars, repos, planVars, used, queueVars, backups,
                   delivered, due, restarts>>

\* Mutant: the command stays in the queue after its answer.
HandleCommandResultKeeps(t) ==
    /\ pending[t].kind = "result" /\ Finish(t)
    /\ LET c == pending[t].cmd
           s == pending[t].status IN
         /\ SetLastStatus(queue \cap {c}, s)
         /\ ops' = [ops EXCEPT ![c] = IF c \in queue THEN s ELSE @]
         /\ backups' = IF c \in queue /\ s = "success" /\ command[c].type = "backup"
                       THEN [backups EXCEPT ![c] = @ + 1] ELSE backups
    /\ UNCHANGED <<nodeVars, repos, tasks, used, next, queue, command, claimed, age,
                   delivered, due, restarts>>

\* Mutant: an answer is taken without looking for its command.
HandleCommandResultUnchecked(t) ==
    /\ pending[t].kind = "result" /\ Finish(t)
    /\ LET c == pending[t].cmd
           s == pending[t].status IN
         /\ Remove({c}, s)
         /\ SetLastStatus({c}, s)
         /\ backups' = IF s = "success" /\ command[c].type = "backup"
                       THEN [backups EXCEPT ![c] = @ + 1] ELSE backups
    /\ UNCHANGED <<nodeVars, repos, tasks, used, delivered, due, restarts>>

HandleCommandResult(t) ==
    /\ pending[t].kind = "result" /\ Finish(t)
    /\ LET c == pending[t].cmd
           s == pending[t].status
           known == c \in queue /\ command[c].node = pending[t].node IN
         /\ IF known
            THEN /\ Remove({c}, s)
                 /\ SetLastStatus({c}, s)
                 /\ backups' = IF s = "success" /\ command[c].type = "backup"
                               THEN [backups EXCEPT ![c] = @ + 1] ELSE backups
            ELSE UNCHANGED <<queueVars, task, backups>>
    /\ UNCHANGED <<nodeVars, repos, tasks, used, delivered, due, restarts>>

-----------------------------------------------------------------------------
(* Deleting a backup: snapshot, WebDAV DELETE, Update of the index.         *)

HandleDeleteBackup(t, b) ==
    /\ t \in Thread /\ backups[b] > 0 /\ command[b].repo \in repos
    /\ Begin(t, [kind |-> "deleteBackup", backup |-> b])
    /\ UNCHANGED <<nodeVars, repos, planVars, used, queueVars, backups,
                   delivered, due, restarts>>

\* Mutant: the entry is assumed to be still in the index.
DeleteBackupCommitUnchecked(t) ==
    /\ pending[t].kind = "deleteBackup" /\ Finish(t)
    /\ backups' = [backups EXCEPT ![pending[t].backup] = @ - 1]
    /\ UNCHANGED <<nodeVars, repos, planVars, used, queueVars, delivered, due, restarts>>

DeleteBackupCommit(t) ==
    /\ pending[t].kind = "deleteBackup" /\ Finish(t)
    /\ LET b == pending[t].backup IN
         backups' = IF backups[b] > 0 THEN [backups EXCEPT ![b] = @ - 1] ELSE backups
    /\ UNCHANGED <<nodeVars, repos, planVars, used, queueVars, delivered, due, restarts>>

\* The WebDAV server refuses or cannot be reached: the index is left alone.
DeleteBackupFails(t) ==
    /\ pending[t].kind = "deleteBackup" /\ Finish(t)
    /\ UNCHANGED <<nodeVars, repos, planVars, used, queueVars, backups,
                   delivered, due, restarts>>

-----------------------------------------------------------------------------
(* The scheduler: one goroutine, one tick after the other.                  *)

TickSnapshot ==
    /\ due = {}
    /\ Begin(Scheduler, [kind |-> "tick"])
    /\ due' = {k \in tasks : task[k].enabled /\ task[k].lastRun >= Interval}
    /\ UNCHANGED <<nodeVars, repos, planVars, used, queueVars, backups,
                   delivered, restarts>>

\* Mutant: a claimed command times out too.
ExpiredClaimedToo == {c \in queue : age[c] > QueueTimeout}

\* Mutant: the commands of a deleted node are passed over.
ExpiredOfKnownNodes ==
    {c \in queue \ claimed : age[c] > QueueTimeout /\ command[c].node \in nodes}

Expired == {c \in queue \ claimed : age[c] > QueueTimeout}

\* Mutant: the plans of the expired commands are not told.
ExpireQueuedCommandsSilently ==
    /\ pending[Scheduler].kind = "tick" /\ Finish(Scheduler)
    /\ Remove(Expired, "failed")
    /\ UNCHANGED <<nodeVars, repos, planVars, used, backups, delivered, due, restarts>>

ExpireQueuedCommands ==
    /\ pending[Scheduler].kind = "tick" /\ Finish(Scheduler)
    /\ Remove(Expired, "failed")
    /\ SetLastStatus(Expired, "failed")
    /\ UNCHANGED <<nodeVars, repos, tasks, used, backups, delivered, due, restarts>>

\* queueBackup for a plan of the tick's snapshot; its refusals are ignored.
TickQueueBackup(k) ==
    /\ pending[Scheduler] = Idle /\ k \in due
    /\ due' = due \ {k}
    /\ \/ BackupAllowed(k, FALSE) /\ QueueBackupSnapshot(Scheduler, k)
       \/ ~BackupAllowed(k, FALSE) /\ UNCHANGED pending
    /\ UNCHANGED <<nodeVars, repos, planVars, used, queueVars, backups,
                   delivered, restarts>>

-----------------------------------------------------------------------------
(* The environment.                                                         *)

\* Bound: ages stop growing one unit past the threshold they are compared to.
Older(a, threshold) == IF a > threshold THEN a ELSE a + 1

\* A unit of time passes.  tick reads the clock once for its whole Update, a
\* few instructions earlier: no unit passes in between.
Elapse ==
    /\ pending[Scheduler].kind # "tick"
    /\ silence' = [n \in Node |-> Older(silence[n], OnlineWindow)]
    /\ ticket' = [n \in Node |-> Older(ticket[n], ReconnectWindow)]
    /\ task' = [k \in Task |-> [task[k] EXCEPT !.lastRun = Older(@, Interval - 1)]]
    /\ age' = [c \in CmdId |->
                 CASE c \in queue /\ c \in claimed -> Older(age[c], ClaimTimeout)
                   [] c \in queue /\ c \notin claimed -> Older(age[c], QueueTimeout)
                   [] c \notin queue -> age[c]]
    /\ UNCHANGED <<nodes, repos, tasks, used, next, queue, command, claimed, ops,
                   backups, delivered, due, pending, restarts>>

\* The process dies and starts again: the state file is all that survives.
Restart ==
    /\ restarts < MaxRestarts
    /\ restarts' = restarts + 1
    /\ pending' = [t \in Runner |-> Idle]
    /\ due' = {}
    /\ UNCHANGED <<nodeVars, repos, planVars, used, queueVars, backups, delivered>>

-----------------------------------------------------------------------------
AdminStep ==
    \/ \E n \in Node : \/ HandleReconnectCommand(n)
                       \/ HandleDeleteNode(n)
    \/ \E r \in Repo : HandleCreateRepository(r) \/ HandleDeleteRepository(r)
    \/ \E k \in Task : HandleDeleteTask(k)
    \/ \E c \in CmdId : HandleCancelOperation(c)
    \/ \E t \in Thread :
         \/ \E n \in Node, r \in Repo, e \in BOOLEAN :
              \/ CreateTaskValidate(t, n, r, e)
              \/ \E k \in Task : UpdateTaskValidate(t, k, n, r, e)
         \/ \E k \in Task : CreateTaskCommit(t, k) \/ HandleRunTask(t, k)
         \/ UpdateTaskCommit(t)
         \/ \E b \in CmdId : \/ HandleDeleteBackup(t, b)
                             \/ \E n \in Node : HandleRestore(t, b, n)
         \/ \E n \in Node : HandleNodeAutoUpdate(t, n)
         \/ RestoreCommit(t)
         \/ ConfigureCommit(t)
         \/ DeleteBackupCommit(t)
         \/ DeleteBackupFails(t)

AgentStep ==
    \/ \E n \in Node : HandleRegister(n) \/ HandleReconnect(n)
    \/ \E t \in Thread :
         \/ \E n \in Node : HeartbeatAuth(t, n) \/ CommandsAuth(t, n)
         \/ \E c \in CmdId : ResultAuth(t, c)
         \/ HeartbeatCommit(t)
         \/ ClaimCommand(t)
         \/ ClaimNothing(t)
         \/ DeliverCommand(t)
         \/ DeliveryFails(t)
         \/ HandleCommandResult(t)

SchedulerStep ==
    \/ TickSnapshot
    \/ ExpireQueuedCommands
    \/ \E k \in Task : TickQueueBackup(k)

Next ==
    \/ AdminStep
    \/ AgentStep
    \/ SchedulerStep
    \/ \E t \in Runner : QueueBackupCommit(t)
    \/ Elapse
    \/ Restart

Spec == Init /\ [][Next]_vars

-----------------------------------------------------------------------------
(* Properties.                                                              *)

\* Every variable keeps its type (the fields of internal/model).
TypeOK ==
    /\ nodes \subseteq Node /\ repos \subseteq Repo /\ tasks \subseteq Task
    /\ used \subseteq Node \cup Repo \cup Task
    /\ silence \in [Node -> 0..(OnlineWindow + 1)]
    /\ ticket \in [Node -> 0..(ReconnectWindow + 1)]
    /\ task \in [Task -> TaskRecord]
    /\ next \in 1..(MaxCmd + 1)
    /\ queue \subseteq CmdId /\ claimed \subseteq CmdId /\ delivered \subseteq CmdId
    /\ command \in [CmdId -> CommandRecord]
    /\ age \in [CmdId -> 0..(ClaimTimeout + 1)]
    /\ ops \in [CmdId -> OpStatus]
    /\ backups \in [CmdId -> Nat]
    /\ due \subseteq Task
    /\ pending \in [Runner -> Request]
    /\ restarts \in 0..MaxRestarts

Waiting == queue \ claimed
Running == queue \cap claimed
Unborn  == {c \in CmdId : c >= next}

\* The operations page and the queue, two lists joined only by the
\* operation_id of the payload, agree whatever path a command takes: a listed
\* operation is "queued" exactly while its command waits, and "running"
\* exactly while a node holds it.
OpMatchesCommand ==
    \A c \in CmdId : ops[c] # "none" =>
        /\ ops[c] = "queued"  <=> c \in Waiting
        /\ ops[c] = "running" <=> c \in Running

\* However often an agent repeats an answer (its results file outlives a lost
\* response), a command leaves one entry in the index, only if it was a backup
\* that reached an agent, and only after it has left the queue.
OneRecordPerCommand ==
    \A c \in CmdId : backups[c] > 0 =>
        /\ backups[c] = 1
        /\ command[c].type = "backup"
        /\ c \in delivered /\ c \notin queue

\* A plan shows "queued" (LastStatus) only while its newest command is in the
\* queue, or after that command was cancelled with the machine that held it: no
\* path leaves "queued" behind a backup that has ended.
QueuedPlanHasCommand ==
    \A k \in tasks : task[k].lastStatus = "queued" =>
        \E c \in CmdId : /\ command[c].task = k
                         /\ \A d \in CmdId : command[d].task = k => d <= c
                         /\ c \in queue \/ ops[c] \in {"cancelled", "none"}

\* An operation that has ended keeps its outcome until it drops off the list:
\* no late answer, claim, timeout or reconnect rewrites it.
TerminalStatusFinal ==
    [][\A c \in CmdId : ops[c] \in Terminal => ops'[c] \in {ops[c], "none"}]_vars

\* A command the user stopped or the timeout removed before any node claimed
\* it never reaches an agent, not even by a response already being written.
StoppedNeverDelivered ==
    [][\A c \in CmdId \ Unborn :
          c \notin queue \cup claimed => c \notin delivered']_vars

\* Once deleted from the index a backup does not come back: the answer that
\* recorded it cannot be taken a second time.
DeletedBackupStaysDeleted ==
    [][\A c \in CmdId \ Unborn :
          c \notin queue /\ backups[c] = 0 => backups'[c] = 0]_vars

\* A command nobody claims does not wait for ever: it is claimed, stopped or
\* expired, even if its node, its plan or its list entry is gone.
QueuedIsSettled == \A c \in CmdId : (c \in Waiting) ~> (c \notin Waiting)

\* The inductive invariant: what ties ids, claims, deliveries and answers
\* together while requests are in progress.
IdsFresh ==
    \A c \in Unborn : /\ c \notin queue \cup claimed \cup delivered
                       /\ ops[c] = "none" /\ backups[c] = 0
DeliveryAfterClaim ==
    /\ delivered \subseteq claimed
    /\ \A t \in Runner : pending[t].kind = "deliver" => pending[t].cmd \in claimed
AnswerAfterDelivery ==
    \A t \in Runner : pending[t].kind = "result" => pending[t].cmd \in delivered

\* A command gets an id nobody has seen, is in the hands of an agent only after
\* its claim was stored, and is answered only by an agent that received it;
\* with these the page, the queue and the index agree after every step.
CommandInv ==
    /\ TypeOK /\ IdsFresh /\ DeliveryAfterClaim /\ AnswerAfterDelivery
    /\ OpMatchesCommand /\ OneRecordPerCommand

\* A plan that shows "queued" has a newest command because an id that is not
\* given belongs to no plan.
PlanInv ==
    /\ CommandInv /\ QueuedPlanHasCommand
    /\ \A c \in Unborn : command[c].task = None

\* The stage of CommandLifecycle each command is in.
Stage == [c \in CmdId |->
            IF c \in Waiting THEN "queued"
            ELSE IF c \in Running THEN "running"
            ELSE IF c \in Unborn THEN "unborn"
            ELSE IF c \in claimed THEN "done" ELSE "withdrawn"]

Lifecycle == INSTANCE CommandLifecycle WITH
    stage   <- Stage,
    shown   <- ops,
    handed  <- delivered,
    records <- backups

\* The queue, the claims, the operations page and the index together implement
\* the lifecycle of CommandLifecycle.
ImplementsLifecycle == Lifecycle!Spec

=============================================================================
