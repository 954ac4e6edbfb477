------------------------- MODULE Controller_proofs -------------------------
(***************************************************************************)
(* Theorems about Controller, for every value of its constants.            *)
(***************************************************************************)
EXTENDS Controller, TLAPS

-----------------------------------------------------------------------------
(* Requests in progress.                                                    *)

\* The fields of a request, by its kind.
LEMMA RequestFields ==
  ASSUME NEW p \in Request
  PROVE  /\ p.kind \in {"backup", "restore"} =>
              p.node \in Node \cup {None} /\ p.repo \in Repo \cup {None}
         /\ p.kind \in {"restore", "configure", "heartbeat", "claim", "createTask",
                        "updateTask", "result"} => p.node \in Node
         /\ p.kind \in {"backup", "updateTask"} => p.task \in Task
         /\ p.kind \in {"createTask", "updateTask"} =>
              p.repo \in Repo /\ p.enabled \in BOOLEAN
         /\ p.kind = "deleteBackup" => p.backup \in CmdId
         /\ p.kind \in {"deliver", "result"} => p.cmd \in CmdId
         /\ p.kind = "result" => p.status \in Terminal
  BY DEF Request, Idle

LEMMA BeginType ==
  ASSUME pending \in [Runner -> Request], NEW t \in Runner, NEW r \in Request,
         Begin(t, r)
  PROVE  pending' \in [Runner -> Request]
  BY DEF Begin

LEMMA FinishType ==
  ASSUME pending \in [Runner -> Request], NEW t \in Runner, Finish(t)
  PROVE  pending' \in [Runner -> Request]
  BY DEF Finish, Request, Idle

LEMMA IntervalPositive == Interval \in Nat /\ Interval > 0 /\ 0 \in 0..Interval
<1>1. QueueTimeout \in Nat /\ Interval \in Nat /\ QueueTimeout < Interval
  BY WindowAssumption
<1> QED
  BY <1>1

LEMMA InitType == Init => TypeOK
<1> SUFFICES ASSUME Init PROVE TypeOK
  OBVIOUS
<1>1. NoTask \in TaskRecord /\ NoCommand \in CommandRecord
  BY WindowAssumption DEF NoTask, NoCommand, TaskRecord, CommandRecord
<1>2. Idle \in Request
  BY DEF Request
<1>3. /\ silence \in [Node -> 0..(OnlineWindow + 1)]
      /\ ticket \in [Node -> 0..(ReconnectWindow + 1)]
      /\ age \in [CmdId -> 0..(ClaimTimeout + 1)]
      /\ next \in 1..(MaxCmd + 1) /\ restarts \in 0..MaxRestarts
      /\ backups \in [CmdId -> Nat]
  BY BoundAssumption, WindowAssumption DEF Init
<1>4. /\ task \in [Task -> TaskRecord] /\ command \in [CmdId -> CommandRecord]
      /\ pending \in [Runner -> Request] /\ ops \in [CmdId -> OpStatus]
  BY <1>1, <1>2 DEF Init, OpStatus
<1> QED
  BY <1>3, <1>4 DEF Init, TypeOK

-----------------------------------------------------------------------------
(* Types are kept by every step.                                            *)

\* The clocks stay in their ranges.
LEMMA OlderRange ==
  ASSUME NEW bound \in Nat, NEW a \in 0..(bound + 1)
  PROVE  Older(a, bound) \in 0..(bound + 1)
  BY DEF Older

LEMMA EnqueueType ==
  ASSUME TypeOK, NEW cmd \in CommandRecord, NEW list \in [CmdId -> OpStatus],
         Enqueue(cmd, list)
  PROVE  /\ next' \in 1..(MaxCmd + 1) /\ queue' \subseteq CmdId
         /\ claimed' \subseteq CmdId /\ command' \in [CmdId -> CommandRecord]
         /\ age' \in [CmdId -> 0..(ClaimTimeout + 1)]
         /\ ops' \in [CmdId -> OpStatus]
  BY BoundAssumption, WindowAssumption DEF TypeOK, Enqueue, CmdId

LEMMA ListType ==
  ASSUME TypeOK, next <= MaxCmd
  PROVE  /\ Prepended \in [CmdId -> OpStatus]
         /\ Truncated(Prepended) \in [CmdId -> OpStatus]
  BY DEF TypeOK, Prepended, Truncated, OpStatus

LEMMA RemoveType ==
  ASSUME TypeOK, NEW S \in SUBSET CmdId, NEW status \in Terminal, Remove(S, status)
  PROVE  /\ next' \in 1..(MaxCmd + 1) /\ queue' \subseteq CmdId
         /\ claimed' \subseteq CmdId /\ command' \in [CmdId -> CommandRecord]
         /\ age' \in [CmdId -> 0..(ClaimTimeout + 1)]
         /\ ops' \in [CmdId -> OpStatus]
  BY WindowAssumption DEF TypeOK, Remove, OpStatus

LEMMA SetLastStatusType ==
  ASSUME TypeOK, NEW S \in SUBSET CmdId, NEW status \in Terminal,
         SetLastStatus(S, status)
  PROVE  task' \in [Task -> TaskRecord]
<1>1. ASSUME NEW rec \in TaskRecord
      PROVE  [rec EXCEPT !.lastStatus = status] \in TaskRecord
  BY DEF TaskRecord, OpStatus
<1> QED
  BY <1>1 DEF TypeOK, SetLastStatus

LEMMA NodeType ==
  ASSUME TypeOK, NEW n \in Node,
         \/ HandleRegister(n) \/ HandleReconnectCommand(n) \/ HandleReconnect(n)
         \/ HandleDeleteNode(n)
  PROVE  TypeOK'
<1> USE WindowAssumption DEF nodeVars, planVars, queueVars
<1>1. CASE HandleRegister(n)
  BY <1>1 DEF HandleRegister, TypeOK
<1>2. CASE HandleReconnectCommand(n)
  BY <1>2 DEF HandleReconnectCommand, TypeOK
<1>3. CASE HandleReconnect(n)
  <2>1. /\ age' \in [CmdId -> 0..(ClaimTimeout + 1)]
        /\ ops' \in [CmdId -> OpStatus]
    BY <1>3 DEF HandleReconnect, TypeOK, OpStatus, Terminal
  <2>2. /\ ticket' \in [Node -> 0..(ReconnectWindow + 1)]
        /\ silence' \in [Node -> 0..(OnlineWindow + 1)]
    BY <1>3 DEF HandleReconnect, TypeOK
  <2> QED
    BY <1>3, <2>1, <2>2 DEF HandleReconnect, TypeOK
<1>4. CASE HandleDeleteNode(n)
  BY <1>4 DEF HandleDeleteNode, TypeOK
<1> QED
  BY <1>1, <1>2, <1>3, <1>4

LEMMA RepositoryType ==
  ASSUME TypeOK, NEW r \in Repo,
         HandleCreateRepository(r) \/ HandleDeleteRepository(r)
  PROVE  TypeOK'
  BY DEF HandleCreateRepository, HandleDeleteRepository, TypeOK, nodeVars,
         planVars, queueVars

\* The actions that only begin a request.
LEMMA BeginStepType ==
  ASSUME TypeOK, NEW t \in Runner, NEW r \in Request, Begin(t, r),
         UNCHANGED <<nodeVars, repos, planVars, used, queueVars, backups,
                     delivered, restarts>>,
         due' \subseteq Task
  PROVE  TypeOK'
<1>1. pending' \in [Runner -> Request]
  BY BeginType DEF TypeOK
<1> QED
  BY <1>1 DEF TypeOK, nodeVars, planVars, queueVars

LEMMA PlanType ==
  ASSUME TypeOK, NEW t \in Thread, NEW k \in Task,
         \/ CreateTaskCommit(t, k) \/ UpdateTaskCommit(t) \/ HandleDeleteTask(k)
  PROVE  TypeOK'
<1> USE WindowAssumption DEF nodeVars, planVars, queueVars
<1>1. pending \in [Runner -> Request] /\ t \in Runner /\ pending[t] \in Request
  BY DEF TypeOK, Runner
<1>2. CASE CreateTaskCommit(t, k)
  <2>1. pending' \in [Runner -> Request]
    BY <1>1, <1>2, FinishType DEF CreateTaskCommit
  <2>2. /\ pending[t].node \in Node /\ pending[t].repo \in Repo
        /\ pending[t].enabled \in BOOLEAN
    BY <1>1, <1>2, RequestFields DEF CreateTaskCommit
  <2>3. [node |-> pending[t].node, repo |-> pending[t].repo,
         enabled |-> pending[t].enabled, lastRun |-> Interval,
         lastStatus |-> ""] \in TaskRecord
    BY <2>2 DEF TaskRecord
  <2>4. task' \in [Task -> TaskRecord]
    BY <1>2, <2>3 DEF CreateTaskCommit, TypeOK
  <2> QED
    BY <1>2, <2>1, <2>4 DEF CreateTaskCommit, TypeOK
<1>3. CASE UpdateTaskCommit(t)
  <2>1. pending' \in [Runner -> Request]
    BY <1>1, <1>3, FinishType DEF UpdateTaskCommit
  <2>2. /\ pending[t].node \in Node /\ pending[t].repo \in Repo
        /\ pending[t].enabled \in BOOLEAN /\ pending[t].task \in Task
    BY <1>1, <1>3, RequestFields DEF UpdateTaskCommit
  <2>3. ASSUME NEW rec \in TaskRecord
        PROVE  [rec EXCEPT !.node = pending[t].node, !.repo = pending[t].repo,
                           !.enabled = pending[t].enabled] \in TaskRecord
    BY <2>2 DEF TaskRecord
  <2>4. PICK rec \in TaskRecord :
          task' = task \/ task' = [task EXCEPT ![pending[t].task] = rec]
    BY <1>3, <2>2, <2>3 DEF UpdateTaskCommit, TypeOK
  <2>5. task' \in [Task -> TaskRecord]
    BY <2>2, <2>4 DEF TypeOK
  <2> QED
    BY <1>3, <2>1, <2>5 DEF UpdateTaskCommit, TypeOK
<1>4. CASE HandleDeleteTask(k)
  <2>1. NoTask \in TaskRecord
    BY DEF NoTask, TaskRecord
  <2> QED
    BY <1>4, <2>1 DEF HandleDeleteTask, TypeOK
<1> QED
  BY <1>2, <1>3, <1>4

LEMMA EnqueueStepType ==
  ASSUME TypeOK, NEW t \in Runner,
         QueueBackupCommit(t) \/ RestoreCommit(t) \/ ConfigureCommit(t)
  PROVE  TypeOK'
<1> USE DEF nodeVars, planVars, queueVars
<1>1. pending[t] \in Request
  BY DEF TypeOK
<1>2. pending' \in [Runner -> Request]
  BY FinishType DEF TypeOK, QueueBackupCommit, RestoreCommit, ConfigureCommit
<1>3. next <= MaxCmd
  BY DEF QueueBackupCommit, RestoreCommit, ConfigureCommit, Enqueue
<1>4. CASE QueueBackupCommit(t)
  <2> DEFINE p == pending[t]
             cmd == [type |-> "backup", node |-> p.node, task |-> p.task,
                     repo |-> p.repo]
  <2>1. /\ p.node \in Node \cup {None} /\ p.repo \in Repo \cup {None}
        /\ p.task \in Task
    BY <1>1, <1>4, RequestFields DEF QueueBackupCommit
  <2>2. cmd \in CommandRecord
    BY <2>1 DEF CommandRecord
  <2>3. Enqueue(cmd, Truncated(Prepended))
    BY <1>4 DEF QueueBackupCommit
  <2>4. ASSUME NEW rec \in TaskRecord
        PROVE  [rec EXCEPT !.lastRun = 0, !.lastStatus = "queued"] \in TaskRecord
    BY IntervalPositive DEF TaskRecord, OpStatus
  <2>5. PICK rec \in TaskRecord : task' = task \/ task' = [task EXCEPT ![p.task] = rec]
    <3>1. CASE p.task \in tasks
      <4>1. task[p.task] \in TaskRecord
        BY <2>1 DEF TypeOK
      <4> QED
        BY <1>4, <3>1, <4>1, <2>4 DEF QueueBackupCommit
    <3>2. CASE p.task \notin tasks
      <4>1. task' = task
        BY <1>4, <3>2 DEF QueueBackupCommit
      <4> QED
        BY <4>1, <2>1 DEF TypeOK
    <3> QED
      BY <3>1, <3>2
  <2>6. task' \in [Task -> TaskRecord]
    BY <2>1, <2>5 DEF TypeOK
  <2> HIDE DEF cmd
  <2>7. /\ next' \in 1..(MaxCmd + 1) /\ queue' \subseteq CmdId
        /\ claimed' \subseteq CmdId /\ command' \in [CmdId -> CommandRecord]
        /\ age' \in [CmdId -> 0..(ClaimTimeout + 1)]
        /\ ops' \in [CmdId -> OpStatus]
    BY <1>3, <2>2, <2>3, ListType, EnqueueType
  <2> QED
    BY <1>2, <1>4, <2>6, <2>7 DEF QueueBackupCommit, TypeOK
<1>5. CASE RestoreCommit(t) \/ ConfigureCommit(t)
  <2>1. PICK cmd \in CommandRecord : Enqueue(cmd, Prepended)
    BY <1>1, <1>5, RequestFields DEF RestoreCommit, ConfigureCommit, CommandRecord
  <2>2. /\ next' \in 1..(MaxCmd + 1) /\ queue' \subseteq CmdId
        /\ claimed' \subseteq CmdId /\ command' \in [CmdId -> CommandRecord]
        /\ age' \in [CmdId -> 0..(ClaimTimeout + 1)]
        /\ ops' \in [CmdId -> OpStatus]
    BY <1>3, <2>1, ListType, EnqueueType
  <2> QED
    BY <1>2, <1>5, <2>2 DEF RestoreCommit, ConfigureCommit, TypeOK
<1> QED
  BY <1>4, <1>5

LEMMA CancelType ==
  ASSUME TypeOK, NEW c \in CmdId, HandleCancelOperation(c)
  PROVE  TypeOK'
<1>1. "cancelled" \in Terminal /\ {c} \in SUBSET CmdId
  BY DEF Terminal
<1>2. Remove({c}, "cancelled") /\ SetLastStatus({c}, "cancelled")
  BY DEF HandleCancelOperation
<1> QED
  BY <1>1, <1>2, RemoveType, SetLastStatusType
  DEF HandleCancelOperation, TypeOK, nodeVars

LEMMA AgentCommitType ==
  ASSUME TypeOK, NEW t \in Runner,
         \/ HeartbeatCommit(t) \/ ClaimNothing(t) \/ DeliverCommand(t)
         \/ DeliveryFails(t)
  PROVE  TypeOK'
<1> USE DEF nodeVars, planVars, queueVars
<1>1. pending[t] \in Request
  BY DEF TypeOK
<1>2. pending' \in [Runner -> Request]
  BY FinishType
  DEF TypeOK, HeartbeatCommit, ClaimNothing, DeliverCommand, DeliveryFails
<1>3. CASE HeartbeatCommit(t)
  <2>1. silence' \in [Node -> 0..(OnlineWindow + 1)]
    BY <1>3, WindowAssumption DEF HeartbeatCommit, TypeOK
  <2> QED
    BY <1>2, <1>3, <2>1 DEF HeartbeatCommit, TypeOK
<1>4. CASE DeliverCommand(t)
  <2>1. pending[t].cmd \in CmdId
    BY <1>1, <1>4, RequestFields DEF DeliverCommand
  <2> QED
    BY <1>2, <1>4, <2>1 DEF DeliverCommand, TypeOK
<1>5. CASE ClaimNothing(t) \/ DeliveryFails(t)
  BY <1>2, <1>5 DEF ClaimNothing, DeliveryFails, TypeOK
<1> QED
  BY <1>3, <1>4, <1>5

LEMMA ClaimType ==
  ASSUME TypeOK, NEW t \in Runner, ClaimCommand(t)
  PROVE  TypeOK'
<1> USE DEF nodeVars, planVars, queueVars
<1>1. PICK c \in Claimable(pending[t].node) :
        /\ claimed' = claimed \cup {c}
        /\ age' = [age EXCEPT ![c] = 0]
        /\ ops' = [ops EXCEPT ![c] = IF @ = "none" THEN @ ELSE "running"]
        /\ pending' = [pending EXCEPT ![t] = [kind |-> "deliver", cmd |-> c]]
  BY DEF ClaimCommand
<1>2. c \in CmdId
  BY DEF Claimable, TypeOK
<1>3. [kind |-> "deliver", cmd |-> c] \in Request
  BY <1>2 DEF Request
<1>4. pending' \in [Runner -> Request]
  BY <1>1, <1>3 DEF TypeOK
<1>5. ops' \in [CmdId -> OpStatus] /\ age' \in [CmdId -> 0..(ClaimTimeout + 1)]
  BY <1>1, <1>2, WindowAssumption DEF TypeOK, OpStatus
<1> QED
  BY <1>1, <1>2, <1>4, <1>5 DEF ClaimCommand, TypeOK

LEMMA ResultType ==
  ASSUME TypeOK, NEW t \in Runner, HandleCommandResult(t)
  PROVE  TypeOK'
<1> USE DEF nodeVars, planVars, queueVars
<1> DEFINE c == pending[t].cmd
           s == pending[t].status
<1>1. pending[t] \in Request
  BY DEF TypeOK
<1>2. c \in CmdId /\ s \in Terminal
  BY <1>1, RequestFields DEF HandleCommandResult
<1>3. pending' \in [Runner -> Request]
  BY FinishType DEF TypeOK, HandleCommandResult
<1>4. backups' \in [CmdId -> Nat]
  BY <1>2 DEF HandleCommandResult, TypeOK
<1>5. CASE Remove({c}, s) /\ SetLastStatus({c}, s)
  <2>1. {c} \in SUBSET CmdId
    BY <1>2
  <2> HIDE DEF c, s
  <2> QED
    BY <1>2, <1>3, <1>4, <1>5, <2>1, RemoveType, SetLastStatusType
    DEF HandleCommandResult, TypeOK
<1>6. CASE UNCHANGED <<queueVars, task>>
  BY <1>3, <1>4, <1>6 DEF HandleCommandResult, TypeOK
<1> QED
  BY <1>5, <1>6 DEF HandleCommandResult

LEMMA DeleteBackupType ==
  ASSUME TypeOK, NEW t \in Runner, DeleteBackupCommit(t) \/ DeleteBackupFails(t)
  PROVE  TypeOK'
<1> USE DEF nodeVars, planVars, queueVars
<1>1. pending' \in [Runner -> Request]
  BY FinishType DEF TypeOK, DeleteBackupCommit, DeleteBackupFails
<1>2. backups' \in [CmdId -> Nat]
  BY DEF DeleteBackupCommit, DeleteBackupFails, TypeOK
<1> QED
  BY <1>1, <1>2 DEF DeleteBackupCommit, DeleteBackupFails, TypeOK

LEMMA SchedulerType ==
  ASSUME TypeOK, SchedulerStep
  PROVE  TypeOK'
<1> USE DEF nodeVars, planVars, queueVars
<1>1. Scheduler \in Runner
  BY DEF Runner
<1>2. CASE TickSnapshot
  <2>1. [kind |-> "tick"] \in Request
    BY DEF Request
  <2>2. due' \subseteq Task
    BY <1>2 DEF TickSnapshot, TypeOK
  <2> QED
    BY <1>1, <1>2, <2>1, <2>2, BeginStepType DEF TickSnapshot
<1>3. CASE ExpireQueuedCommands
  <2>1. Expired \in SUBSET CmdId /\ "failed" \in Terminal
    BY DEF TypeOK, Expired, Terminal
  <2>2. Remove(Expired, "failed") /\ SetLastStatus(Expired, "failed")
    BY <1>3 DEF ExpireQueuedCommands
  <2>3. pending' \in [Runner -> Request]
    BY <1>1, <1>3, FinishType DEF ExpireQueuedCommands, TypeOK
  <2> QED
    BY <1>3, <2>1, <2>2, <2>3, RemoveType, SetLastStatusType
    DEF ExpireQueuedCommands, TypeOK
<1>4. ASSUME NEW k \in Task, TickQueueBackup(k) PROVE TypeOK'
  <2>1. due' \subseteq Task
    BY <1>4 DEF TickQueueBackup, TypeOK
  <2>2. CASE UNCHANGED pending
    BY <1>4, <2>1, <2>2 DEF TickQueueBackup, TypeOK
  <2>3. CASE QueueBackupSnapshot(Scheduler, k)
    <3>1. task[k].node \in Node \cup {None} /\ task[k].repo \in Repo \cup {None}
      BY DEF TypeOK, TaskRecord
    <3>2. [kind |-> "backup", task |-> k, node |-> task[k].node,
           repo |-> task[k].repo] \in Request
      BY <3>1 DEF Request
    <3> QED
      BY <1>1, <1>4, <2>1, <2>3, <3>2, BeginStepType
      DEF TickQueueBackup, QueueBackupSnapshot
  <2> QED
    BY <1>4, <2>2, <2>3 DEF TickQueueBackup
<1> QED
  BY <1>2, <1>3, <1>4 DEF SchedulerStep

LEMMA ElapseType ==
  ASSUME TypeOK, Elapse
  PROVE  TypeOK'
<1> USE WindowAssumption DEF nodeVars, planVars, queueVars
<1>1. /\ silence' \in [Node -> 0..(OnlineWindow + 1)]
      /\ ticket' \in [Node -> 0..(ReconnectWindow + 1)]
  BY OlderRange DEF Elapse, TypeOK
<1>2. task' \in [Task -> TaskRecord]
  <2>1. ASSUME NEW rec \in TaskRecord
        PROVE  [rec EXCEPT !.lastRun = Older(@, Interval - 1)] \in TaskRecord
    <3>1. rec.lastRun \in 0..Interval
      BY DEF TaskRecord
    <3>2. Older(rec.lastRun, Interval - 1) \in 0..Interval
      BY <3>1, IntervalPositive DEF Older
    <3> QED
      BY <3>2 DEF TaskRecord
  <2> QED
    BY <2>1 DEF Elapse, TypeOK
<1>3. age' \in [CmdId -> 0..(ClaimTimeout + 1)]
  <2>1. ASSUME NEW a \in 0..(ClaimTimeout + 1)
        PROVE  /\ Older(a, ClaimTimeout) \in 0..(ClaimTimeout + 1)
               /\ Older(a, QueueTimeout) \in 0..(ClaimTimeout + 1)
    BY DEF Older
  <2> QED
    BY <2>1 DEF Elapse, TypeOK
<1> QED
  BY <1>1, <1>2, <1>3 DEF Elapse, TypeOK

LEMMA RestartType ==
  ASSUME TypeOK, Restart
  PROVE  TypeOK'
<1>1. Idle \in Request
  BY DEF Request
<1> QED
  BY <1>1, BoundAssumption DEF Restart, TypeOK, nodeVars, planVars, queueVars

\* The requests the panel and the agents begin.
BeginSomething(t) ==
    \/ \E n \in Node, r \in Repo, e \in BOOLEAN :
         \/ CreateTaskValidate(t, n, r, e)
         \/ \E k \in Task : UpdateTaskValidate(t, k, n, r, e)
    \/ \E k \in Task : HandleRunTask(t, k)
    \/ \E b \in CmdId : \/ HandleDeleteBackup(t, b) \/ ResultAuth(t, b)
                        \/ \E n \in Node : HandleRestore(t, b, n)
    \/ \E n \in Node : \/ HandleNodeAutoUpdate(t, n) \/ HeartbeatAuth(t, n)
                       \/ CommandsAuth(t, n)

LEMMA BeginSomethingShape ==
  ASSUME TypeOK, NEW t \in Thread, BeginSomething(t)
  PROVE  \E r \in Request :
            /\ r.kind # "deliver"
            /\ r.kind = "result" => r.cmd \in delivered
            /\ Begin(t, r)
            /\ UNCHANGED <<nodeVars, repos, planVars, used, queueVars, backups,
                           delivered, due, restarts>>
<1>1. ASSUME NEW n \in Node, NEW r \in Repo, NEW e \in BOOLEAN,
             CreateTaskValidate(t, n, r, e)
      PROVE  [kind |-> "createTask", node |-> n, repo |-> r, enabled |-> e] \in Request
  BY DEF Request
<1>2. ASSUME NEW n \in Node, NEW r \in Repo, NEW e \in BOOLEAN, NEW k \in Task
      PROVE  [kind |-> "updateTask", task |-> k, node |-> n, repo |-> r,
              enabled |-> e] \in Request
  BY DEF Request
<1>3. ASSUME NEW k \in Task
      PROVE  [kind |-> "backup", task |-> k, node |-> task[k].node,
              repo |-> task[k].repo] \in Request
  <2>1. task[k].node \in Node \cup {None} /\ task[k].repo \in Repo \cup {None}
    BY DEF TypeOK, TaskRecord
  <2> QED
    BY <2>1 DEF Request
<1>4. ASSUME NEW b \in CmdId, NEW n \in Node
      PROVE  [kind |-> "restore", node |-> n, repo |-> command[b].repo] \in Request
  <2>1. command[b].repo \in Repo \cup {None}
    BY DEF TypeOK, CommandRecord
  <2> QED
    BY <2>1 DEF Request
<1>5. ASSUME NEW b \in CmdId PROVE [kind |-> "deleteBackup", backup |-> b] \in Request
  BY DEF Request
<1>6. ASSUME NEW n \in Node, NEW kind \in {"configure", "heartbeat", "claim"}
      PROVE  [kind |-> kind, node |-> n] \in Request
  BY DEF Request
<1>7. ASSUME NEW c \in CmdId, ResultAuth(t, c)
      PROVE  \E s \in Terminal :
               LET r == [kind |-> "result", node |-> command[c].node, cmd |-> c,
                         status |-> s]
               IN  r \in Request /\ c \in delivered /\ Authenticate(t, command[c].node, r)
  <2>1. command[c].type \in {"backup", "restore", "configure"}
    BY DEF TypeOK, CommandRecord
  <2>2. PICK s \in Answers[command[c].type] :
          Authenticate(t, command[c].node,
            [kind |-> "result", node |-> command[c].node, cmd |-> c, status |-> s])
    BY <1>7 DEF ResultAuth
  <2>3. s \in Terminal
    BY <2>1, <2>2 DEF Answers, Terminal
  <2>4. command[c].node \in Node
    BY <2>2 DEF Authenticate, TypeOK
  <2> QED
    BY <1>7, <2>2, <2>3, <2>4 DEF Request, ResultAuth
<1> QED
  BY <1>1, <1>2, <1>3, <1>4, <1>5, <1>6, <1>7
  DEF BeginSomething, CreateTaskValidate, UpdateTaskValidate, HandleRunTask,
      QueueBackupSnapshot, HandleDeleteBackup, HandleRestore,
      HandleNodeAutoUpdate, HeartbeatAuth, CommandsAuth, Authenticate

-----------------------------------------------------------------------------
(* The steps of the controller, by what they do to commands.                *)

\* Nothing that concerns commands changes; a request in progress ends, or one
\* begins that is not yet a delivery.
Quiet ==
    /\ UNCHANGED <<next, queue, command, claimed, ops, delivered, backups>>
    /\ \A t \in Runner :
         \/ pending'[t] = pending[t]
         \/ /\ pending'[t].kind # "deliver"
            /\ pending'[t].kind = "result" => pending'[t].cmd \in delivered

LEMMA BeginQuiet ==
  ASSUME TypeOK, NEW t \in Runner, NEW r \in Request, Begin(t, r),
         r.kind # "deliver", r.kind = "result" => r.cmd \in delivered,
         UNCHANGED <<queueVars, backups, delivered>>
  PROVE  Quiet
  BY DEF Begin, Quiet, TypeOK, queueVars

LEMMA FinishQuiet ==
  ASSUME TypeOK, NEW t \in Runner, Finish(t),
         UNCHANGED <<queueVars, backups, delivered>>
  PROVE  Quiet
  BY DEF Finish, Quiet, TypeOK, queueVars, Idle

\* Every step keeps the types, and is quiet or one of the named actions.
LEMMA Steps ==
  ASSUME TypeOK, Next
  PROVE  /\ TypeOK'
         /\ \/ Quiet
            \/ \E n \in Node : HandleReconnect(n)
            \/ \E c \in CmdId : HandleCancelOperation(c)
            \/ ExpireQueuedCommands
            \/ \E t \in Runner :
                 \/ QueueBackupCommit(t) \/ RestoreCommit(t) \/ ConfigureCommit(t)
                 \/ ClaimCommand(t) \/ DeliverCommand(t) \/ HandleCommandResult(t)
                 \/ DeleteBackupCommit(t)
<1>0. Thread \subseteq Runner /\ Scheduler \in Runner
  BY DEF Runner
<1>1. ASSUME NEW n \in Node,
             HandleRegister(n) \/ HandleReconnectCommand(n) \/ HandleDeleteNode(n)
      PROVE  TypeOK' /\ Quiet
  BY <1>1, NodeType
  DEF HandleRegister, HandleReconnectCommand, HandleDeleteNode, Quiet, queueVars
<1>2. ASSUME NEW n \in Node, HandleReconnect(n) PROVE TypeOK'
  BY <1>2, NodeType
<1>3. ASSUME NEW r \in Repo, HandleCreateRepository(r) \/ HandleDeleteRepository(r)
      PROVE  TypeOK' /\ Quiet
  BY <1>3, RepositoryType
  DEF HandleCreateRepository, HandleDeleteRepository, Quiet, queueVars
<1>4. ASSUME NEW k \in Task, HandleDeleteTask(k) PROVE TypeOK' /\ Quiet
  <2>1. NoTask \in TaskRecord
    BY IntervalPositive DEF NoTask, TaskRecord
  <2> QED
    BY <1>4, <2>1
    DEF HandleDeleteTask, TypeOK, Quiet, nodeVars, planVars, queueVars
<1>5. ASSUME NEW c \in CmdId, HandleCancelOperation(c) PROVE TypeOK'
  BY <1>5, CancelType
<1>6. ASSUME NEW t \in Thread, BeginSomething(t) PROVE TypeOK' /\ Quiet
  <2>1. PICK r \in Request :
          /\ r.kind # "deliver"
          /\ r.kind = "result" => r.cmd \in delivered
          /\ Begin(t, r)
          /\ UNCHANGED <<nodeVars, repos, planVars, used, queueVars, backups,
                         delivered, due, restarts>>
    BY <1>6, BeginSomethingShape
  <2>2. due' \subseteq Task
    BY <2>1 DEF TypeOK
  <2> QED
    BY <1>0, <2>1, <2>2, BeginStepType, BeginQuiet
<1>7. ASSUME NEW t \in Thread, NEW k \in Task,
             CreateTaskCommit(t, k) \/ UpdateTaskCommit(t)
      PROVE  TypeOK' /\ Quiet
  BY <1>0, <1>7, PlanType, FinishQuiet
  DEF CreateTaskCommit, UpdateTaskCommit
<1>8. ASSUME NEW t \in Thread, UpdateTaskCommit(t) PROVE TypeOK' /\ Quiet
  <2>1. pending[t] \in Request
    BY <1>0 DEF TypeOK
  <2>2. pending[t].task \in Task
    BY <1>8, <2>1, RequestFields DEF UpdateTaskCommit
  <2> QED
    BY <1>7, <1>8, <2>2
<1>9. ASSUME NEW t \in Runner,
             QueueBackupCommit(t) \/ RestoreCommit(t) \/ ConfigureCommit(t)
      PROVE  TypeOK'
  BY <1>9, EnqueueStepType
<1>10. ASSUME NEW t \in Runner, DeleteBackupCommit(t) \/ DeleteBackupFails(t)
       PROVE  TypeOK' /\ (DeleteBackupCommit(t) \/ Quiet)
  BY <1>10, DeleteBackupType, FinishQuiet DEF DeleteBackupFails
<1>11. ASSUME NEW t \in Runner,
              HeartbeatCommit(t) \/ ClaimNothing(t) \/ DeliveryFails(t)
       PROVE  TypeOK' /\ Quiet
  BY <1>11, AgentCommitType, FinishQuiet
  DEF HeartbeatCommit, ClaimNothing, DeliveryFails
<1>12. ASSUME NEW t \in Runner,
              ClaimCommand(t) \/ DeliverCommand(t) \/ HandleCommandResult(t)
       PROVE  TypeOK'
  BY <1>12, ClaimType, AgentCommitType, ResultType
<1>13. CASE SchedulerStep
  <2>1. TypeOK'
    BY <1>13, SchedulerType
  <2>2. CASE TickSnapshot
    <3>1. [kind |-> "tick"] \in Request
      BY DEF Request
    <3> QED
      BY <1>0, <2>1, <2>2, <3>1, BeginQuiet DEF TickSnapshot
  <2>3. ASSUME NEW k \in Task, TickQueueBackup(k) PROVE Quiet
    <3>1. task[k].node \in Node \cup {None} /\ task[k].repo \in Repo \cup {None}
      BY DEF TypeOK, TaskRecord
    <3>2. [kind |-> "backup", task |-> k, node |-> task[k].node,
           repo |-> task[k].repo] \in Request
      BY <3>1 DEF Request
    <3>3. CASE QueueBackupSnapshot(Scheduler, k)
      BY <1>0, <2>3, <3>2, <3>3, BeginQuiet DEF TickQueueBackup, QueueBackupSnapshot
    <3>4. CASE UNCHANGED pending
      BY <2>3, <3>4 DEF TickQueueBackup, Quiet, queueVars
    <3> QED
      BY <2>3, <3>3, <3>4 DEF TickQueueBackup
  <2> QED
    BY <1>13, <2>1, <2>2, <2>3 DEF SchedulerStep
<1>14. CASE Elapse
  BY <1>14, ElapseType DEF Elapse, Quiet
<1>15. CASE Restart
  BY <1>15, RestartType DEF Restart, Quiet, queueVars, Idle
<1>16. CASE AdminStep
  BY <1>0, <1>1, <1>3, <1>4, <1>5, <1>6, <1>7, <1>8, <1>9, <1>10, <1>16
  DEF AdminStep, BeginSomething
<1>17. CASE AgentStep
  BY <1>0, <1>1, <1>2, <1>6, <1>11, <1>12, <1>17 DEF AgentStep, BeginSomething
<1> QED
  BY <1>9, <1>13, <1>14, <1>15, <1>16, <1>17 DEF Next

\* The stored state keeps the shape of internal/model whatever the handlers,
\* the agents and the scheduler do, and however their steps interleave.
THEOREM TypeInvariant == Spec => []TypeOK
<1>1. Init => TypeOK
  BY InitType
<1>2. TypeOK /\ [Next]_vars => TypeOK'
  <2> SUFFICES ASSUME TypeOK, [Next]_vars PROVE TypeOK'
    OBVIOUS
  <2>1. CASE Next
    BY <2>1, Steps
  <2>2. CASE UNCHANGED vars
    BY <2>2 DEF vars, nodeVars, planVars, queueVars, TypeOK
  <2> QED
    BY <2>1, <2>2
<1> QED
  BY <1>1, <1>2, PTL DEF Spec

-----------------------------------------------------------------------------
(* The inductive invariant.                                                 *)

LEMMA CommandInvInit == Init => CommandInv
<1> SUFFICES ASSUME Init PROVE CommandInv
  OBVIOUS
<1>1. TypeOK
  BY InitType
<1> QED
  BY <1>1
  DEF Init, CommandInv, IdsFresh, DeliveryAfterClaim, AnswerAfterDelivery,
      OpMatchesCommand, OneRecordPerCommand, Unborn, Waiting, Running, Idle, CmdId

LEMMA CommandInvQuiet ==
  ASSUME CommandInv, TypeOK', Quiet
  PROVE  CommandInv'
<1> USE DEF Quiet
<1>1. IdsFresh' /\ OpMatchesCommand' /\ OneRecordPerCommand'
  BY DEF CommandInv, IdsFresh, OpMatchesCommand, OneRecordPerCommand, Unborn,
         Waiting, Running
<1>2. DeliveryAfterClaim' /\ AnswerAfterDelivery'
  BY DEF CommandInv, DeliveryAfterClaim, AnswerAfterDelivery
<1> QED
  BY <1>1, <1>2 DEF CommandInv

\* A request that ends carries nothing any more.
LEMMA FinishKeepsRequests ==
  ASSUME TypeOK, DeliveryAfterClaim, AnswerAfterDelivery, NEW t \in Runner, Finish(t),
         claimed \subseteq claimed', delivered \subseteq delivered',
         delivered' \subseteq claimed'
  PROVE  DeliveryAfterClaim' /\ AnswerAfterDelivery'
  BY DEF TypeOK, DeliveryAfterClaim, AnswerAfterDelivery, Finish, Idle

LEMMA CommandInvEnqueue ==
  ASSUME CommandInv, TypeOK', NEW t \in Runner,
         QueueBackupCommit(t) \/ RestoreCommit(t) \/ ConfigureCommit(t)
  PROVE  CommandInv'
<1>1. /\ Finish(t) /\ UNCHANGED <<claimed, delivered, backups>>
      /\ next <= MaxCmd /\ next' = next + 1 /\ queue' = queue \cup {next}
      /\ \E cmd : command' = [command EXCEPT ![next] = cmd]
      /\ ops' = Prepended \/ ops' = Truncated(Prepended)
  BY DEF QueueBackupCommit, RestoreCommit, ConfigureCommit, Enqueue
<1>2. /\ next \in Unborn /\ next \in CmdId /\ TypeOK
      /\ next \notin queue \cup claimed \cup delivered /\ backups[next] = 0
  BY <1>1 DEF CommandInv, TypeOK, IdsFresh, Unborn, CmdId
<1>3. \A c \in CmdId : ops'[c] \in {"none", IF c = next THEN "queued" ELSE ops[c]}
  BY <1>1, <1>2 DEF Prepended, Truncated, TypeOK
<1>4. Unborn' = Unborn \ {next}
  BY <1>1, <1>2 DEF Unborn, TypeOK, CmdId
<1>5. IdsFresh'
  BY <1>1, <1>2, <1>3, <1>4 DEF CommandInv, IdsFresh, Unborn
<1>6. DeliveryAfterClaim' /\ AnswerAfterDelivery'
  BY <1>1, <1>2, FinishKeepsRequests DEF CommandInv, DeliveryAfterClaim
<1>7. OpMatchesCommand'
  BY <1>1, <1>2, <1>3 DEF CommandInv, OpMatchesCommand, Waiting, Running
<1>8. OneRecordPerCommand'
  BY <1>1, <1>2 DEF CommandInv, OneRecordPerCommand, TypeOK
<1> QED
  BY <1>5, <1>6, <1>7, <1>8 DEF CommandInv

\* Commands leave the queue with a final status.
LEMMA CommandInvRemove ==
  ASSUME CommandInv, TypeOK', NEW S \in SUBSET queue,
         queue' = queue \ S, UNCHANGED <<next, command, claimed, delivered, backups>>,
         \A c \in CmdId :
            IF c \in S THEN (ops[c] = "none" /\ ops'[c] = "none") \/ ops'[c] \in Terminal
            ELSE ops'[c] = ops[c]
  PROVE  IdsFresh' /\ OpMatchesCommand' /\ OneRecordPerCommand'
<1>1. S \cap Unborn = {}
  BY DEF CommandInv, IdsFresh, TypeOK
<1>2. IdsFresh'
  BY <1>1 DEF CommandInv, IdsFresh, Unborn
<1>3. OpMatchesCommand'
  BY DEF CommandInv, OpMatchesCommand, Waiting, Running, Terminal
<1>4. OneRecordPerCommand'
  BY DEF CommandInv, OneRecordPerCommand
<1> QED
  BY <1>2, <1>3, <1>4

LEMMA RemoveShape ==
  ASSUME TypeOK, NEW S \in SUBSET CmdId, NEW status \in Terminal, Remove(S, status)
  PROVE  /\ queue' = queue \ S /\ UNCHANGED <<next, command, claimed>>
         /\ \A c \in CmdId :
              IF c \in S THEN (ops[c] = "none" /\ ops'[c] = "none") \/ ops'[c] = status
              ELSE ops'[c] = ops[c]
  BY DEF Remove, TypeOK

LEMMA CommandInvRemoveStatus ==
  ASSUME CommandInv, TypeOK', NEW S \in SUBSET queue, NEW status \in Terminal,
         Remove(S, status), UNCHANGED <<delivered, backups>>
  PROVE  IdsFresh' /\ OpMatchesCommand' /\ OneRecordPerCommand' /\ UNCHANGED claimed
<1>1. TypeOK /\ S \in SUBSET CmdId
  BY DEF CommandInv, TypeOK
<1>2. /\ queue' = queue \ S /\ UNCHANGED <<next, command, claimed>>
      /\ \A c \in CmdId :
           IF c \in S THEN (ops[c] = "none" /\ ops'[c] = "none") \/ ops'[c] = status
           ELSE ops'[c] = ops[c]
  BY <1>1, RemoveShape
<1> QED
  BY <1>2, CommandInvRemove

LEMMA CommandInvStep ==
  ASSUME CommandInv, Next
  PROVE  CommandInv'
<1>1. TypeOK
  BY DEF CommandInv
<1>2. TypeOK'
  BY <1>1, Steps
<1>3. CASE Quiet
  BY <1>2, <1>3, CommandInvQuiet
<1>4. ASSUME NEW n \in Node, HandleReconnect(n) PROVE CommandInv'
  <2> DEFINE own == {c \in queue : command[c].node = n}
  <2>1. \A c \in own : ops[c] \in {"none", "queued", "running"}
    BY <1>1 DEF CommandInv, OpMatchesCommand, Waiting, Running, TypeOK
  <2>2. /\ queue' = queue \ own
        /\ UNCHANGED <<next, command, claimed, delivered, backups, pending>>
        /\ \A c \in CmdId :
             IF c \in own THEN (ops[c] = "none" /\ ops'[c] = "none") \/ ops'[c] \in Terminal
             ELSE ops'[c] = ops[c]
    BY <1>4, <2>1 DEF HandleReconnect, Terminal
  <2>3. own \in SUBSET queue
    OBVIOUS
  <2> HIDE DEF own
  <2>4. IdsFresh' /\ OpMatchesCommand' /\ OneRecordPerCommand'
    BY <1>2, <2>2, <2>3, CommandInvRemove
  <2> QED
    BY <1>2, <2>2, <2>4 DEF CommandInv, DeliveryAfterClaim, AnswerAfterDelivery
<1>5. ASSUME NEW c \in CmdId, HandleCancelOperation(c) PROVE CommandInv'
  <2>1. /\ {c} \in SUBSET queue /\ Remove({c}, "cancelled") /\ "cancelled" \in Terminal
        /\ UNCHANGED <<delivered, backups, pending>>
    BY <1>5 DEF HandleCancelOperation, Terminal
  <2>2. IdsFresh' /\ OpMatchesCommand' /\ OneRecordPerCommand' /\ UNCHANGED claimed
    BY <1>2, <2>1, CommandInvRemoveStatus
  <2> QED
    BY <1>2, <2>1, <2>2 DEF CommandInv, DeliveryAfterClaim, AnswerAfterDelivery
<1>6. CASE ExpireQueuedCommands
  <2>1. /\ Expired \in SUBSET queue /\ Expired \in SUBSET CmdId
        /\ Remove(Expired, "failed") /\ "failed" \in Terminal
        /\ UNCHANGED <<delivered, backups>> /\ Finish(Scheduler)
    BY <1>1, <1>6 DEF ExpireQueuedCommands, Expired, Terminal, TypeOK
  <2>2. IdsFresh' /\ OpMatchesCommand' /\ OneRecordPerCommand' /\ UNCHANGED claimed
    BY <1>2, <2>1, CommandInvRemoveStatus
  <2>3. DeliveryAfterClaim' /\ AnswerAfterDelivery'
    BY <1>1, <2>1, <2>2, FinishKeepsRequests DEF CommandInv, Runner, DeliveryAfterClaim
  <2> QED
    BY <1>2, <2>2, <2>3 DEF CommandInv
<1>7. ASSUME NEW t \in Runner,
             QueueBackupCommit(t) \/ RestoreCommit(t) \/ ConfigureCommit(t)
      PROVE  CommandInv'
  BY <1>2, <1>7, CommandInvEnqueue
<1>8. ASSUME NEW t \in Runner, ClaimCommand(t) PROVE CommandInv'
  <2>1. PICK c \in Claimable(pending[t].node) :
          /\ claimed' = claimed \cup {c}
          /\ ops' = [ops EXCEPT ![c] = IF @ = "none" THEN @ ELSE "running"]
          /\ pending' = [pending EXCEPT ![t] = [kind |-> "deliver", cmd |-> c]]
    BY <1>8 DEF ClaimCommand
  <2>2. c \in queue /\ c \in CmdId /\ c \notin Unborn
    BY <1>1 DEF Claimable, CommandInv, IdsFresh, TypeOK
  <2>3. UNCHANGED <<next, queue, command, backups, delivered>>
    BY <1>8 DEF ClaimCommand
  <2>4. IdsFresh'
    BY <1>1, <2>1, <2>2, <2>3 DEF CommandInv, IdsFresh, Unborn, TypeOK
  <2>5. DeliveryAfterClaim' /\ AnswerAfterDelivery'
    BY <1>1, <2>1, <2>3
    DEF CommandInv, DeliveryAfterClaim, AnswerAfterDelivery, TypeOK
  <2>6. OpMatchesCommand'
    BY <1>1, <2>1, <2>2, <2>3
    DEF CommandInv, OpMatchesCommand, Waiting, Running, TypeOK
  <2>7. OneRecordPerCommand'
    BY <2>3 DEF CommandInv, OneRecordPerCommand
  <2> QED
    BY <1>2, <2>4, <2>5, <2>6, <2>7 DEF CommandInv
<1>9. ASSUME NEW t \in Runner, DeliverCommand(t) PROVE CommandInv'
  <2>1. /\ pending[t].kind = "deliver" /\ Finish(t)
        /\ delivered' = delivered \cup {pending[t].cmd}
        /\ UNCHANGED <<next, queue, command, claimed, ops, backups>>
    BY <1>9 DEF DeliverCommand, queueVars
  <2>2. pending[t].cmd \in claimed
    BY <2>1 DEF CommandInv, DeliveryAfterClaim
  <2>3. DeliveryAfterClaim' /\ AnswerAfterDelivery'
    BY <1>1, <2>1, <2>2, FinishKeepsRequests DEF CommandInv, DeliveryAfterClaim
  <2>4. IdsFresh' /\ OpMatchesCommand' /\ OneRecordPerCommand'
    BY <2>1, <2>2
    DEF CommandInv, IdsFresh, OpMatchesCommand, OneRecordPerCommand, Unborn,
        Waiting, Running
  <2> QED
    BY <1>2, <2>3, <2>4 DEF CommandInv
<1>10. ASSUME NEW t \in Runner, HandleCommandResult(t) PROVE CommandInv'
  <2> DEFINE c == pending[t].cmd
             s == pending[t].status
  <2>1. c \in CmdId /\ s \in Terminal /\ c \in delivered /\ Finish(t)
    BY <1>1, <1>10, RequestFields
    DEF HandleCommandResult, TypeOK, CommandInv, AnswerAfterDelivery
  <2>2. UNCHANGED delivered
    BY <1>10 DEF HandleCommandResult
  <2>3. CASE c \in queue /\ command[c].node = pending[t].node
    <3>1. /\ Remove({c}, s)
          /\ backups' = IF s = "success" /\ command[c].type = "backup"
                        THEN [backups EXCEPT ![c] = @ + 1] ELSE backups
      BY <1>10, <2>3 DEF HandleCommandResult
    <3> HIDE DEF c, s
    <3>2. /\ queue' = queue \ {c} /\ UNCHANGED <<next, command, claimed>>
          /\ \A d \in CmdId :
               IF d \in {c} THEN (ops[d] = "none" /\ ops'[d] = "none") \/ ops'[d] = s
               ELSE ops'[d] = ops[d]
      BY <1>1, <2>1, <3>1, RemoveShape
    <3>3. backups[c] = 0 /\ c \notin Unborn
      BY <1>1, <2>1, <2>3
      DEF CommandInv, OneRecordPerCommand, IdsFresh, TypeOK
    <3>4. IdsFresh'
      BY <1>1, <2>1, <2>2, <3>1, <3>2, <3>3 DEF CommandInv, IdsFresh, Unborn, TypeOK
    <3>5. OpMatchesCommand'
      BY <2>1, <3>2 DEF CommandInv, OpMatchesCommand, Waiting, Running, Terminal
    <3>6. OneRecordPerCommand'
      BY <1>1, <2>1, <2>2, <3>1, <3>2, <3>3 DEF CommandInv, OneRecordPerCommand, TypeOK
    <3>7. DeliveryAfterClaim' /\ AnswerAfterDelivery'
      BY <1>1, <2>1, <2>2, <3>2, FinishKeepsRequests DEF CommandInv, DeliveryAfterClaim
    <3> QED
      BY <1>2, <3>4, <3>5, <3>6, <3>7 DEF CommandInv
  <2>4. CASE ~(c \in queue /\ command[c].node = pending[t].node)
    <3>1. UNCHANGED <<queueVars, backups>>
      BY <1>10, <2>4 DEF HandleCommandResult
    <3> QED
      BY <1>1, <1>2, <2>1, <2>2, <3>1, FinishQuiet, CommandInvQuiet
  <2> QED
    BY <2>3, <2>4
<1>11. ASSUME NEW t \in Runner, DeleteBackupCommit(t) PROVE CommandInv'
  <2>1. /\ Finish(t) /\ UNCHANGED <<next, queue, command, claimed, ops, delivered>>
        /\ pending[t].backup \in CmdId
        /\ \/ UNCHANGED backups
           \/ /\ backups[pending[t].backup] > 0
              /\ backups' = [backups EXCEPT ![pending[t].backup] = @ - 1]
    BY <1>1, <1>11, RequestFields DEF DeleteBackupCommit, queueVars, TypeOK
  <2>2. DeliveryAfterClaim' /\ AnswerAfterDelivery'
    BY <1>1, <2>1, FinishKeepsRequests DEF CommandInv, DeliveryAfterClaim
  <2>3. \A c \in CmdId : backups'[c] = backups[c] \/ (backups[c] > 0 /\ backups'[c] = backups[c] - 1)
    BY <1>1, <2>1 DEF TypeOK
  <2>4. IdsFresh' /\ OpMatchesCommand' /\ OneRecordPerCommand'
    BY <1>1, <2>1, <2>3
    DEF CommandInv, IdsFresh, OpMatchesCommand, OneRecordPerCommand, Unborn,
        Waiting, Running, TypeOK
  <2> QED
    BY <1>2, <2>2, <2>4 DEF CommandInv
<1> QED
  BY <1>1, <1>3, <1>4, <1>5, <1>6, <1>7, <1>8, <1>9, <1>10, <1>11, Steps

LEMMA CommandInvStutter ==
  ASSUME CommandInv, UNCHANGED vars
  PROVE  CommandInv'
  BY DEF vars, nodeVars, planVars, queueVars, CommandInv, TypeOK, IdsFresh,
     DeliveryAfterClaim, AnswerAfterDelivery, OpMatchesCommand,
     OneRecordPerCommand, Unborn, Waiting, Running

\* Ids, claims, deliveries and answers stay in step under every interleaving of
\* the panel, the agents, the scheduler and restarts.
THEOREM CommandInvariant == Spec => []CommandInv
  BY CommandInvInit, CommandInvStep, CommandInvStutter, PTL DEF Spec

\* The operations page never contradicts the queue.
THEOREM PageMatchesQueue == Spec => []OpMatchesCommand
<1>1. CommandInv => OpMatchesCommand
  BY DEF CommandInv
<1> QED
  BY <1>1, CommandInvariant, PTL

\* A command leaves at most one entry in the backup index.
THEOREM RecordedOnce == Spec => []OneRecordPerCommand
<1>1. CommandInv => OneRecordPerCommand
  BY DEF CommandInv
<1> QED
  BY <1>1, CommandInvariant, PTL

-----------------------------------------------------------------------------
(* Refinement: the controller implements CommandLifecycle.                  *)

LEMMA LifecycleInit == Init => Lifecycle!Init
  BY DEF Init, Lifecycle!Init, Stage, Waiting, Running, Unborn, CmdId

LEMMA LifecycleQuiet ==
  ASSUME UNCHANGED <<next, queue, claimed, ops, delivered, backups>>
  PROVE  UNCHANGED Lifecycle!vars
  BY DEF Lifecycle!vars, Stage, Waiting, Running, Unborn

LEMMA LifecycleSubmit ==
  ASSUME CommandInv, NEW t \in Runner,
         QueueBackupCommit(t) \/ RestoreCommit(t) \/ ConfigureCommit(t)
  PROVE  Lifecycle!Next
<1>1. /\ UNCHANGED <<claimed, delivered, backups>>
      /\ next <= MaxCmd /\ next' = next + 1 /\ queue' = queue \cup {next}
      /\ ops' = Prepended \/ ops' = Truncated(Prepended)
  BY DEF QueueBackupCommit, RestoreCommit, ConfigureCommit, Enqueue
<1>2. /\ next \in CmdId /\ TypeOK /\ next \in Unborn
      /\ next \notin queue /\ next \notin claimed
  BY <1>1 DEF CommandInv, TypeOK, IdsFresh, Unborn, CmdId
<1>3. Unborn' = Unborn \ {next}
  BY <1>1, <1>2 DEF Unborn, TypeOK, CmdId
<1>4. Stage[next] = "unborn"
  BY <1>2 DEF Stage, Waiting, Running
<1>5. Stage' = [Stage EXCEPT ![next] = "queued"]
  BY <1>1, <1>2, <1>3 DEF Stage, Waiting, Running
<1>6. \E kept \in SUBSET CmdId :
        ops' = [d \in CmdId |-> IF d = next THEN "queued"
                                ELSE IF d \in kept THEN ops[d] ELSE "none"]
  <2>1. CASE ops' = Prepended
    <3> WITNESS CmdId \in SUBSET CmdId
    <3> QED
      BY <1>2, <2>1 DEF Prepended, TypeOK
  <2>2. CASE ops' = Truncated(Prepended)
    <3> WITNESS {d \in CmdId : ~(d + OpsLimit <= next)} \in SUBSET CmdId
    <3>1. ~(next + OpsLimit <= next)
      BY <1>2, LimitAssumption DEF CmdId
    <3> QED
      BY <1>2, <2>2, <3>1 DEF Truncated, Prepended, TypeOK
  <2> QED
    BY <1>1, <2>1, <2>2
<1>7. Lifecycle!Submit(next)
  BY <1>1, <1>4, <1>5, <1>6 DEF Lifecycle!Submit
<1> QED
  BY <1>2, <1>7 DEF Lifecycle!Next

\* Commands of S leave the queue, all of them waiting, with status s.
LEMMA LifecycleWithdraw ==
  ASSUME CommandInv, NEW S \in SUBSET CmdId, S \subseteq Waiting,
         NEW s \in {"failed", "cancelled"}, Remove(S, s),
         UNCHANGED <<delivered, backups>>
  PROVE  Lifecycle!Next
<1>1. TypeOK /\ s \in Terminal /\ S \cap Unborn = {}
  BY DEF CommandInv, IdsFresh, Terminal, Waiting
<1>2. /\ queue' = queue \ S /\ UNCHANGED <<next, claimed>>
      /\ ops' = [c \in CmdId |-> IF c \in S /\ ops[c] # "none" THEN s ELSE ops[c]]
  BY DEF Remove
<1>3. Stage' = [c \in CmdId |-> IF c \in S THEN "withdrawn" ELSE Stage[c]]
  BY <1>1, <1>2 DEF Stage, Waiting, Running, Unborn
<1>4. \A c \in S : Stage[c] = "queued"
  BY DEF Stage
<1>5. Lifecycle!Withdraw(S, s)
  BY <1>2, <1>3, <1>4 DEF Lifecycle!Withdraw, Lifecycle!Show
<1> QED
  BY <1>5 DEF Lifecycle!Next

LEMMA LifecycleReconnect ==
  ASSUME CommandInv, NEW n \in Node, HandleReconnect(n)
  PROVE  Lifecycle!Next
<1> DEFINE own == {c \in queue : command[c].node = n}
<1>1. TypeOK /\ own \in SUBSET CmdId /\ own \subseteq queue
  BY DEF CommandInv, TypeOK
<1>2. /\ queue' = queue \ own /\ UNCHANGED <<next, claimed, delivered, backups>>
      /\ ops' = [c \in CmdId |->
                   IF c \in own /\ ops[c] \in {"queued", "running"}
                   THEN "cancelled" ELSE ops[c]]
  BY DEF HandleReconnect
<1> HIDE DEF own
<1>3. \A c \in own : ops[c] \in {"none", "queued", "running"}
  BY <1>1 DEF CommandInv, OpMatchesCommand, Waiting, Running
<1>4. own \cap Unborn = {}
  BY <1>1 DEF CommandInv, IdsFresh
<1>5. ops' = [c \in CmdId |-> IF c \in own /\ ops[c] # "none" THEN "cancelled" ELSE ops[c]]
  BY <1>2, <1>3
<1>6. Stage' = [c \in CmdId |-> IF c \notin own THEN Stage[c]
                                ELSE IF Stage[c] = "queued" THEN "withdrawn"
                                ELSE "done"]
  BY <1>1, <1>2, <1>4 DEF Stage, Waiting, Running, Unborn
<1>7. \A c \in own : Stage[c] \in {"queued", "running"}
  BY <1>1 DEF Stage, Waiting, Running
<1>8. Lifecycle!Supersede(own)
  BY <1>2, <1>5, <1>6, <1>7 DEF Lifecycle!Supersede, Lifecycle!Show
<1> QED
  BY <1>1, <1>8 DEF Lifecycle!Next

LEMMA LifecycleClaim ==
  ASSUME CommandInv, NEW t \in Runner, ClaimCommand(t)
  PROVE  Lifecycle!Next
<1>1. PICK c \in Claimable(pending[t].node) :
        /\ claimed' = claimed \cup {c}
        /\ ops' = [ops EXCEPT ![c] = IF @ = "none" THEN @ ELSE "running"]
  BY DEF ClaimCommand
<1>2. c \in queue /\ c \in CmdId /\ TypeOK
      /\ UNCHANGED <<next, queue, delivered, backups>>
  BY DEF Claimable, CommandInv, TypeOK, ClaimCommand
<1>3. Stage[c] \in {"queued", "running"}
  BY <1>2 DEF Stage, Waiting, Running
<1>4. Stage' = [Stage EXCEPT ![c] = "running"]
  BY <1>1, <1>2 DEF Stage, Waiting, Running, Unborn
<1>5. ops' = [d \in CmdId |-> IF d \in {c} /\ ops[d] # "none" THEN "running" ELSE ops[d]]
  BY <1>1, <1>2 DEF TypeOK
<1>6. Lifecycle!Start(c)
  BY <1>2, <1>3, <1>4, <1>5 DEF Lifecycle!Start, Lifecycle!Show
<1> QED
  BY <1>2, <1>6 DEF Lifecycle!Next

LEMMA LifecycleDeliver ==
  ASSUME CommandInv, NEW t \in Runner, DeliverCommand(t)
  PROVE  Lifecycle!Next
<1> DEFINE c == pending[t].cmd
<1>1. /\ c \in CmdId /\ c \in claimed /\ delivered' = delivered \cup {c}
      /\ UNCHANGED <<next, queue, claimed, ops, backups>>
  BY RequestFields
  DEF CommandInv, TypeOK, DeliveryAfterClaim, DeliverCommand, queueVars
<1> HIDE DEF c
<1>2. Stage[c] \in {"running", "done"} /\ Stage' = Stage
  BY <1>1 DEF Stage, Waiting, Running, Unborn, CommandInv, IdsFresh
<1>3. Lifecycle!HandOver(c)
  BY <1>1, <1>2 DEF Lifecycle!HandOver
<1> QED
  BY <1>1, <1>3 DEF Lifecycle!Next

LEMMA LifecycleAnswer ==
  ASSUME CommandInv, NEW t \in Runner, HandleCommandResult(t)
  PROVE  Lifecycle!Next \/ UNCHANGED Lifecycle!vars
<1> DEFINE c == pending[t].cmd
           s == pending[t].status
<1>1. /\ c \in CmdId /\ s \in Terminal /\ c \in delivered /\ c \in claimed /\ TypeOK
      /\ UNCHANGED delivered
  BY RequestFields
  DEF CommandInv, TypeOK, DeliveryAfterClaim, AnswerAfterDelivery, HandleCommandResult
<1>2. CASE c \in queue /\ command[c].node = pending[t].node
  <2>1. /\ Remove({c}, s)
        /\ \/ UNCHANGED backups
           \/ s = "success" /\ backups' = [backups EXCEPT ![c] = @ + 1]
    BY <1>2 DEF HandleCommandResult
  <2> HIDE DEF c, s
  <2>2. /\ queue' = queue \ {c} /\ UNCHANGED <<next, claimed>>
        /\ ops' = [d \in CmdId |-> IF d \in {c} /\ ops[d] # "none" THEN s ELSE ops[d]]
    BY <2>1 DEF Remove
  <2>3. backups[c] = 0 /\ c \notin Unborn
    BY <1>1, <1>2 DEF CommandInv, OneRecordPerCommand, IdsFresh, TypeOK
  <2>4. Stage[c] = "running" /\ Stage' = [Stage EXCEPT ![c] = "done"]
    BY <1>1, <1>2, <2>2, <2>3 DEF Stage, Waiting, Running, Unborn
  <2>5. UNCHANGED backups \/ (s = "success" /\ backups' = [backups EXCEPT ![c] = 1])
    <3>1. backups[c] + 1 = 1
      BY <2>3
    <3>2. CASE UNCHANGED backups
      BY <3>2
    <3>3. CASE s = "success" /\ backups' = [backups EXCEPT ![c] = @ + 1]
      <4>1. backups' = [backups EXCEPT ![c] = 1]
        BY <3>1, <3>3
      <4> QED
        BY <3>3, <4>1
    <3> QED
      BY <2>1, <3>2, <3>3
  <2>6. Lifecycle!Answer(c, s)
    BY <1>1, <2>2, <2>4, <2>5 DEF Lifecycle!Answer, Lifecycle!Show
  <2> QED
    BY <1>1, <2>6 DEF Lifecycle!Next, Lifecycle!Outcomes, Terminal
<1>3. CASE ~(c \in queue /\ command[c].node = pending[t].node)
  BY <1>1, <1>3, LifecycleQuiet DEF HandleCommandResult, queueVars
<1> QED
  BY <1>2, <1>3

LEMMA LifecycleErase ==
  ASSUME CommandInv, NEW t \in Runner, DeleteBackupCommit(t)
  PROVE  Lifecycle!Next \/ UNCHANGED Lifecycle!vars
<1> DEFINE b == pending[t].backup
<1>1. /\ b \in CmdId /\ TypeOK
      /\ UNCHANGED <<next, queue, claimed, ops, delivered>>
  BY RequestFields DEF CommandInv, TypeOK, DeleteBackupCommit, queueVars
<1>2. CASE backups[b] > 0
  <2>1. backups[b] = 1 /\ backups' = [backups EXCEPT ![b] = 0]
    <3>1. backups[b] = 1
      BY <1>1, <1>2 DEF CommandInv, OneRecordPerCommand
    <3>2. backups[b] - 1 = 0
      BY <3>1
    <3>3. backups' = [backups EXCEPT ![b] = backups[b] - 1]
      BY <1>2 DEF DeleteBackupCommit
    <3> QED
      BY <3>1, <3>2, <3>3
  <2>2. Stage' = Stage
    BY <1>1 DEF Stage, Waiting, Running, Unborn
  <2> HIDE DEF b
  <2>3. Lifecycle!Erase(b)
    BY <1>1, <2>1, <2>2 DEF Lifecycle!Erase
  <2> QED
    BY <1>1, <2>3 DEF Lifecycle!Next
<1>3. CASE ~(backups[b] > 0)
  BY <1>1, <1>3, LifecycleQuiet DEF DeleteBackupCommit
<1> QED
  BY <1>2, <1>3

LEMMA LifecycleStep ==
  ASSUME CommandInv, Next
  PROVE  Lifecycle!Next \/ UNCHANGED Lifecycle!vars
<1>1. TypeOK
  BY DEF CommandInv
<1>2. CASE Quiet
  BY <1>2, LifecycleQuiet DEF Quiet
<1>3. ASSUME NEW c \in CmdId, HandleCancelOperation(c) PROVE Lifecycle!Next
  BY <1>3, LifecycleWithdraw DEF HandleCancelOperation, Waiting
<1>4. CASE ExpireQueuedCommands
  <2>1. Expired \in SUBSET CmdId /\ Expired \subseteq Waiting
    BY <1>1 DEF Expired, Waiting, TypeOK
  <2> QED
    BY <1>4, <2>1, LifecycleWithdraw DEF ExpireQueuedCommands
<1> QED
  BY <1>1, <1>2, <1>3, <1>4, Steps, LifecycleReconnect, LifecycleSubmit, LifecycleClaim,
     LifecycleDeliver, LifecycleAnswer, LifecycleErase

\* Every behaviour of the controller is one CommandLifecycle allows: queue,
\* claims, page and index together keep its promises.
THEOREM ControllerImplementsLifecycle == Spec => ImplementsLifecycle
<1>1. UNCHANGED vars => UNCHANGED Lifecycle!vars
  BY LifecycleQuiet DEF vars, queueVars
<1>2. CommandInv /\ [Next]_vars => [Lifecycle!Next]_(Lifecycle!vars)
  BY <1>1, LifecycleStep
<1> QED
  BY <1>2, LifecycleInit, CommandInvariant, PTL
  DEF Spec, ImplementsLifecycle, Lifecycle!Spec

\* What CommandLifecycle promises: a command goes through its stages in one
\* direction, the page fits its stage, and what it was handed and recorded fits.
StagesAfter ==
    [unborn    |-> {"unborn", "queued"},
     queued    |-> {"queued", "running", "withdrawn"},
     running   |-> {"running", "done"},
     done      |-> {"done"},
     withdrawn |-> {"withdrawn"}]

StatusesOf ==
    [unborn    |-> {"none"},
     queued    |-> {"queued", "none"},
     running   |-> {"running", "none"},
     done      |-> Lifecycle!Outcomes \cup {"none"},
     withdrawn |-> {"failed", "cancelled", "none"}]

LifecycleTypeOK ==
    /\ Stage \in [CmdId -> Lifecycle!Stages]
    /\ DOMAIN ops = CmdId
    /\ delivered \subseteq CmdId /\ backups \in [CmdId -> {0, 1}]

LifecycleFits ==
    \A c \in CmdId : /\ ops[c] \in StatusesOf[Stage[c]]
                     /\ c \in delivered => Stage[c] \in {"running", "done"}
                     /\ backups[c] = 1 => Stage[c] = "done" /\ c \in delivered

LifecycleGoesOn == \A c \in CmdId : Stage'[c] \in StagesAfter[Stage[c]]

LEMMA LifecycleStarts == Lifecycle!Init => LifecycleTypeOK /\ LifecycleFits
  BY DEF Lifecycle!Init, Lifecycle!Stages, LifecycleTypeOK, LifecycleFits, StatusesOf

\* A set of commands moves on to one stage each, and the page follows.
LEMMA LifecycleMoves ==
  ASSUME LifecycleTypeOK, LifecycleFits, NEW S \in SUBSET CmdId, NEW s,
         Lifecycle!Show(S, s),
         Stage' \in [CmdId -> Lifecycle!Stages],
         \A c \in CmdId \ S : Stage'[c] = Stage[c],
         \A c \in S : /\ Stage'[c] \in StagesAfter[Stage[c]]
                      /\ s \in StatusesOf[Stage'[c]]
                      /\ c \in delivered => Stage'[c] \in {"running", "done"}
                      /\ backups[c] = 1 => Stage'[c] = "done",
         delivered' = delivered,
         backups' \in [CmdId -> {0, 1}],
         \A c \in CmdId : backups'[c] = 1 =>
             backups[c] = 1 \/ (c \in S /\ Stage'[c] = "done" /\ c \in delivered)
  PROVE  LifecycleTypeOK' /\ LifecycleFits' /\ LifecycleGoesOn
<1>1. ops' = [c \in CmdId |-> IF c \in S /\ ops[c] # "none" THEN s ELSE ops[c]]
  BY DEF Lifecycle!Show
<1>2. LifecycleTypeOK'
  BY <1>1 DEF LifecycleTypeOK
<1>3. ASSUME NEW c \in CmdId PROVE Stage'[c] \in StagesAfter[Stage[c]]
  <2>1. Stage[c] \in StagesAfter[Stage[c]]
    BY DEF LifecycleTypeOK, Lifecycle!Stages, StagesAfter
  <2> QED
    BY <2>1
<1>4. ASSUME NEW c \in CmdId
      PROVE  /\ ops'[c] \in StatusesOf[Stage'[c]]
             /\ c \in delivered' => Stage'[c] \in {"running", "done"}
             /\ backups'[c] = 1 => Stage'[c] = "done" /\ c \in delivered'
  <2>1. "none" \in StatusesOf[Stage'[c]]
    BY DEF Lifecycle!Stages, StatusesOf
  <2>2. ops[c] \in StatusesOf[Stage[c]]
    BY DEF LifecycleFits
  <2>3. ops'[c] \in StatusesOf[Stage'[c]]
    BY <1>1, <2>1, <2>2
  <2> QED
    BY <2>3 DEF LifecycleFits
<1> QED
  BY <1>2, <1>3, <1>4 DEF LifecycleFits, LifecycleGoesOn

LEMMA LifecycleKeeps ==
  ASSUME LifecycleTypeOK, LifecycleFits, Lifecycle!Next
  PROVE  LifecycleTypeOK' /\ LifecycleFits' /\ LifecycleGoesOn
<1> DEFINE Goal == LifecycleTypeOK' /\ LifecycleFits' /\ LifecycleGoesOn
<1> USE DEF Lifecycle!Stages
<1>0. \A c \in CmdId : Stage[c] \in StagesAfter[Stage[c]]
  BY DEF LifecycleTypeOK, StagesAfter
<1>1. ASSUME NEW c \in CmdId, Lifecycle!Submit(c) PROVE Goal
  <2>1. PICK kept \in SUBSET CmdId :
          ops' = [d \in CmdId |-> IF d = c THEN "queued"
                                  ELSE IF d \in kept THEN ops[d] ELSE "none"]
    BY <1>1 DEF Lifecycle!Submit
  <2>2. /\ Stage[c] = "unborn" /\ Stage' = [Stage EXCEPT ![c] = "queued"]
        /\ UNCHANGED <<delivered, backups>>
    BY <1>1 DEF Lifecycle!Submit
  <2>3. \A d \in CmdId : Stage'[d] = IF d = c THEN "queued" ELSE Stage[d]
    BY <2>2 DEF LifecycleTypeOK
  <2>4. LifecycleTypeOK'
    BY <2>1, <2>2 DEF LifecycleTypeOK
  <2>5. LifecycleGoesOn
    BY <1>0, <2>2, <2>3 DEF LifecycleGoesOn, StagesAfter
  <2>6. ASSUME NEW d \in CmdId
        PROVE  /\ ops'[d] \in StatusesOf[Stage'[d]]
               /\ d \in delivered' => Stage'[d] \in {"running", "done"}
               /\ backups'[d] = 1 => Stage'[d] = "done" /\ d \in delivered'
    <3>1. CASE d = c
      BY <2>1, <2>2, <2>3, <3>1 DEF LifecycleFits, StatusesOf
    <3>2. CASE d # c
      <4>1. ops'[d] \in {ops[d], "none"} /\ Stage'[d] = Stage[d]
        BY <2>1, <2>3, <3>2
      <4>2. "none" \in StatusesOf[Stage[d]]
        BY DEF LifecycleTypeOK, StatusesOf
      <4> QED
        BY <2>2, <4>1, <4>2 DEF LifecycleFits
    <3> QED
      BY <3>1, <3>2
  <2>7. LifecycleFits'
    BY <2>6 DEF LifecycleFits
  <2> QED
    BY <2>4, <2>5, <2>7
<1>2. ASSUME NEW c \in CmdId, Lifecycle!Start(c) PROVE Goal
  <2>1. /\ Lifecycle!Show({c}, "running") /\ Stage[c] \in {"queued", "running"}
        /\ Stage' = [Stage EXCEPT ![c] = "running"] /\ UNCHANGED <<delivered, backups>>
    BY <1>2 DEF Lifecycle!Start
  <2>2. \A d \in CmdId : Stage'[d] = IF d = c THEN "running" ELSE Stage[d]
    BY <2>1 DEF LifecycleTypeOK
  <2>3. Stage' \in [CmdId -> Lifecycle!Stages] /\ backups' \in [CmdId -> {0, 1}]
    BY <2>1 DEF LifecycleTypeOK
  <2>4. /\ "running" \in StagesAfter[Stage[c]] /\ "running" \in StatusesOf["running"]
        /\ backups[c] # 1
    BY <2>1 DEF LifecycleFits, StagesAfter, StatusesOf
  <2> QED
    BY <2>1, <2>2, <2>3, <2>4, LifecycleMoves
<1>3. ASSUME NEW c \in CmdId, Lifecycle!HandOver(c) PROVE Goal
  <2>1. /\ Stage[c] \in {"running", "done"} /\ delivered' = delivered \cup {c}
        /\ UNCHANGED <<Stage, ops, backups>>
    BY <1>3 DEF Lifecycle!HandOver
  <2> QED
    BY <1>0, <2>1 DEF LifecycleTypeOK, LifecycleFits, LifecycleGoesOn
<1>4. ASSUME NEW c \in CmdId, Lifecycle!Erase(c) PROVE Goal
  <2>1. backups' = [backups EXCEPT ![c] = 0] /\ UNCHANGED <<Stage, ops, delivered>>
    BY <1>4 DEF Lifecycle!Erase
  <2>2. \A d \in CmdId : backups'[d] = 1 => backups[d] = 1
    BY <2>1 DEF LifecycleTypeOK
  <2>3. LifecycleTypeOK'
    BY <2>1 DEF LifecycleTypeOK
  <2>4. LifecycleFits' /\ LifecycleGoesOn
    BY <1>0, <2>1, <2>2 DEF LifecycleFits, LifecycleGoesOn
  <2> QED
    BY <2>3, <2>4
<1>5. ASSUME NEW c \in CmdId, NEW o \in Lifecycle!Outcomes, Lifecycle!Answer(c, o)
      PROVE  Goal
  <2>1. /\ Lifecycle!Show({c}, o) /\ Stage[c] = "running" /\ c \in delivered
        /\ Stage' = [Stage EXCEPT ![c] = "done"] /\ UNCHANGED delivered
        /\ UNCHANGED backups \/ backups' = [backups EXCEPT ![c] = 1]
    BY <1>5 DEF Lifecycle!Answer
  <2>2. \A d \in CmdId : Stage'[d] = IF d = c THEN "done" ELSE Stage[d]
    BY <2>1 DEF LifecycleTypeOK
  <2>3. /\ Stage' \in [CmdId -> Lifecycle!Stages] /\ backups' \in [CmdId -> {0, 1}]
        /\ \A d \in CmdId : backups'[d] = 1 => backups[d] = 1 \/ d = c
    BY <2>1 DEF LifecycleTypeOK
  <2>4. "done" \in StagesAfter[Stage[c]] /\ o \in StatusesOf["done"]
    BY <2>1 DEF StagesAfter, StatusesOf
  <2> QED
    BY <2>1, <2>2, <2>3, <2>4, LifecycleMoves
<1>6. ASSUME NEW S \in SUBSET CmdId, Lifecycle!Supersede(S) PROVE Goal
  <2>1. /\ Lifecycle!Show(S, "cancelled") /\ UNCHANGED <<delivered, backups>>
        /\ \A c \in S : Stage[c] \in {"queued", "running"}
        /\ Stage' = [c \in CmdId |-> IF c \notin S THEN Stage[c]
                                     ELSE IF Stage[c] = "queued" THEN "withdrawn"
                                     ELSE "done"]
    BY <1>6 DEF Lifecycle!Supersede
  <2>2. Stage' \in [CmdId -> Lifecycle!Stages] /\ backups' \in [CmdId -> {0, 1}]
    BY <2>1 DEF LifecycleTypeOK
  <2>3. \A c \in S : /\ Stage'[c] \in StagesAfter[Stage[c]]
                     /\ "cancelled" \in StatusesOf[Stage'[c]]
                     /\ c \in delivered => Stage'[c] \in {"running", "done"}
                     /\ backups[c] = 1 => Stage'[c] = "done"
    BY <2>1 DEF LifecycleFits, StagesAfter, StatusesOf, Lifecycle!Outcomes
  <2> QED
    BY <2>1, <2>2, <2>3, LifecycleMoves
<1>7. ASSUME NEW S \in SUBSET CmdId, NEW o \in {"failed", "cancelled"},
             Lifecycle!Withdraw(S, o)
      PROVE  Goal
  <2>1. /\ Lifecycle!Show(S, o) /\ UNCHANGED <<delivered, backups>>
        /\ \A c \in S : Stage[c] = "queued"
        /\ Stage' = [c \in CmdId |-> IF c \in S THEN "withdrawn" ELSE Stage[c]]
    BY <1>7 DEF Lifecycle!Withdraw
  <2>2. Stage' \in [CmdId -> Lifecycle!Stages] /\ backups' \in [CmdId -> {0, 1}]
    BY <2>1 DEF LifecycleTypeOK
  <2>3. \A c \in S : /\ Stage'[c] \in StagesAfter[Stage[c]]
                     /\ o \in StatusesOf[Stage'[c]]
                     /\ c \notin delivered /\ backups[c] # 1
    BY <2>1 DEF LifecycleFits, StagesAfter, StatusesOf
  <2> QED
    BY <2>1, <2>2, <2>3, LifecycleMoves
<1> QED
  BY <1>1, <1>2, <1>3, <1>4, <1>5, <1>6, <1>7 DEF Lifecycle!Next

LEMMA LifecycleRests ==
  ASSUME LifecycleTypeOK, LifecycleFits, UNCHANGED Lifecycle!vars
  PROVE  LifecycleTypeOK' /\ LifecycleFits' /\ LifecycleGoesOn
<1>1. UNCHANGED <<Stage, ops, delivered, backups>>
  BY DEF Lifecycle!vars
<1> QED
  BY <1>1 DEF LifecycleTypeOK, LifecycleFits, LifecycleGoesOn, Lifecycle!Stages, StagesAfter

\* Whatever implements CommandLifecycle leaves no command between two stages:
\* the page shows the stage, only what was taken was handed over, and only what
\* was handed over and has ended is in the index.
THEOREM LifecyclePromises == Lifecycle!Spec => [](LifecycleTypeOK /\ LifecycleFits)
<1>1. Lifecycle!Init => LifecycleTypeOK /\ LifecycleFits
  BY LifecycleStarts
<1>2. (LifecycleTypeOK /\ LifecycleFits) /\ [Lifecycle!Next]_(Lifecycle!vars)
          => (LifecycleTypeOK /\ LifecycleFits)'
  BY LifecycleKeeps, LifecycleRests
<1> QED
  BY <1>1, <1>2, PTL DEF Lifecycle!Spec

\* A command never goes back to an earlier stage, for the controller with all
\* its handlers: what was withdrawn, superseded or answered is not queued again.
THEOREM CommandsGoOn == Spec => [][LifecycleGoesOn]_vars
<1>1. (LifecycleTypeOK /\ LifecycleFits) /\ [Lifecycle!Next]_(Lifecycle!vars)
          => [LifecycleGoesOn]_vars
  BY LifecycleKeeps, LifecycleRests
<1> QED
  BY <1>1, LifecyclePromises, ControllerImplementsLifecycle, PTL
  DEF ImplementsLifecycle, Lifecycle!Spec

-----------------------------------------------------------------------------
(* What a step may never do to a command that has left the queue.           *)

LEMMA SettledStep ==
  ASSUME CommandInv, Next, NEW c \in CmdId, c \notin Unborn, c \notin queue
  PROVE  /\ ops'[c] \in {ops[c], "none"}
         /\ c \notin claimed => c \notin delivered'
         /\ backups[c] = 0 => backups'[c] = 0
<1>1. TypeOK /\ c # next /\ (c \notin claimed => c \notin delivered)
  BY DEF CommandInv, TypeOK, DeliveryAfterClaim, Unborn, CmdId
<1>2. CASE Quiet
  BY <1>1, <1>2 DEF Quiet
<1>3. ASSUME NEW n \in Node, HandleReconnect(n)
      PROVE  ops'[c] = ops[c] /\ UNCHANGED <<delivered, backups>>
  BY <1>3 DEF HandleReconnect
<1>4. ASSUME NEW d \in CmdId, HandleCancelOperation(d)
      PROVE  ops'[c] = ops[c] /\ UNCHANGED <<delivered, backups>>
  BY <1>4 DEF HandleCancelOperation, Remove
<1>5. CASE ExpireQueuedCommands
  BY <1>1, <1>5 DEF ExpireQueuedCommands, Remove, Expired
<1>6. ASSUME NEW t \in Runner,
             QueueBackupCommit(t) \/ RestoreCommit(t) \/ ConfigureCommit(t)
      PROVE  ops'[c] \in {ops[c], "none"} /\ UNCHANGED <<delivered, backups>>
  <2>1. /\ UNCHANGED <<delivered, backups>>
        /\ ops' = Prepended \/ ops' = Truncated(Prepended)
    BY <1>6 DEF QueueBackupCommit, RestoreCommit, ConfigureCommit, Enqueue
  <2> QED
    BY <1>1, <2>1 DEF Prepended, Truncated, TypeOK
<1>7. ASSUME NEW t \in Runner, ClaimCommand(t)
      PROVE  ops'[c] = ops[c] /\ UNCHANGED <<delivered, backups>>
  BY <1>1, <1>7 DEF ClaimCommand, Claimable, TypeOK
<1>8. ASSUME NEW t \in Runner, DeliverCommand(t)
      PROVE  /\ UNCHANGED <<ops, backups>>
             /\ c \notin claimed => c \notin delivered'
  BY <1>1, <1>8 DEF DeliverCommand, CommandInv, DeliveryAfterClaim, queueVars
<1>9. ASSUME NEW t \in Runner, HandleCommandResult(t)
      PROVE  ops'[c] = ops[c] /\ backups'[c] = backups[c] /\ UNCHANGED delivered
  <2>1. CASE pending[t].cmd \in queue
    BY <1>1, <1>9, <2>1 DEF HandleCommandResult, Remove, TypeOK, queueVars
  <2>2. CASE pending[t].cmd \notin queue
    BY <1>1, <1>9, <2>2 DEF HandleCommandResult, queueVars
  <2> QED
    BY <2>1, <2>2
<1>10. ASSUME NEW t \in Runner, DeleteBackupCommit(t)
       PROVE  /\ UNCHANGED <<ops, delivered>>
              /\ backups[c] = 0 => backups'[c] = 0
  BY <1>1, <1>10 DEF DeleteBackupCommit, queueVars, TypeOK
<1> QED
  BY <1>1, <1>2, <1>3, <1>4, <1>5, <1>6, <1>7, <1>8, <1>9, <1>10, Steps

\* An ended operation keeps its outcome until it drops off the page.
THEOREM OutcomesAreFinal == Spec => TerminalStatusFinal
<1>1. CommandInv /\ [Next]_vars =>
        [\A c \in CmdId : ops[c] \in Terminal => ops'[c] \in {ops[c], "none"}]_vars
  <2> SUFFICES ASSUME CommandInv, Next, NEW c \in CmdId, ops[c] \in Terminal
               PROVE  ops'[c] \in {ops[c], "none"}
    OBVIOUS
  <2>1. c \notin queue /\ c \notin Unborn
    BY DEF CommandInv, OpMatchesCommand, IdsFresh, Waiting, Running, Terminal
  <2> QED
    BY <2>1, SettledStep
<1> QED
  BY <1>1, CommandInvariant, PTL DEF Spec, TerminalStatusFinal

\* A command stopped or expired before its claim never reaches an agent.
THEOREM StoppedIsNeverDelivered == Spec => StoppedNeverDelivered
<1>1. CommandInv /\ [Next]_vars =>
        [\A c \in CmdId \ Unborn :
            c \notin queue \cup claimed => c \notin delivered']_vars
  <2> SUFFICES ASSUME CommandInv, Next, NEW c \in CmdId \ Unborn,
                      c \notin queue \cup claimed
               PROVE  c \notin delivered'
    OBVIOUS
  <2> QED
    BY SettledStep
<1> QED
  BY <1>1, CommandInvariant, PTL DEF Spec, StoppedNeverDelivered

\* A deleted backup does not come back.
THEOREM DeletedBackupIsGone == Spec => DeletedBackupStaysDeleted
<1>1. CommandInv /\ [Next]_vars =>
        [\A c \in CmdId \ Unborn :
            c \notin queue /\ backups[c] = 0 => backups'[c] = 0]_vars
  <2> SUFFICES ASSUME CommandInv, Next, NEW c \in CmdId \ Unborn,
                      c \notin queue, backups[c] = 0
               PROVE  backups'[c] = 0
    OBVIOUS
  <2> QED
    BY SettledStep
<1> QED
  BY <1>1, CommandInvariant, PTL DEF Spec, DeletedBackupStaysDeleted

-----------------------------------------------------------------------------
(* Plans.                                                                   *)

\* Nothing but queueBackup lets a plan show "queued" that did not.
PlansKept == \A k \in tasks' : task'[k].lastStatus = "queued" =>
                 k \in tasks /\ task[k].lastStatus = "queued"

LEMMA StatusKept ==
  ASSUME TypeOK, NEW S, NEW status \in Terminal, SetLastStatus(S, status),
         UNCHANGED tasks
  PROVE  /\ PlansKept
         /\ \A k \in tasks, c \in S :
              command[c].task = k => task'[k].lastStatus = status
<1>1. ASSUME NEW k \in tasks
      PROVE  task'[k].lastStatus = IF \E c \in S : command[c].task = k
                                   THEN status ELSE task[k].lastStatus
  <2>1. k \in Task /\ task[k] \in TaskRecord
    BY DEF TypeOK
  <2>2. task'[k] = IF \E c \in S : command[c].task = k
                   THEN [task[k] EXCEPT !.lastStatus = status] ELSE task[k]
    BY <2>1 DEF SetLastStatus
  <2>3. [task[k] EXCEPT !.lastStatus = status].lastStatus = status
    BY <2>1 DEF TaskRecord
  <2> QED
    BY <2>2, <2>3
<1>2. status # "queued"
  BY DEF Terminal
<1> QED
  BY <1>1, <1>2 DEF PlansKept

LEMMA PlanSteps ==
  ASSUME TypeOK, Next
  PROVE  PlansKept \/ \E t \in Runner : QueueBackupCommit(t)
<1>0. Thread \subseteq Runner /\ Scheduler \in Runner
  BY DEF Runner
<1>1. ASSUME UNCHANGED planVars PROVE PlansKept
  BY <1>1 DEF planVars, PlansKept
<1>2. ASSUME NEW n \in Node,
             \/ HandleRegister(n) \/ HandleReconnectCommand(n) \/ HandleDeleteNode(n)
             \/ HandleReconnect(n)
      PROVE  PlansKept
  BY <1>1, <1>2
  DEF HandleRegister, HandleReconnectCommand, HandleDeleteNode, HandleReconnect
<1>3. ASSUME NEW r \in Repo, HandleCreateRepository(r) \/ HandleDeleteRepository(r)
      PROVE  PlansKept
  BY <1>1, <1>3 DEF HandleCreateRepository, HandleDeleteRepository
<1>4. ASSUME NEW k \in Task, HandleDeleteTask(k) PROVE PlansKept
  BY <1>4 DEF HandleDeleteTask, PlansKept, TypeOK
<1>5. ASSUME NEW c \in CmdId, HandleCancelOperation(c) PROVE PlansKept
  <2>1. "cancelled" \in Terminal
    BY DEF Terminal
  <2> QED
    BY <1>5, <2>1, StatusKept DEF HandleCancelOperation
<1>6. ASSUME NEW t \in Thread, BeginSomething(t) PROVE PlansKept
  <2>1. UNCHANGED planVars
    BY <1>6, BeginSomethingShape
  <2> QED
    BY <1>1, <2>1
<1>7. ASSUME NEW t \in Thread, NEW k \in Task, CreateTaskCommit(t, k)
      PROVE  PlansKept
  BY <1>7 DEF CreateTaskCommit, PlansKept, TypeOK
<1>8. ASSUME NEW t \in Thread, UpdateTaskCommit(t) PROVE PlansKept
  BY <1>8 DEF UpdateTaskCommit, PlansKept, TypeOK, TaskRecord
<1>9. ASSUME NEW t \in Runner, RestoreCommit(t) \/ ConfigureCommit(t)
      PROVE  PlansKept
  BY <1>1, <1>9 DEF RestoreCommit, ConfigureCommit
<1>10. ASSUME NEW t \in Runner,
              \/ DeleteBackupCommit(t) \/ DeleteBackupFails(t)
              \/ HeartbeatCommit(t) \/ ClaimNothing(t) \/ DeliveryFails(t)
              \/ ClaimCommand(t) \/ DeliverCommand(t)
       PROVE  PlansKept
  BY <1>1, <1>10
  DEF DeleteBackupCommit, DeleteBackupFails, HeartbeatCommit, ClaimNothing,
      DeliveryFails, ClaimCommand, DeliverCommand
<1>11. ASSUME NEW t \in Runner, HandleCommandResult(t) PROVE PlansKept
  <2>1. pending[t].status \in Terminal
    BY <1>11, RequestFields DEF HandleCommandResult, TypeOK
  <2>2. CASE pending[t].cmd \in queue /\ command[pending[t].cmd].node = pending[t].node
    BY <1>11, <2>1, <2>2, StatusKept DEF HandleCommandResult
  <2>3. CASE ~(pending[t].cmd \in queue /\ command[pending[t].cmd].node = pending[t].node)
    BY <1>1, <1>11, <2>3 DEF HandleCommandResult, planVars
  <2> QED
    BY <2>2, <2>3
<1>12. CASE SchedulerStep
  <2>1. CASE ExpireQueuedCommands
    <3>1. "failed" \in Terminal
      BY DEF Terminal
    <3> QED
      BY <2>1, <3>1, StatusKept DEF ExpireQueuedCommands
  <2>2. CASE TickSnapshot
    BY <1>1, <2>2 DEF TickSnapshot
  <2>3. ASSUME NEW k \in Task, TickQueueBackup(k) PROVE PlansKept
    BY <1>1, <2>3 DEF TickQueueBackup
  <2> QED
    BY <1>12, <2>1, <2>2, <2>3 DEF SchedulerStep
<1>13. CASE Elapse
  BY <1>13 DEF Elapse, PlansKept, TypeOK, TaskRecord
<1>14. CASE Restart
  BY <1>1, <1>14 DEF Restart
<1>15. CASE AdminStep
  BY <1>0, <1>2, <1>3, <1>4, <1>5, <1>6, <1>7, <1>8, <1>9, <1>10, <1>15
  DEF AdminStep, BeginSomething
<1>16. CASE AgentStep
  BY <1>0, <1>2, <1>6, <1>10, <1>11, <1>16 DEF AgentStep, BeginSomething
<1> QED
  BY <1>12, <1>13, <1>14, <1>15, <1>16 DEF Next

\* Commands are only ever added, under the next id.
LEMMA CommandSteps ==
  ASSUME TypeOK, Next
  PROVE  \/ UNCHANGED <<next, command>> /\ queue' \subseteq queue
         \/ \E t \in Runner :
               \/ QueueBackupCommit(t)
               \/ /\ RestoreCommit(t) \/ ConfigureCommit(t)
                  /\ next' = next + 1 /\ next \in CmdId /\ queue' = queue \cup {next}
                  /\ command'[next].task = None
                  /\ \A c \in CmdId \ {next} : command'[c] = command[c]
<1>1. CASE Quiet
  BY <1>1 DEF Quiet
<1>2. ASSUME NEW n \in Node, HandleReconnect(n)
      PROVE  UNCHANGED <<next, command>> /\ queue' \subseteq queue
  BY <1>2 DEF HandleReconnect
<1>3. ASSUME NEW c \in CmdId, HandleCancelOperation(c)
      PROVE  UNCHANGED <<next, command>> /\ queue' \subseteq queue
  BY <1>3 DEF HandleCancelOperation, Remove
<1>4. CASE ExpireQueuedCommands
  BY <1>4 DEF ExpireQueuedCommands, Remove
<1>5. ASSUME NEW t \in Runner, RestoreCommit(t) \/ ConfigureCommit(t)
      PROVE  /\ next' = next + 1 /\ next \in CmdId /\ queue' = queue \cup {next}
             /\ command'[next].task = None
             /\ \A c \in CmdId \ {next} : command'[c] = command[c]
  <2>1. /\ next <= MaxCmd /\ next' = next + 1 /\ queue' = queue \cup {next}
        /\ \E cmd : cmd.task = None /\ command' = [command EXCEPT ![next] = cmd]
    BY <1>5 DEF RestoreCommit, ConfigureCommit, Enqueue
  <2>2. next \in CmdId /\ DOMAIN command = CmdId
    BY <2>1 DEF TypeOK, CmdId
  <2> QED
    BY <2>1, <2>2
<1>6. ASSUME NEW t \in Runner,
             ClaimCommand(t) \/ DeliverCommand(t) \/ DeleteBackupCommit(t)
      PROVE  UNCHANGED <<next, command>> /\ queue' \subseteq queue
  BY <1>6 DEF ClaimCommand, DeliverCommand, DeleteBackupCommit, queueVars
<1>7. ASSUME NEW t \in Runner, HandleCommandResult(t)
      PROVE  UNCHANGED <<next, command>> /\ queue' \subseteq queue
  BY <1>7 DEF HandleCommandResult, Remove, queueVars
<1> QED
  BY <1>1, <1>2, <1>3, <1>4, <1>5, <1>6, <1>7, Steps

\* Whoever takes a command out of the queue tells its plan, or cancels it.
LEMMA PlanIsTold ==
  ASSUME CommandInv, Next, NEW c \in queue, c \notin queue', NEW k \in tasks,
         command[c].task = k, k \in tasks', task'[k].lastStatus = "queued"
  PROVE  ops'[c] \in {"cancelled", "none"}
<1>1. TypeOK /\ c \in CmdId
  BY DEF CommandInv, TypeOK
<1>2. ~Quiet
  BY DEF Quiet
<1>3. ASSUME NEW n \in Node, HandleReconnect(n)
      PROVE  ops'[c] \in {"cancelled", "none"}
  <2>1. ops[c] \in {"none", "queued", "running"}
    BY <1>1 DEF CommandInv, OpMatchesCommand, Waiting, Running, TypeOK
  <2> QED
    BY <1>1, <1>3, <2>1 DEF HandleReconnect
<1>4. ASSUME NEW S \in SUBSET queue, NEW status \in Terminal, queue' = queue \ S,
             SetLastStatus(S, status), UNCHANGED tasks
      PROVE  FALSE
  <2>1. task'[k].lastStatus = status
    BY <1>1, <1>4, StatusKept
  <2> QED
    BY <2>1 DEF Terminal
<1>5. ASSUME NEW d \in CmdId, HandleCancelOperation(d) PROVE FALSE
  <2>1. "cancelled" \in Terminal /\ {d} \in SUBSET queue
    BY <1>5 DEF Terminal, HandleCancelOperation
  <2> QED
    BY <1>4, <1>5, <2>1 DEF HandleCancelOperation, Remove
<1>6. ~ExpireQueuedCommands
  <2>1. "failed" \in Terminal /\ Expired \in SUBSET queue
    BY DEF Terminal, Expired
  <2> QED
    BY <1>4, <2>1 DEF ExpireQueuedCommands, Remove
<1>7. ASSUME NEW t \in Runner,
             \/ QueueBackupCommit(t) \/ RestoreCommit(t) \/ ConfigureCommit(t)
             \/ ClaimCommand(t) \/ DeliverCommand(t) \/ DeleteBackupCommit(t)
      PROVE  FALSE
  BY <1>7
  DEF QueueBackupCommit, RestoreCommit, ConfigureCommit, Enqueue, ClaimCommand,
      DeliverCommand, DeleteBackupCommit, queueVars
<1>8. ASSUME NEW t \in Runner, HandleCommandResult(t) PROVE FALSE
  <2> DEFINE d == pending[t].cmd
             s == pending[t].status
  <2>1. s \in Terminal
    BY <1>1, <1>8, RequestFields DEF HandleCommandResult, TypeOK
  <2>2. d \in queue /\ command[d].node = pending[t].node
    BY <1>8 DEF HandleCommandResult, queueVars
  <2>3. queue' = queue \ {d} /\ SetLastStatus({d}, s) /\ UNCHANGED tasks
    BY <1>8, <2>2 DEF HandleCommandResult, Remove
  <2> HIDE DEF d, s
  <2> QED
    BY <1>4, <2>1, <2>2, <2>3
<1> QED
  BY <1>1, <1>2, <1>3, <1>5, <1>6, <1>7, <1>8, Steps

LEMMA PlanInvStep ==
  ASSUME PlanInv, Next
  PROVE  PlanInv'
<1>1. TypeOK /\ CommandInv /\ CommandInv' /\ TypeOK'
  BY CommandInvStep DEF PlanInv, CommandInv
<1>2. /\ QueuedPlanHasCommand /\ \A c \in Unborn : command[c].task = None
      /\ next \in Nat /\ tasks \subseteq Task /\ None \notin Task
      /\ queue \subseteq CmdId \ Unborn
  BY <1>1, NoneAssumption DEF PlanInv, TypeOK, CommandInv, IdsFresh, CmdId
<1>3. \A k \in Task, c \in CmdId : command[c].task = k => c < next /\ c \notin Unborn
  BY <1>2 DEF Unborn, CmdId
\* A command that was the newest of a plan that still shows "queued".
<1>4. ASSUME NEW k \in tasks, NEW c \in CmdId, command[c].task = k,
             c \in queue \/ ops[c] \in {"cancelled", "none"},
             k \in tasks', task'[k].lastStatus = "queued"
      PROVE  c \in queue' \/ ops'[c] \in {"cancelled", "none"}
  <2>1. c \notin Unborn
    BY <1>2, <1>3, <1>4
  <2>2. CASE c \in queue
    BY <1>1, <1>4, <2>2, PlanIsTold
  <2>3. CASE c \notin queue
    BY <1>1, <1>4, <2>1, <2>3, SettledStep
  <2> QED
    BY <2>2, <2>3
<1>5. ASSUME NEW t \in Runner, QueueBackupCommit(t) PROVE PlanInv'
  <2> DEFINE p == pending[t]
  <2>1. /\ next \in CmdId /\ next' = next + 1 /\ queue' = queue \cup {next}
        /\ command'[next].task = p.task
        /\ \A c \in CmdId \ {next} : command'[c] = command[c]
        /\ UNCHANGED tasks
    BY <1>1, <1>5 DEF QueueBackupCommit, Enqueue, TypeOK, CmdId
  <2>2. \A c \in Unborn' : command'[c].task = None
    BY <1>2, <2>1 DEF Unborn, CmdId
  <2>3. \A k \in tasks \ {p.task} : task'[k] = task[k]
    BY <1>1, <1>5 DEF QueueBackupCommit, TypeOK
  <2> HIDE DEF p
  <2>4. ASSUME NEW k \in tasks', task'[k].lastStatus = "queued"
        PROVE  \E c \in CmdId : /\ command'[c].task = k
                                /\ \A d \in CmdId : command'[d].task = k => d <= c
                                /\ c \in queue' \/ ops'[c] \in {"cancelled", "none"}
    <3>1. k \in Task /\ k \in tasks
      BY <1>2, <2>1
    <3>2. CASE k = p.task
      <4>1. \A d \in CmdId : command'[d].task = k => d <= next
        BY <1>2, <1>3, <2>1, <3>1 DEF CmdId
      <4> QED
        BY <2>1, <3>2, <4>1
    <3>3. CASE k # p.task
      <4>1. PICK c \in CmdId : /\ command[c].task = k
                               /\ \A d \in CmdId : command[d].task = k => d <= c
                               /\ c \in queue \/ ops[c] \in {"cancelled", "none"}
        BY <1>2, <2>3, <2>4, <3>1, <3>3 DEF QueuedPlanHasCommand
      <4>2. c # next /\ command'[c].task = k
        BY <1>2, <1>3, <2>1, <3>1, <4>1
      <4>3. \A d \in CmdId : command'[d].task = k => d <= c
        BY <2>1, <3>3, <4>1
      <4>4. c \in queue' \/ ops'[c] \in {"cancelled", "none"}
        BY <1>4, <2>4, <3>1, <4>1
      <4> QED
        BY <4>2, <4>3, <4>4
    <3> QED
      BY <3>2, <3>3
  <2> QED
    BY <1>1, <2>2, <2>4 DEF PlanInv, QueuedPlanHasCommand
<1>6. ASSUME PlansKept,
             \A c \in CmdId : command'[c] = command[c]
                 \/ (c = next /\ next' = next + 1 /\ command'[c].task = None),
             next' \in {next, next + 1}
      PROVE  PlanInv'
  <2>1. \A c \in Unborn' : command'[c].task = None
    BY <1>2, <1>6 DEF Unborn, CmdId
  <2>2. ASSUME NEW k \in tasks', task'[k].lastStatus = "queued"
        PROVE  \E c \in CmdId : /\ command'[c].task = k
                                /\ \A d \in CmdId : command'[d].task = k => d <= c
                                /\ c \in queue' \/ ops'[c] \in {"cancelled", "none"}
    <3>1. k \in tasks /\ k \in Task /\ task[k].lastStatus = "queued"
      BY <1>2, <1>6, <2>2 DEF PlansKept
    <3>2. PICK c \in CmdId : /\ command[c].task = k
                             /\ \A d \in CmdId : command[d].task = k => d <= c
                             /\ c \in queue \/ ops[c] \in {"cancelled", "none"}
      BY <1>2, <3>1 DEF QueuedPlanHasCommand
    <3>3. c < next /\ command'[c].task = k
      BY <1>2, <1>3, <1>6, <3>1, <3>2 DEF CmdId
    <3>4. \A d \in CmdId : command'[d].task = k => d <= c
      BY <1>2, <1>6, <3>1, <3>2
    <3>5. c \in queue' \/ ops'[c] \in {"cancelled", "none"}
      BY <1>4, <2>2, <3>1, <3>2
    <3> QED
      BY <3>3, <3>4, <3>5
  <2> QED
    BY <1>1, <2>1, <2>2 DEF PlanInv, QueuedPlanHasCommand
<1>7. CASE \E t \in Runner : QueueBackupCommit(t)
  BY <1>5, <1>7
<1>8. CASE ~ \E t \in Runner : QueueBackupCommit(t)
  <2>1. PlansKept
    BY <1>1, <1>8, PlanSteps
  <2>2. /\ \A c \in CmdId : command'[c] = command[c]
               \/ (c = next /\ next' = next + 1 /\ command'[c].task = None)
        /\ next' \in {next, next + 1}
    BY <1>1, <1>8, CommandSteps
  <2> QED
    BY <1>6, <2>1, <2>2
<1> QED
  BY <1>7, <1>8

\* A plan that shows "queued" has its newest command in the queue, or lost it
\* with the machine that held it: whoever else takes a command out of the queue
\* tells the plan.
THEOREM QueuedPlansAreTold == Spec => []QueuedPlanHasCommand
<1>1. Init => PlanInv
  <2> SUFFICES ASSUME Init PROVE PlanInv
    OBVIOUS
  <2>1. QueuedPlanHasCommand /\ \A c \in CmdId : command[c].task = None
    BY DEF Init, QueuedPlanHasCommand, NoCommand
  <2> QED
    BY <2>1, CommandInvInit DEF PlanInv, Unborn
<1>2. PlanInv /\ [Next]_vars => PlanInv'
  <2> SUFFICES ASSUME PlanInv, UNCHANGED vars PROVE PlanInv'
    BY PlanInvStep
  <2>1. CommandInv'
    BY CommandInvStutter DEF PlanInv
  <2> QED
    BY <2>1 DEF vars, nodeVars, planVars, queueVars, PlanInv, QueuedPlanHasCommand, Unborn
<1>3. PlanInv => QueuedPlanHasCommand
  BY DEF PlanInv
<1> QED
  BY <1>1, <1>2, <1>3, PTL DEF Spec
===========================================================================
