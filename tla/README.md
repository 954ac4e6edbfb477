# A TLA+ verification of vbakup

vbakup backs up and restores Linux servers. A *controller* keeps nodes, backup
plans, repositories (WebDAV accounts) and the index of backups, and queues
commands. An *agent* on every node polls for commands, archives or restores the
machine, and talks to the repositories directly. This directory models the
program's core in TLA+, model-checks it with TLC on small instances, and proves
its most important invariants with TLAPS for all instances.

## Inventory

| component | source | state | operations |
|---|---|---|---|
| handlers of the panel | `cmd/controller/server.go` | none of their own; `model.State` behind the store | register/reconnect/delete node, create/delete repository, create/update/delete plan, run now, restore, configure, cancel, delete backup |
| handlers of the agents | `server.go` 840-1064 | the same | heartbeat, poll (claim and deliver a command), result |
| scheduler | `cmd/controller/scheduler.go` | the same | every tick: mark silent nodes, expire queued commands, queue the backups that are due |
| store | `internal/store` | `State` in memory, `state.json`, `state.json.tmp` | `Open`, `Snapshot`, `Update` |
| agent loop | `cmd/agent/main.go` 56-196 | `results.json`, the command in hand | heartbeat, poll, execute, save, report, clear |
| backup job | `internal/agent/archive.go`, `main.go` 197-352 | services and containers of the machine, the archive, the remote object | pause, walk, resume, manifest, upload, wait, verify |
| restore job | `internal/agent/restore.go`, `main.go` 354-547 | services, files, projects and databases of the machine | download, unpack, stop, copy, enable, restart, compose, import |
| paths and extraction | `archive.go` 197-618, `main.go` 467-610 | the archive, the unpacked stage, the tree under `/` | normalise and exclude paths, tar and untar, copy over the host |
| sessions | `server.go` 100-175, 511-556, `cmd/controller/main.go` | sessions, password and epoch in memory, password and epoch in the state | choose a password at launch, login, logout, change password, revoke |
| WebDAV client | `internal/webdav` | the objects and directories of a repository | MKCOL, PUT, HEAD/PROPFIND size, GET, DELETE, usage |
| vault, id | `internal/vault`, `internal/id` | `master.key` | make or read the key, encrypt, random ids |
| discovery | `discover.go` | none | parse command output |
| panel, scripts | `assets/`, `scripts/` | none, systemd units | requests, installation, upgrade |

How they interact. Every handler runs on a goroutine of its own; the store is
the only state the handlers and the scheduler share. A handler reads it with
`Snapshot` and changes it with `Update`; each holds the lock once, nothing holds
it across both. Agents only ever call the controller: a command travels in the
response of a poll, its result in a later request, and either may be lost. A
command and the entry on the operations page that shows it are joined only by an
`operation_id` in the command's payload; a command and its plan only by a copy
of the plan. A machine that is installed with a reconnect command takes a node
over from another machine, which keeps running with an old token.

What is hard, and the properties that make each component correct:

- *Queue.* Check-then-act between `Snapshot` and `Update`; a claim is stored
  before the command is delivered; a claimed command is offered again after 30
  minutes; stop, timeout (10 minutes), answer, reconnect, deletion and
  truncation of the page compete for the same command. The page must agree with
  the queue; an outcome must be final; a stopped command must never reach a
  node; a repeated answer must not record a backup twice or bring back a deleted
  one; every command must end.
- *Store.* Any step of writing may fail or be the last one. What an `Update`
  acknowledged must survive; a reader must never see half a state.
- *Agent loop.* It dies, cannot save, or loses a response at any step. A backup
  or restore must not be repeated without need, and a repeated report must say
  the same as the first.
- *Jobs.* A dozen external commands, each of which may fail, and an agent that
  may be killed. Services must come back, success must mean success.
- *Sessions.* The password and the epoch exist twice, in memory and in the state,
  and are changed in two steps and in different orders. What a launch takes for the
  password must be what was stored last; a token must not outlive a revocation.
- *Repository.* Upload, index and deletion are three parties without a common
  transaction. What is listed must be there, what is not listed must be bounded, a
  deletion that stopped half-way must be repeatable.
- *Files.* Roots overlap and exclusions are nested; the machine is written to while
  it is read; a copy over `/` may stop anywhere and be repeated. An archive must hold
  what it should and nothing twice; a restore must touch nothing else.

`PROJECT.json` lists each hazard with its line and the properties about it.

## Modules

| module | models | extends / instantiates |
|---|---|---|
| `Controller` | all state-changing handlers and the scheduler | refines `CommandLifecycle` |
| `CommandLifecycle` | what is promised of one command | |
| `Agent` | the loop of every host, over an abstract controller | |
| `System` | hosts and controller joined by lossy requests | extends `Controller`, instantiates `Agent` |
| `Store` | the steps of `Update`, failures and death of the process | refines `AtomicStore` |
| `AtomicStore` | what is promised of the store | |
| `Sessions` | a launch's password, sessions, changes and revocations, `master.key` | extends `Store`, so refines `AtomicStore` |
| `WebDAV` | names and hrefs, the two ways of `Usage` (no state) | |
| `Repository` | a repository's objects, the agents that upload, the index, deletions | extends `Agent`, `WebDAV` |
| `BackupJob` | one machine and the backups made of it | |
| `RestoreJob` | one machine and the executions of a restore | |
| `Archive` | the walk of a backup, path by path, on a machine that changes | |
| `Extraction` | unpacking and the copy over a host, path by path | extends `Archive` |
| `*_proofs` | theorems about the module of that name (`Sessions_proofs` about `Store` too, `Extraction_proofs` about `Archive`) | extend the component; `System_proofs` extends `Controller_proofs` and instantiates `Agent_proofs` |
| `MC*` | symmetry sets, trees and roots for TLC | extend the component |

Definitions named in a comment as `Mutant:` are plausible bugs of the definition
after them; no specification uses them. They show that a property
is able to fail: with the mutant in the definition's place TLC finds the property violated.

### Controller

Variables are the fields of `model.State` that decisions depend on, named in the
module. A handler that calls `Snapshot` and then `Update` is two actions;
`pending[t]` holds what its closure carries from one to the other. A handler
that calls `Update` alone is one action. So the interleavings of the model are
those of the lock: between the two actions of a handler anything else may
happen. A restart empties `pending` and `due`, which is all the memory there is;
`Store` justifies that the rest survives.

Choices of abstraction:

- Names, notes, messages, resources, addresses and `Node.Status` are left out:
  no decision reads them (whether a node is online is computed from `LastSeen`).
- Times are ages that `Elapse` advances and that stop one past the threshold
  they are compared to. Only the order of the thresholds matters and is an
  assumption (90 s < 10 min < 30 min, 10 min < the shortest interval). `Elapse` does not
  fall between the clock reading of a tick and its `Update`, a few instructions apart.
- All plans have one interval; `Interval` is any number above the queue timeout.
- The two lists `Commands` and `Operations` are a set and a function by id: ids
  are given in queue order, so "first claimable" is the least id and "newest
  200" the highest `OpsLimit` ids. The operation has its command's id.
- `backups[c]` counts the entries recorded for command `c`, so that two would be seen.
- Identities are used once (`used`), as random ids are.
- An agent may answer only commands it was delivered, with the statuses its code
  has (`Answers`). `System` shows this covers the real agents.

### System

A host's HTTP request begins a handler on a thread, and the handler's last step
answers the host if it still waits (`waits`). `GiveUp` ends the wait at any
moment while the handler runs on, which covers both a lost request and a lost response, and
makes two requests of one host overlap. A request begins only with a token that matches
(`owner`); the `Update` that follows does not look again, as in the code.
`SysSpec` is checked, and proved, to implement `Spec` of `Controller` and `AgentSpec` of
`Agent`: each module's assumption about its environment is discharged by the
composition (`Agent` assumes that a result acknowledged to a host ends the
command for it; in `System` hosts use `Receives` without that assumption).

`runs`, `lost` and `acked` are history variables of the properties.

### Store

The value of the state is the set of changes applied to it. Each step of
`Update` (encode, truncate, write, rename, return) may be the last one of the
process or fail; `Reopen` is what `Open` reads. A crash is the process's: what
was written to a file stays, as the code has no fsync and the model makes no
claim about a power failure.

### Sessions

`main` reads or makes `master.key`, chooses the password, perhaps stores it, and
serves; `Kill` ends it at any step and `Reopen` of `Store` begins the next launch. A
handler's `Update` is the sequence of steps of `Store`, so a change of the password
may fail after it is visible, be written by a later update, or be cut off. `ticket`
orders the changes; the state's password is the one with the highest ticket, its
epoch the number of changes. A request is used once; `Login` stands for a token.
The deadlock check is off: requests are used up, and a short key stops the program.

### WebDAV and Repository

An object is named after the host, the command and the execution that uploaded it
(`remote` has the plan's id and the second). The hosts are those of `Agent`, with the
repository's step inside each of theirs: `Upload` within an execution, `SaveResult` with
the name in `results.json`. `handleDeleteBackup` is three steps (snapshot, DELETE,
`Update`), and each may fail or be the last. The tree does not change
while the usage is read; `UsageIsComplete` asks for every state of the repository what
either way of `Usage` answers.

### Archive and Extraction

A path is a sequence of parts, the machine a node (directory with mode, file with a
body, link, socket) per path, closed under parents. A walk is the set of paths
still to visit: a directory adds its children, so parents come first and siblings in any
order (`filepath.Walk` takes them by name; no property depends on it). Owners and times
are set together with modes and are left out. A file is open while it is
copied, and `reading` holds what `fstat` saw, what the descriptor holds now and
whether the file still has its name: `Rewrite` and `Replace` are the rest of the machine.
`wrote` and `inPlace` are history variables.

`Extraction` unpacks and copies. `Implied` are directories no entry names; their
mode is that of `MkdirAll`'s caller. `CopyStops` is an error or the death of the
agent at any step, after which the command is executed again. `before` is the
host's tree before the first execution. The host's links lead to files: copying through
a host's link to a directory is not modelled.

### BackupJob and RestoreJob

Services and containers run or do not; only the job changes them. A command on a unit succeeds
or fails; a failed stop or restart may leave the unit either way. BackupJob takes
the reading of all paths as one step that may fail, and forgets warnings on the
error path, as the deferred functions of `createArchive` do. The repository may
show an upload late, in part or damaged. RestoreJob treats the tree under `/` as
old, mixed or new; a project or a dump is brought back or makes a warning. The
lookup whether a unit exists may fail or say no. Dependencies between services
(systemd stopping one for another) are not modelled. `before` and `intended` are
history variables.

## Runs

All cfgs keep the deadlock check on but that of `sessions`. The thresholds are 0, 1 and
2 (online, queue, claim): the least that keep their order.

| run | instance | what it shows |
|---|---|---|
| `command_queue` | 1 node, repository, plan, request; 2 commands; page of 1 | the page and the plan's status follow the queue; outcomes are final |
| `concurrent_requests` | the same with 2 requests, 1 command, 1 restart | one record per command, no delivery after a stop, no return of a deleted backup, the inductive invariant, the refinement of `CommandLifecycle` |
| `repository` | 2 hosts, 1 command, 2 statuses, 1 loss, 2 deletions | repetition only after a loss, reports agree; index and repository agree, orphans are losses, deletions can be finished, usage is complete |
| `system` | 2 hosts, 1 thread, 1 command, 1 restart | redelivery does not repeat work; what the index records some host has made; `Agent` is implemented |
| `system_progress` | 1 host, 1 loss, fairness | every queued and every running command ends; `Controller` is implemented |
| `sessions` | 2 launches, 2 changes, 1 revocation, 1 login | durability and drift of the store, its refinement of `AtomicStore`; the password in force and the tokens accepted |
| `backup_job` | 2 applications, 1 database, 1 container | services are down only while paths are read; success is readable |
| `restore_job` | 1 service per priority, 1 project, 1 dump, all manifests | success is complete; nothing stays down behind a success; order and quiet |
| `files` | 13 paths, 4 sets of roots, 1 write or failed read, 2 hosts | the archive is exact and without doubles, damage is in place and warned of; a restore changes only what is archived, and all of it; from machine to machine nothing wanted is lost without a warning |
| `killed_backup` | as `backup_job` | an agent killed while archiving leaves services down for good (violation) |
| `usage_walk` | 1 host, 1 deletion, a URL with a path | the fallback of `Usage` fails (violation) |
| `parent_modes` | as `files` | a restore changes the modes of directories that were not backed up (violation) |

Why the bounds are enough to be interesting. Two commands allow every race
between a command and its successor (duplicate backups, truncation of the page
by the second, redelivery of the first while the second waits); two requests
allow every pair of handlers between their snapshot and update, beside the
scheduler's own; one restart and one loss cover recovery from any state, and the
proofs lift the safety properties to any number of each. Nodes, plans and
repositories only meet through equality, so one of each suffices where a
property does not relate two. Two launches are the least in which something
stored is read again, two changes of the password the least that overlap. Two hosts and
two deletions are what one command and one entry can be fought over by. The
thirteen paths have a directory of each treatment (kept, excluded, Docker's, volumes,
the host's own), every kind of node, and roots above, below and equal to
one another; one of the hosts lacks most of it, the other has other kinds of nodes in the
same places. The symmetry sets permute identities that no definition tells apart; runs with
liveness use none.

### Fairness

`SysFairness` assumes that time passes (`SF` on `Elapse`: it is disabled for the
instants of a tick), that the scheduler's goroutine and every handler's
goroutine run (`WF`; Go schedules runnable goroutines, and every lock is held
for a bounded time), and that a host's loop runs (`SF`: it needs a free handler,
and `loop` never returns). `Calm` says that disturbances (lost requests, unreadable files,
killed agents) end at some point, without which no protocol makes progress;
the failure of a delivery because its repository is gone is not counted as a
disturbance. Nothing is assumed of users: they may keep sending requests, and
need not. Liveness is stated only of commands (`QueuedIsSettled`,
`RunningIsSettled`).

`RepositoryFairness` assumes that an administrator who asked for a deletion asks
again while the entry is listed, and that neither the server's DELETE nor the save of
the state fails for ever; nothing is assumed of the agents.

### Where the program differs from its texts

- `killed_backup`: the README says services run again after archiving; nothing on
  disk records which ones were paused, and the next backup's discovery takes them
  for services that were not running. (The automatic upgrade restarts the agent.)
- `usage_walk`: the walk that is the "compatible fallback" of `Usage` takes hrefs, which are
  paths from the server's root, for names below the repository's URL. For
  `https://host/dav` it asks for `/dav/dav` and fails.
- `parent_modes`: a restore sets the mode, owner and times of directories that were never
  backed up: those above a root. With the discovered root `/usr/bin/xray` alone,
  `/usr` and `/usr/bin` get mode 0750.

Seen while modelling, without a run of their own: run-now and a tick may both pass the check and queue two
backups of a plan; `handleUpdateTask` and `handleCreateTask` may save a plan whose
node or repository was just deleted; a repository whose plan moved away can be deleted while
a backup into it is under way; a replaced machine whose poll was authenticated before
the takeover may claim a command queued after it; a change whose `Update` failed to write
stays in memory and is written by the next one (`DriftIsFailed` bounds this).
A node whose restore is already running can be deleted, although the panel says it
cannot, and the operation then stays running. A claim is stored before the
repository's credentials are looked up: if the repository is gone, the command is
shown running, reaches no node, and can be neither stopped nor expired.

Of sessions: every change of the epoch also empties the map of sessions, so the epoch
decides nothing; a login that checked the old password before a change and gets its token
after it keeps the token; a change that was answered with an error may be in force
after a restart; two overlapping changes may leave another password in
memory than on disk until the next launch (`PasswordInForce` bounds all of these). A
controller killed while it first writes `master.key` does not start again.

Of repositories: after a lost response `results.json` keeps its entry for ever; a
backup can be deleted while a restore of it is queued.

Of files: a configured root that is a link is archived as the link alone, while roots below
it are dropped; a file restored in the place of a host's link is written through it; a link
in the place of a directory that is not empty ends the restore; pipes and devices are
archived and not restored; a file rewritten in place during the copy may be archived
as a mixture without a warning (`WholeUnlessWrittenInPlace` says when). A dump's file
name leaves dots and all after 48 characters out of the container's name: two such names
share a file, and a failing second dump removes the first's.

## Proofs

`Controller_proofs`. `TypeOK`, then `CommandInv`, are inductive. `OpMatchesCommand` and
`OneRecordPerCommand` are not on their own: an answer in flight could be for a
command that was never delivered, a delivery for one never claimed. `CommandInv`
adds that ids not yet given are unused (`IdsFresh`), that what is delivered or
being delivered was claimed (`DeliveryAfterClaim`), and that what is being
answered was delivered (`AnswerAfterDelivery`). A lemma per group of actions
shows it is preserved. The action properties `TerminalStatusFinal`,
`StoppedNeverDelivered` and `DeletedBackupStaysDeleted` and the refinement
`ImplementsLifecycle` follow step by step from it, each action mapped to the
lifecycle's step or a stutter. Assumptions: the five named `ASSUME`s of
`Controller`, nothing about the sizes of its sets.

`CommandLifecycle` has promises of its own (`LifecyclePromises`): the page shows the stage, what
was handed over was taken, what is recorded was handed over and has ended, and no stage comes
back (`CommandsGoOn`). They are proved from `Lifecycle!Spec` alone, without unfolding the mapping,
and reach the controller through the refinement. `PromisesAreVisible` does the same for
`AtomicStore`.

`Agent_proofs`. `AgentInv` says of each execution that it is in progress, saved,
acknowledged or lost; counting them gives `RepeatedOnlyAfterLoss`. It needs the
promise of `PollReceives`, which `ImplementsAgent` checks of the composition.

`System_proofs`. `SysInv` joins the invariants of both sides by what is between
them. `WaitsFit`: the handler a host waits for serves what the host asked, what it is about to
deliver was not acknowledged, and nobody else waits for it. `InHand`, `OnFile`: what a host
holds or has saved was delivered to its node, and what it knows to be recorded has left the
queue; as ids are not given twice, it stays out. So a claim never picks a command its host was
acknowledged for, which is what `Agent` assumes. `AnswersVouched`: a
result in flight was saved by its host, and the file keeps it until the
acknowledgement (`SavedStands`, from `Agent_proofs`); so does the index,
`RecordedIsSaved`. That the controller's variables are only changed in ways that keep all
this (`Grown`, `LeavesAgentsAlone`) is shown action by action; that each step is one of
`Controller` and one of `Agent`, or leaves it alone, gives `CommandInv` and `AgentInv` from
the proofs of the two sides, and both refinements. The theorems hold for any number
of handlers at work at once, where the run `system` has one. So what was proved of each side holds
of the whole (`SystemImplementsLifecycle`, `SystemKeepsPromises`). `ExecutedIsDelivered` (a host
executes only what was handed out, for its own node) joins the two: with `delivered \subseteq
claimed` and the order of stages it gives `WithdrawnIsNeverExecuted`, a promise about hosts that
neither side can state.

`QueuedPlansAreTold` (`Controller_proofs`) needs, beside `CommandInv`, that an id not yet given
belongs to no plan (`PlanInv`).

`Sessions_proofs`. `StoreInv` ties the step of the `Update` that holds the lock to
memory, temporary file and disk; durability, bounded drift and the
refinement of `AtomicStore` follow. The refinement mapping hides the change
being made (`Visible`): a reader waits for the lock. Every step of the server is a step of the
store or leaves it alone, so all that holds of it there. `SessionsInv` adds what
each step of a launch has established (`MainInv`), that the order of `Update`s is the order of
tickets (`TicketInv`), that a password stored after that of a change still in progress
overlapped it (`RacingInv`: without it, nothing ties memory to disk while a change is between
its two steps), that the map holds only tokens of the current epoch
(`SessionInv`), and that what is stored is encrypted with the key in force (`SealedInv`).

`Repository_proofs`. `RepositoryInv` follows an object's name from the execution that uploaded
it to `results.json`, the result and the index (`Names`), and says that a name a host still
carries with success is that of an intact object, unless its deletion began (`Kept`), and that
what was deleted no execution in progress will upload again (`EntryNames`, `Before`).
A count of executions then bounds the orphans by the losses. Every step is one of `Agent`.
`UsageCounts` is about `usageWalk`, which `WebDAV` writes as a recursive function on the number of
directories visited. That such a function exists, and what it has counted after each visit, is
shown without an induction theorem: a least number for which it fails would have a
predecessor for which it holds (the naturals are well-founded). `DirectoriesFit` says that every object's directories were
made before it. The theorem assumes `Base = <<>>`, and `FallbackNeedsRoot` says why:
without it the fallback fails as soon as something is stored, which is the finding of `usage_walk`.

`Extraction_proofs`, which is also about `Archive`. The walk and the copy are not inductions
over a tree but invariants about the set of paths still due. `ArchiveInv`: nothing is
archived at or below a path still to visit, no such path is below another (so nothing is archived
twice), and what is wanted is archived, named by a warning or below one still to visit
(`Ahead`, `Accounted`). `CopyInv`: the stage holds the entries and the directories above
them, and what was archived is restored, being written, a directory whose mode is still to be set, or
below a path still to copy. The facts about paths they need (prefixes are
an order, parents are shorter) are lemmas about sequences. `MigratesAsItWas` joins both ends,
the old machine's tree and the new one's. Which directories lose their modes (`parent_modes`)
is settled from both sides: only those above an entry that have none themselves
(`ModesChangeAboveEntries`, with `TopStands` for what is never opened), and
all of these that are not the host's own (`ModesAboveAreReplaced`, with `AboveFits` for how far the copy has come).

`BackupJob_proofs`, `RestoreJob_proofs`. The inductive invariants say, for each
loop over units, that what is no longer to do is done, or made a warning.
RestoreInv also says that the stop loop touches only units the restart loop
brings back; that is what makes `NothingSilentlyStopped` hold across executions
that failed or were killed. `IntendedUnitsRun`, which `killed_backup` violates, is proved of the
behaviours in which no stop or start fails and no kill falls into the archiving
(`OnlyKillsLeaveUnitsDown`): nothing else leaves a unit down, neither a walk, a manifest or an upload that
fails nor a kill at another time.

Only model-checked: liveness (`QueuedIsSettled`, `RunningIsSettled`, `DeletionCompletes`), which is
out of the prover's reach. All other properties of the passing runs are proved, and for each of the three
violated ones a theorem says when it holds. `UsageCounts` and `FallbackNeedsRoot` have an
assumption of their own on `Base`; all others have none but the named `ASSUME`s. The inductive
invariants themselves were checked by TLC too while the proofs were made, `SysInv` also with two
handlers and one host.

## Not modelled, and the plan

Not modelled because it is data or I/O: discovery (parsing the output of
commands), the cipher of the vault, random ids, the panel's pages, the
installation scripts beyond registration and takeover, resource statistics, the XML of
WebDAV listings and the parsing of its URL, database dumps and compose metadata.
Not modelled although they are control: the dependencies systemd follows between services
(the code does not know them), the single steps of `PrepareRestoreRuntime`, and
copying through a host's link to a directory.

The plan, in order:

1. *Done:* `Controller` with `CommandLifecycle`; `Agent` and `System`; `Store` with
   `AtomicStore`; `BackupJob`; `RestoreJob`; their runs and safety proofs.
2. *Done:* `Sessions` on the steps of `Store`; `WebDAV` and `Repository` on those of
   `Agent`; `Archive` and `Extraction`; their runs and proofs.
3. *Done:* the invariant of `System` and both of its refinements for any number of
   handlers; `QueuedPlanHasCommand` for any number of requests.
4. *Done:* the usage walk; a migration from tree to tree; the boundaries of the three findings; the
   promises of the abstract specifications and what follows from them for the whole.
5. Open: the manifest as the link between `Archive` and `RestoreJob` (now any manifest), and
   dumps and projects path by path. Discovery would come with them: what it misses is neither
   archived nor restarted.
