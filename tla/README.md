# TLA+ specifications of iFlyGo

iFlyGo is an upgrade-control platform (hosts, components, artifacts, staged
upgrade tasks, agents) combined with a Nebula-based overlay network. This
directory keeps TLA+ modules translated from the Go sources, TLC
configurations that check them on small instances, and TLAPS proofs.

    tlc -config RolloutStaged.cfg MCRollout     # one run
    tlc -config DeleteJobs.cfg MCDeleteJob
    tlc -config AgentFailover.cfg MCAgentConn
    tlc -config Fleet.cfg MCFleet               # enrolment ... output
    tlc -config Platform.cfg MCPlatform         # rights ... settings
    tlc -config Services.cfg MCServices         # files ... migrations
    tlapm RolloutProofs.tla                     # the proofs

`PROJECT.json` lists the components with what is modelled of each, the runs,
the source lines behind every definition (`map`), the hazards the properties
are aimed at, the theorems and the findings.

## 1. The system and its parts

| Part | State | Operations | What is hard | Modules |
|---|---|---|---|---|
| task store (`migrate/`, PostgreSQL or SQLite) | `upgrade_tasks`, `task_batches`, `task_hosts`, `commands`, `hosts.maintenance_*`, `agents.signature_modes` | SQL statements and transactions | two clocks, one-second timestamps on SQLite, READ COMMITTED | TaskStore |
| task API (`logic/task/dispatch.go`, `retry.go`) | none of its own | Start, Promote, Pause, Cancel, Retry | runs between any two statements of the orchestrator | TaskApi |
| orchestrator (`logic/task/orchestrator.go`) | locals of a round | every 5 s: reconcile, read open tasks, advance each | stale reads, swallowed errors, crash between statements | Orchestrator, Rollout |
| agent gateway (`logic/agentgw`) | none of its own | Dequeue, Ack, EnterMaintenance, UpdateStage, Report, ReconcileTasks | late, lost and repeated requests; leases; retried hosts | Gateway |
| delete jobs (`logic/task/delete*.go`) | `task_delete_jobs` | create, claim, delete in chunks, cancel | crash and resume, counters, overlapping jobs | DeleteJob |
| task creation (`logic/task/task.go`), rights (`logic/org`) | roles, teams, groups, grants, tasks | authorize, match hosts, check groups, split into batches | every check is a statement of its own | Access |
| agent (`agent/agentrun`) | credentials, undelivered reports, server address (state file) | register, heartbeat, poll, execute, report, fail over | process death, restarts, several addresses | AgentConn, Gateway, AgentOutput |
| executor (`agent/executor`, `downloader`, `binswap`) | installed file, backup, temporary file, service | download, back up, hooks, stop, replace, run, start, verify, roll back | failure or death in the middle | Executor |
| self update and watchdog (`agent/selfupdate`, `binswap`, `watchdog`) | program, backups, run lock, crash counter | swap, restart, count silence, roll back | two processes, a counter in a file of others | SelfUpdate |
| state file (three writers) | path, temporary name, inodes | write, rename | writers that meet or die | StateFile |
| output and log (`executor/command.go`, `agentlog`) | posted chunks, log and its backups | post, rotate, follow | two streams, a file cut under its reader | AgentOutput |
| enrolment (`handler/agent*.go`) | tokens, hosts, credentials | issue, rotate, revoke, register, move from loopback | lost answers, registrations that meet | Enrolment |
| connection address (`handler/tunnel_check.go` ...) | override, verdict, request | edit, import, probe by platform and agent, test | probes, tests and edits that meet | TunnelCheck |
| agent update (`logic/agentupdate`) | published build, `self_update` commands | order, automatic order, confirm, reap | races with the commands of tasks | AgentUpdate |
| host removal (`handler/host_manage.go`, `host_delete_job.go`) | hosts, jobs | delete, chunk, savepoint | tasks being created, deadlocks | HostRemoval |
| artifacts and components (`logic/artifact`, `component`) | rows, files, advisory locks, upload slots, connections | upload, delete, cascade | lost lock sessions, a full pool | Catalog, ConnPool |
| lock by key (`pkg/keyedlock`) | map of counted mutexes | Lock, unlock | an entry dropped as another comes | KeyMutex, KeyedLock |
| host inventory (`logic/sync`, `hostfieldmap`) | hosts of two sources | rounds, mappings, cleaning | rounds, people and tasks on one row | Inventory |
| settings (`setting/`, `svc/context.go`) | table, memory, what is built from it | save, reset, watch, reload | replicas, overlapping reloads | Settings |
| external files (`handler/external_binary*.go`, `extbin*`) | list, cache, uploads | fetch, refresh, upload, save | one file under several names | ExternalFiles |
| accounts and tokens (`auth/`, `rbac/`, `logic/aitoken`) | `local_users`, sessions, caches, tokens | login, change, administrate | stale caches, check then write | Accounts, AiTokens |
| cached answers (`pkg/cache`, `middleware/cache.go`) | lists in Redis | read, store, clear, reconnect | a read across a clearing | ResponseCache |
| assistant and MCP (`handler/ai_*.go`, `mcp/`) | proposed actions, windows | chat, confirm, cancel, post | executed twice, or after a cancel | AiActions |
| remote management (`liaison/`) | policies, sessions, pools | add, remove, connect, query | goroutines of a session, caches by id | Liaison |
| overlay (`ipam/`, `handler/clients.go` ...) | allocations, nodes, revisions | create, delete, renew, revoke | creations that meet, lost revisions | Overlay, ClientEnrol, MeshClient |
| edge and DDNSTO (`edge/`, `ddnsto/`) | services, routes, listeners | open, reload, forward | file replaced while it runs | EdgeAccess |
| migrations (`migrate/`, `store/`) | versions, lock | start, apply | replicas of two releases | Migrations |

The server's replicas share only the database. Agents talk to any replica by
HTTP; every request may be lost after the server has committed it. The
orchestrator of one replica at a time (advisory lock) drives the tasks; the
operator's calls and the agents' requests commit between its statements.

What makes a roll-out correct:

* a host never has two commands at work for a task, and a host marked running
  is always owned by a command or about to take that command's result;
* after Cancel nothing is left to run; after Retry only the new command
  decides;
* a host gets a command only when the batches before its own have ended, and
  an operator has opened the gate if promotion is manual;
* a finished task has only decided hosts and its verdict agrees with them;
* a running task ends although messages are lost and rounds crash.

What makes the other modelled parts correct:

* a delete job removes only tasks that are idle at the moment they are locked,
  counts every deletion once across crashes and overlapping jobs, stops when
  told to, and ends;
* an agent keeps being heard while one of its addresses answers, and a result
  it wrote down reaches the server or is dropped by a full queue, whenever the
  process dies;
* a token admits as many machines as it counts, and a host has one set of
  credentials, of its tenant; updates are counted as done only for builds that
  ran, and every agent comes to run the published one;
* a failed installation leaves what was there; the agent's program is never
  half a file; the watchdog replaces only a silent agent, and brings it back;
* a task reaches only hosts that grants covered; rows and files of artifacts
  agree; uploads never block each other for good; hosts that a source still
  lists, that work, or that people edited are kept;
* what is saved reaches every replica; what is cached is checked, and fresh but
  for the crossings that the code allows;
* an action that waits for a confirmation runs once; sessions end with the
  password they were made for; a database query reaches its database;
* an overlay address, as it is spelled, has one owner; a client with the newest revision has the
  newest files; a migration runs once and in order.

## 2. Modules

    TaskStore  <-  TaskApi                      rows and the operator's calls
    TaskStore  <-  Gateway  <-  Orchestrator    agents, reconciliation, rounds
    TaskApi, Orchestrator  <-  Rollout          composition, properties
    HostCommands  <-  Rollout                   refinement
    Rollout  <-  MCRollout                      instances for TLC
    Rollout  <-  RolloutProofs                  TLAPS
    DeleteJob  <-  MCDeleteJob, DeleteJobProofs
    AgentConn  <-  MCAgentConn

    Enrolment, TunnelCheck, AgentUpdate, HostRemoval,       <-  MCFleet
    Executor, SelfUpdate, StateFile, AgentOutput
    Access, Catalog, ConnPool,                              <-  MCPlatform
    KeyMutex <- KeyedLock, Inventory, Settings
    ExternalFiles, Accounts, AiTokens, ResponseCache,       <-  MCServices
    AiActions, Liaison, Overlay, ClientEnrol, MeshClient,
    EdgeAccess, Migrations
    MCFleet  <-  FleetProofs
    MCPlatform  <-  PlatformProofs
    MCServices  <-  ServicesProofs  <-  NetworkProofs

The modules that `MCFleet`, `MCPlatform` and `MCServices` put side by side
share no variable. In the code they meet only in rows that each of the modules
has for itself (a host, a command, an artifact in use), where the other side is
an action of the module: `HostRemoval` has the transaction that creates a task,
`AgentUpdate` the commands of tasks, `Inventory` the edits, registrations and
tasks that meet a round. `part` (or `service`) says which module a behaviour is
about, so that TLC adds the state spaces up instead of multiplying them.

**TaskStore** has one variable per column that decides something. A command is
a record: its status, the attempts counter, the lease against the database
clock, whether `expire_at` passed, what the stage log proves, and whether its
`finished_at` is at or after the host's `started_at` (`fresh`). `cur` is a
history variable: the command was inserted after the host's last Retry. A row
that leaves the active statuses drops the columns nothing reads again.

**TaskApi**: one action per call. Start, Promote and Pause are a guarded
UPDATE; Cancel and Retry are one transaction each. Retry's cases
(`Retryable`) are the switch over the host's status with `explicit` and
`force`; its new `started_at` makes old results stale (`Rebased`), except for
those stamped in the same clock tick (`tied`, only when `Ties`).

**Gateway**: the agent's own steps (`Verify`, `Execute`, the loss of the
answer in `Dequeue`) and the server's handling of its messages. A message is
enabled as long as the agent has a reason to send it, so it may come late, be
handled twice, or never. `Settle` is the write that Report and the last stage
share. The four statements of `ReconcileTasks` are actions used by the
orchestrator.

**Orchestrator**: a round as a program counter over its statements. `snap` is
the status `tick` read; `cur`, `verdict` and `last` are the locals of
`advance`. Two actions model the errors the code swallows
(`HasPendingAfterFails`, `FinishReadFails`), `Abort` an error that ends
reconciliation or the round, or a crash.

**Rollout** interleaves the three and states the properties.

**HostCommands** is what the roll-out promises of each host, without batches,
rounds, leases, signatures or messages: a host that waits is given one command,
numbered above all before it; the command ends once; the host takes the result
of that command and of no other, or is given up; and it waits again only by a
Retry, which counts. Rollout implements it (`HostsObeyCommands`) with the status
of the host as it is, the commands inserted so far, those that are active, and
as the result of a running host without an active command what
SyncTaskHostsFromCommands would take (`Outcome`). Several hosts may move in one
step, as they do in Cancel and Retry; a round, an acknowledgement, a lease or a
batch is a stutter.

**DeleteJob**: `CreateDeleteJob` is a check and an INSERT under a unique index.
A replica claims the oldest open job whose row nobody holds; from claim to
commit is one transaction (`rep[r]`), split where other transactions may come
in between: the look at the chunk without locks (`Claim`), and the locks, the
second check and the DELETE (`DeleteChunk`). `ChunkFails` is the rollback to
the savepoint with the progress going on, `Lost` a crash or a failed
statement. The tasks themselves start, end, are retried and deleted by hand.
`removedBy` is a history variable.

**AgentConn**: one turn of the agent's main loop is one action; the process
may die between any two, and between handing in reports and writing the state
file. `disk` is what the state file holds. The surroundings change which
addresses answer, whether the server's database does (if not, authentication
answers HTTP 401), the override set for the host, and delete commands.
`done`, `delivered` and `evicted` are history variables. The
results come from `Gateway`'s agent; `AgentConn` looks at their delivery over
many heartbeats, which `Gateway` leaves to chance.

Abstractions of the roll-out modules:

* One task, one agent per host. Commands of other tasks only keep an agent
  busy, which polling already covers by being slow.
* A transaction is one step. Cancel, Retry, Promote, completeBatch,
  dispatchHostWithType, Report, UpdateStage and ReapExpired lock in the order
  task_batches, task_hosts, commands, upgrade_tasks and re-read under the lock
  what they depend on; statements outside a transaction are steps of their own.
* The order of hosts in a batch is arbitrary, and a skip for any of the
  reasons in dispatchBatch is a nondeterministic choice.
* `FinalizeCompletedStages` chooses which silent commands are old enough.
  Its branch for `last_stage='failed'` cannot find an active row, because
  UpdateStage already ends a command with that stage.
* An agent reports success or failed only; `expired` is never written.
* The Consul write after a report, logs, versions and exit codes are output.

### Server: machines and hosts

**Enrolment**: a registration is four steps (advisory lock and look, token,
commit or rollback, answer), an administrator's call one. `eCred` is what each
machine holds, `eTx` its registration; `eCommits` is a history of what was
committed with which state of the token. The move of a host and its credentials
from the loopback address is two steps, and anything may come between.
**TunnelCheck**: every edit of the address as the four ways there are, probes
as sets of checks under way (the edit and the reset of the verdict are two
statements), tests of saved addresses and of candidates, a heartbeat in two
statements. `tRaced` notes that a check was overtaken by an edit or lost, and
`tried` in a verdict that the address was only a candidate. **AgentUpdate**: `qCmds` is the agent's
self-update commands, `qTask` what a statement sees of a task's command, which
is nothing before its commit. **HostRemoval**: a chunk is a transaction with the
row locks of the hosts it deleted; a task being created holds shares of rows;
`BreakDeadlock` fails one side of a cycle, as the database does.

### The host of an agent

**Executor**: one action per stage of `Execute`, each with its failure. A file
is the set of versions its bytes come from and whether one of them was
complete, so that resumed and cut downloads are told apart. Scripts do to the
service what scripts may. **SelfUpdate**: two processes (of the service manager
and of the watchdog), the program, its backups and the run lock; `uSilent` is a
history variable, the number of checks in a row that found nobody.
**StateFile**: names refer to inodes, and a writer keeps writing to what it
opened. **AgentOutput**: the streams of a command, posted in chunks, with the
stage and the report at its end; and the log with its rotation and its reader.

### Platform

**Access**: `Create` as its four statements, with every edit of rights in
between; `aEver` is a history of what users were granted; `splitBatches` is a
function, and its result is in the tasks. An operation on a task is four queries
(the switch, the policy of the teams, a shared team, the right to deploy), and
any but the switch may fail; `aOp` also keeps, as a history, every policy,
switch and sharing that held while it was in progress, and OwnersRespected says
that each check is answered by one of those moments. **Catalog**: uploads and removals step
by step under their advisory locks, whose session may break; `cTorn`, `cLeft`
and `cStolen` note which failure explains a file. **ConnPool**: slots, woken
requests, and the connections of one replica, each held for locks by an upload
or by a removal (or loop) that needs another one for its queries.
**KeyedLock**: the code between two operations of a mutex is one action;
**KeyMutex** is what it promises, and KeyedLock implements it with `at` mapped
by "a goroutine that has released the mutex is out". **Inventory**: rounds of
two sources under locks of their own. **Settings**: three keys that differ in
how they are watched, and the session secret, which every start without a
configured one reads or offers; each of its statements may fail, and `sKept` is a
history of what replicas took from the table.

### Services

**ExternalFiles**: requests, refreshes, prewarming, uploads and saves by two
callers over names that share a file. **Accounts**: a lookup reads and fills the
cache in two steps; `updated_at` is the tick of a database clock that several
statements may share, a session carries the time of its replica's clock, which is
off by up to `MaxSkew`, and Authenticate compares the two. **AiTokens**: count and
insert under the user's lock, while accounts are disabled, deleted and given other
roles. **ResponseCache**: a read asks, answers and stores;
a write commits and clears list by list. **AiActions**: an execution reads,
claims, runs and notes, each a step; posts of MCP clients are records of their
headers and bodies. **Liaison**: what casbin keeps in memory, including that
policies loaded from the table are not in the map it looks additions up in; the
goroutines of a session as what each of them waits for. **Overlay**: every
statement of a creation, each of which may fail or lose its answer, over the
spellings of addresses: the table compares text, an administrator may ask for
any spelling, and `AddrOf` says which address it means. **ClientEnrol** and **MeshClient**: registration, and
how a client follows the revision of its row. **EdgeAccess**: the file the edge
reads, its tables and listeners. **Migrations**: scripts and their records under
both kinds of versions.

Abstractions of these modules:

* A transaction is one step unless another one may see or block it half done;
  a row lock is a guard.
* Scripts, service managers, sites, models and hosts answer anything.
* Times are order only: an expiry is an action that may come at any moment at
  which the code allows it.
* History variables (named above, and `uSilent`, `fMeets`, `kRuns`, `nSeen`)
  are read by properties only.

## 3. Runs

| Run | Instance | Shows |
|---|---|---|
| `rollout_staged` | two batches of one host, manual promotion, rollback marks, Start/Promote/Pause/Cancel, queue expiry, one aborted round | BatchesInOrder, OperatorPromotes, FinishedIsComplete, VerdictIsHonest |
| `rollout_retry` | one host, legacy signature path, silent `done`, all calls, one Retry, one aborted round, one failed query | NoOrphanHost, CanceledIsStopped, ResultIsCurrent, CommandSettles, HostsObeyCommands |
| `rollout_live` | two batches, automatic promotion, threshold 100, one aborted round, FairSpec | TaskEnds, MaintenanceEnds |
| `delete_jobs` | two replicas, three calls of two callers, overlapping jobs of two tasks, chunks of one, one fault, one Retry | Accounts, CountsRealDeletes, OneOpenJob, OnlyIdleTasksGo, CancelHolds |
| `delete_jobs_live` | two jobs in a row over three tasks, chunks of two, one fault, FairSpec | JobsEnd |
| `agent_failover` | two installed addresses, overrides to a tunnel and to the spare, two outages, two settings, one restart, one database failure | AppliedIsCurrent, HearsServer |
| `agent_reports` | three results, a queue of two, one report per flush, one outage or lost answer, one restart, one deleted command | ResultsSurvive, ResultsArrive |
| `fleet` | two machines and the loopback address, two tokens; two addresses, one of them bad; one agent and two builds; three hosts in two jobs; nine kinds of commands; three images, one broken; three writers of one state file; three chunks and a log of two backups | EnrolmentInv, ServerViewInv, HostJobsInv, HostInv, FleetConverges, ActiveWorkSurvives, RollbackNeedsSilence, IdentityStays, AgentComesBack |
| `platform` | two teams with different policies, three hosts, two strategies; one version with two file names and two requests; two uploads and five removals on a pool configured for three connections, which tuneDBPool raises to five or six; three goroutines, two keys; two hosts of two sources; two replicas | AccessInv, CatalogInv, PoolInv, InventoryInv, SettingsInv, LocksAreMutexes |
| `services` | three names of which two share a file, two callers; four accounts on two replicas whose clocks differ; two tokens of two users, one of whom is demoted, disabled and deleted; two lists; one action, two confirmations; two servers of policies and one session of each kind; two creations over three IPv4 addresses and an IPv6 address in two spellings, with a statement that fails, loses its answer or is cut off; one client with two gateways; five services; three replicas of two releases | ServedInv, SignInInv, NetworkInv, MigrationsInv |

An invariant of these three runs is a conjunction of named parts, which the
modules state one by one with the code each of them is about:

| Property | Parts |
|---|---|
| EnrolmentInv | UsesHonest, RevokedAdmitsNobody, OneCredential, CredentialKeepsTenant, HostHasCredential |
| ServerViewInv | StaleVerdictNeedsRace (TunnelCheck); OneSelfUpdate, SuccessIsReal (AgentUpdate) |
| HostJobsInv | JobCountsOnce |
| HostInv | FailureRestores, ChecksumHonoured, ServiceRunsAfterSuccess (Executor); TornNeedsCut; TornNeedsMeeting; OutputComplete, NoGap, TailNeverRepeats |
| AccessInv | ReachWasGranted, BatchesPartition, LostRoleNeedsRace, OwnersRespected |
| CatalogInv | FileMatchesRow, NoStrayFile, InUseStays, TaskHasComponent |
| PoolInv | SlotsAccounted, NoIdleSlot, PoolMoves, RoomForRest |
| InventoryInv | SeenHostsStay, UsedHostsStay, HumanStands |
| SettingsInv | LimiterFollows, AiWithinRound, ArtifactWithinRound, SecretsAgree |
| ServedInv | OneFetchPerFile, NoNeedlessFetch, ServedOfItsKind, SavesKeepOthers; StaleOnlyByCrossing, AnswersAreNew |
| SignInInv | OneChangeWins, OwnSessionGood, OldSessionsGo; TokensWithinLimit, CountedUnderLock; ActionRunsOnce, HeadersAgree, RateIsLimited; GivenPoliciesHold, HostEndsSession, NothingLeftBehind, QueriesReachTheirRow |
| NetworkInv | OverlayInv, RevisionTells, RoutesWork, HostsAsShown, PortsAsRouted, HostsDiffer, TokensSpent |

Where the code keeps a promise only but for a known race, the part says so: it
names the race by a history variable and holds in all other cases. The promise
without the exception stands beside it in the module under "not kept by the
code", and the table of disagreements below says what happens.

Bounds of the roll-out runs: `MaxCmd` commands per host, `MaxRetry` resets, `MaxAborts` aborted
rounds, `MaxReadErr` swallowed query errors. Two batches are enough for "the
batch before" and "the last batch"; one Retry is enough for an old and a new
command of a host, and one abort puts a crash between any two statements.
Two hosts suffice because hosts interact only through their batch and the
task. Deadlock is checked: the ticker always fires.

Bounds of the others: three tasks in chunks of two are a full and a partial
chunk; two replicas and two callers, one of them with two calls in flight, give
every conflict over a row. The delete runs do not check for deadlock: when all
tasks are gone and all jobs ended and purged nothing is left to do.
Two addresses and a tunnel give every kind of change of address; two outages
take an address away and bring it back or take the other one (for the reports
one is enough: it takes the address in use away for good, or cuts a request). A queue of two
with one report per round has a full queue, a partial flush and an eviction
(the code has 20 and 5).

Bounds of the three large runs: two of everything that can meet (callers,
replicas, requests, writers, machines), and one or two of everything that can
go wrong (`MaxLost`, `MaxMishaps`, `MaxStops`, `MaxCrashes`, `MaxCuts`,
`MaxDeaths`, `MaxMeets`, `MaxBreaks`, `MaxAborts`, `MaxClientFaults`,
`MaxAiEvents`, `MaxFileEvents`, `MaxEdgeEvents`, `MaxOverlayFaults`), which puts a failure between
any two steps. Where a boundary in the code is a number the instance crosses
it: three crashes for the watchdog, more lines than the log and its backups
hold, a chunk of two of three hosts, a limit that is raised, lowered and out of
range, a pool of three that grows with the uploads, one removal more than its four spare connections, a token of one use, windows
of two ticks. Three starters are needed to have one stop while two wait. These
runs do not check for deadlock: they may stop when the counted events are used
up.

Violation runs, each a finding about the code:

| Run | Property | What happens |
|---|---|---|
| `retry_earlier_batch` | FinishedIsComplete | completeBatch overwrites a batch that a Retry has just reset |
| `shared_node_ids` | OnlyOwnAddressesGo | deleting a client frees the addresses of the server node with the same number (`ipam.go:114` deletes by `node_id` alone), which the next creation gets although they are in use |

The model has further disagreements with the sources' comments that are not
kept as runs. For the roll-out, the delete jobs and the agent's connection,
with the instances that show them:

| Where | Instance | What happens |
|---|---|---|
| `reap.go:273` | `rollout_retry` with `Ties = TRUE` (ResultIsCurrent) | a result stamped in the same clock tick as the Retry decides the new attempt, although `retry.go:220` says old results are ignored; SQLite's ticks are seconds |
| `orchestrator.go:544` | `rollout_staged` with `AutoPromote = TRUE`, `MaxReadErr = 1` (VerdictIsHonest) | a failed count in finishTask reads as "no failed host" and the task is written as a success; the error that hasPendingBatchAfter swallows breaks FinishedIsComplete in the same instance |
| `run.go:905` | `agent_failover` with three installed addresses (HearsServer) | a failed spare leads back to the default, so a third address is never tried; `run.go:41` promises rotation in order |
| `run.go:134` | `agent_failover` with `MaxRestarts = 2` (HearsServer) | restarts on a spare and on a tunnel address save the tunnel between the default and the spare |
| `run.go:914` | AgentConn's HeartbeatAnswered leaves `connectFailures` alone | two failures hours apart rotate the agent, although `run.go:99` speaks of consecutive ones |
| `handler/agent.go:217` | AgentConn's HeartbeatBlind | a failed query reads as a cleared override, and the agent leaves an address that works |
| `run.go:664` | AgentConn's FlushFails for a forgotten command | the report of a deleted command is answered 500, so it is sent with every heartbeat and never given up |
| `cmd/agent/main.go:270` | `DefaultServerURL` outside `Range(Installed)` | `install --server a,b` stores "a,b" as the only address registration tries |
| `orchestrator.go:166` | `rollout_live` with `Threshold` below 100 (TaskEnds) | after a crash between completeBatch and finishTask of a failed last batch, currentBatch returns the failed batch and nothing ever ends the task, although `orchestrator.go:506` says a crash leaves no such state |
| `dispatch.go:55` | the same, with the operator's calls, and Start on a task paused over a failed batch (TaskEnds) | the task is running behind a batch no round leaves, although `orchestrator.go:140` lets either call resume it |
| `reap.go:119` | `rollout_live` with `QueueExpires = TRUE`, under `AwaySpec` (TaskEnds) | a queued command whose `expire_at` passed is neither handed out nor ended, although `reap.go:315` says tasks do not stay running |
| `run.go:665` | `agent_reports` with one database failure (ResultsSurvive) | a failing database is answered 401, and the agent discards all its results |

For the other modules; the property in parentheses is the one the module states
and the code does not keep:

| Where | What happens |
|---|---|
| `watchdog.go:94` | without a backup the watchdog gives up before it starts the agent (AgentAlwaysComesBack), although `:45` says it starts it when necessary; an agent that crashes while a check sees it running resets the count |
| `run.go:788` | two writers of the state file that meet may leave it broken (NeverTorn); the state of `install --force` is overwritten by the agent that still runs |
| `run.go:405` | pieces of one stream may be posted in another order than they were written (StreamOrder) |
| `executor.go` | a redelivered command after a death backs up the new file; failures in exec and script mode leave the service stopped; rotations that fail shift backups out |
| `agent_enroll_tokens.go` | a registration whose answer is lost has used the token up (TokenNotWasted) |
| `tunnel_check.go`, `host_tunnel.go:108` | verdicts are stored without asking for which address, a tested candidate's too and over the agent's (VerdictIsCurrent) |
| `enqueue.go:253` | a lapsed update blocks further ones until the nightly cleaning a week later; the statement does not see an uncommitted command; a build that was rolled back is ordered again every 30 minutes |
| `task.go:382` | the two checks of a creation read different grants (ReachStaysGranted); rights of one grant combine with host groups of another (WithinOneGrant); Start does not look at host groups again; a disabled team still grants; DeleteRole counts, then deletes |
| `task.go:213` | when the policy of the teams cannot be read the switch decides, so with the switch off a team that says "on" is passed over (TeamPolicyHolds), although the comment says that a failed query relaxes nothing; Pause, Cancel and Delete do not ask for the right to deploy |
| `artifact.go:240` | a stop or a failed row after the file was overwritten leaves a row with another file (FileAlwaysMatches); an upload over a version in use is not refused and leaves a file with the old name |
| `artifact.go:208` | five removals at a time, each with a connection for its locks, fill a pool of five and wait for each other (PoolNeverStuck), although the comment excludes that |
| `sync.go:367` | rounds of the two sources hold different locks, so one may clean a host the other has just stamped (ListedHostsStay); a task committed while its host's row is deleted goes with it (WorkStays); cleaning by one group takes hosts another lists; `consulmgr.go:32` says there is no cleaning |
| `context.go:308` | a reset of the artifact settings never reaches other replicas, and a value that changed twice between two looks is not noticed (ArtifactAlwaysWithinRound); overlapping saves may leave an older Consul client (ClientFollows); lowering the limit shrinks the pool below the running uploads |
| `context.go:667` | when a statement for the session secret fails at a start, the replica serves with a random secret of its own (`auth/session.go:57`), so sessions of the others are refused there (SecretsShared), although `:651` says replicas and restarts share one |
| `extbin_embedded.go` | after an address was rewritten, the server's own script is still served from the cache (OwnScriptOnlyForDefault); a changed address serves old content until its time is over (FileOfItsAddress); `Tool` and `tool` shadow each other; a failed refresh throws the old copy away; overlapping saves lose entries; an entry with linux in its name that becomes a binary serves what the script left |
| `middleware/cache.go:141` | a read across a clearing stores the older list until its time is over (VisibleAtOnce); after Close a nil client is used |
| `auth/session.go:33` | the time in a session is to tell "whether it is earlier than the last change of the account", but a change in the same second (SQLite) or millisecond, a replica whose clock is ahead and a login that has read the row before the change and is stamped after it leave the session good (OldLoginsGo) |
| `rbac.go` | other replicas accept sessions from before a reset for half a minute (OldSessionsGoAtOnce; InvalidateUser has no caller); the last superadmin can be removed (SuperadminStays); Delete and ResetPassword do not look at the rank again |
| `aitoken.go:433` | a token takes its user's roles of now but nobody compares them with the policy again, so who was demoted below it keeps his tokens (DemotedTokensGo); tokens of a deleted user work again for a new one of that name; a lowered limit does not touch existing tokens |
| `ai_assistant.go:212` | a cancel is answered with success although an execution took the action in between; a stop after the claim leaves an action executed without an outcome; up to twice the limit passes within a minute |
| `mcp.go` | an array without version header is accepted also from modern clients, and counts once |
| `liaison/rbac.go`, `policy.go` | a policy that was loaded at the start cannot be removed from the running server (RemovedPoliciesEnd); other replicas learn of changes at their next start; concurrent additions leave two rows, of which a removal takes one |
| `liaison/ws.go:179` | a browser that closes leaves the shell and its goroutines (BrowserEndsSession) |
| `liaison/rdp.go` | a button is never released on the host (ButtonsAreReleased), and the connection of a session is never closed |
| `liaison/db.go:178` | a deleted connection still answers from its pool (DeletedConnectionsEnd) |
| `liaison/vnc.go` | reads of the handshake have no deadline; the body of SetColourMapEntries is left in the stream |
| `clients.go:177` | addresses are released before the row goes and also when there is none; a stop in the middle of a creation, or a release that fails, leaves allocations nobody owns (NoAddressLeaks) |
| `clients.go:131` | an insert of a node that is committed and whose answer is lost gives the addresses back, although the row that has them exists |
| `ipam.go:53` | an address that is asked for is parsed, but compared and stored as it was entered: two spellings of one IPv6 address go to two nodes (AddressesApart), one of the gateway's to a node (GatewayIsReserved) |
| `tunnel_agent.go:35` | the token is looked up, then the row is written by its id: one token lets two machines in (OneTokenOneMachine), or a newer token is lost unused (TokensWork) |
| `routes.go` | new routes do not count the revision up; a stop between a revocation and its counting leaves it undistributed; a client whose save failed keeps the new revision in memory and never reloads (TunnelBlocks); the route manager may put back older files (TunnelRoutes) and reads routes once |
| `client/run.go:81` | `iflygo-client config` beside the running client: one process writes its files over those of the other and then saves the revision it fetched with its own, so the revision on the disk may be newer than the files (RevisionAlwaysTells) |
| `edge/tcp.go:68` | a port whose target changed goes on to the old target (PortsGoWhereRouted); one busy port keeps other new ports from opening |
| `ddnsto.go` | an access outlives its client and may point to the next owner of its address; hosts are unique and not null, so one TCP service without a host is all there can be |
| `migrate.go:151` | replicas that start together collide over the overlay's scripts, which no lock guards (StartsNeverCollide); a script with a lower number that comes late is skipped |

Of the roll-out, the passing runs exclude these cases by their constants: no Retry with
two batches, no query error where the verdict is judged, a strict clock,
threshold 100 for liveness, and agents that poll.

Fairness (`FairSpec`): the ticker fires and statements return
(`WF(Orchestrate)`), leases lapse with time (`LeaseLapses`), execution ends
because the executor bounds every command with a timeout (`Execute`), and an
agent that is up polls (`Dequeue` with its answer arriving). Nothing is
assumed of Ack, stage and Report messages: all of them may be lost.
`AwaySpec` drops the polling. `DeleteJob!FairSpec` lets the ticker of every
replica fire. `AgentConn!FairSpec` has the service manager start the process
again, the loop run and a heartbeat come due every 30 seconds, the five-minute
cooldown end and the database return; reports are handed in by ranging over a
Go map, which starts at a random entry, so no report stands behind another for
ever (strong fairness of `FlushOf`). The network owes nothing beyond the
premise of the properties, that some installed address stays reachable.

`FleetSpec` assumes of agent updates that an agent beats and polls, that what
it fetched ends, that the reaper and the nightly cleaning run, cooldowns end and
a task's command ends; of the agent's program that cron calls the watchdog
(`WatchdogStep`), that time passes (`HeartbeatAges`) and that a waiting process
polls the run lock. Nothing is assumed of administrators, releases, deaths and
failures; those are bounded, as a fleet of which every update fails never
converges. The other specifications state safety only.

The passing agent runs avoid the findings by their constants: two installed
addresses, the first of them the default, one restart, and no database failure
where results are judged. An agent that holds a spare address goes back to the
default with the first answered heartbeat, even if the default is still down;
HearsServer holds because it then rotates again, so one heartbeat in three is
heard.

## 4. Proofs

`RolloutProofs` proves for every set of hosts, layout of batches, strategy and
bound (`StoreAssumption`, `ApiAssumption`, `OrchAssumption`,
`GatewayAssumption`):

| Theorem | Statement |
|---|---|
| TypeCorrect | `Spec => []TypeOK` |
| OneCommandPerHost | `Spec => []OneActiveCommand` |
| RunningHostIsOwned | `Spec => []NoOrphanHost` |
| CancelStops | `Spec => []CanceledIsStopped` |
| EndedCommandsStay | `Spec => CommandSettles` |
| RetryIsolation | `~Ties` implies `Spec => ResultIsCurrent` |
| RolloutObeysCommands | `~Ties` implies `Spec => HostsObeyCommands`, that is `Commands!Spec` |
| OrderUntilRetry | `Spec => [][retries = 0 => OrderStep]_vars` |
| GateHolds | `MaxRetry = 0` implies `Spec => BatchesInOrder` |
| PromotedUntilError | `Spec => [][retries = 0 /\ readErrs = 0 => PromoteStep]_vars` |
| OperatorOpensBatches | `MaxRetry = 0`, `MaxReadErr = 0` imply `Spec => OperatorPromotes` |
| VerdictUntilError | `Spec => [](retries = 0 /\ readErrs = 0 => FinishedIsComplete /\ VerdictIsHonest)` |
| FinishedMeansComplete | `MaxRetry = 0`, `MaxReadErr = 0` imply `Spec => []FinishedIsComplete` |
| SuccessIsHonest | `MaxRetry = 0`, `MaxReadErr = 0` imply `Spec => []VerdictIsHonest` |

The inductive invariant has two layers. `TypeInv` adds to the types that a
statement's locals are set when it runs (`LocalsSet`) and that a queued
command was handed out at most once (`QueuedTwice`, which bounds the attempts
counter). `SafeInv` says of every host that its rows are `Owned`: at most one
active command, which is the newest row and belongs to the current attempt;
fresh results belong to the current attempt when the clock is strict; and a
host that is running without an active command has a fresh newest result.
Ownership is what the properties lack to be inductive: without "the active
command is the newest" closing it would not give SyncTaskHostsFromCommands a
result to take, and without "fresh means current" a Retry would not isolate.
The proof has one step per action; four lemmas say how an action may touch a
host's rows (`ActiveMoves`, `ActiveCloses`, `QueuedOwns`, `NobodyOwns`).

RolloutObeysCommands is the refinement of HostCommands. `Lives` says
what one host's status and rows may do in a step (the host is left alone, its
command ends, it settles, or it gets a command); a lemma for each way the code
writes them, from SameLives to ResetLives, shows that it does; there is one proof for each
action of the agents, the operator and a round (`AgentsLive`, `OperatorLives`,
`RoundLives`), and `LivesObey` translates them. It needs one invariant more than
`Owned`: a host that waits has no finished row with a fresh result (`Anew`), or
the round that dispatches it would show an old result as that of the new
attempt. That is where `~Ties` is needed: with two equal readings of the clock
Retry leaves such a row, which is the case its `>=` does not exclude. One
active command at a time, and only for a running host, follows from HostCommands
as well; OneCommandPerHost says it for itself because it holds with ties too.

The last seven are about the batches and the verdict, and they need a history
in which nobody called Retry, which reopens hosts of batches a round is past:
the run `retry_earlier_batch` shows what then happens to FinishedIsComplete. The
statements with `retries = 0` hold up to the first Retry whatever comes after
it; those with `MaxRetry = 0` say the same of behaviours without one. The
verdict also needs that no failed query was taken for an empty answer
(`readErrs = 0`), the order of the batches does not. `RoundInv` says what a
round knows and others leave alone: batches leave `pending` one after the other
(`FrontMoves`), a batch that has ended or failed has no host left to run
(`EndedAreDone`), and the batch a round works on keeps its status while the
round keeps its place (`RoundFits`). Underneath is `DoneStays`: a host that is
done has no active command, by `Owned`, so nothing that arrives late writes it.
`EndInv` adds that the batch taken for the last is the last (`EndFits`) and that
without auto_promote a running task that nobody resumed has a failed batch in
front or no batch left (`WaitsForOperator`), which is what a round that read
"paused" before an operator resumed leaves behind.

`DeleteJobProofs` proves for any tasks, callers, replicas and chunk size
(`JobAssumption`) JobAccounts (`[]Accounts`), OneJobPerCaller
(`[]OneOpenJob`), RunningTasksStay (`OnlyIdleTasksGo`) and StopIsObeyed
(`CancelHolds`), and DeletionsAreReal (`[]CountsRealDeletes`), by the invariant
`CountInv`: what a job removed stays away, is finite, and its number is the
counter. The invariant of the others adds to the types that a claimed row is open,
held by one replica, not stopped, and that its chunk is not empty: the row lock
is what lets a replica use at the commit what it read at the claim.

`AgentConn` proves, behind its properties, AppliedHolds (`[]AppliedIsCurrent`, which is
inductive) and ResultsKept (`[]ResultsSurvive` if the database does not fail),
where the invariant `Kept` adds that the running process holds every result
that was neither recorded nor dropped: the state file may only lag behind by
reports that were handed in.

`FleetProofs` proves of `FleetSpec`, the specification the run `fleet` checks,
for any machines, tokens, hosts, replicas, commands, images, writers and lengths
(the assumptions of the eight modules):

| Theorem | Statement |
|---|---|
| EnrolmentIsSound | `FleetSpec => []EnrolmentInv` |
| ServerViewIsSound | `FleetSpec => []ServerViewInv` |
| JobsReportWhatTheyDid | `FleetSpec => []HostJobsInv` |
| HostIsSound | `FleetSpec => []HostInv` |
| WorkKeepsHosts | `FleetSpec => ActiveWorkSurvives` |
| RollbacksAreLate | `FleetSpec => RollbackNeedsSilence` |
| IdentityIsKeptByAll | `FleetSpec => IdentityStays` |

Every part has an inductive invariant of its own; each was checked by TLC on the
instance of the run before it was proved. Three lemmas per part say that the
part begins in it, that each of its steps keeps it, and that it implies what the
run checks. `PartsStep` says that a step of the fleet is a step of each part or
leaves it alone, and `FleetKeeps` puts the parts together.

* `EnrolmentIInv`. `TokensFit`: a token's counter is the number of committed
  registrations plus one while a transaction holds its row, which only one does.
  `IdentitiesFit`: ids are handed out once, so two machines never hold the same
  credentials. `HostsFit`: addresses are unique, every agent row points at a host
  that is bound to it. What the proof needed most is the case of a row that
  still has the loopback address while its host has moved: there is at most one
  host at that address at a time, and only the machine the host moved to holds
  these credentials.
* `TunnelIInv`: as long as nothing raced, every probe, request and answer on its
  way is about the address of now, so that whatever arrives is current.
* `UpdateIInv`: an agent has at most one command row, whatever statement added it.
* `RemovalIInv`: the hosts a chunk has dealt with and those it has to do are the
  rest of the job's list, once each; what it has deleted is still in the table
  for everybody else, idle, and locked by it alone. Jobs count what they did
  because of the first, hosts with work stay because of the second.
* `ExecutorIInv` tells for every stage where the file of before is (in place, or
  in the backup), what the download is worth, and whether the service is owed a
  start. `SwapIInv` bounds the counter in the file by the readings that were
  silent. `StateIInv`: a writer that is alone has a temporary file of its own,
  with an identity that keeps that of the disk. `ChunkIInv`: every piece of output
  is posted, in the buffer or in a stream's hand, and their numbers add up.
  `LogIInv`: rotated files continue each other, and what the reader has not read
  is newer than all it printed.

`PlatformProofs` proves for any uploads, limits and settings
(`UploadsAssumption`, `ConcurrencyAssumption`, `PoolAssumption`) SlotsAreKept
(`LimiterSpec => []LimiterInv`), GrowthIsLimited (`NeverAboveLimit`), and, of
`PoolSpec` with any number of removals, PoolNeverFills (`[]PoolMoves`),
UploadsLeaveRoom (`[]RoomForRest`) and PoolStaysSound (`[]PoolInv`).
PoolUsesLimiter shows that every step of the pool is a step of the limiter or
leaves it alone, so its theorems carry over. `PoolIInv` counts slots by the
requests that hold them and says that only an upload with a slot holds a
connection (`HoldersIn`), that the pool is unlimited or has at least five
connections (`PoolShape`), one for an upload and the four spare ones that
tuneDBPool adds, and that it follows the limit but while a reload is between the
two (`PoolFollows`). PoolMoves speaks of states in which at most four removals
hold connections: the run has five, and in it they do fill the pool, which
`PoolNeverStuck` would exclude. RoomForRest excepts two states, which the run
reaches as well: a reload half done and a limit that was lowered under running
uploads.

It proves for any goroutines, keys and entries
(`ThreadsAssumption`, `EntriesAssumption`) LockerIsSound
(`KeyedLockSpec => []KeyedLockInv`) and LocksImplementMutexes
(`KeyedLockSpec => LocksAreMutexes`, that is `Mutex!Spec`): initial states map
to initial states, Take and Unlock to entering and leaving, Lock to asking, and
Drop to a stutter. Mutual exclusion needs that the entry of whoever is between
Lock and the end of its unlock stays in the map (`EntryIsShared`), which needs
that the count is the number of users (`CountIsUsers`).

And it proves, for any values of the constants that `CatalogAssumption`,
`InventoryAssumption`, `SettingsAssumption` and `AccessAssumption` admit, what the
run `platform` checks of the four parts. `PlatformSpec` steps one part and leaves
the others, so each theorem is about the specification of its part.

| Theorem | Statement |
|---|---|
| AccessIsSound | `PlatformSpec => []AccessInv` |
| CatalogIsSound | `PlatformSpec => []CatalogInv` |
| InventoryIsSound | `PlatformSpec => []InventoryInv` |
| SettingsAreSound | `PlatformSpec => []SettingsInv` |

* `AccessIInv`. `EverCovers`: the history has at least what the grants cover now,
  so what a creation finds covered at its match stays in it (`NewFits`) until the
  row is written (`TaskFits`). `LooksFit` is about the calls between a look and a
  write. That batches partition the hosts is arithmetic: the sizes are positive
  and add up (`SplitIsPartition`), and the hosts in the order of their addresses
  fill them (`PlacesFill`). Both are inductions over the batches, made from
  `LeastNumber`: a nonempty set of numbers, here of counterexamples, has a
  least element. `OpFits`: while an operation is in progress its history has what
  holds now, so each query finds a moment; `WasAllowed` is what the queries leave.
* `CatalogIInv`. `IdsFit`: numbers of rows are never used again, which is why a
  look by number is worth anything later. `LocksFit`: of two live sessions with
  locks of one component both are uploads of different artifacts; a session that
  broke has lost its locks, and what it still does is what `cTorn` and `cLeft`
  note. `StoredStays`, `RemovalsFit` and `LookHolds` say what a request in the
  middle knows.
* `InventoryIInv`. `Stamped`: what a round has seen has its stamp, or that of the
  other source.
* `SettingsIInv`. `ReadsFit`: a value no save has overtaken is that of the table,
  and a replica that is fresh has read no other. `LimiterFits`, `WatchFits` and
  `PageFits` follow a value from the watcher to its use. The secret of the table
  is never overwritten once it is there, which is why all that is taken from it
  is the same (`SecretsAgree`).

`ServicesProofs` proves of `ServicesSpec`, the specification the run `services`
checks, and from the assumptions of its modules:

| Theorem | Statement |
|---|---|
| MigrationsAreDone | `ServicesSpec => []MigrationsInv` |
| ServedIsSound | `ServicesSpec => []ServedInv` |
| SignInIsSound | `ServicesSpec => []SignInInv` |

* `MigrationsIInv`. `RecordsFit`: a script is in effect once if it is recorded
  and the scripts below it are; `StartFits` and `LockFits` say how far a replica
  has come, and that on PostgreSQL one at most is between the lock and the
  release of it. That releases contain each other (`MigrationsAssumption`: a
  release keeps the scripts of the one before and adds higher ones) is needed:
  a record is one number on `schema_migrations`, which says nothing about a
  script below it that came later.
* `ExternalIInv`. `FileFits` says what may lie under a file's name, cached or
  uploaded, and that what is not fresh has not been fetched since; `AskFits` what an
  asker has found out and still holds when it acts on it: who fetches has the
  lock and the file is still not fresh, which is why a second download looks again
  once it has the lock. Saves need `Stripped`, that no configured value repeats
  a built-in one: only then does stripping what a save has read leave in effect
  what was (`StrippingKeeps`).
* `CacheIInv`. `ClearedFits`: what is stored and did not cross a clearing is as
  new as the last one of its list; `ReadFits` says the same of what a reader
  holds between its read and its store.

* `AccountsIInv`. What a replica has cached, or read and not yet cached, is not
  newer than the account (`ReplicaFits`), so the session of a new password is good
  wherever it is presented, also when several changes share a tick. Every write of
  a row stamps it (`RowFits`) and a session is ahead of its making by the skew at
  most (`SignedFits`), so once a replica has looked again, older sessions end but
  for that skew. A password that was changed is older than the one of
  today (`UsedFits`): that is why the comparison in the update lets only one of two
  changes through. That less than a superadmin never changes an administrator's
  account follows from the second look in the update (`notAdminCond`).
* `TokensIInv`. `Room`: who has counted and found room still has it at the
  insert, because the counting holds the user's lock (`CountedUnderLock`); a
  token only starts to work there.
* `AssistantIInv`. `RateFits` relates the requests a process has let in to the
  window it counts: those of the window come last and lie within a minute of its
  start, and a full window before them lies a minute before it (`EntryFits`). So the
  requests number i and i + 2 * RateMax are a minute apart, which bounds what any
  minute sees (`RateIsLimited`); twice the limit is what a window that ends and
  one that begins can hold. `RequestFits`: who runs an action has taken it, is
  alone, and the action had not expired when it was taken. `PostFits`: a message
  posted alone reaches its method only with headers that agree.
* `LiaisonIInv`. `MemoryFits`: what the index of casbin knows is in memory, and
  what is in memory is in the table unless somebody asked to remove it.
  `GivenFits` follows a policy that was given through restarts. `SessionFits` ties
  the goroutines to the kind of session. `ConnectionIInv`: ids of connections are
  never used again, which is why a pool that outlives its row cannot answer for
  another. `Busy`, in the properties of a session, says that a goroutine has
  something to do: it stands for ENABLED of the server's steps, and
  TLC finds no state of the run in which the two differ.

`NetworkProofs` proves, of the same specification, what the run `services`
checks of the overlay, its clients and the edge:

| Theorem | Statement |
|---|---|
| NetworkIsSound | `ServicesSpec => []NetworkInv` |

* `OverlayIInv`. `HeldByRequest` and `HeldByNode`: what a creation has taken is
  bound to no node, and the addresses of a node are free for it or its own;
  `HeldApart`: no address is of two of them. A row that was just inserted and
  its request share the addresses until they are bound, which is the only case
  where both have one. All of it is about addresses as they are spelled, which is
  what the table compares; that canonical spellings are different addresses
  follows. A statement that fails or whose answer is lost leaves either a row
  nobody has or a node in `oReleased`, whose addresses anyone may get.
* `EnrolIInv`. `RowTokensFit`: the token in a row was made for that row and
  nobody has used it; `ReadersFit`: whoever is past the look has read it before;
  `SecretsFit`: a secret is of one machine, in its state file, in an answer on its
  way or in what was seen. The row is written by its id, so two machines may both
  be answered; only the last secret then opens anything.
* `ClientIInv`. `RevisionFits(rev, ...)`: a revision is not newer than the row's,
  and if it is the row's, nothing that was counted up is missing. It holds of the
  revision in memory, of that on the disk, and of the bundle under way
  (`BundleFits`), which at first has only its certificate: the revocations
  are read after the revision, and those that are counted are in the table
  (`WrittenFirst`, the order in which RevokeCert writes). That the bundle is never
  older than what the client has is why a stop between files and state does no harm.
  `Loaders` says who fetches bundles. The theorem is about any: two fetches that
  overlap (`iflygo-client config` beside the running client) are noted in the
  history variable `mMet`, and the promise is kept until two have met, as only one
  has a bundle under way then (`Alone`). The run has the client alone; with both,
  one gateway and no edit of routes TLC finds the invariant to hold as well, and
  `RevisionAlwaysTells`, the promise without the exception, violated.
  `ManagerFits`: the routes in force are those of the last probe.
* `EdgeIInv`: the table is that of the list it was built from, the ports are those
  of the router, hosts differ. That cutting labels off from the left finds the
  longest wildcard (`LookupFinds`) is about the table of any list.

Assumptions on constants. Each module names the assumptions its proofs use, and
TLC evaluates them in the runs. They say that bounds are numbers, that sets of a
statement's parties are finite where something is counted, that configured names
are not the empty string the code takes for "nobody". Some theorems of the
roll-out assume what their tables say: a clock without ties, or that nobody
retried (`MaxRetry = 0`) and no error was swallowed (`MaxReadErr = 0`).

Every invariant and every action property the passing runs check is stated by a
theorem. Only model-checked: liveness (TaskEnds, MaintenanceEnds, JobsEnd,
HearsServer, ResultsArrive, FleetConverges, AgentComesBack), which rests on
fairness and ENABLED and is beyond the prover; and the two disagreements the
violation runs show, which are traces.

## 5. Plan

What would come next, in this order:

1. **Executor** as the refinement of Gateway's `Execute`, and StateFile as that
   of AgentConn's `saveState`.
2. Loss of the orchestrator's lock session during a round: Rollout with two
   rounds at once.

## 6. Not modelled

* The Nebula data plane, certificates and other cryptography, casbin's own
  matching, Redis, Consul and databases beyond what the code asks of them:
  third-party code.
* Encodings of VNC and RDP, forwarded bytes, rendering of configuration,
  prompts, schemas of tools, the web console, CSV and the lists of pages:
  formatting or pure output.
* Installers of service files, service managers, probes of versions, system
  facts and diagnosis: calls of operating-system tools, of which only the answer
  matters where a module needs it.
* The table of settings and the parsing of configuration files: declarations.
* Metrics, audit entries, offline marks and notifications: written, and read by
  people only.
* Windows: renames of a running program and Windows services differ from what
  SelfUpdate models.
* Smaller steps of modelled parts: single file operations that fail inside a
  rollback of Executor or SelfUpdate (a rollback succeeds or fails as a whole);
  a `saveState` that fails in AgentConn (`run.go:629` logs it and goes on, so a
  stop before the report is answered then loses the result); replicas that start
  with a `SESSION_SECRET` of their own, whose secret is not part of what Settings
  compares; several access tokens of one user of MCP, each with a limit of its
  own. In Accounts a statement takes effect in the tick of its NOW(), and a
  change of a password after which the account cannot be looked up issues no
  session. `Migrator.Down` is called by nothing.
