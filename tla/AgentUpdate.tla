---------------------------- MODULE AgentUpdate -----------------------------
(***************************************************************************)
(* How the server brings agents to its own build: self-update commands     *)
(* put in by an administrator for chosen hosts (Enqueue) or by a heartbeat *)
(* of an agent with another build (AutoEnqueue), their way through the     *)
(* gateway, the confirmation by the heartbeat of the new build, and the    *)
(* nightly cleaning of commands nobody fetched.                            *)
(***************************************************************************)
EXTENDS Integers, Sequences, SequencesExt

CONSTANTS
  UpAgents,       \* agents
  Builds,         \* hashes of agent binaries
  MaxReleases,    \* bound: new binaries on the server
  MaxOrders,      \* bound: requests of administrators
  MaxMishaps      \* bound: failed updates, lost leases, commands never fetched, tasks

NoBuild == ""     \* an empty column, or no file

ASSUME AgentUpdateAssumption ==
  NoBuild \notin Builds /\ MaxReleases \in Nat /\ MaxOrders \in Nat /\ MaxMishaps \in Nat

NoOrder == [left |-> {}, force |-> FALSE]
NoTask == "none"

VARIABLES
  qTarget,        \* the binary for these agents; NoBuild when the file is missing
  qRun,           \* the build each agent runs
  qBuild,         \* hosts.agent_build_hash
  qRan,           \* history: the builds each agent has run
  qCmds,          \* the self-update commands of each agent that have not ended
  qCool,          \* the newest self-update command is less than 30 minutes old
  qTask,          \* another command of the agent: none, uncommitted, or active
  qBusy,          \* the binary the agent is installing; NoBuild for none
  qWins,          \* history: builds whose command ended with success
  qOrder,         \* the administrator's request in progress
  qReleases, qOrders, qMishaps   \* bounds

qVars == << qTarget, qRun, qBuild, qRan, qCmds, qCool, qTask, qBusy, qWins, qOrder,
            qReleases, qOrders, qMishaps >>

AgentUpdateInit ==
  /\ qTarget \in Builds
  /\ qRun \in [UpAgents -> Builds]
  /\ qBuild = [a \in UpAgents |-> NoBuild]
  /\ qRan = [a \in UpAgents |-> {qRun[a]}]
  /\ qCmds = [a \in UpAgents |-> << >>]
  /\ qCool = [a \in UpAgents |-> FALSE]
  /\ qTask = [a \in UpAgents |-> NoTask]
  /\ qBusy = [a \in UpAgents |-> NoBuild]
  /\ qWins = [a \in UpAgents |-> {}]
  /\ qOrder = NoOrder
  /\ qReleases = 0 /\ qOrders = 0 /\ qMishaps = 0

\* The binary for the agent's system and architecture.
ResolveOS == qTarget

\* The agent has a command that has not ended, as a statement sees it.
BusyAgent(a) == qCmds[a] # << >> \/ qTask[a] = "active"

\* Puts the command in unless the agent is busy; says whether it did.
insertCommand(a) ==
  IF BusyAgent(a) THEN UNCHANGED << qCmds, qCool >>
  ELSE /\ qCmds' = [qCmds EXCEPT ![a] = Append(@, [sha |-> ResolveOS, status |-> "pending"])]
       /\ qCool' = [qCool EXCEPT ![a] = TRUE]
-----------------------------------------------------------------------------
(* The administrator *)

\* With force the updates under way are cancelled first; then the hosts are
\* read, and the commands put in one by one.
Enqueue(as, force) ==
  /\ qOrder.left = {} /\ qOrders < MaxOrders /\ as # {}
  /\ qCmds' = IF force THEN [a \in UpAgents |-> IF a \in as THEN << >> ELSE qCmds[a]] ELSE qCmds
  /\ qOrder' = [left |-> {[agent |-> a, build |-> qBuild[a]] : a \in as}, force |-> force]
  /\ qOrders' = qOrders + 1
  /\ UNCHANGED << qTarget, qRun, qBuild, qRan, qCool, qTask, qBusy, qWins, qReleases, qMishaps >>

EnqueueHost(h) ==
  /\ h \in qOrder.left
  /\ qOrder' = IF qOrder.left = {h} THEN NoOrder ELSE [qOrder EXCEPT !.left = @ \ {h}]
  /\ IF ResolveOS = NoBuild \/ (~qOrder.force /\ h.build = ResolveOS)
     THEN UNCHANGED << qCmds, qCool >>
     ELSE insertCommand(h.agent)
  /\ UNCHANGED << qTarget, qRun, qBuild, qRan, qTask, qBusy, qWins, qReleases, qOrders, qMishaps >>

\* A release of the server replaces the binary; while it is copied the file
\* is missing.
Release ==
  /\ qReleases < MaxReleases
  /\ qReleases' = qReleases + 1
  /\ qTarget' \in (Builds \cup {NoBuild}) \ {qTarget}
  /\ qReleases + 1 = MaxReleases => qTarget' # NoBuild
  /\ UNCHANGED << qRun, qBuild, qRan, qCmds, qCool, qTask, qBusy, qWins, qOrder, qOrders, qMishaps >>
-----------------------------------------------------------------------------
(* The heartbeat *)

\* Takes every command the agent has as done.
ConfirmedMutant(a) == {i \in DOMAIN qCmds[a] : qCmds[a][i].status = "dispatched"}

\* The commands a heartbeat with the build of a confirms.
Confirmed(a) == {i \in DOMAIN qCmds[a] : qCmds[a][i].status = "dispatched" /\ qCmds[a][i].sha = qRun[a]}

\* The heartbeat writes the build and confirms the update it was for.
markSelfUpdateSuccess(a) ==
  /\ qBusy[a] = NoBuild
  /\ qBuild' = [qBuild EXCEPT ![a] = qRun[a]]
  /\ qCmds' = [qCmds EXCEPT ![a] = IF Confirmed(a) = {} THEN @ ELSE << >>]
  /\ qWins' = [qWins EXCEPT ![a] = @ \cup {qCmds[a][i].sha : i \in Confirmed(a)}]
  /\ UNCHANGED << qTarget, qRun, qRan, qCool, qTask, qBusy, qOrder, qReleases, qOrders, qMishaps >>

\* Keeps off while the last update is recent, and for good when it has not
\* ended well.
MayAutoUpdateMutant(a) == qCmds[a] = << >> /\ ~qCool[a] /\ qBuild[a] \in qWins[a]

\* Keeps off while an update is under way or the last one is recent.
MayAutoUpdate(a) == qCmds[a] = << >> /\ ~qCool[a]

\* Then it looks whether the agent needs another build.
AutoEnqueue(a) ==
  /\ qBuild[a] # NoBuild /\ MayAutoUpdate(a)
  /\ ResolveOS # NoBuild /\ qBuild[a] # ResolveOS
  /\ insertCommand(a)
  /\ UNCHANGED << qTarget, qRun, qBuild, qRan, qTask, qBusy, qWins, qOrder, qReleases, qOrders, qMishaps >>

CoolDown(a) ==
  /\ qCool[a]
  /\ qCool' = [qCool EXCEPT ![a] = FALSE]
  /\ UNCHANGED << qTarget, qRun, qBuild, qRan, qCmds, qTask, qBusy, qWins, qOrder, qReleases, qOrders, qMishaps >>
-----------------------------------------------------------------------------
(* The gateway and the agent *)

\* The agent fetches the command and begins; it works on one at a time.
Fetch(a) ==
  /\ qBusy[a] = NoBuild /\ qCmds[a] # << >> /\ qCmds[a][1].status = "pending"
  /\ qCmds' = [qCmds EXCEPT ![a][1].status = "dispatched"]
  /\ qBusy' = [qBusy EXCEPT ![a] = qCmds[a][1].sha]
  /\ UNCHANGED << qTarget, qRun, qBuild, qRan, qCool, qTask, qWins, qOrder, qReleases, qOrders, qMishaps >>

\* The commands the agent took, and the end of one of the agent's commands.
Taken(a) == {i \in DOMAIN qCmds[a] : qCmds[a][i].status = "dispatched"}
EndCommand(a, i) == qCmds' = [qCmds EXCEPT ![a] = RemoveAt(@, i)]

\* It installs the binary and starts again with it, or the binary it finds is
\* no longer the one it was told of.
Install(a) ==
  /\ qBusy[a] # NoBuild
  /\ qBusy[a] = qTarget
  /\ qRun' = [qRun EXCEPT ![a] = qBusy[a]]
  /\ qRan' = [qRan EXCEPT ![a] = @ \cup {qBusy[a]}]
  /\ qBusy' = [qBusy EXCEPT ![a] = NoBuild]
  /\ UNCHANGED << qTarget, qBuild, qCmds, qCool, qTask, qWins, qOrder, qReleases, qOrders, qMishaps >>

\* The update fails and the agent reports it.
InstallFails(a) ==
  /\ qBusy[a] # NoBuild
  /\ qBusy[a] # qTarget \/ qMishaps < MaxMishaps
  /\ qMishaps' = IF qBusy[a] # qTarget THEN qMishaps ELSE qMishaps + 1
  /\ qBusy' = [qBusy EXCEPT ![a] = NoBuild]
  /\ IF Taken(a) = {} THEN UNCHANGED qCmds ELSE \E i \in Taken(a) : EndCommand(a, i)
  /\ UNCHANGED << qTarget, qRun, qBuild, qRan, qCool, qTask, qWins, qOrder, qReleases, qOrders >>

\* The agent dies before it reports.
AgentDies(a) ==
  /\ qBusy[a] # NoBuild /\ qMishaps < MaxMishaps
  /\ qMishaps' = qMishaps + 1
  /\ qBusy' = [qBusy EXCEPT ![a] = NoBuild]
  /\ UNCHANGED << qTarget, qRun, qBuild, qRan, qCmds, qCool, qTask, qWins, qOrder, qReleases, qOrders >>

\* The lease of a command the agent took runs out.
ReapExpired(a) ==
  /\ qBusy[a] = NoBuild
  /\ \E i \in Taken(a) : EndCommand(a, i)
  /\ UNCHANGED << qTarget, qRun, qBuild, qRan, qCool, qTask, qBusy, qWins, qOrder, qReleases, qOrders, qMishaps >>

\* A command nobody fetched within a day is never handed out; it still counts
\* as active until the nightly cleaning removes it a week later.
Lapse(a) ==
  /\ qCmds[a] # << >> /\ qCmds[a][1].status = "pending" /\ qMishaps < MaxMishaps
  /\ qCmds' = [qCmds EXCEPT ![a][1].status = "lapsed"]
  /\ qMishaps' = qMishaps + 1
  /\ UNCHANGED << qTarget, qRun, qBuild, qRan, qCool, qTask, qBusy, qWins, qOrder, qReleases, qOrders >>

cleanupExpiredData(a) ==
  /\ \E i \in DOMAIN qCmds[a] : qCmds[a][i].status = "lapsed" /\ EndCommand(a, i)
  /\ UNCHANGED << qTarget, qRun, qBuild, qRan, qCool, qTask, qBusy, qWins, qOrder, qReleases, qOrders, qMishaps >>

\* The orchestrator puts in a command of a task, which a statement sees once
\* the transaction has committed, and the command ends.
TaskCommand(a) ==
  /\ \/ qTask[a] = NoTask /\ qMishaps < MaxMishaps /\ qTask' = [qTask EXCEPT ![a] = "uncommitted"]
        /\ qMishaps' = qMishaps + 1
     \/ qTask[a] = "uncommitted" /\ qTask' = [qTask EXCEPT ![a] = "active"] /\ UNCHANGED qMishaps
     \/ qTask[a] = "active" /\ qTask' = [qTask EXCEPT ![a] = NoTask] /\ UNCHANGED qMishaps
  /\ UNCHANGED << qTarget, qRun, qBuild, qRan, qCmds, qCool, qBusy, qWins, qOrder, qReleases, qOrders >>
-----------------------------------------------------------------------------
AgentUpdateNext ==
  \/ \E as \in SUBSET UpAgents, f \in BOOLEAN : Enqueue(as, f)
  \/ \E h \in qOrder.left : EnqueueHost(h)
  \/ Release
  \/ \E a \in UpAgents :
       \/ markSelfUpdateSuccess(a) \/ AutoEnqueue(a) \/ CoolDown(a)
       \/ Fetch(a) \/ Install(a) \/ InstallFails(a) \/ AgentDies(a)
       \/ ReapExpired(a) \/ Lapse(a) \/ cleanupExpiredData(a) \/ TaskCommand(a)

AgentUpdateTypeOK ==
  /\ qTarget \in Builds \cup {NoBuild} /\ qRun \in [UpAgents -> Builds]
  /\ qBuild \in [UpAgents -> Builds \cup {NoBuild}]
  /\ \A a \in UpAgents : \A i \in DOMAIN qCmds[a] :
       qCmds[a][i].status \in {"pending", "dispatched", "lapsed"} /\ qCmds[a][i].sha \in Builds
  /\ qMishaps \in 0 .. MaxMishaps

\* An agent never has two self updates under way, though administrators and
\* heartbeats put them in independently.
OneSelfUpdate == \A a \in UpAgents : Len(qCmds[a]) <= 1

\* A self update is reported as a success only for a build the agent has run,
\* also when an older command and a newer build meet.
SuccessIsReal == \A a \in UpAgents : qWins[a] \subseteq qRan[a]

\* What the server believes of updates is so.
AgentUpdateInv == AgentUpdateTypeOK /\ OneSelfUpdate /\ SuccessIsReal

\* With automatic updates on, every agent comes to run the build on the server,
\* whatever fails or is lost on the way.
FleetConverges == \A a \in UpAgents : <>[](qTarget = NoBuild \/ qRun[a] = qTarget)
=============================================================================
