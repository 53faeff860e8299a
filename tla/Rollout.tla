------------------------------ MODULE Rollout ------------------------------
(***************************************************************************)
(* The roll-out of one task: the operator's API, the agents and their      *)
(* gateway, and the orchestrator, interleaved over the same rows.          *)
(***************************************************************************)
EXTENDS TaskApi, Orchestrator

vars == <<task, batch, host, cmd, sigmode, maint, agent,
          retries, resumed,
          pc, snap, cur, todo, verdict, last, aborts, readErrs>>

Init == StoreInit /\ ApiInit /\ OrchInit

Operator == ApiNext /\ UNCHANGED orchVars

Agents == GatewayNext /\ UNCHANGED apiVars /\ UNCHANGED orchVars

(* Completing a batch closes the gate that an operator may have to open. *)
Orchestrate ==
  /\ OrchStep
  /\ resumed' = (resumed /\ pc # "complete")
  /\ UNCHANGED retries

Fault == Abort /\ UNCHANGED apiVars

Next == Operator \/ Agents \/ Orchestrate \/ Fault

Spec == Init /\ [][Next]_vars

(* A state of the rows within their types. *)
TypeOK == StoreTypeOK /\ ApiTypeOK /\ OrchTypeOK

-----------------------------------------------------------------------------
(***************************************************************************)
(* Safety.                                                                 *)
(***************************************************************************)

(* One command at a time for a host, and only for a host that runs: the    *)
(* rows behind dispatchHostWithType, Retry, Cancel, Report, UpdateStage    *)
(* and ReapExpired never disagree about who owns the host.                 *)
OneActiveCommand ==
  \A h \in Hosts :
    /\ \A i, j \in ActiveCmds(h) : i = j
    /\ ActiveCmds(h) # {} => host[h] = "running"

(* A running host is never orphaned: it has an active command, or its      *)
(* newest command has a result that SyncTaskHostsFromCommands will take.   *)
NoOrphanHost ==
  \A h \in Hosts : host[h] = "running" => ActiveCmds(h) # {} \/ Syncable(h)

(* Once canceled, and until a Retry, nothing of the task is left to run:   *)
(* Cancel against a round of the orchestrator that read the task before.   *)
CanceledIsStopped ==
  task = "canceled" =>
    \A h \in Hosts : ActiveCmds(h) = {} /\ host[h] \notin {"pending", "running"}

(* A host takes a result only from a command issued after its last Retry:  *)
(* late stages, reports, reaping and synchronisation of the command that   *)
(* Retry gave up never decide the new attempt.                             *)
ResultStep ==
  \A h \in Hosts :
    (host[h] \in {"pending", "running"} /\ host'[h] \in {"success", "failed", "timeout"})
    => \E i \in CmdIds : cmd'[h][i].cur /\ cmd'[h][i].st = host'[h]

ResultIsCurrent == [][ResultStep]_vars

(* A command that has left the active states stays as it is, whatever      *)
(* arrives for it later.                                                   *)
SettleStep ==
  \A h \in Hosts, i \in CmdIds :
    cmd[h][i].st \in CmdFinal \cup {"canceled"} => cmd'[h][i].st = cmd[h][i].st

CommandSettles == [][SettleStep]_vars

(* The batch gate: a host gets a command only when the batches before its  *)
(* own have ended, so a failed or unfinished canary holds back the rest.   *)
OrderStep ==
  \A h \in Hosts :
    ActiveCmds(h) = {} /\ ActiveCmds(h)' # {}
    => \A b \in Batches : b < BatchOf[h] => batch[b] \in BatchEnded

BatchesInOrder == [][OrderStep]_vars

(* Without auto_promote a batch after the first gets its first command     *)
(* only after an operator resumed the task, even when the round that       *)
(* completed the batch before it crashed or ran on an old status.          *)
PromoteStep ==
  \A h \in Hosts : ActiveCmds(h) = {} /\ ActiveCmds(h)' # {} => AutoPromote \/ resumed

OperatorPromotes == [][PromoteStep]_vars

(* The task's verdict is about all its hosts: a finished task has no host  *)
(* that still waits or runs.                                               *)
FinishedIsComplete ==
  task \in {"success", "failed"} =>
    \A h \in Hosts : host[h] \notin {"pending", "running"}

(* A finished task's verdict agrees with its hosts: success with no failed *)
(* host.                                                                   *)
VerdictIsHonest ==
  task = "success" => \A h \in Hosts : host[h] \notin HostFailed

(* What the command of a running host ended with, until the host takes it. *)
Outcome(h) == IF host[h] = "running" /\ ActiveCmds(h) = {} THEN SyncResult(h) ELSE {}

(* The number of a command is its place among the rows of its host. *)
Commands == INSTANCE HostCommands WITH
  Numbers <- CmdIds,
  status <- host,
  issued <- [h \in Hosts |-> Issued(h)],
  active <- [h \in Hosts |-> ActiveCmds(h)],
  result <- [h \in Hosts |-> Outcome(h)],
  resets <- retries

(* Whatever interleaves, every host lives as HostCommands says: one        *)
(* command for each attempt, which decides it.                             *)
HostsObeyCommands == Commands!Spec

-----------------------------------------------------------------------------
(***************************************************************************)
(* What makes the safety properties inductive.                             *)
(***************************************************************************)

(* The local variables a statement of the round uses are set. *)
LocalsSet ==
  /\ pc \in {"list", "dispatch", "count", "mark", "progress", "after", "complete"}
       => cur \in Batches
  /\ pc \in {"after", "complete", "finwrite"} => verdict \in {"success", "failed"}

(* A command is queued at most twice. *)
QueuedTwice ==
  \A h \in Hosts, i \in CmdIds : cmd[h][i].st = "pending" => cmd[h][i].tries <= 1

(* The active command is the newest one and belongs to the current attempt. *)
ActiveIsNewest ==
  \A h \in Hosts : \A i \in ActiveCmds(h) :
    /\ cmd[h][i].fresh /\ cmd[h][i].cur
    /\ \A j \in CmdIds : j > i => cmd[h][j].st = "none"

(* With a strict clock only results of the current attempt count. *)
FreshIsCurrent ==
  ~Ties => \A h \in Hosts : \A i \in FinalCmds(h) : cmd[h][i].fresh => cmd[h][i].cur

IInv == /\ TypeOK /\ LocalsSet /\ QueuedTwice
        /\ OneActiveCommand /\ ActiveIsNewest /\ FreshIsCurrent
        /\ NoOrphanHost /\ CanceledIsStopped

-----------------------------------------------------------------------------
(***************************************************************************)
(* Liveness.  Time passes, the ticker fires and the statements of a round  *)
(* return (OrchFairness, TimeFairness); execution is bounded by exec       *)
(* timeouts (WorkFairness); an agent that is up polls (PollFairness).      *)
(* Nothing is assumed of the messages: any of them may never arrive.       *)
(***************************************************************************)
others == <<retries, resumed, orchVars>>

OrchFairness == WF_vars(Orchestrate)
TimeFairness ==
  \A h \in Hosts, i \in CmdIds : WF_vars(LeaseLapses(h, i) /\ UNCHANGED others)
WorkFairness ==
  \A h \in Hosts, i \in CmdIds : WF_vars(Execute(h, i) /\ UNCHANGED others)
PollFairness ==
  \A h \in Hosts, i \in CmdIds : WF_vars(Dequeue(h, i, TRUE) /\ UNCHANGED others)

AwaySpec == Spec /\ OrchFairness /\ TimeFairness /\ WorkFairness
FairSpec == AwaySpec /\ PollFairness

(* A running task does not run for ever: it ends, or stops for a human.    *)
TaskEnds == task = "running" ~> task # "running"

(* The maintenance window of a host closes. *)
MaintenanceEnds == \A h \in Hosts : maint[h] ~> ~maint[h]
=============================================================================
