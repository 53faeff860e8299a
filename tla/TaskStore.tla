----------------------------- MODULE TaskStore -----------------------------
(***************************************************************************)
(* The rows that one upgrade task keeps in the database, and the questions *)
(* every component asks of them.  The task API (TaskApi), the agent        *)
(* gateway (Gateway) and the orchestrator (Orchestrator) are three sets of *)
(* actions over these variables; Rollout composes them.                    *)
(*                                                                         *)
(* A transaction of the code is one step: its row locks are taken in the   *)
(* order task_batches, task_hosts, commands, upgrade_tasks everywhere, and *)
(* a handler re-reads what it depends on under the lock.  Statements that  *)
(* the code runs outside a transaction are separate steps.                 *)
(***************************************************************************)
EXTENDS Integers, FiniteSets

CONSTANTS
  Hosts,            \* the task_hosts rows of the task, one per target host
  NBatches,         \* number of task_batches rows
  BatchOf,          \* task_hosts.batch_index
  MaxCmd,           \* bound: commands rows per task_hosts row
  Kind,             \* upgrade_tasks.kind: "upgrade" or "command"
  Threshold,        \* Strategy.FailureThreshold, a percentage
  AutoPromote,      \* Strategy.AutoPromote
  AutoRollback,     \* Strategy.AutoRollback
  Speaks,           \* signature path an agent can verify
  Quiet             \* hosts whose agent says "done" without a success message

Batches == 1..NBatches
CmdIds  == 1..MaxCmd
SigModes == {"id", "signed_path", "both"}

ASSUME StoreAssumption ==
  /\ NBatches \in Nat \ {0}
  /\ MaxCmd \in Nat \ {0}
  /\ BatchOf \in [Hosts -> Batches]
  /\ IsFiniteSet(Hosts)
  /\ Kind \in {"upgrade", "command"}
  /\ Threshold \in Nat
  /\ AutoPromote \in BOOLEAN /\ AutoRollback \in BOOLEAN
  /\ Speaks \in [Hosts -> SigModes]
  /\ Quiet \subseteq Hosts

VARIABLES
  task,      \* upgrade_tasks.status
  batch,     \* task_batches.status by batch_index
  host,      \* task_hosts.status
  cmd,       \* commands rows of a task_hosts row, in id order
  sigmode,   \* agents.signature_modes
  maint,     \* hosts.maintenance_reason = 'upgrading'
  agent      \* what the agent process did with each command it was sent

storeVars == <<task, batch, host, cmd, sigmode, maint, agent>>

TaskStatus  == {"draft", "running", "paused", "success", "failed", "canceled"}
BatchStatus == {"pending", "running", "success", "failed", "skipped", "canceled"}
HostStatus  == {"pending", "running", "success", "failed", "rolled_back",
                "timeout", "skipped", "canceled"}
CmdActive   == {"pending", "dispatched", "accepted", "running"}
CmdFinal    == {"success", "failed", "rolled_back", "timeout"}
CmdStatus   == {"none", "canceled"} \cup CmdActive \cup CmdFinal

(***************************************************************************)
(* One commands row.  "none" is a row not inserted yet.  lease is          *)
(* lease_expire_at against the database clock, dead says that expire_at    *)
(* has passed, stage is last_stage with what the log proves ("proven":     *)
(* done, after an install step was logged), fresh says                     *)
(* finished_at >= task_hosts.started_at.  cur is history only: the row was *)
(* inserted after the host's last Retry.                                   *)
(***************************************************************************)
CmdRow == [st    : CmdStatus,
           tries : 0..2,
           lease : {"null", "live", "lapsed"},
           dead  : BOOLEAN,
           stage : {"none", "step", "done", "proven"},
           fresh : BOOLEAN,
           cur   : BOOLEAN]

Row(status, isFresh, isCur) ==
  [st |-> status, tries |-> 0, lease |-> "null", dead |-> FALSE,
   stage |-> "none", fresh |-> isFresh, cur |-> isCur]

NoCmd     == Row("none", TRUE, TRUE)
QueuedCmd == Row("pending", TRUE, TRUE)

(* A row leaving the active states.  Nothing reads its lease, expiry,      *)
(* attempts or stage again, so they are dropped here.                      *)
Close(row, status) == Row(status, row.fresh, row.cur)

AgentPhase == {"none", "got", "badsig", "refused", "exec", "success",
               "failed", "gone"}

StoreTypeOK ==
  /\ task \in TaskStatus
  /\ batch \in [Batches -> BatchStatus]
  /\ host \in [Hosts -> HostStatus]
  /\ cmd \in [Hosts -> [CmdIds -> CmdRow]]
  /\ sigmode \in [Hosts -> SigModes]
  /\ maint \in [Hosts -> BOOLEAN]
  /\ agent \in [Hosts -> [CmdIds -> AgentPhase]]

(* UPDATE of one commands row. *)
WriteRow(h, i, row) == cmd' = [cmd EXCEPT ![h][i] = row]

(* Statuses the code's statements filter on. *)
BatchEnded == {"success", "skipped", "canceled"}
HostDone   == HostStatus \ {"pending", "running"}
HostFailed == {"failed", "timeout", "canceled"}
HostSealed == {"success", "failed", "rolled_back", "timeout", "canceled"}
TaskOpen   == {"running", "paused"}

ActiveCmds(h) == {i \in CmdIds : cmd[h][i].st \in CmdActive}
FinalCmds(h)  == {i \in CmdIds : cmd[h][i].st \in CmdFinal}
Issued(h)     == {i \in CmdIds : cmd[h][i].st # "none"}
HostsOf(b)    == {h \in Hosts : BatchOf[h] = b}

(* Mutant: a failed batch counts as ended, so Start resumes over it. *)
OpenBatchesMutant == {b \in Batches : batch[b] \notin BatchEnded \cup {"failed"}}

(* The unfinished batches; the orchestrator works on the first of them. *)
OpenBatches == {b \in Batches : batch[b] \notin BatchEnded}

(* A task as Create leaves it, before the operator starts it. *)
StoreInit ==
  /\ task = "draft"
  /\ batch = [b \in Batches |-> "pending"]
  /\ host = [h \in Hosts |-> "pending"]
  /\ cmd = [h \in Hosts |-> [i \in CmdIds |-> NoCmd]]
  /\ sigmode = [h \in Hosts |-> IF Speaks[h] = "both" THEN "both" ELSE "id"]
  /\ maint = [h \in Hosts |-> FALSE]
  /\ agent = [h \in Hosts |-> [i \in CmdIds |-> "none"]]
=============================================================================
