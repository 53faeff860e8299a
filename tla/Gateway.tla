------------------------------ MODULE Gateway ------------------------------
(***************************************************************************)
(* The agent gateway (gateway.go, reap.go) and the agent processes that    *)
(* call it (agentrun/run.go).  A request of an agent can be lost, be late  *)
(* or reach the server more than once: an agent's step only changes what   *)
(* the agent knows, and the server step for a message is enabled as long   *)
(* as the agent has a reason to send it.                                   *)
(***************************************************************************)
EXTENDS TaskStore

CONSTANT QueueExpires   \* an agent may stay away until expire_at has passed

ASSUME GatewayAssumption == QueueExpires \in BOOLEAN

(* The agent works on one command at a time and polls only when idle. *)
Busy(h) == \E i \in CmdIds : agent[h][i] \in {"got", "exec"}

Queued(h) == {i \in CmdIds : cmd[h][i].st = "pending" /\ ~cmd[h][i].dead}

(* Dequeue: the oldest queued command is leased and handed out.  The       *)
(* answer may be lost after the commit (arrives = FALSE).                  *)
Dequeue(h, i, arrives) ==
  /\ ~Busy(h)
  /\ i \in Queued(h) /\ \A j \in Queued(h) : i <= j
  /\ WriteRow(h, i, [cmd[h][i] EXCEPT !.st = "dispatched", !.lease = "live",
                                      !.tries = @ + 1])
  /\ agent' = [agent EXCEPT ![h][i] = IF arrives THEN "got" ELSE "gone"]
  /\ UNCHANGED <<task, batch, host, sigmode, maint>>

(* verifyCommand: a legacy agent only checks the signature path it speaks. *)
SignatureMatches(h) == Speaks[h] = "both" \/ sigmode[h] = Speaks[h]

(* poll: the agent refuses a command it cannot verify or that is too old,  *)
(* otherwise it acknowledges and starts executing.                         *)
Verify(h, i) ==
  /\ agent[h][i] = "got"
  /\ \E phase \in {"badsig", "refused", "exec"} :
       /\ phase = "exec" => SignatureMatches(h)
       /\ phase = "badsig" => ~SignatureMatches(h)
       /\ agent' = [agent EXCEPT ![h][i] = phase]
  /\ UNCHANGED <<task, batch, host, cmd, sigmode, maint>>

(* Executing ends with a result, or with the death of the agent process;   *)
(* a result is stored in the agent's state file until it is delivered.     *)
Execute(h, i) ==
  /\ agent[h][i] = "exec"
  /\ \E phase \in {"success", "failed", "gone"} :
       agent' = [agent EXCEPT ![h][i] = phase]
  /\ UNCHANGED <<task, batch, host, cmd, sigmode, maint>>

Started(h, i) == agent[h][i] \in {"exec", "success", "failed"}

(* Ack, accepted: only a dispatched command moves on. *)
AckAccepted(h, i) ==
  /\ Started(h, i)
  /\ cmd[h][i].st = "dispatched"
  /\ WriteRow(h, i, [cmd[h][i] EXCEPT !.st = "accepted"])
  /\ UNCHANGED <<task, batch, host, sigmode, maint, agent>>

(* Ack, rejected for its signature: on the first attempt, when exactly one *)
(* legacy path is on record, the path is switched and the command queued   *)
(* again.                                                                  *)
CanSwitch(h, i) ==
  agent[h][i] = "badsig" /\ cmd[h][i].tries <= 1 /\ sigmode[h] # "both"

(* Mutant: the attempt is counted here and by Dequeue. *)
AckSwitchMutant(h, i) ==
  /\ cmd[h][i].st = "dispatched"
  /\ CanSwitch(h, i)
  /\ sigmode' = [sigmode EXCEPT ![h] = IF @ = "id" THEN "signed_path" ELSE "id"]
  /\ WriteRow(h, i, [cmd[h][i] EXCEPT !.st = "pending", !.lease = "null", !.tries = @ + 1])
  /\ agent' = [agent EXCEPT ![h][i] = "none"]
  /\ UNCHANGED <<task, batch, host, maint>>

AckSwitch(h, i) ==
  /\ cmd[h][i].st = "dispatched"
  /\ CanSwitch(h, i)
  /\ sigmode' = [sigmode EXCEPT ![h] = IF @ = "id" THEN "signed_path" ELSE "id"]
  /\ WriteRow(h, i, [cmd[h][i] EXCEPT !.st = "pending", !.lease = "null"])
  /\ agent' = [agent EXCEPT ![h][i] = "none"]
  /\ UNCHANGED <<task, batch, host, maint>>

(* Mutant: a rejected command is canceled instead of failed. *)
AckRejectedMutant(h, i) ==
  /\ cmd[h][i].st = "dispatched"
  /\ agent[h][i] \in {"badsig", "refused"}
  /\ ~CanSwitch(h, i)
  /\ WriteRow(h, i, Close(cmd[h][i], "canceled"))
  /\ agent' = [agent EXCEPT ![h][i] = "gone"]
  /\ UNCHANGED <<task, batch, host, sigmode, maint>>

(* Ack, rejected for good: the command fails; task_hosts waits for the     *)
(* next SyncTaskHostsFromCommands.                                         *)
AckRejected(h, i) ==
  /\ cmd[h][i].st = "dispatched"
  /\ agent[h][i] \in {"badsig", "refused"}
  /\ ~CanSwitch(h, i)
  /\ WriteRow(h, i, Close(cmd[h][i], "failed"))
  /\ agent' = [agent EXCEPT ![h][i] = "gone"]
  /\ UNCHANGED <<task, batch, host, sigmode, maint>>

(* A result for command i reaches its row and its host: the command takes  *)
(* it when still active, the host when it has none of its own yet.         *)
Settle(h, i, result) ==
  /\ WriteRow(h, i, Close(cmd[h][i], result))
  /\ host' = [host EXCEPT ![h] = IF @ \in HostSealed THEN @ ELSE result]
  /\ maint' = [maint EXCEPT ![h] = FALSE]

(* EnterMaintenance, called before UpdateStage for the stage of that name; *)
(* it does not look at the command at all.                                 *)
EnterMaintenance(h, i) ==
  /\ Started(h, i)
  /\ Kind = "upgrade"
  /\ ~maint[h]
  /\ maint' = [maint EXCEPT ![h] = TRUE]
  /\ UNCHANGED <<task, batch, host, cmd, sigmode, agent>>

(* UpdateStage with a stage that does not end the command: it runs, and    *)
(* its lease is renewed.  "early" is any stage before the install steps    *)
(* that FinalizeCompletedStages takes as evidence of success.              *)
StageAfter(old, s) ==
  LET evidence == s = "step" \/ old \in {"step", "proven"}
  IN  IF s = "done" THEN IF evidence THEN "proven" ELSE "done"
                    ELSE IF evidence THEN "step" ELSE "none"

Progress(h, i, s) ==
  /\ cmd[h][i].st \in CmdActive
  /\ s # "done" => agent[h][i] = "exec"
  /\ s = "step" => Kind = "upgrade"
  /\ s = "done" => /\ agent[h][i] = "success" /\ h \in Quiet
                   /\ cmd[h][i].stage \in {"none", "step"}
  /\ WriteRow(h, i, [cmd[h][i] EXCEPT
       !.st = "running",
       !.lease = IF @ = "null" THEN "null" ELSE "live",
       !.stage = StageAfter(@, s)])
  /\ UNCHANGED <<task, batch, host, sigmode, maint, agent>>

(* UpdateStage with "done" and a success message, or with "failed": the    *)
(* stage already decides the result.                                       *)
FinalStage(h, i) ==
  /\ cmd[h][i].st \in CmdActive
  /\ \/ agent[h][i] = "success" /\ h \notin Quiet
     \/ agent[h][i] = "failed"
  /\ Settle(h, i, agent[h][i])
  /\ UNCHANGED <<task, batch, sigmode, agent>>

(* Mutant: a late report overwrites a command that has ended. *)
ReportMutant(h, i) ==
  /\ agent[h][i] \in {"success", "failed"}
  /\ cmd[h][i].st # "none"
  /\ Settle(h, i, agent[h][i])
  /\ UNCHANGED <<task, batch, sigmode, agent>>

(* Report: the result of an active command.  A report for a canceled       *)
(* command is dropped; one for a finished command changes no row.          *)
Report(h, i) ==
  /\ agent[h][i] \in {"success", "failed"}
  /\ cmd[h][i].st \in CmdActive
  /\ Settle(h, i, agent[h][i])
  /\ UNCHANGED <<task, batch, sigmode, agent>>

(* Time: thirty minutes without a stage, two hours in the queue. *)
LeaseLapses(h, i) ==
  /\ cmd[h][i].st \in CmdActive /\ cmd[h][i].lease = "live"
  /\ WriteRow(h, i, [cmd[h][i] EXCEPT !.lease = "lapsed"])
  /\ UNCHANGED <<task, batch, host, sigmode, maint, agent>>

QueueTimeout(h, i) ==
  /\ QueueExpires
  /\ cmd[h][i].st = "pending" /\ ~cmd[h][i].dead
  /\ WriteRow(h, i, [cmd[h][i] EXCEPT !.dead = TRUE])
  /\ UNCHANGED <<task, batch, host, sigmode, maint, agent>>

(* The gateway half of a reconciliation round, run by the orchestrator.    *)

(* FinalizeCompletedStages: a command that said "done" but never reported. *)
(* silent holds the ones heard of long enough ago to decide without them.  *)
DoneUnreported == {p \in Hosts \X CmdIds :
                     /\ cmd[p[1]][p[2]].st \in {"dispatched", "accepted", "running"}
                     /\ cmd[p[1]][p[2]].stage \in {"done", "proven"}}

FinalizeCompletedStages ==
  /\ \E silent \in SUBSET DoneUnreported :
       cmd' = [h \in Hosts |-> [i \in CmdIds |->
                 IF <<h, i>> \in silent
                   THEN Close(cmd[h][i], IF cmd[h][i].stage = "proven"
                                           THEN "success" ELSE "timeout")
                   ELSE cmd[h][i]]]
  /\ UNCHANGED <<task, batch, host, sigmode, maint, agent>>

(* Mutant: a command handed out and never acknowledged is not reaped. *)
ExpiredMutant(h) == {i \in CmdIds : cmd[h][i].st \in {"accepted", "running"}
                                    /\ cmd[h][i].lease = "lapsed"}

(* ReapExpired: commands whose lease ran out, with their hosts.  Only a    *)
(* command that was handed out has a lease.                                *)
Expired(h) == {i \in CmdIds : cmd[h][i].st \in {"dispatched", "accepted", "running"}
                              /\ cmd[h][i].lease = "lapsed"}

ReapExpired ==
  /\ cmd' = [h \in Hosts |-> [i \in CmdIds |->
               IF i \in Expired(h) THEN Close(cmd[h][i], "timeout")
                                   ELSE cmd[h][i]]]
  /\ host' = [h \in Hosts |->
                IF Expired(h) # {} /\ host[h] \in {"pending", "running"}
                  THEN "timeout" ELSE host[h]]
  /\ maint' = [h \in Hosts |->
                 IF Expired(h) # {} /\ ActiveCmds(h) \subseteq Expired(h)
                   THEN FALSE ELSE maint[h]]
  /\ UNCHANGED <<task, batch, sigmode, agent>>

(* SyncTaskHostsFromCommands: an open host without an active command takes *)
(* the result of its newest finished command, unless that is older than    *)
(* the host's started_at.                                                  *)
SyncResult(h) ==
  {cmd[h][i].st : i \in {j \in FinalCmds(h) : /\ \A k \in FinalCmds(h) : k <= j
                                              /\ cmd[h][j].fresh}}

Syncable(h) == /\ host[h] \in {"pending", "running"}
               /\ ActiveCmds(h) = {}
               /\ SyncResult(h) # {}

SyncTaskHostsFromCommands ==
  /\ host' = [h \in Hosts |-> IF Syncable(h) THEN CHOOSE s \in SyncResult(h) : TRUE
                                             ELSE host[h]]
  /\ UNCHANGED <<task, batch, cmd, sigmode, maint, agent>>

(* Mutant: reconciliation leaves the maintenance windows to the reports. *)
ClearMaintenanceMutant == UNCHANGED storeVars

(* The last statement of ReconcileTasks: no command, no maintenance window. *)
ClearMaintenance ==
  /\ maint' = [h \in Hosts |-> maint[h] /\ ActiveCmds(h) # {}]
  /\ UNCHANGED <<task, batch, host, cmd, sigmode, agent>>

AgentStep(h, i) == Verify(h, i) \/ Execute(h, i)

Message(h, i) ==
  \/ AckAccepted(h, i)
  \/ AckSwitch(h, i)
  \/ AckRejected(h, i)
  \/ EnterMaintenance(h, i)
  \/ \E s \in {"early", "step", "done"} : Progress(h, i, s)
  \/ FinalStage(h, i)
  \/ Report(h, i)

Time(h, i) == LeaseLapses(h, i) \/ QueueTimeout(h, i)

GatewayNext ==
  \E h \in Hosts, i \in CmdIds :
    \/ \E arrives \in BOOLEAN : Dequeue(h, i, arrives)
    \/ AgentStep(h, i)
    \/ Message(h, i)
    \/ Time(h, i)
=============================================================================
