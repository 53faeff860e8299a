------------------------------ MODULE TaskApi ------------------------------
(***************************************************************************)
(* The operations an operator calls on a task (dispatch.go, retry.go).     *)
(* Each is one transaction, or one guarded UPDATE whose zero affected rows *)
(* are reported as an error and change nothing.  Delete is in DeleteJob.   *)
(***************************************************************************)
EXTENDS TaskStore

CONSTANTS
  Ops,        \* the operations a run lets the operator call
  MaxRetry,   \* bound: calls of Retry that reset something
  Ties        \* NOW() of a Retry can equal the finished_at of an earlier step

ASSUME ApiAssumption ==
  /\ Ops \subseteq {"start", "promote", "pause", "cancel", "retry"}
  /\ MaxRetry \in Nat
  /\ Ties \in BOOLEAN

VARIABLES
  retries,    \* resets made so far
  resumed     \* history: an operator resumed the task since a batch completed

apiVars == <<retries, resumed>>

ApiTypeOK == retries \in 0..MaxRetry /\ resumed \in BOOLEAN

ApiInit == retries = 0 /\ resumed = FALSE

(* Start: draft or paused to running.  A draft can always be started. *)
Start ==
  /\ task = "draft" \/ (task = "paused" /\ "start" \in Ops)
  /\ task' = "running"
  /\ resumed' = TRUE
  /\ UNCHANGED <<batch, host, cmd, sigmode, maint, agent, retries>>

(* Promote: skip the failed batches and resume, in one transaction. *)
Promote ==
  /\ "promote" \in Ops
  /\ task = "paused"
  /\ batch' = [b \in Batches |-> IF batch[b] = "failed" THEN "skipped" ELSE batch[b]]
  /\ task' = "running"
  /\ resumed' = TRUE
  /\ UNCHANGED <<host, cmd, sigmode, maint, agent, retries>>

Pause ==
  /\ "pause" \in Ops
  /\ task = "running"
  /\ task' = "paused"
  /\ UNCHANGED <<batch, host, cmd, sigmode, maint, agent, retries, resumed>>

(* Mutant: the statement forgets the commands an agent already accepted. *)
CancelCommandsMutant(S) ==
  [h \in Hosts |-> [i \in CmdIds |->
     IF h \in S /\ cmd[h][i].st \in {"pending", "dispatched"}
       THEN Close(cmd[h][i], "canceled") ELSE cmd[h][i]]]

(* Every active command of the hosts in S becomes canceled. *)
CancelCommands(S) ==
  [h \in Hosts |-> [i \in CmdIds |->
     IF h \in S /\ cmd[h][i].st \in CmdActive
       THEN Close(cmd[h][i], "canceled") ELSE cmd[h][i]]]

(* Mutant: hosts already running are left to finish. *)
CancelMutant ==
  /\ "cancel" \in Ops
  /\ task \in {"draft", "running", "paused"}
  /\ batch' = [b \in Batches |->
                 IF batch[b] \in {"pending", "running"} THEN "canceled" ELSE batch[b]]
  /\ host' = [h \in Hosts |-> IF host[h] = "pending" THEN "canceled" ELSE host[h]]
  /\ cmd' = CancelCommands({h \in Hosts : host[h] = "pending"})
  /\ task' = "canceled"
  /\ UNCHANGED <<sigmode, maint, agent, retries, resumed>>

Cancel ==
  /\ "cancel" \in Ops
  /\ task \in {"draft", "running", "paused"}
  /\ batch' = [b \in Batches |->
                 IF batch[b] \in {"pending", "running"} THEN "canceled" ELSE batch[b]]
  /\ host' = [h \in Hosts |->
                IF host[h] \in {"pending", "running"} THEN "canceled" ELSE host[h]]
  /\ cmd' = CancelCommands(Hosts)
  /\ task' = "canceled"
  /\ UNCHANGED <<sigmode, maint, agent, retries, resumed>>

(* An active command whose lease has not run out: the agent may be at work. *)
HasLive(h) == \E i \in ActiveCmds(h) : cmd[h][i].lease = "live"

Retryable(h, explicit, force) ==
  \/ host[h] \in {"failed", "timeout", "canceled", "skipped", "rolled_back"}
  \/ host[h] = "pending" /\ explicit
  \/ host[h] = "running" /\ (HasLive(h) => explicit /\ force)
  \/ host[h] = "success" /\ explicit /\ force

(* Mutant: started_at is not moved, results of the old attempt stay fresh. *)
RebasedMutant(S, tied) ==
  [h \in Hosts |-> [i \in CmdIds |->
     IF h \in S /\ cmd[h][i].st # "none"
       THEN Row(CancelCommands(S)[h][i].st, cmd[h][i].fresh, FALSE)
       ELSE cmd[h][i]]]

(* The commands once the hosts in S restart: active ones are canceled, and *)
(* the new started_at makes the finished ones older than the baseline,     *)
(* unless their finished_at is the same clock reading (the hosts in tied). *)
Rebased(S, tied) ==
  [h \in Hosts |-> [i \in CmdIds |->
     IF h \in S /\ cmd[h][i].st # "none"
       THEN Row(CancelCommands(S)[h][i].st, cmd[h][i].fresh /\ h \in tied, FALSE)
       ELSE cmd[h][i]]]

(* Retry: reset the chosen hosts and their batches and reopen the task.    *)
(* An empty TaskHostIDs asks for all hosts and is not explicit.            *)
ResetHosts(reset, tied) ==
  /\ host' = [h \in Hosts |-> IF h \in reset THEN "pending" ELSE host[h]]
  /\ cmd' = Rebased(reset, tied)
  /\ batch' = [b \in Batches |->
                 IF \E h \in reset : BatchOf[h] = b THEN "pending" ELSE batch[b]]
  /\ task' = "running"

Retry(ids, explicit, force) ==
  LET reset == {h \in ids : Retryable(h, explicit, force)}
  IN  /\ "retry" \in Ops
      /\ retries < MaxRetry
      /\ task # "draft"
      /\ explicit \/ ids = Hosts
      /\ reset # {}
      /\ \E tied \in SUBSET reset :
           /\ Ties \/ tied = {}
           /\ ResetHosts(reset, tied)
      /\ retries' = retries + 1
      /\ resumed' = TRUE
      /\ UNCHANGED <<sigmode, maint, agent>>

ApiNext ==
  \/ Start
  \/ Promote
  \/ Pause
  \/ Cancel
  \/ \E ids \in SUBSET Hosts, explicit, force \in BOOLEAN : Retry(ids, explicit, force)
=============================================================================
