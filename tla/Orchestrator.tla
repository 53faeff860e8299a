---------------------------- MODULE Orchestrator ----------------------------
(***************************************************************************)
(* The orchestrator (orchestrator.go): one round every five seconds, on    *)
(* the replica that holds the advisory lock.  A round reconciles, reads    *)
(* the task's status, and advances the task with that status, however old  *)
(* it has become.  Every statement or transaction of the round is a step,  *)
(* so the operator and the agents act in between.                          *)
(***************************************************************************)
EXTENDS Gateway

CONSTANTS
  MaxAborts,   \* bound: rounds cut short by an error or a crash
  MaxReadErr   \* bound: failed queries whose error the code swallows

ASSUME OrchAssumption == MaxAborts \in Nat /\ MaxReadErr \in Nat

VARIABLES
  pc,          \* the next statement of the round
  snap,        \* upgrade_tasks.status as tick read it
  cur,         \* the batch the round works on, 0 if none
  todo,        \* the pending hosts dispatchBatch read and has yet to handle
  verdict,     \* status the finished batch, or then the task, is to get
  last,        \* lastBatch
  aborts, readErrs

orchVars == <<pc, snap, cur, todo, verdict, last, aborts, readErrs>>
locals   == <<snap, cur, todo, verdict, last, aborts, readErrs>>

PcValues == {"idle", "reap", "sync", "clear", "scan", "current", "list",
             "dispatch", "count", "mark", "progress", "after", "complete",
             "finread", "finwrite"}

OrchTypeOK ==
  /\ pc \in PcValues
  /\ snap \in {"none"} \cup TaskOpen
  /\ cur \in 0..NBatches
  /\ todo \in SUBSET Hosts
  /\ verdict \in {"none", "success", "failed"}
  /\ last \in BOOLEAN
  /\ aborts \in 0..MaxAborts
  /\ readErrs \in 0..MaxReadErr

OrchInit ==
  /\ pc = "idle" /\ snap = "none" /\ cur = 0 /\ todo = {}
  /\ verdict = "none" /\ last = FALSE /\ aborts = 0 /\ readErrs = 0

(* Leaving the round forgets the local variables. *)
EndRound ==
  /\ pc' = "idle" /\ snap' = "none" /\ cur' = 0 /\ todo' = {}
  /\ verdict' = "none" /\ last' = FALSE
  /\ UNCHANGED <<aborts, readErrs>>

(* tick: reconcile, statement by statement. *)
Finalize == /\ pc = "idle" /\ pc' = "reap"
            /\ FinalizeCompletedStages
            /\ UNCHANGED locals

Reap == /\ pc = "reap" /\ pc' = "sync"
        /\ ReapExpired
        /\ UNCHANGED locals

Sync == /\ pc = "sync" /\ pc' = "clear"
        /\ SyncTaskHostsFromCommands
        /\ UNCHANGED locals

Clear == /\ pc = "clear" /\ pc' = "scan"
         /\ ClearMaintenance
         /\ UNCHANGED locals

(* tick: read the task if it is running or paused. *)
Scan ==
  /\ pc = "scan"
  /\ UNCHANGED storeVars
  /\ IF task \in TaskOpen
       THEN /\ snap' = task /\ pc' = "current"
            /\ UNCHANGED <<cur, todo, verdict, last, aborts, readErrs>>
       ELSE EndRound

(* advance: choose by the first batch that has not ended. *)
CurrentBatch ==
  /\ pc = "current"
  /\ UNCHANGED storeVars
  /\ \/ /\ OpenBatches = {}
        /\ pc' = "finread"
        /\ UNCHANGED locals
     \/ \E b \in OpenBatches :
          /\ \A c \in OpenBatches : b <= c
          /\ \/ /\ batch[b] = "pending" /\ snap = "running"
                /\ pc' = "list" /\ cur' = b
                /\ UNCHANGED <<snap, todo, verdict, last, aborts, readErrs>>
             \/ /\ batch[b] = "running"
                /\ pc' = "progress" /\ cur' = b
                /\ UNCHANGED <<snap, todo, verdict, last, aborts, readErrs>>
             \/ /\ batch[b] = "failed" \/ (batch[b] = "pending" /\ snap = "paused")
                /\ EndRound

(* dispatchBatch: read the batch's pending hosts. *)
ListPending ==
  /\ pc = "list" /\ pc' = "dispatch"
  /\ todo' = {h \in HostsOf(cur) : host[h] = "pending"}
  /\ UNCHANGED storeVars
  /\ UNCHANGED <<snap, cur, verdict, last, aborts, readErrs>>

(* markHostSkipped: no agent, wrong OS, offline, no artifact, ... *)
SkipHost(h) ==
  /\ pc = "dispatch" /\ h \in todo
  /\ todo' = todo \ {h}
  /\ host' = [host EXCEPT ![h] = IF @ = "pending" THEN "skipped" ELSE @]
  /\ UNCHANGED <<task, batch, cmd, sigmode, maint, agent>>
  /\ UNCHANGED <<pc, snap, cur, verdict, last, aborts, readErrs>>

(* dispatchHostWithType: under the host's row lock, insert a command and   *)
(* mark the host running, or adopt an active command it already has.       *)
IsNext(h, i) == Issued(h) = 1..(i - 1)

InsertCommand(h) ==
  IF ActiveCmds(h) # {}
    THEN UNCHANGED cmd
    ELSE \E i \in CmdIds :
           /\ IsNext(h, i)
           /\ WriteRow(h, i, QueuedCmd)

DispatchHost(h) ==
  /\ pc = "dispatch" /\ h \in todo
  /\ todo' = todo \ {h}
  /\ IF host[h] = "pending" /\ task = "running"
       THEN /\ InsertCommand(h)
            /\ host' = [host EXCEPT ![h] = "running"]
       ELSE UNCHANGED <<host, cmd>>
  /\ UNCHANGED <<task, batch, sigmode, maint, agent>>
  /\ UNCHANGED <<pc, snap, cur, verdict, last, aborts, readErrs>>

LoopDone ==
  /\ pc = "dispatch" /\ todo = {} /\ pc' = "count"
  /\ UNCHANGED storeVars /\ UNCHANGED locals

(* The batch stays pending while one of its hosts does. *)
CountPending ==
  /\ pc = "count"
  /\ UNCHANGED storeVars
  /\ IF \E h \in HostsOf(cur) : host[h] = "pending"
       THEN EndRound
       ELSE pc' = "mark" /\ UNCHANGED locals

(* markBatch(running): no condition on the batch's status. *)
MarkBatch ==
  /\ pc = "mark"
  /\ batch' = [batch EXCEPT ![cur] = "running"]
  /\ UNCHANGED <<task, host, cmd, sigmode, maint, agent>>
  /\ EndRound

(* batchProgress, and the comparison of the failure rate with the          *)
(* threshold.                                                              *)
OverThreshold(b) ==
  LET failed == {h \in HostsOf(b) : host[h] \in HostFailed}
  IN  Cardinality(failed) * 100 > Threshold * Cardinality(HostsOf(b))

BatchProgress ==
  /\ pc = "progress"
  /\ UNCHANGED storeVars
  /\ IF \E h \in HostsOf(cur) : host[h] \notin HostDone
       THEN EndRound
       ELSE /\ verdict' = IF OverThreshold(cur) THEN "failed" ELSE "success"
            /\ pc' = "after"
            /\ UNCHANGED <<snap, cur, todo, last, aborts, readErrs>>

(* Mutant: the comparison of batch_index is off by one. *)
PendingAfterMutant(b) == \E c \in Batches : c > b + 1 /\ batch[c] = "pending"

(* hasPendingBatchAfter *)
PendingAfter(b) == \E c \in Batches : c > b /\ batch[c] = "pending"

HasPendingAfter ==
  /\ pc = "after" /\ pc' = "complete"
  /\ last' = ~PendingAfter(cur)
  /\ UNCHANGED storeVars
  /\ UNCHANGED <<snap, cur, todo, verdict, aborts, readErrs>>

(* A failed query answers FALSE: the batch is taken for the last one. *)
HasPendingAfterFails ==
  /\ pc = "after" /\ pc' = "complete"
  /\ readErrs < MaxReadErr /\ readErrs' = readErrs + 1
  /\ last' = TRUE
  /\ UNCHANGED storeVars
  /\ UNCHANGED <<snap, cur, todo, verdict, aborts>>

(* Mutant: a successful batch goes on without looking at auto_promote. *)
PauseWantedMutant == ~last /\ verdict = "failed" /\ snap # "paused"

(* completeBatch: batch, rollback marks and pause in one transaction. *)
PauseWanted ==
  /\ ~last
  /\ IF verdict = "failed" THEN snap # "paused"
                           ELSE ~(AutoPromote /\ snap # "paused")

(* Mutant: the batch takes the status of its rolled back hosts. *)
CompleteBatchMutant ==
  /\ pc = "complete"
  /\ batch' = [batch EXCEPT ![cur] =
                 IF verdict = "failed" /\ AutoRollback THEN "rolled_back" ELSE verdict]
  /\ host' = [h \in Hosts |->
                IF /\ verdict = "failed" /\ AutoRollback
                   /\ BatchOf[h] = cur /\ host[h] = "success"
                  THEN "rolled_back" ELSE host[h]]
  /\ task' = IF PauseWanted /\ task = "running" THEN "paused" ELSE task
  /\ UNCHANGED <<cmd, sigmode, maint, agent>>
  /\ IF last
       THEN /\ pc' = "finread"
            /\ verdict' = "none"
            /\ UNCHANGED <<snap, cur, todo, last, aborts, readErrs>>
       ELSE EndRound

CompleteBatch ==
  /\ pc = "complete"
  /\ batch' = [batch EXCEPT ![cur] = verdict]
  /\ host' = [h \in Hosts |->
                IF /\ verdict = "failed" /\ AutoRollback
                   /\ BatchOf[h] = cur /\ host[h] = "success"
                  THEN "rolled_back" ELSE host[h]]
  /\ task' = IF PauseWanted /\ task = "running" THEN "paused" ELSE task
  /\ UNCHANGED <<cmd, sigmode, maint, agent>>
  /\ IF last
       THEN /\ pc' = "finread"
            /\ verdict' = "none"
            /\ UNCHANGED <<snap, cur, todo, last, aborts, readErrs>>
       ELSE EndRound

(* Mutant: timeouts are not counted as failures. *)
TaskVerdictMutant ==
  IF \/ \E h \in Hosts : host[h] \in {"failed", "canceled"}
     \/ Kind = "command" /\ Hosts # {} /\ \A h \in Hosts : host[h] # "success"
  THEN "failed" ELSE "success"

(* finishTask: count the host results, then write the task's status. *)
TaskVerdict ==
  IF \/ \E h \in Hosts : host[h] \in HostFailed
     \/ Kind = "command" /\ Hosts # {} /\ \A h \in Hosts : host[h] # "success"
  THEN "failed" ELSE "success"

FinishRead ==
  /\ pc = "finread" /\ pc' = "finwrite"
  /\ verdict' = TaskVerdict
  /\ UNCHANGED storeVars
  /\ UNCHANGED <<snap, cur, todo, last, aborts, readErrs>>

(* A failed count leaves the zeros it was initialised with. *)
FinishReadFails ==
  /\ pc = "finread" /\ pc' = "finwrite"
  /\ readErrs < MaxReadErr /\ readErrs' = readErrs + 1
  /\ verdict' = "success"
  /\ UNCHANGED storeVars
  /\ UNCHANGED <<snap, cur, todo, last, aborts>>

FinishWrite ==
  /\ pc = "finwrite"
  /\ task' = IF task \in TaskOpen THEN verdict ELSE task
  /\ UNCHANGED <<batch, host, cmd, sigmode, maint, agent>>
  /\ EndRound

(* An error ends reconciliation early, or the round; a crash of the        *)
(* replica releases the lock and another one starts over.                  *)
Abort ==
  /\ aborts < MaxAborts
  /\ aborts' = aborts + 1
  /\ \/ pc # "idle" /\ pc' = "idle"
     \/ pc \in {"idle", "reap", "sync", "clear"} /\ pc' = "scan"
  /\ snap' = "none" /\ cur' = 0 /\ todo' = {} /\ verdict' = "none" /\ last' = FALSE
  /\ UNCHANGED storeVars
  /\ UNCHANGED readErrs

OrchStep ==
  \/ Finalize \/ Reap \/ Sync \/ Clear \/ Scan \/ CurrentBatch
  \/ ListPending \/ LoopDone \/ CountPending \/ MarkBatch
  \/ \E h \in Hosts : SkipHost(h) \/ DispatchHost(h)
  \/ BatchProgress \/ HasPendingAfter \/ HasPendingAfterFails \/ CompleteBatch
  \/ FinishRead \/ FinishReadFails \/ FinishWrite
=============================================================================
