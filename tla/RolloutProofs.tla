--------------------------- MODULE RolloutProofs ---------------------------
(***************************************************************************)
(* Proofs about Rollout, for any set of hosts, layout of batches, strategy *)
(* and bound.  TypeInv is the part of IInv that only concerns types; the   *)
(* ownership of a host by its command is proved on top of it, and then the *)
(* order of the batches and the verdict, which need both.                  *)
(***************************************************************************)
EXTENDS Rollout, TLAPS

TypeInv == TypeOK /\ LocalsSet /\ QueuedTwice

(* Closing a row, or queueing a new one, gives a row. *)
LEMMA CloseType ==
  ASSUME NEW row \in CmdRow, NEW s \in CmdFinal \cup {"canceled"}
  PROVE  /\ Close(row, s) \in CmdRow
         /\ Close(row, s).st = s
         /\ Close(row, s).fresh = row.fresh
         /\ Close(row, s).cur = row.cur
BY DEF Close, Row, CmdRow, CmdStatus, CmdActive, CmdFinal

LEMMA NewRowType ==
  /\ NoCmd \in CmdRow
  /\ QueuedCmd \in CmdRow
BY DEF CmdRow, Row, NoCmd, QueuedCmd, CmdStatus, CmdActive, CmdFinal

(* Writing one row keeps the others. *)
LEMMA OneRow ==
  ASSUME StoreTypeOK, QueuedTwice,
         NEW h \in Hosts, NEW i \in CmdIds, NEW row \in CmdRow,
         row.st = "pending" => row.tries <= 1,
         WriteRow(h, i, row)
  PROVE  cmd' \in [Hosts -> [CmdIds -> CmdRow]] /\ QueuedTwice'
BY DEF StoreTypeOK, QueuedTwice, WriteRow

(* The draft that Create writes is well typed. *)
LEMMA InitTypeInv == Init => TypeInv
<1> SUFFICES ASSUME Init PROVE TypeInv
  OBVIOUS
<1> USE StoreAssumption, ApiAssumption, OrchAssumption
<1>1. StoreTypeOK
  BY NewRowType DEF Init, StoreInit, StoreTypeOK, TaskStatus, BatchStatus, HostStatus,
     AgentPhase, SigModes
<1>2. ApiTypeOK
  <2>1. retries \in 0..MaxRetry
    BY DEF Init, ApiInit
  <2>2. resumed \in BOOLEAN
    BY Zenon DEF Init, ApiInit
  <2> QED
    BY <2>1, <2>2 DEF ApiTypeOK
<1>3. OrchTypeOK
  <2>1. last \in BOOLEAN
    BY Zenon DEF Init, OrchInit
  <2> QED
    BY <2>1 DEF Init, OrchInit, OrchTypeOK, PcValues
<1>4. LocalsSet
  BY DEF Init, OrchInit, LocalsSet
<1>5. QueuedTwice
  BY DEF Init, StoreInit, QueuedTwice, NoCmd, Row
<1> QED
  BY <1>1, <1>2, <1>3, <1>4, <1>5 DEF TypeInv, TypeOK

(* The commands that Cancel and Retry leave behind. *)
LEMMA RebasedType ==
  ASSUME StoreTypeOK, NEW S \in SUBSET Hosts, NEW tied
  PROVE  /\ CancelCommands(S) \in [Hosts -> [CmdIds -> CmdRow]]
         /\ Rebased(S, tied) \in [Hosts -> [CmdIds -> CmdRow]]
         /\ \A h \in Hosts, i \in CmdIds :
              /\ h \in S => CancelCommands(S)[h][i].st \notin CmdActive
              /\ h \in S => Rebased(S, tied)[h][i].st = CancelCommands(S)[h][i].st
              /\ h \notin S => /\ CancelCommands(S)[h][i] = cmd[h][i]
                              /\ Rebased(S, tied)[h][i] = cmd[h][i]
<1>1. \A h \in Hosts, i \in CmdIds :
        /\ cmd[h][i] \in CmdRow
        /\ Close(cmd[h][i], "canceled") \in CmdRow
        /\ Close(cmd[h][i], "canceled").st = "canceled"
  BY CloseType DEF StoreTypeOK
<1>2. \A h \in Hosts, i \in CmdIds :
        /\ CancelCommands(S)[h][i] \in CmdRow
        /\ h \in S => CancelCommands(S)[h][i].st \notin CmdActive
        /\ cmd[h][i].st = "none" => CancelCommands(S)[h][i] = cmd[h][i]
        /\ h \notin S => CancelCommands(S)[h][i] = cmd[h][i]
  BY <1>1 DEF CancelCommands, CmdActive
<1>3. CancelCommands(S) \in [Hosts -> [CmdIds -> CmdRow]]
  BY <1>2 DEF CancelCommands
<1>4. ASSUME NEW h \in Hosts, NEW i \in CmdIds
      PROVE  /\ Rebased(S, tied)[h][i] \in CmdRow
             /\ h \in S => Rebased(S, tied)[h][i].st = CancelCommands(S)[h][i].st
             /\ h \notin S => Rebased(S, tied)[h][i] = cmd[h][i]
  <2>1. CancelCommands(S)[h][i].st \in CmdStatus
    BY <1>2 DEF CmdRow
  <2>2. (cmd[h][i].fresh /\ h \in tied) \in BOOLEAN
    OBVIOUS
  <2>3. Row(CancelCommands(S)[h][i].st, cmd[h][i].fresh /\ h \in tied, FALSE) \in CmdRow
    BY <2>1, <2>2 DEF Row, CmdRow
  <2>4. Row(CancelCommands(S)[h][i].st, cmd[h][i].fresh /\ h \in tied, FALSE).st
          = CancelCommands(S)[h][i].st
    BY DEF Row
  <2> QED
    BY <1>1, <1>2, <2>3, <2>4 DEF Rebased
<1>5. Rebased(S, tied) \in [Hosts -> [CmdIds -> CmdRow]]
  BY <1>4 DEF Rebased
<1> QED
  BY <1>2, <1>3, <1>4, <1>5

(* The orchestrator's local variables survive everybody else's steps. *)
LEMMA OrchLocalsKept ==
  ASSUME OrchTypeOK, LocalsSet, UNCHANGED orchVars
  PROVE  OrchTypeOK' /\ LocalsSet'
BY DEF OrchTypeOK, LocalsSet, orchVars

(* An operator's call leaves well-typed rows. *)
LEMMA OperatorType == TypeInv /\ Operator => TypeInv'
<1> SUFFICES ASSUME TypeInv, Operator PROVE TypeInv'
  OBVIOUS
<1> USE StoreAssumption, ApiAssumption
<1>0. StoreTypeOK /\ ApiTypeOK /\ OrchTypeOK /\ LocalsSet /\ QueuedTwice
  BY DEF TypeInv, TypeOK
<1>1. OrchTypeOK' /\ LocalsSet'
  BY <1>0, OrchLocalsKept DEF Operator
<1>2. CASE Start
  <2>1. resumed' \in BOOLEAN
    BY <1>2, Zenon DEF Start
  <2> QED
    BY <1>0, <1>1, <1>2, <2>1 DEF Start, TypeInv, TypeOK, StoreTypeOK, ApiTypeOK,
       QueuedTwice, TaskStatus
<1>3. CASE Promote
  <2>1. resumed' \in BOOLEAN
    BY <1>3, Zenon DEF Promote
  <2>2. batch' \in [Batches -> BatchStatus]
    BY <1>0, <1>3 DEF Promote, StoreTypeOK, BatchStatus
  <2> QED
    BY <1>0, <1>1, <1>3, <2>1, <2>2 DEF Promote, TypeInv, TypeOK, StoreTypeOK, ApiTypeOK,
       QueuedTwice, TaskStatus
<1>4. CASE Pause
  BY <1>0, <1>1, <1>4 DEF Pause, TypeInv, TypeOK, StoreTypeOK, ApiTypeOK,
     QueuedTwice, TaskStatus
<1>5. CASE Cancel
  <2>1. batch' \in [Batches -> BatchStatus] /\ host' \in [Hosts -> HostStatus]
    BY <1>0, <1>5 DEF Cancel, StoreTypeOK, BatchStatus, HostStatus
  <2>2. cmd' \in [Hosts -> [CmdIds -> CmdRow]]
    BY <1>0, <1>5, RebasedType DEF Cancel
  <2>3. QueuedTwice'
    <3>1. \A h \in Hosts, i \in CmdIds : cmd'[h][i].st \notin CmdActive
      BY <1>0, <1>5, RebasedType DEF Cancel
    <3> QED
      BY <3>1 DEF QueuedTwice, CmdActive
  <2> QED
    BY <1>0, <1>1, <1>5, <2>1, <2>2, <2>3 DEF Cancel, TypeInv, TypeOK, StoreTypeOK,
       ApiTypeOK, TaskStatus
<1>6. ASSUME NEW ids \in SUBSET Hosts, NEW explicit \in BOOLEAN, NEW force \in BOOLEAN,
             Retry(ids, explicit, force)
      PROVE  TypeInv'
  <2> DEFINE reset == {h \in ids : Retryable(h, explicit, force)}
  <2>1. PICK tied \in SUBSET reset : ResetHosts(reset, tied)
    BY <1>6 DEF Retry
  <2>2. reset \in SUBSET Hosts
    OBVIOUS
  <2> HIDE DEF reset
  <2>3. batch' \in [Batches -> BatchStatus] /\ host' \in [Hosts -> HostStatus]
    BY <1>0, <2>1, <2>2 DEF ResetHosts, StoreTypeOK, BatchStatus, HostStatus
  <2>4. cmd' \in [Hosts -> [CmdIds -> CmdRow]]
    BY <1>0, <2>1, <2>2, RebasedType DEF ResetHosts
  <2>5. QueuedTwice'
    <3>1. \A h \in Hosts, i \in CmdIds :
            cmd'[h][i].st \in CmdActive => cmd'[h][i] = cmd[h][i]
      <4>1. cmd' = Rebased(reset, tied)
        BY <2>1 DEF ResetHosts
      <4>2. \A h \in Hosts, i \in CmdIds :
              /\ h \in reset => CancelCommands(reset)[h][i].st \notin CmdActive
              /\ h \in reset => Rebased(reset, tied)[h][i].st = CancelCommands(reset)[h][i].st
              /\ h \notin reset => Rebased(reset, tied)[h][i] = cmd[h][i]
        BY <1>0, <2>2, RebasedType
      <4> QED
        BY <4>1, <4>2
    <3>2. "pending" \in CmdActive
      BY DEF CmdActive
    <3> QED
      BY <1>0, <3>1, <3>2 DEF QueuedTwice
  <2>6. resumed' \in BOOLEAN
    BY <1>6, Zenon DEF Retry
  <2>7. retries' \in 0..MaxRetry
    BY <1>0, <1>6 DEF Retry, ApiTypeOK
  <2>8. task' \in TaskStatus /\ UNCHANGED <<sigmode, maint, agent>>
    BY <1>6, <2>1 DEF ResetHosts, Retry, TaskStatus
  <2> QED
    BY <1>0, <1>1, <2>3, <2>4, <2>5, <2>6, <2>7, <2>8 DEF TypeInv, TypeOK, StoreTypeOK,
       ApiTypeOK
<1> QED
  BY <1>2, <1>3, <1>4, <1>5, <1>6 DEF Operator, ApiNext

(* Every step of an agent, a message or the clock changes one row. *)
LEMMA AgentsType == TypeInv /\ Agents => TypeInv'
<1> SUFFICES ASSUME TypeInv, Agents PROVE TypeInv'
  OBVIOUS
<1>0. StoreTypeOK /\ ApiTypeOK /\ OrchTypeOK /\ LocalsSet /\ QueuedTwice
  BY DEF TypeInv, TypeOK
<1>1. OrchTypeOK' /\ LocalsSet' /\ ApiTypeOK'
  BY <1>0, OrchLocalsKept DEF Agents, ApiTypeOK, apiVars
<1> SUFFICES StoreTypeOK' /\ QueuedTwice'
  BY <1>1 DEF TypeInv, TypeOK
<1>2. PICK h \in Hosts, i \in CmdIds :
        \/ \E arrives \in BOOLEAN : Dequeue(h, i, arrives)
        \/ AgentStep(h, i)
        \/ Message(h, i)
        \/ Time(h, i)
  BY DEF Agents, GatewayNext
<1>3. cmd[h][i] \in CmdRow /\ (cmd[h][i].st = "pending" => cmd[h][i].tries <= 1)
  BY <1>0 DEF StoreTypeOK, QueuedTwice
<1>4. ASSUME NEW arrives \in BOOLEAN, Dequeue(h, i, arrives)
      PROVE  StoreTypeOK' /\ QueuedTwice'
  <2> DEFINE row == [cmd[h][i] EXCEPT !.st = "dispatched", !.lease = "live", !.tries = @ + 1]
  <2>1. cmd[h][i].tries + 1 \in 0..2
    BY <1>3, <1>4 DEF Dequeue, Queued, CmdRow
  <2>2. row \in CmdRow /\ row.st = "dispatched"
    BY <1>3, <2>1 DEF CmdRow, CmdStatus, CmdActive
  <2>3. WriteRow(h, i, row)
    BY <1>4 DEF Dequeue
  <2> HIDE DEF row
  <2>4. cmd' \in [Hosts -> [CmdIds -> CmdRow]] /\ QueuedTwice'
    BY <1>0, <2>2, <2>3, OneRow
  <2>5. agent' \in [Hosts -> [CmdIds -> AgentPhase]]
    BY <1>0, <1>4 DEF Dequeue, StoreTypeOK, AgentPhase
  <2> QED
    BY <1>0, <1>4, <2>4, <2>5 DEF Dequeue, StoreTypeOK
<1>5. CASE AgentStep(h, i)
  <2>1. agent' \in [Hosts -> [CmdIds -> AgentPhase]]
    <3>1. PICK phase \in AgentPhase : agent' = [agent EXCEPT ![h][i] = phase]
      BY <1>5 DEF AgentStep, Verify, Execute, AgentPhase
    <3> QED
      BY <1>0, <3>1 DEF StoreTypeOK
  <2> QED
    BY <1>0, <1>5, <2>1 DEF AgentStep, Verify, Execute, StoreTypeOK, QueuedTwice
<1>6. CASE AckAccepted(h, i)
  <2> DEFINE row == [cmd[h][i] EXCEPT !.st = "accepted"]
  <2>1. row \in CmdRow /\ row.st = "accepted" /\ WriteRow(h, i, row)
    BY <1>3, <1>6 DEF AckAccepted, CmdRow, CmdStatus, CmdActive
  <2> HIDE DEF row
  <2> QED
    BY <1>0, <1>6, <2>1, OneRow DEF AckAccepted, StoreTypeOK
<1>7. CASE AckSwitch(h, i)
  <2> DEFINE row == [cmd[h][i] EXCEPT !.st = "pending", !.lease = "null"]
  <2>1. row \in CmdRow /\ row.tries <= 1 /\ WriteRow(h, i, row)
    BY <1>3, <1>7 DEF AckSwitch, CanSwitch, CmdRow, CmdStatus, CmdActive
  <2> HIDE DEF row
  <2>2. cmd' \in [Hosts -> [CmdIds -> CmdRow]] /\ QueuedTwice'
    BY <1>0, <2>1, OneRow
  <2> QED
    BY <1>0, <1>7, <2>2 DEF AckSwitch, StoreTypeOK, AgentPhase, SigModes
<1>8. CASE AckRejected(h, i)
  <2>1. Close(cmd[h][i], "failed") \in CmdRow /\ Close(cmd[h][i], "failed").st = "failed"
    BY <1>3, CloseType DEF CmdFinal
  <2>2. cmd' \in [Hosts -> [CmdIds -> CmdRow]] /\ QueuedTwice'
    BY <1>0, <1>8, <2>1, OneRow DEF AckRejected
  <2> QED
    BY <1>0, <1>8, <2>2 DEF AckRejected, StoreTypeOK, AgentPhase
<1>9. CASE EnterMaintenance(h, i)
  <2>1. maint' \in [Hosts -> BOOLEAN]
    BY <1>0, <1>9 DEF EnterMaintenance, StoreTypeOK
  <2> QED
    BY <1>0, <1>9, <2>1 DEF EnterMaintenance, StoreTypeOK, QueuedTwice
<1>10. ASSUME NEW s \in {"early", "step", "done"}, Progress(h, i, s)
       PROVE  StoreTypeOK' /\ QueuedTwice'
  <2> DEFINE row == [cmd[h][i] EXCEPT !.st = "running",
                       !.lease = IF @ = "null" THEN "null" ELSE "live",
                       !.stage = StageAfter(@, s)]
  <2>1. StageAfter(cmd[h][i].stage, s) \in {"none", "step", "done", "proven"}
    BY DEF StageAfter
  <2>2. row \in CmdRow /\ row.st = "running"
    BY <1>3, <2>1 DEF CmdRow, CmdStatus, CmdActive
  <2>3. WriteRow(h, i, row)
    BY <1>10 DEF Progress
  <2> HIDE DEF row
  <2> QED
    BY <1>0, <1>10, <2>2, <2>3, OneRow DEF Progress, StoreTypeOK
<1>11. CASE FinalStage(h, i) \/ Report(h, i)
  <2>1. agent[h][i] \in {"success", "failed"} /\ Settle(h, i, agent[h][i])
    BY <1>11 DEF FinalStage, Report
  <2>2. /\ Close(cmd[h][i], agent[h][i]) \in CmdRow
        /\ Close(cmd[h][i], agent[h][i]).st \in {"success", "failed"}
    BY <1>3, <2>1, CloseType DEF CmdFinal
  <2>3. cmd' \in [Hosts -> [CmdIds -> CmdRow]] /\ QueuedTwice'
    BY <1>0, <2>1, <2>2, OneRow DEF Settle
  <2>4. host' \in [Hosts -> HostStatus]
    BY <1>0, <2>1 DEF Settle, StoreTypeOK, HostStatus
  <2>5. maint' \in [Hosts -> BOOLEAN]
    BY <1>0, <2>1 DEF Settle, StoreTypeOK
  <2> QED
    BY <1>0, <1>11, <2>3, <2>4, <2>5 DEF FinalStage, Report, StoreTypeOK
<1>12. CASE LeaseLapses(h, i)
  <2> DEFINE row == [cmd[h][i] EXCEPT !.lease = "lapsed"]
  <2>1. row \in CmdRow /\ (row.st = "pending" => row.tries <= 1) /\ WriteRow(h, i, row)
    BY <1>3, <1>12 DEF LeaseLapses, CmdRow
  <2> HIDE DEF row
  <2> QED
    BY <1>0, <1>12, <2>1, OneRow DEF LeaseLapses, StoreTypeOK
<1>13. CASE QueueTimeout(h, i)
  <2> DEFINE row == [cmd[h][i] EXCEPT !.dead = TRUE]
  <2>1. row \in CmdRow /\ (row.st = "pending" => row.tries <= 1) /\ WriteRow(h, i, row)
    BY <1>3, <1>13 DEF QueueTimeout, CmdRow
  <2> HIDE DEF row
  <2> QED
    BY <1>0, <1>13, <2>1, OneRow DEF QueueTimeout, StoreTypeOK
<1> QED
  BY <1>2, <1>4, <1>5, <1>6, <1>7, <1>8, <1>9, <1>10, <1>11, <1>12, <1>13
     DEF Message, Time

(* What a reconciliation writes. *)
LEMMA ReconcileType ==
  ASSUME TypeInv,
         \/ FinalizeCompletedStages \/ ReapExpired
         \/ SyncTaskHostsFromCommands \/ ClearMaintenance
  PROVE  StoreTypeOK' /\ QueuedTwice'
<1>0. StoreTypeOK /\ QueuedTwice
  BY DEF TypeInv, TypeOK
<1>1. \A h \in Hosts, i \in CmdIds :
        /\ cmd[h][i] \in CmdRow
        /\ \A st \in {"success", "timeout"} :
             /\ Close(cmd[h][i], st) \in CmdRow
             /\ Close(cmd[h][i], st).st = st
  BY <1>0, CloseType DEF StoreTypeOK, CmdFinal
<1>2. CASE FinalizeCompletedStages
  <2>1. PICK silent : cmd' = [h \in Hosts |-> [i \in CmdIds |->
                 IF <<h, i>> \in silent
                   THEN Close(cmd[h][i], IF cmd[h][i].stage = "proven"
                                           THEN "success" ELSE "timeout")
                   ELSE cmd[h][i]]]
    BY <1>2 DEF FinalizeCompletedStages
  <2>2. \A h \in Hosts, i \in CmdIds :
          /\ cmd'[h][i] \in CmdRow
          /\ cmd'[h][i].st = "pending" => cmd'[h][i] = cmd[h][i]
    BY <1>1, <2>1
  <2>3. cmd' \in [Hosts -> [CmdIds -> CmdRow]]
    BY <2>1, <2>2
  <2> QED
    BY <1>0, <1>2, <2>2, <2>3 DEF FinalizeCompletedStages, StoreTypeOK, QueuedTwice
<1>3. CASE ReapExpired
  <2>1. \A h \in Hosts, i \in CmdIds :
          /\ cmd'[h][i] \in CmdRow
          /\ cmd'[h][i].st = "pending" => cmd'[h][i] = cmd[h][i]
    BY <1>1, <1>3 DEF ReapExpired
  <2>2. cmd' \in [Hosts -> [CmdIds -> CmdRow]]
    BY <1>3, <2>1 DEF ReapExpired
  <2>3. host' \in [Hosts -> HostStatus]
    BY <1>0, <1>3 DEF ReapExpired, StoreTypeOK, HostStatus
  <2>4. maint' \in [Hosts -> BOOLEAN]
    BY <1>0, <1>3 DEF ReapExpired, StoreTypeOK
  <2> QED
    BY <1>0, <1>3, <2>1, <2>2, <2>3, <2>4 DEF ReapExpired, StoreTypeOK, QueuedTwice
<1>4. CASE SyncTaskHostsFromCommands
  <2>1. \A h \in Hosts : Syncable(h) => (CHOOSE st \in SyncResult(h) : TRUE) \in CmdFinal
    BY <1>0 DEF Syncable, SyncResult, FinalCmds
  <2>2. CmdFinal \subseteq HostStatus
    BY DEF CmdFinal, HostStatus
  <2>3. host' \in [Hosts -> HostStatus]
    BY <1>0, <1>4, <2>1, <2>2 DEF SyncTaskHostsFromCommands, StoreTypeOK
  <2> QED
    BY <1>0, <1>4, <2>3 DEF SyncTaskHostsFromCommands, StoreTypeOK, QueuedTwice
<1>5. CASE ClearMaintenance
  <2>1. maint' \in [Hosts -> BOOLEAN]
    BY <1>5 DEF ClearMaintenance
  <2> QED
    BY <1>0, <1>5, <2>1 DEF ClearMaintenance, StoreTypeOK, QueuedTwice
<1> QED
  BY <1>2, <1>3, <1>4, <1>5

LEMMA EndRoundType ==
  ASSUME OrchTypeOK, EndRound
  PROVE  OrchTypeOK' /\ LocalsSet'
<1>1. last' \in BOOLEAN
  BY Zenon DEF EndRound
<1> QED
  BY <1>1, StoreAssumption DEF EndRound, OrchTypeOK, LocalsSet, PcValues

(* A step of the round sets the local variables that the next one uses. *)
LEMMA OrchestrateType == TypeInv /\ Orchestrate => TypeInv'
<1> SUFFICES ASSUME TypeInv, Orchestrate PROVE TypeInv'
  OBVIOUS
<1> USE StoreAssumption, OrchAssumption
<1>0. StoreTypeOK /\ ApiTypeOK /\ OrchTypeOK /\ LocalsSet /\ QueuedTwice
  BY DEF TypeInv, TypeOK
<1>1. ApiTypeOK'
  <2>1. resumed' \in BOOLEAN
    BY Zenon DEF Orchestrate
  <2> QED
    BY <1>0, <2>1 DEF ApiTypeOK, Orchestrate
<1> SUFFICES StoreTypeOK' /\ QueuedTwice' /\ OrchTypeOK' /\ LocalsSet'
  BY <1>1 DEF TypeInv, TypeOK
<1>kept. UNCHANGED storeVars => StoreTypeOK' /\ QueuedTwice'
  BY <1>0 DEF storeVars, StoreTypeOK, QueuedTwice
<1>2. CASE Finalize \/ Reap \/ Sync \/ Clear
  <2>1. StoreTypeOK' /\ QueuedTwice'
    BY <1>2, ReconcileType DEF Finalize, Reap, Sync, Clear
  <2>2. OrchTypeOK' /\ LocalsSet'
    BY <1>0, <1>2 DEF Finalize, Reap, Sync, Clear, locals, OrchTypeOK, LocalsSet, PcValues
  <2> QED
    BY <2>1, <2>2
<1>3. CASE Scan
  <2>1. CASE task \in TaskOpen
    BY <1>0, <1>3, <1>kept, <2>1 DEF Scan, OrchTypeOK, LocalsSet, PcValues
  <2>2. CASE task \notin TaskOpen
    BY <1>0, <1>3, <1>kept, <2>2, EndRoundType DEF Scan
  <2> QED
    BY <2>1, <2>2
<1>4. CASE CurrentBatch
  <2>1. StoreTypeOK' /\ QueuedTwice'
    BY <1>4, <1>kept DEF CurrentBatch
  <2>2. CASE pc' = "finread" /\ UNCHANGED locals
    BY <1>0, <2>1, <2>2 DEF locals, OrchTypeOK, LocalsSet, PcValues
  <2>3. CASE EndRound
    BY <1>0, <2>1, <2>3, EndRoundType
  <2>4. ASSUME NEW b \in OpenBatches, pc' \in {"list", "progress"}, cur' = b,
               UNCHANGED <<snap, todo, verdict, last, aborts, readErrs>>
        PROVE  OrchTypeOK' /\ LocalsSet'
    BY <1>0, <2>4 DEF OpenBatches, Batches, OrchTypeOK, LocalsSet, PcValues
  <2> QED
    BY <1>4, <2>1, <2>2, <2>3, <2>4 DEF CurrentBatch
<1>5. CASE ListPending
  BY <1>0, <1>5, <1>kept DEF ListPending, HostsOf, OrchTypeOK, LocalsSet, PcValues
<1>6. ASSUME NEW h \in Hosts, SkipHost(h)
      PROVE  StoreTypeOK' /\ QueuedTwice' /\ OrchTypeOK' /\ LocalsSet'
  <2>1. host' \in [Hosts -> HostStatus]
    BY <1>0, <1>6 DEF SkipHost, StoreTypeOK, HostStatus
  <2> QED
    BY <1>0, <1>6, <2>1 DEF SkipHost, StoreTypeOK, QueuedTwice, OrchTypeOK, LocalsSet
<1>7. ASSUME NEW h \in Hosts, DispatchHost(h)
      PROVE  StoreTypeOK' /\ QueuedTwice' /\ OrchTypeOK' /\ LocalsSet'
  <2>1. OrchTypeOK' /\ LocalsSet'
    BY <1>0, <1>7 DEF DispatchHost, OrchTypeOK, LocalsSet
  <2>2. host' \in [Hosts -> HostStatus]
    BY <1>0, <1>7 DEF DispatchHost, StoreTypeOK, HostStatus
  <2>3. cmd' \in [Hosts -> [CmdIds -> CmdRow]] /\ QueuedTwice'
    <3>1. CASE UNCHANGED cmd
      BY <1>0, <3>1 DEF StoreTypeOK, QueuedTwice
    <3>2. ASSUME NEW i \in CmdIds, WriteRow(h, i, QueuedCmd)
          PROVE  cmd' \in [Hosts -> [CmdIds -> CmdRow]] /\ QueuedTwice'
      <4>1. QueuedCmd.tries <= 1
        BY DEF QueuedCmd, Row
      <4> QED
        BY <1>0, <3>2, <4>1, NewRowType, OneRow
    <3> QED
      BY <1>7, <3>1, <3>2 DEF DispatchHost, InsertCommand
  <2> QED
    BY <1>0, <1>7, <2>1, <2>2, <2>3 DEF DispatchHost, StoreTypeOK
<1>8. CASE LoopDone
  BY <1>0, <1>8, <1>kept DEF LoopDone, locals, OrchTypeOK, LocalsSet, PcValues
<1>9. CASE CountPending
  <2>1. CASE EndRound
    BY <1>0, <1>9, <1>kept, <2>1, EndRoundType DEF CountPending
  <2>2. CASE pc' = "mark" /\ UNCHANGED locals
    BY <1>0, <1>9, <1>kept, <2>2 DEF CountPending, locals, OrchTypeOK, LocalsSet, PcValues
  <2> QED
    BY <1>9, <2>1, <2>2 DEF CountPending
<1>10. CASE MarkBatch
  <2>1. batch' \in [Batches -> BatchStatus]
    BY <1>0, <1>10 DEF MarkBatch, StoreTypeOK, BatchStatus
  <2>2. OrchTypeOK' /\ LocalsSet'
    BY <1>0, <1>10, EndRoundType DEF MarkBatch
  <2> QED
    BY <1>0, <1>10, <2>1, <2>2 DEF MarkBatch, StoreTypeOK, QueuedTwice
<1>11. CASE BatchProgress
  <2>1. CASE EndRound
    BY <1>0, <1>11, <1>kept, <2>1, EndRoundType DEF BatchProgress
  <2>2. CASE /\ verdict' = IF OverThreshold(cur) THEN "failed" ELSE "success"
             /\ pc' = "after"
             /\ UNCHANGED <<snap, cur, todo, last, aborts, readErrs>>
    <3>1. verdict' \in {"success", "failed"}
      BY <2>2
    <3> QED
      BY <1>0, <1>11, <1>kept, <2>2, <3>1 DEF BatchProgress, OrchTypeOK, LocalsSet, PcValues
  <2> QED
    BY <1>11, <2>1, <2>2 DEF BatchProgress
<1>12. CASE HasPendingAfter \/ HasPendingAfterFails
  <2>1. last' \in BOOLEAN
    BY <1>12, Zenon DEF HasPendingAfter, HasPendingAfterFails
  <2>2. readErrs' \in 0..MaxReadErr
    BY <1>0, <1>12 DEF HasPendingAfter, HasPendingAfterFails, OrchTypeOK
  <2> QED
    BY <1>0, <1>12, <1>kept, <2>1, <2>2
       DEF HasPendingAfter, HasPendingAfterFails, OrchTypeOK, LocalsSet, PcValues
<1>13. CASE CompleteBatch
  <2>1. cur \in Batches /\ verdict \in {"success", "failed"}
    BY <1>0, <1>13 DEF CompleteBatch, LocalsSet
  <2>2. batch' \in [Batches -> BatchStatus]
    BY <1>0, <1>13, <2>1 DEF CompleteBatch, StoreTypeOK, BatchStatus
  <2>3. host' \in [Hosts -> HostStatus]
    BY <1>0, <1>13 DEF CompleteBatch, StoreTypeOK, HostStatus
  <2>4. task' \in TaskStatus
    BY <1>0, <1>13 DEF CompleteBatch, StoreTypeOK, TaskStatus
  <2>5. StoreTypeOK' /\ QueuedTwice'
    BY <1>0, <1>13, <2>2, <2>3, <2>4 DEF CompleteBatch, StoreTypeOK, QueuedTwice
  <2>6. CASE EndRound
    BY <1>0, <2>5, <2>6, EndRoundType
  <2>7. CASE pc' = "finread" /\ verdict' = "none"
             /\ UNCHANGED <<snap, cur, todo, last, aborts, readErrs>>
    BY <1>0, <2>5, <2>7 DEF OrchTypeOK, LocalsSet, PcValues
  <2> QED
    BY <1>13, <2>6, <2>7 DEF CompleteBatch
<1>14. CASE FinishRead \/ FinishReadFails
  <2>1. verdict' \in {"success", "failed"}
    BY <1>14 DEF FinishRead, FinishReadFails, TaskVerdict
  <2>2. readErrs' \in 0..MaxReadErr
    BY <1>0, <1>14 DEF FinishRead, FinishReadFails, OrchTypeOK
  <2> QED
    BY <1>0, <1>14, <1>kept, <2>1, <2>2
       DEF FinishRead, FinishReadFails, OrchTypeOK, LocalsSet, PcValues
<1>15. CASE FinishWrite
  <2>1. task' \in TaskStatus
    BY <1>0, <1>15 DEF FinishWrite, LocalsSet, StoreTypeOK, TaskStatus
  <2> QED
    BY <1>0, <1>15, <2>1, EndRoundType DEF FinishWrite, StoreTypeOK, QueuedTwice
<1> QED
  BY <1>2, <1>3, <1>4, <1>5, <1>6, <1>7, <1>8, <1>9, <1>10, <1>11, <1>12, <1>13,
     <1>14, <1>15 DEF Orchestrate, OrchStep

(* A round cut short forgets its local variables. *)
LEMMA FaultType == TypeInv /\ Fault => TypeInv'
<1> SUFFICES ASSUME TypeInv, Fault PROVE TypeInv'
  OBVIOUS
<1>1. last' \in BOOLEAN
  BY Zenon DEF Fault, Abort
<1>2. OrchTypeOK' /\ LocalsSet'
  BY <1>1, StoreAssumption, OrchAssumption
     DEF Fault, Abort, TypeInv, TypeOK, OrchTypeOK, LocalsSet, PcValues
<1> QED
  BY <1>2 DEF Fault, Abort, TypeInv, TypeOK, StoreTypeOK, ApiTypeOK, QueuedTwice,
     storeVars, apiVars

LEMMA TypeInvStep == TypeInv /\ [Next]_vars => TypeInv'
<1>1. TypeInv /\ UNCHANGED vars => TypeInv'
  BY DEF vars, TypeInv, TypeOK, StoreTypeOK, ApiTypeOK, OrchTypeOK, LocalsSet, QueuedTwice
<1> QED
  BY <1>1, OperatorType, AgentsType, OrchestrateType, FaultType DEF Next

(* The rows and the orchestrator's variables keep their types, for any     *)
(* number of hosts, batches and retries: no statement of the API, the      *)
(* gateway or the orchestrator writes a status the schema does not know,   *)
(* or runs with a batch or a verdict that was never read.                  *)
THEOREM TypeCorrect == Spec => []TypeOK
<1>1. TypeInv => TypeOK
  BY DEF TypeInv
<1> QED
  BY <1>1, InitTypeInv, TypeInvStep, PTL DEF Spec

-----------------------------------------------------------------------------
(***************************************************************************)
(* Who owns a host.  Owned says of one host's status and commands what     *)
(* OneActiveCommand, ActiveIsNewest, FreshIsCurrent and NoOrphanHost say   *)
(* together; the lemmas below are about a single host and mention no step. *)
(***************************************************************************)
Act(rows) == {i \in CmdIds : rows[i].st \in CmdActive}
Fin(rows) == {i \in CmdIds : rows[i].st \in CmdFinal}

NewestFresh(rows) ==
  \E i \in Fin(rows) : rows[i].fresh /\ \A k \in Fin(rows) : k <= i

FreshCurrent(rows) == ~Ties => \A i \in Fin(rows) : rows[i].fresh => rows[i].cur

Owned(status, rows) ==
  /\ \A i, j \in Act(rows) : i = j
  /\ Act(rows) # {} => status = "running"
  /\ \A i \in Act(rows) : /\ rows[i].fresh /\ rows[i].cur
                          /\ \A j \in CmdIds : j > i => rows[j].st = "none"
  /\ FreshCurrent(rows)
  /\ status = "running" => Act(rows) # {} \/ NewestFresh(rows)

Rows == [CmdIds -> CmdRow]

(* The active command moves on to another active status. *)
LEMMA ActiveMoves ==
  ASSUME NEW status, NEW rows \in Rows, Owned(status, rows),
         NEW i \in CmdIds, rows[i].st \in CmdActive,
         NEW row \in CmdRow, row.st \in CmdActive,
         row.fresh = rows[i].fresh, row.cur = rows[i].cur
  PROVE  Owned(status, [rows EXCEPT ![i] = row])
<1> DEFINE new == [rows EXCEPT ![i] = row]
<1>1. CmdActive \cap CmdFinal = {} /\ "none" \notin CmdActive
  BY DEF CmdActive, CmdFinal
<1>2. new \in Rows /\ new[i] = row /\ \A j \in CmdIds : j # i => new[j] = rows[j]
  BY DEF Rows
<1> HIDE DEF new
<1>3. Act(new) = Act(rows) /\ Fin(new) = Fin(rows) /\ i \in Act(rows)
  BY <1>1, <1>2 DEF Act, Fin
<1>4. FreshCurrent(new)
  BY <1>1, <1>2, <1>3 DEF FreshCurrent, Owned, Fin
<1>5. \A k \in Act(new) : /\ new[k].fresh /\ new[k].cur
                          /\ \A j \in CmdIds : j > k => new[j].st = "none"
  BY <1>2, <1>3 DEF Owned, CmdIds
<1> QED
  BY <1>3, <1>4, <1>5 DEF Owned, new

(* Active commands that finish keep their marks; then none is active, and  *)
(* the newest result is fresh.                                             *)
LEMMA ActiveCloses ==
  ASSUME NEW status, NEW rows \in Rows, Owned(status, rows), NEW new \in Rows,
         \A k \in CmdIds :
           \/ new[k] = rows[k]
           \/ /\ rows[k].st \in CmdActive /\ new[k].st \in CmdFinal
              /\ new[k].fresh = rows[k].fresh /\ new[k].cur = rows[k].cur,
         NEW i \in CmdIds, rows[i].st \in CmdActive, new[i].st \in CmdFinal
  PROVE  /\ Act(new) = {} /\ NewestFresh(new) /\ FreshCurrent(new)
         /\ new[i].cur
         /\ \A t : Owned(t, new)
<1>1. CmdActive \cap CmdFinal = {} /\ "none" \notin CmdActive \cup CmdFinal
  BY DEF CmdActive, CmdFinal
<1>2. i \in Act(rows) /\ i \in Fin(new)
  BY DEF Act, Fin
<1>3. Act(new) = {}
  BY <1>1, <1>2 DEF Act, Owned
<1>4. new[i].fresh /\ new[i].cur
  BY <1>1, <1>2 DEF Owned
<1>5. \A k \in CmdIds : k > i => new[k].st = "none"
  BY <1>1, <1>2 DEF Owned
<1>6. \A k \in Fin(new) : k <= i
  BY <1>1, <1>5 DEF Fin, CmdIds
<1>7. NewestFresh(new)
  BY <1>2, <1>4, <1>6 DEF NewestFresh
<1>8. FreshCurrent(new)
  <2> SUFFICES ASSUME ~Ties, NEW k \in Fin(new), new[k].fresh PROVE new[k].cur
    BY DEF FreshCurrent
  <2>1. CASE new[k] = rows[k]
    BY <2>1 DEF Owned, FreshCurrent, Fin
  <2>2. CASE rows[k].st \in CmdActive /\ new[k].cur = rows[k].cur
    BY <2>2 DEF Owned, Act, Fin
  <2> QED
    BY <2>1, <2>2 DEF Fin
<1> QED
  BY <1>3, <1>4, <1>7, <1>8 DEF Owned

(* Queueing a command behind the ones issued before makes it the owner. *)
LEMMA QueuedOwns ==
  ASSUME NEW rows \in Rows, Act(rows) = {}, FreshCurrent(rows), NEW i \in CmdIds,
         {k \in CmdIds : rows[k].st # "none"} = 1..(i - 1)
  PROVE  Owned("running", [rows EXCEPT ![i] = QueuedCmd])
<1> DEFINE new == [rows EXCEPT ![i] = QueuedCmd]
<1>1. "pending" \in CmdActive /\ CmdActive \cap CmdFinal = {}
  BY DEF CmdActive, CmdFinal
<1>2. QueuedCmd.st = "pending" /\ QueuedCmd.fresh /\ QueuedCmd.cur
  BY DEF QueuedCmd, Row
<1>3. new[i] = QueuedCmd /\ \A j \in CmdIds : j # i => new[j] = rows[j]
  BY DEF Rows
<1> HIDE DEF new
<1>4. Act(new) = {i} /\ Fin(new) \subseteq Fin(rows) /\ i \notin Fin(new)
  BY <1>1, <1>2, <1>3 DEF Act, Fin
<1>5. \A j \in CmdIds : j > i => new[j].st = "none"
  BY <1>3, StoreAssumption DEF CmdIds
<1>6. FreshCurrent(new)
  BY <1>3, <1>4 DEF FreshCurrent, Fin
<1> QED
  BY <1>2, <1>3, <1>4, <1>5, <1>6 DEF Owned, new

(* Without an active command a host may have any status but running. *)
LEMMA NobodyOwns ==
  ASSUME NEW status, status # "running", NEW rows, Act(rows) = {}, FreshCurrent(rows)
  PROVE  Owned(status, rows)
BY DEF Owned

-----------------------------------------------------------------------------
SafeInv == (\A h \in Hosts : Owned(host[h], cmd[h])) /\ CanceledIsStopped

LEMMA InitSafeInv == Init => SafeInv
<1> SUFFICES ASSUME Init PROVE SafeInv
  OBVIOUS
<1>1. NoCmd.st = "none" /\ "none" \notin CmdActive \cup CmdFinal
  BY DEF NoCmd, Row, CmdActive, CmdFinal
<1>2. ASSUME NEW h \in Hosts PROVE Owned(host[h], cmd[h])
  <2>1. host[h] = "pending" /\ Act(cmd[h]) = {} /\ FreshCurrent(cmd[h])
    BY <1>1 DEF Init, StoreInit, Act, Fin, FreshCurrent
  <2> QED
    BY <2>1, NobodyOwns
<1>3. CanceledIsStopped
  BY DEF Init, StoreInit, CanceledIsStopped
<1> QED
  BY <1>2, <1>3 DEF SafeInv

(* The named properties in terms of Owned. *)
LEMMA SafeInvMeans ==
  ASSUME StoreTypeOK, SafeInv
  PROVE  /\ OneActiveCommand /\ ActiveIsNewest /\ FreshIsCurrent
         /\ NoOrphanHost /\ CanceledIsStopped
<1>1. \A h \in Hosts : Act(cmd[h]) = ActiveCmds(h) /\ Fin(cmd[h]) = FinalCmds(h)
  BY DEF Act, Fin, ActiveCmds, FinalCmds
<1>2. OneActiveCommand
  BY <1>1 DEF SafeInv, Owned, OneActiveCommand
<1>3. ActiveIsNewest
  BY <1>1 DEF SafeInv, Owned, ActiveIsNewest
<1>4. FreshIsCurrent
  BY <1>1 DEF SafeInv, Owned, FreshCurrent, FreshIsCurrent
<1>5. ASSUME NEW h \in Hosts, host[h] = "running" PROVE ActiveCmds(h) # {} \/ Syncable(h)
  <2>1. CASE ActiveCmds(h) = {}
    <3>1. NewestFresh(cmd[h])
      BY <1>1, <1>5, <2>1 DEF SafeInv, Owned
    <3>2. SyncResult(h) # {}
      BY <1>1, <3>1 DEF NewestFresh, SyncResult
    <3> QED
      BY <1>5, <2>1, <3>2 DEF Syncable
  <2> QED
    BY <2>1
<1> QED
  BY <1>2, <1>3, <1>4, <1>5 DEF NoOrphanHost, SafeInv

(* A canceled task stays stopped while nobody gives a host back its life.  *)
LEMMA CanceledKept ==
  ASSUME CanceledIsStopped,
         task' = "canceled" => task = "canceled",
         task = "canceled" =>
           \A h \in Hosts :
             /\ host'[h] = host[h] \/ host'[h] \notin {"pending", "running"}
             /\ ActiveCmds(h) = {} => ActiveCmds(h)' = {}
  PROVE  CanceledIsStopped'
BY DEF CanceledIsStopped

(* The ways an agent, a message or the clock touches the command of a host *)
(* that it is allowed to touch: it moves on, or it finishes.               *)
LEMMA AgentsSafe == TypeInv /\ SafeInv /\ Agents => SafeInv'
<1> SUFFICES ASSUME TypeInv, SafeInv, Agents PROVE SafeInv'
  OBVIOUS
<1>0. StoreTypeOK /\ QueuedTwice /\ CanceledIsStopped
  BY DEF TypeInv, TypeOK, SafeInv
<1>1. PICK h \in Hosts, i \in CmdIds :
        \/ \E arrives \in BOOLEAN : Dequeue(h, i, arrives)
        \/ AgentStep(h, i)
        \/ Message(h, i)
        \/ Time(h, i)
  BY DEF Agents, GatewayNext
<1>2. cmd[h] \in Rows /\ cmd[h][i] \in CmdRow /\ Owned(host[h], cmd[h])
  BY <1>0 DEF StoreTypeOK, Rows, SafeInv
<1>3. CASE UNCHANGED <<task, host, cmd>>
  BY <1>3 DEF SafeInv, CanceledIsStopped, ActiveCmds
<1>4. ASSUME NEW row \in CmdRow, WriteRow(h, i, row), UNCHANGED <<task, host>>,
             cmd[h][i].st \in CmdActive, row.st \in CmdActive,
             row.fresh = cmd[h][i].fresh, row.cur = cmd[h][i].cur
      PROVE  SafeInv'
  <2>1. cmd'[h] = [cmd[h] EXCEPT ![i] = row] /\ \A g \in Hosts : g # h => cmd'[g] = cmd[g]
    BY <1>0, <1>4 DEF WriteRow, StoreTypeOK
  <2>2. Owned(host'[h], cmd'[h])
    BY <1>2, <1>4, <2>1, ActiveMoves
  <2>3. task # "canceled"
    BY <1>0, <1>4 DEF CanceledIsStopped, ActiveCmds
  <2>4. CanceledIsStopped'
    BY <1>4, <2>3 DEF CanceledIsStopped
  <2> QED
    BY <1>4, <2>1, <2>2, <2>4 DEF SafeInv
<1>5. ASSUME NEW st \in CmdFinal, WriteRow(h, i, Close(cmd[h][i], st)), task' = task,
             cmd[h][i].st \in CmdActive,
             \A g \in Hosts : g # h => host'[g] = host[g]
      PROVE  SafeInv'
  <2> DEFINE new == [cmd[h] EXCEPT ![i] = Close(cmd[h][i], st)]
  <2>1. cmd'[h] = new /\ \A g \in Hosts : g # h => cmd'[g] = cmd[g]
    BY <1>0, <1>5 DEF WriteRow, StoreTypeOK
  <2>2. /\ Close(cmd[h][i], st) \in CmdRow /\ Close(cmd[h][i], st).st = st
        /\ Close(cmd[h][i], st).fresh = cmd[h][i].fresh
        /\ Close(cmd[h][i], st).cur = cmd[h][i].cur
    BY <1>2, CloseType
  <2>3. new \in Rows /\ new[i] = Close(cmd[h][i], st)
        /\ \A k \in CmdIds : k # i => new[k] = cmd[h][k]
    BY <1>2, <2>2 DEF Rows
  <2> HIDE DEF new
  <2>4. \A t : Owned(t, new)
    BY <1>2, <1>5, <2>2, <2>3, ActiveCloses
  <2>5. task # "canceled"
    BY <1>0, <1>5 DEF CanceledIsStopped, ActiveCmds
  <2>6. CanceledIsStopped'
    BY <1>5, <2>5 DEF CanceledIsStopped
  <2> QED
    BY <1>5, <2>1, <2>4, <2>6 DEF SafeInv
<1>6. CASE \E arrives \in BOOLEAN : Dequeue(h, i, arrives)
  <2> DEFINE row == [cmd[h][i] EXCEPT !.st = "dispatched", !.lease = "live", !.tries = @ + 1]
  <2>1. WriteRow(h, i, row) /\ UNCHANGED <<task, host>> /\ cmd[h][i].st = "pending"
    BY <1>6 DEF Dequeue, Queued
  <2>2. cmd[h][i].tries + 1 \in 0..2
    BY <1>0, <1>2, <2>1 DEF QueuedTwice, CmdRow
  <2>3. row \in CmdRow /\ row.st = "dispatched"
        /\ row.fresh = cmd[h][i].fresh /\ row.cur = cmd[h][i].cur
    BY <1>2, <2>2 DEF CmdRow, CmdStatus, CmdActive
  <2> HIDE DEF row
  <2> QED
    BY <1>4, <2>1, <2>3 DEF CmdActive
<1>7. CASE AgentStep(h, i) \/ EnterMaintenance(h, i)
  BY <1>3, <1>7 DEF AgentStep, Verify, Execute, EnterMaintenance
<1>8. CASE AckAccepted(h, i)
  <2> DEFINE row == [cmd[h][i] EXCEPT !.st = "accepted"]
  <2>1. WriteRow(h, i, row) /\ UNCHANGED <<task, host>> /\ cmd[h][i].st = "dispatched"
    BY <1>8 DEF AckAccepted
  <2>2. row \in CmdRow /\ row.st = "accepted"
        /\ row.fresh = cmd[h][i].fresh /\ row.cur = cmd[h][i].cur
    BY <1>2 DEF CmdRow, CmdStatus, CmdActive
  <2> HIDE DEF row
  <2> QED
    BY <1>4, <2>1, <2>2 DEF CmdActive
<1>9. CASE AckSwitch(h, i)
  <2> DEFINE row == [cmd[h][i] EXCEPT !.st = "pending", !.lease = "null"]
  <2>1. WriteRow(h, i, row) /\ UNCHANGED <<task, host>> /\ cmd[h][i].st = "dispatched"
    BY <1>9 DEF AckSwitch
  <2>2. row \in CmdRow /\ row.st = "pending"
        /\ row.fresh = cmd[h][i].fresh /\ row.cur = cmd[h][i].cur
    BY <1>2 DEF CmdRow, CmdStatus, CmdActive
  <2> HIDE DEF row
  <2> QED
    BY <1>4, <2>1, <2>2 DEF CmdActive
<1>10. CASE AckRejected(h, i)
  <2>1. /\ WriteRow(h, i, Close(cmd[h][i], "failed")) /\ UNCHANGED <<task, host>>
        /\ cmd[h][i].st \in CmdActive
    BY <1>10 DEF AckRejected, CmdActive
  <2> QED
    BY <1>5, <2>1 DEF CmdFinal
<1>11. ASSUME NEW s \in {"early", "step", "done"}, Progress(h, i, s) PROVE SafeInv'
  <2> DEFINE row == [cmd[h][i] EXCEPT !.st = "running",
                       !.lease = IF @ = "null" THEN "null" ELSE "live",
                       !.stage = StageAfter(@, s)]
  <2>1. WriteRow(h, i, row) /\ UNCHANGED <<task, host>> /\ cmd[h][i].st \in CmdActive
    BY <1>11 DEF Progress
  <2>2. StageAfter(cmd[h][i].stage, s) \in {"none", "step", "done", "proven"}
    BY DEF StageAfter
  <2>3. row \in CmdRow /\ row.st = "running"
        /\ row.fresh = cmd[h][i].fresh /\ row.cur = cmd[h][i].cur
    BY <1>2, <2>2 DEF CmdRow, CmdStatus, CmdActive
  <2> HIDE DEF row
  <2>4. row.st \in CmdActive
    BY <2>3 DEF CmdActive
  <2> QED
    BY <1>4, <2>1, <2>3, <2>4
<1>12. CASE FinalStage(h, i) \/ Report(h, i)
  <2>1. /\ agent[h][i] \in {"success", "failed"} /\ Settle(h, i, agent[h][i])
        /\ cmd[h][i].st \in CmdActive /\ task' = task
    BY <1>12 DEF FinalStage, Report
  <2>2. agent[h][i] \in CmdFinal
    BY <2>1 DEF CmdFinal
  <2>3. \A g \in Hosts : g # h => host'[g] = host[g]
    BY <1>0, <2>1 DEF Settle, StoreTypeOK
  <2> QED
    BY <1>5, <2>1, <2>2, <2>3 DEF Settle
<1>13. CASE LeaseLapses(h, i)
  <2> DEFINE row == [cmd[h][i] EXCEPT !.lease = "lapsed"]
  <2>1. WriteRow(h, i, row) /\ UNCHANGED <<task, host>> /\ cmd[h][i].st \in CmdActive
    BY <1>13 DEF LeaseLapses
  <2>2. row \in CmdRow /\ row.st = cmd[h][i].st
        /\ row.fresh = cmd[h][i].fresh /\ row.cur = cmd[h][i].cur
    BY <1>2 DEF CmdRow
  <2> HIDE DEF row
  <2> QED
    BY <1>4, <2>1, <2>2
<1>14. CASE QueueTimeout(h, i)
  <2> DEFINE row == [cmd[h][i] EXCEPT !.dead = TRUE]
  <2>1. WriteRow(h, i, row) /\ UNCHANGED <<task, host>> /\ cmd[h][i].st = "pending"
    BY <1>14 DEF QueueTimeout
  <2>2. row \in CmdRow /\ row.st = cmd[h][i].st
        /\ row.fresh = cmd[h][i].fresh /\ row.cur = cmd[h][i].cur
    BY <1>2 DEF CmdRow
  <2> HIDE DEF row
  <2>3. "pending" \in CmdActive
    BY DEF CmdActive
  <2> QED
    BY <1>4, <2>1, <2>2, <2>3
<1> QED
  BY <1>1, <1>6, <1>7, <1>8, <1>9, <1>10, <1>11, <1>12, <1>13, <1>14 DEF Message, Time

(* What the commands of a reset host look like after Retry. *)
LEMMA RebasedOwned ==
  ASSUME StoreTypeOK, NEW S \in SUBSET Hosts, NEW tied \in SUBSET S,
         Ties \/ tied = {}, NEW h \in S
  PROVE  /\ Act(Rebased(S, tied)[h]) = {} /\ FreshCurrent(Rebased(S, tied)[h])
         /\ Act(CancelCommands(S)[h]) = {}
<1>1. \A i \in CmdIds :
        /\ CancelCommands(S)[h][i].st \notin CmdActive
        /\ Rebased(S, tied)[h][i].st \notin CmdActive
  BY RebasedType
<1>2. ASSUME ~Ties, NEW i \in Fin(Rebased(S, tied)[h]) PROVE ~Rebased(S, tied)[h][i].fresh
  <2>1. cmd[h][i].st # "none"
    <3>1. CASE cmd[h][i].st = "none"
      <4>1. Rebased(S, tied)[h][i] = cmd[h][i]
        BY <3>1 DEF Rebased, Fin
      <4> QED
        BY <3>1, <4>1 DEF Fin, CmdFinal
    <3> QED
      BY <3>1
  <2>2. Rebased(S, tied)[h][i]
          = Row(CancelCommands(S)[h][i].st, cmd[h][i].fresh /\ h \in tied, FALSE)
    BY <2>1 DEF Rebased, Fin
  <2>3. Row(CancelCommands(S)[h][i].st, cmd[h][i].fresh /\ h \in tied, FALSE).fresh
          = (cmd[h][i].fresh /\ h \in tied)
    BY DEF Row
  <2> QED
    BY <1>2, <2>2, <2>3
<1> QED
  BY <1>1, <1>2 DEF Act, FreshCurrent

(* Cancel only closes what FreshCurrent does not look at. *)
LEMMA CanceledFresh ==
  ASSUME StoreTypeOK, NEW h \in Hosts, FreshCurrent(cmd[h])
  PROVE  FreshCurrent(CancelCommands(Hosts)[h])
<1>1. \A i \in CmdIds : Close(cmd[h][i], "canceled").st = "canceled"
  BY CloseType DEF StoreTypeOK
<1>2. "canceled" \notin CmdFinal
  BY DEF CmdFinal
<1>3. \A i \in Fin(CancelCommands(Hosts)[h]) : CancelCommands(Hosts)[h][i] = cmd[h][i]
  BY <1>1, <1>2 DEF Fin, CancelCommands
<1> QED
  BY <1>3 DEF FreshCurrent, Fin

LEMMA OperatorSafe == TypeInv /\ SafeInv /\ Operator => SafeInv'
<1> SUFFICES ASSUME TypeInv, SafeInv, Operator PROVE SafeInv'
  OBVIOUS
<1>0. StoreTypeOK /\ CanceledIsStopped /\ \A h \in Hosts : Owned(host[h], cmd[h])
  BY DEF TypeInv, TypeOK, SafeInv
<1>1. CASE Start \/ Promote \/ Pause
  BY <1>0, <1>1 DEF Start, Promote, Pause, SafeInv, CanceledIsStopped
<1>2. CASE Cancel
  <2>1. \A h \in Hosts : Act(cmd'[h]) = {} /\ FreshCurrent(cmd'[h])
    <3> SUFFICES ASSUME NEW h \in Hosts PROVE Act(cmd'[h]) = {} /\ FreshCurrent(cmd'[h])
      OBVIOUS
    <3>1. cmd' = CancelCommands(Hosts)
      BY <1>2 DEF Cancel
    <3>2. Act(CancelCommands(Hosts)[h]) = {}
      BY <1>0, RebasedType DEF Act
    <3>3. FreshCurrent(CancelCommands(Hosts)[h])
      BY <1>0, CanceledFresh DEF Owned
    <3> QED
      BY <3>1, <3>2, <3>3
  <2>2. \A h \in Hosts : host'[h] \notin {"pending", "running"}
    BY <1>0, <1>2 DEF Cancel
  <2>3. \A h \in Hosts : Owned(host'[h], cmd'[h])
    BY <2>1, <2>2, NobodyOwns
  <2>4. \A h \in Hosts : ActiveCmds(h)' = {}
    BY <2>1 DEF ActiveCmds, Act
  <2> QED
    BY <2>2, <2>3, <2>4 DEF SafeInv, CanceledIsStopped
<1>3. ASSUME NEW ids \in SUBSET Hosts, NEW explicit \in BOOLEAN, NEW force \in BOOLEAN,
             Retry(ids, explicit, force)
      PROVE  SafeInv'
  <2> DEFINE reset == {h \in ids : Retryable(h, explicit, force)}
  <2>1. PICK tied \in SUBSET reset : (Ties \/ tied = {}) /\ ResetHosts(reset, tied)
    BY <1>3 DEF Retry
  <2>2. reset \in SUBSET Hosts
    OBVIOUS
  <2> HIDE DEF reset
  <2>3. ASSUME NEW h \in reset PROVE Owned(host'[h], cmd'[h])
    <3>1. Act(cmd'[h]) = {} /\ FreshCurrent(cmd'[h])
      BY <1>0, <2>1, <2>2, RebasedOwned DEF ResetHosts
    <3>2. host'[h] = "pending"
      BY <2>1, <2>2 DEF ResetHosts
    <3> QED
      BY <3>1, <3>2, NobodyOwns
  <2>4. ASSUME NEW h \in Hosts \ reset PROVE Owned(host'[h], cmd'[h])
    <3>1. cmd'[h] = cmd[h]
      <4>1. \A i \in CmdIds : Rebased(reset, tied)[h][i] = cmd[h][i]
        BY <2>4 DEF Rebased
      <4>2. cmd'[h] = [i \in CmdIds |-> cmd[h][i]]
        BY <2>1, <2>4 DEF ResetHosts, Rebased
      <4> QED
        BY <1>0, <4>2 DEF StoreTypeOK
    <3>2. host'[h] = host[h]
      BY <2>1 DEF ResetHosts
    <3> QED
      BY <1>0, <3>1, <3>2
  <2>5. task' = "running"
    BY <2>1 DEF ResetHosts
  <2> QED
    BY <2>2, <2>3, <2>4, <2>5 DEF SafeInv, CanceledIsStopped
<1> QED
  BY <1>1, <1>2, <1>3 DEF Operator, ApiNext

(* Steps that leave the commands alone, give no host new life and mark     *)
(* running no host.                                                        *)
LEMMA HostsSafe ==
  ASSUME TypeInv, SafeInv, UNCHANGED cmd,
         task' = "canceled" => task = "canceled",
         \A h \in Hosts : \/ host'[h] = host[h]
                          \/ /\ ActiveCmds(h) = {}
                             /\ host'[h] \notin {"pending", "running"}
  PROVE  SafeInv'
<1>1. ASSUME NEW h \in Hosts PROVE Owned(host'[h], cmd'[h])
  <2>1. CASE host'[h] = host[h]
    BY <2>1 DEF SafeInv
  <2>2. CASE ActiveCmds(h) = {} /\ host'[h] \notin {"pending", "running"}
    <3>1. Act(cmd'[h]) = {} /\ FreshCurrent(cmd'[h])
      BY <2>2 DEF SafeInv, Owned, Act, ActiveCmds
    <3> QED
      BY <2>2, <3>1, NobodyOwns
  <2> QED
    BY <2>1, <2>2
<1>2. CanceledIsStopped'
  BY DEF SafeInv, CanceledIsStopped, ActiveCmds
<1> QED
  BY <1>1, <1>2 DEF SafeInv

(* Reconciliation closes commands of the hosts it decides. *)
LEMMA ReconcileSafe ==
  ASSUME TypeInv, SafeInv,
         \/ FinalizeCompletedStages \/ ReapExpired
         \/ SyncTaskHostsFromCommands \/ ClearMaintenance
  PROVE  SafeInv'
<1>0. StoreTypeOK /\ CanceledIsStopped /\ \A h \in Hosts : Owned(host[h], cmd[h])
  BY DEF TypeInv, TypeOK, SafeInv
<1>1. StoreTypeOK'
  BY ReconcileType
<1>2. \A h \in Hosts, i \in CmdIds : \A st \in CmdFinal :
        /\ Close(cmd[h][i], st).st = st
        /\ Close(cmd[h][i], st).fresh = cmd[h][i].fresh
        /\ Close(cmd[h][i], st).cur = cmd[h][i].cur
  BY <1>0, CloseType DEF StoreTypeOK
<1>3. {"dispatched", "accepted", "running"} \subseteq CmdActive
      /\ {"success", "timeout"} \subseteq CmdFinal
      /\ CmdActive \cap CmdFinal = {}
  BY DEF CmdActive, CmdFinal
<1>4. ASSUME \A h \in Hosts, k \in CmdIds :
               \/ cmd'[h][k] = cmd[h][k]
               \/ /\ cmd[h][k].st \in CmdActive /\ cmd'[h][k].st \in CmdFinal
                  /\ cmd'[h][k].fresh = cmd[h][k].fresh /\ cmd'[h][k].cur = cmd[h][k].cur,
             task' = task,
             \A h \in Hosts :
               \/ host'[h] = host[h]
               \/ /\ host'[h] \notin {"pending", "running"}
                  /\ \E k \in CmdIds : cmd[h][k].st \in CmdActive
                                       /\ cmd'[h][k].st \in CmdFinal
      PROVE  SafeInv'
  <2>1. ASSUME NEW h \in Hosts PROVE Owned(host'[h], cmd'[h])
    <3>1. cmd[h] \in Rows /\ cmd'[h] \in Rows
      BY <1>0, <1>1 DEF StoreTypeOK, Rows
    <3>2. CASE \E k \in CmdIds : cmd[h][k].st \in CmdActive /\ cmd'[h][k].st \in CmdFinal
      BY <1>0, <1>4, <3>1, <3>2, ActiveCloses
    <3>3. CASE \A k \in CmdIds : cmd'[h][k] = cmd[h][k]
      <4>1. cmd'[h] = cmd[h]
        BY <3>1, <3>3 DEF Rows
      <4>2. host'[h] = host[h]
        BY <1>3, <1>4, <4>1
      <4> QED
        BY <1>0, <4>1, <4>2
    <3> QED
      BY <1>4, <3>2, <3>3
  <2>2. \A h \in Hosts : ActiveCmds(h) = {} => ActiveCmds(h)' = {}
    BY <1>3, <1>4 DEF ActiveCmds
  <2>3. CanceledIsStopped'
    BY <1>0, <1>4, <2>2 DEF CanceledIsStopped
  <2> QED
    BY <2>1, <2>3 DEF SafeInv
<1>5. CASE FinalizeCompletedStages
  <2>1. PICK silent \in SUBSET DoneUnreported : cmd' = [h \in Hosts |-> [i \in CmdIds |->
                 IF <<h, i>> \in silent
                   THEN Close(cmd[h][i], IF cmd[h][i].stage = "proven"
                                           THEN "success" ELSE "timeout")
                   ELSE cmd[h][i]]]
    BY <1>5 DEF FinalizeCompletedStages
  <2>2. \A h \in Hosts, k \in CmdIds : <<h, k>> \in silent => cmd[h][k].st \in CmdActive
    BY <1>3, <2>1 DEF DoneUnreported
  <2>3. \A h \in Hosts, k \in CmdIds :
          \/ cmd'[h][k] = cmd[h][k]
          \/ /\ cmd[h][k].st \in CmdActive /\ cmd'[h][k].st \in CmdFinal
             /\ cmd'[h][k].fresh = cmd[h][k].fresh /\ cmd'[h][k].cur = cmd[h][k].cur
    <3> SUFFICES ASSUME NEW h \in Hosts, NEW k \in CmdIds
                 PROVE  \/ cmd'[h][k] = cmd[h][k]
                        \/ /\ cmd[h][k].st \in CmdActive /\ cmd'[h][k].st \in CmdFinal
                           /\ cmd'[h][k].fresh = cmd[h][k].fresh
                           /\ cmd'[h][k].cur = cmd[h][k].cur
      OBVIOUS
    <3>1. CASE <<h, k>> \in silent
      <4>1. PICK st \in CmdFinal : cmd'[h][k] = Close(cmd[h][k], st)
        <5>1. cmd'[h][k] = Close(cmd[h][k], IF cmd[h][k].stage = "proven"
                                              THEN "success" ELSE "timeout")
          BY <2>1, <3>1
        <5> QED
          BY <1>3, <5>1
      <4> QED
        BY <1>2, <2>2, <3>1, <4>1
    <3>2. CASE <<h, k>> \notin silent
      BY <2>1, <3>2
    <3> QED
      BY <3>1, <3>2
  <2>4. UNCHANGED <<task, host>>
    BY <1>5 DEF FinalizeCompletedStages
  <2> QED
    BY <1>4, <2>3, <2>4
<1>6. CASE ReapExpired
  <2>1. \A h \in Hosts : \A k \in Expired(h) :
          k \in CmdIds /\ cmd[h][k].st \in CmdActive /\ cmd'[h][k] = Close(cmd[h][k], "timeout")
    BY <1>3, <1>6 DEF Expired, ReapExpired
  <2>2. \A h \in Hosts, k \in CmdIds :
          \/ cmd'[h][k] = cmd[h][k]
          \/ /\ cmd[h][k].st \in CmdActive /\ cmd'[h][k].st \in CmdFinal
             /\ cmd'[h][k].fresh = cmd[h][k].fresh /\ cmd'[h][k].cur = cmd[h][k].cur
    <3> SUFFICES ASSUME NEW h \in Hosts, NEW k \in CmdIds
                 PROVE  \/ cmd'[h][k] = cmd[h][k]
                        \/ /\ cmd[h][k].st \in CmdActive /\ cmd'[h][k].st \in CmdFinal
                           /\ cmd'[h][k].fresh = cmd[h][k].fresh
                           /\ cmd'[h][k].cur = cmd[h][k].cur
      OBVIOUS
    <3>1. CASE k \in Expired(h)
      BY <1>2, <1>3, <2>1, <3>1
    <3>2. CASE k \notin Expired(h)
      BY <1>6, <3>2 DEF ReapExpired
    <3> QED
      BY <3>1, <3>2
  <2>3. \A h \in Hosts :
          \/ host'[h] = host[h]
          \/ /\ host'[h] \notin {"pending", "running"}
             /\ \E k \in CmdIds : cmd[h][k].st \in CmdActive /\ cmd'[h][k].st \in CmdFinal
    <3> SUFFICES ASSUME NEW h \in Hosts
                 PROVE  \/ host'[h] = host[h]
                        \/ /\ host'[h] \notin {"pending", "running"}
                           /\ \E k \in CmdIds : /\ cmd[h][k].st \in CmdActive
                                                /\ cmd'[h][k].st \in CmdFinal
      OBVIOUS
    <3>1. CASE Expired(h) = {}
      BY <1>6, <3>1 DEF ReapExpired
    <3>2. CASE Expired(h) # {}
      <4>1. PICK k \in Expired(h) : TRUE
        BY <3>2
      <4>2. k \in CmdIds /\ cmd[h][k].st \in CmdActive /\ cmd'[h][k].st \in CmdFinal
        BY <1>2, <1>3, <2>1, <4>1
      <4>3. host'[h] = host[h] \/ host'[h] = "timeout"
        BY <1>6 DEF ReapExpired
      <4> QED
        BY <4>2, <4>3
    <3> QED
      BY <3>1, <3>2
  <2> QED
    BY <1>4, <1>6, <2>2, <2>3 DEF ReapExpired
<1>7. CASE SyncTaskHostsFromCommands
  <2>1. \A h \in Hosts : Syncable(h) => (CHOOSE st \in SyncResult(h) : TRUE) \in CmdFinal
    BY DEF Syncable, SyncResult, FinalCmds
  <2>2. {"pending", "running"} \cap CmdFinal = {}
    BY DEF CmdFinal
  <2>3. \A h \in Hosts : \/ host'[h] = host[h]
                         \/ ActiveCmds(h) = {} /\ host'[h] \notin {"pending", "running"}
    BY <1>7, <2>1, <2>2 DEF SyncTaskHostsFromCommands, Syncable
  <2> QED
    BY <1>7, <2>3, HostsSafe DEF SyncTaskHostsFromCommands
<1>8. CASE ClearMaintenance
  BY <1>8, HostsSafe DEF ClearMaintenance
<1> QED
  BY <1>5, <1>6, <1>7, <1>8

(* The round of the orchestrator: only DispatchHost gives a host a command. *)
LEMMA OrchestrateSafe == TypeInv /\ SafeInv /\ Orchestrate => SafeInv'
<1> SUFFICES ASSUME TypeInv, SafeInv, Orchestrate PROVE SafeInv'
  OBVIOUS
<1>0. /\ StoreTypeOK /\ OrchTypeOK /\ LocalsSet /\ CanceledIsStopped
      /\ \A h \in Hosts : Owned(host[h], cmd[h])
  BY DEF TypeInv, TypeOK, SafeInv
<1>1. \A h \in Hosts : host[h] # "running" => ActiveCmds(h) = {} /\ Act(cmd[h]) = {}
  BY <1>0 DEF Owned, Act, ActiveCmds
<1>2. CASE Finalize \/ Reap \/ Sync \/ Clear
  BY <1>2, ReconcileSafe DEF Finalize, Reap, Sync, Clear
<1>3. CASE UNCHANGED <<task, host, cmd>>
  BY <1>3, HostsSafe
<1>4. CASE \/ Scan \/ CurrentBatch \/ ListPending \/ LoopDone \/ CountPending
           \/ MarkBatch \/ BatchProgress \/ HasPendingAfter \/ HasPendingAfterFails
           \/ FinishRead \/ FinishReadFails
  BY <1>3, <1>4 DEF Scan, CurrentBatch, ListPending, LoopDone, CountPending, MarkBatch,
     BatchProgress, HasPendingAfter, HasPendingAfterFails, FinishRead, FinishReadFails,
     storeVars
<1>5. ASSUME NEW h \in Hosts, SkipHost(h) PROVE SafeInv'
  <2>1. UNCHANGED <<task, cmd>>
        /\ host' = [host EXCEPT ![h] = IF @ = "pending" THEN "skipped" ELSE @]
    BY <1>5 DEF SkipHost
  <2>2. \A g \in Hosts : \/ host'[g] = host[g]
                         \/ ActiveCmds(g) = {} /\ host'[g] \notin {"pending", "running"}
    BY <1>0, <1>1, <2>1 DEF StoreTypeOK
  <2> QED
    BY <2>1, <2>2, HostsSafe
<1>6. ASSUME NEW h \in Hosts, DispatchHost(h) PROVE SafeInv'
  <2>1. CASE ~(host[h] = "pending" /\ task = "running")
    BY <1>3, <1>6, <2>1 DEF DispatchHost
  <2>2. CASE host[h] = "pending" /\ task = "running"
    <3>1. ActiveCmds(h) = {} /\ Act(cmd[h]) = {} /\ FreshCurrent(cmd[h])
      BY <1>0, <1>1, <2>2 DEF Owned
    <3>2. /\ InsertCommand(h) /\ task' = task
          /\ host' = [host EXCEPT ![h] = "running"]
      BY <1>6, <2>2 DEF DispatchHost
    <3>3. PICK i \in CmdIds : IsNext(h, i) /\ WriteRow(h, i, QueuedCmd)
      BY <3>1, <3>2 DEF InsertCommand
    <3>4. /\ cmd'[h] = [cmd[h] EXCEPT ![i] = QueuedCmd]
          /\ \A g \in Hosts : g # h => cmd'[g] = cmd[g]
      BY <1>0, <3>3 DEF WriteRow, StoreTypeOK
    <3>5. host'[h] = "running" /\ \A g \in Hosts : g # h => host'[g] = host[g]
      BY <1>0, <3>2 DEF StoreTypeOK
    <3>6. cmd[h] \in Rows
      BY <1>0 DEF StoreTypeOK, Rows
    <3>7. {k \in CmdIds : cmd[h][k].st # "none"} = 1..(i - 1)
      BY <3>3 DEF IsNext, Issued
    <3>8. Owned(host'[h], cmd'[h])
      BY <3>1, <3>4, <3>5, <3>6, <3>7, QueuedOwns
    <3>9. CanceledIsStopped'
      BY <2>2, <3>2 DEF CanceledIsStopped
    <3> QED
      BY <1>0, <3>4, <3>5, <3>8, <3>9 DEF SafeInv
  <2> QED
    BY <2>1, <2>2
<1>7. CASE CompleteBatch
  <2>1. /\ UNCHANGED cmd /\ task' = "canceled" => task = "canceled"
        /\ \A h \in Hosts : \/ host'[h] = host[h]
                            \/ host[h] = "success" /\ host'[h] = "rolled_back"
    BY <1>7 DEF CompleteBatch
  <2>2. UNCHANGED cmd
    BY <1>7 DEF CompleteBatch
  <2> QED
    BY <1>1, <2>1, <2>2, HostsSafe
<1>8. CASE FinishWrite
  <2>1. UNCHANGED <<host, cmd>> /\ verdict \in {"success", "failed"}
    BY <1>0, <1>8 DEF FinishWrite, LocalsSet
  <2>2. task' = "canceled" => task = "canceled"
    BY <1>8, <2>1 DEF FinishWrite
  <2> QED
    BY <2>1, <2>2, HostsSafe
<1> QED
  BY <1>2, <1>4, <1>5, <1>6, <1>7, <1>8 DEF Orchestrate, OrchStep

LEMMA SafeInvStep == TypeInv /\ SafeInv /\ [Next]_vars => SafeInv'
<1> SUFFICES ASSUME TypeInv, SafeInv, [Next]_vars PROVE SafeInv'
  OBVIOUS
<1>1. CASE Fault \/ UNCHANGED vars
  BY <1>1, HostsSafe DEF Fault, Abort, storeVars, vars
<1> QED
  BY <1>1, OperatorSafe, AgentsSafe, OrchestrateSafe DEF Next

(* The inductive invariant. *)
LEMMA Invariance == Spec => [](TypeInv /\ SafeInv)
<1>1. Init => TypeInv /\ SafeInv
  BY InitTypeInv, InitSafeInv
<1>2. TypeInv /\ SafeInv /\ [Next]_vars => (TypeInv /\ SafeInv)'
  BY TypeInvStep, SafeInvStep
<1> QED
  BY <1>1, <1>2, PTL DEF Spec

-----------------------------------------------------------------------------
(* Whatever the operator, the agents and a crashing orchestrator do, a     *)
(* host has at most one active command, and only while it is running, so   *)
(* two commands never work on one machine for a task.                      *)
THEOREM OneCommandPerHost == Spec => []OneActiveCommand
<1>1. TypeInv /\ SafeInv => OneActiveCommand
  BY SafeInvMeans DEF TypeInv, TypeOK
<1> QED
  BY <1>1, Invariance, PTL

(* A running host always has an active command, or a fresh result that the *)
(* next SyncTaskHostsFromCommands gives it: no interleaving strands it.    *)
THEOREM RunningHostIsOwned == Spec => []NoOrphanHost
<1>1. TypeInv /\ SafeInv => NoOrphanHost
  BY SafeInvMeans DEF TypeInv, TypeOK
<1> QED
  BY <1>1, Invariance, PTL

(* After Cancel no command of the task is active and no host is waiting,   *)
(* even when a round of the orchestrator read the task before the cancel.  *)
THEOREM CancelStops == Spec => []CanceledIsStopped
<1>1. TypeInv /\ SafeInv => CanceledIsStopped
  BY DEF SafeInv
<1> QED
  BY <1>1, Invariance, PTL

-----------------------------------------------------------------------------
(* A step on the row of an active command, or on no command, leaves the    *)
(* ended ones alone.                                                       *)
LEMMA OneRowSettles ==
  ASSUME StoreTypeOK, NEW h \in Hosts, NEW i \in CmdIds, NEW row,
         WriteRow(h, i, row), cmd[h][i].st \in CmdActive \cup {"none"}
  PROVE  SettleStep
<1>1. (CmdFinal \cup {"canceled"}) \cap (CmdActive \cup {"none"}) = {}
  BY DEF CmdFinal, CmdActive
<1> QED
  BY <1>1 DEF SettleStep, WriteRow, StoreTypeOK

LEMMA SettleHolds == TypeInv /\ [Next]_vars => SettleStep
<1> SUFFICES ASSUME TypeInv, [Next]_vars PROVE SettleStep
  OBVIOUS
<1>0. StoreTypeOK
  BY DEF TypeInv, TypeOK
<1>1. CASE UNCHANGED cmd
  BY <1>1 DEF SettleStep
<1>2. (CmdFinal \cup {"canceled"}) \cap (CmdActive \cup {"none"}) = {}
  BY DEF CmdFinal, CmdActive
<1>3. {"dispatched", "accepted", "running", "pending"} \subseteq CmdActive
  BY DEF CmdActive
<1>4. CASE Operator
  <2>1. CASE Start \/ Promote \/ Pause
    BY <1>1, <2>1 DEF Start, Promote, Pause
  <2>2. CASE Cancel
    BY <1>2, <2>2 DEF Cancel, CancelCommands, SettleStep
  <2>3. ASSUME NEW reset \in SUBSET Hosts, NEW tied, cmd' = Rebased(reset, tied)
        PROVE  SettleStep
    <3> SUFFICES ASSUME NEW h \in Hosts, NEW i \in CmdIds,
                        cmd[h][i].st \in CmdFinal \cup {"canceled"}
                 PROVE  cmd'[h][i].st = cmd[h][i].st
      BY DEF SettleStep
    <3>1. CASE h \notin reset
      BY <2>3, <3>1 DEF Rebased
    <3>2. CASE h \in reset
      <4>1. CancelCommands(reset)[h][i] = cmd[h][i] /\ cmd[h][i].st # "none"
        BY <1>2 DEF CancelCommands
      <4>2. cmd'[h][i] = Row(cmd[h][i].st, cmd[h][i].fresh /\ h \in tied, FALSE)
        BY <2>3, <3>2, <4>1 DEF Rebased
      <4> QED
        BY <4>2 DEF Row
    <3> QED
      BY <3>1, <3>2
  <2>4. ASSUME NEW ids \in SUBSET Hosts, NEW explicit, NEW force,
               Retry(ids, explicit, force)
        PROVE  SettleStep
    <3> DEFINE reset == {h \in ids : Retryable(h, explicit, force)}
    <3>1. \E tied \in SUBSET reset : cmd' = Rebased(reset, tied)
      BY <2>4 DEF Retry, ResetHosts
    <3>2. reset \in SUBSET Hosts
      OBVIOUS
    <3> HIDE DEF reset
    <3> QED
      BY <2>3, <3>1, <3>2
  <2> QED
    BY <1>4, <2>1, <2>2, <2>4 DEF Operator, ApiNext
<1>5. CASE Agents
  <2>1. PICK h \in Hosts, i \in CmdIds :
          \/ \E arrives \in BOOLEAN : Dequeue(h, i, arrives)
          \/ AgentStep(h, i) \/ Message(h, i) \/ Time(h, i)
    BY <1>5 DEF Agents, GatewayNext
  <2>2. CASE AgentStep(h, i) \/ EnterMaintenance(h, i)
    BY <1>1, <2>2 DEF AgentStep, Verify, Execute, EnterMaintenance
  <2>3. CASE ~(AgentStep(h, i) \/ EnterMaintenance(h, i))
    <3>1. cmd[h][i].st \in CmdActive /\ \E row : WriteRow(h, i, row)
      BY <1>3, <2>1, <2>3 DEF Message, Time, Dequeue, Queued, AckAccepted, AckSwitch,
         AckRejected, Progress, FinalStage, Report, Settle, LeaseLapses, QueueTimeout
    <3> QED
      BY <1>0, <3>1, OneRowSettles
  <2> QED
    BY <2>2, <2>3
<1>6. CASE Orchestrate
  <2>1. CASE Finalize
    <3>1. PICK silent \in SUBSET DoneUnreported : cmd' = [h \in Hosts |-> [i \in CmdIds |->
                   IF <<h, i>> \in silent
                     THEN Close(cmd[h][i], IF cmd[h][i].stage = "proven"
                                             THEN "success" ELSE "timeout")
                     ELSE cmd[h][i]]]
      BY <2>1 DEF Finalize, FinalizeCompletedStages
    <3>2. \A h \in Hosts, i \in CmdIds : <<h, i>> \in silent => cmd[h][i].st \in CmdActive
      BY <1>3, <3>1 DEF DoneUnreported
    <3>3. \A h \in Hosts, i \in CmdIds : <<h, i>> \notin silent => cmd'[h][i] = cmd[h][i]
      BY <3>1
    <3> QED
      BY <1>2, <3>2, <3>3 DEF SettleStep
  <2>2. CASE Reap
    <3>1. \A h \in Hosts, i \in CmdIds : i \notin Expired(h) => cmd'[h][i] = cmd[h][i]
      BY <2>2 DEF Reap, ReapExpired
    <3>2. \A h \in Hosts : \A i \in Expired(h) : cmd[h][i].st \in CmdActive
      BY <1>3 DEF Expired
    <3> QED
      BY <1>2, <3>1, <3>2 DEF SettleStep
  <2>3. ASSUME NEW h \in Hosts, DispatchHost(h) PROVE SettleStep
    <3>1. CASE UNCHANGED cmd
      BY <1>1, <3>1
    <3>2. ASSUME NEW i \in CmdIds, IsNext(h, i), WriteRow(h, i, QueuedCmd) PROVE SettleStep
      <4>1. i \notin Issued(h)
        BY <3>2, StoreAssumption DEF IsNext, CmdIds
      <4> QED
        BY <1>0, <3>2, <4>1, OneRowSettles DEF Issued
    <3> QED
      BY <2>3, <3>1, <3>2 DEF DispatchHost, InsertCommand
  <2>4. CASE \/ Sync \/ Clear \/ Scan \/ CurrentBatch \/ ListPending \/ LoopDone
             \/ CountPending \/ MarkBatch \/ (\E h \in Hosts : SkipHost(h))
             \/ BatchProgress \/ HasPendingAfter \/ HasPendingAfterFails
             \/ CompleteBatch \/ FinishRead \/ FinishReadFails \/ FinishWrite
    BY <1>1, <2>4 DEF Sync, SyncTaskHostsFromCommands, Clear, ClearMaintenance, Scan,
       CurrentBatch, ListPending, LoopDone, CountPending, MarkBatch, SkipHost,
       BatchProgress, HasPendingAfter, HasPendingAfterFails, CompleteBatch,
       FinishRead, FinishReadFails, FinishWrite, storeVars
  <2> QED
    BY <1>6, <2>1, <2>2, <2>3, <2>4 DEF Orchestrate, OrchStep
<1>7. CASE Fault \/ UNCHANGED vars
  BY <1>1, <1>7 DEF Fault, Abort, storeVars, vars
<1> QED
  BY <1>4, <1>5, <1>6, <1>7 DEF Next

(* A late, repeated or lost Ack, stage or Report, reaping, Retry and       *)
(* Cancel never give a command that has ended another status.              *)
THEOREM EndedCommandsStay == Spec => CommandSettles
<1>1. TypeInv /\ [Next]_vars => [SettleStep]_vars
  BY SettleHolds
<1> QED
  BY <1>1, Invariance, PTL DEF CommandSettles, Spec

-----------------------------------------------------------------------------
(* Steps that give no open host a result. *)
LEMMA NoResult ==
  ASSUME \A h \in Hosts : \/ host'[h] = host[h]
                          \/ host[h] \notin {"pending", "running"}
                          \/ host'[h] \notin {"success", "failed", "timeout"}
  PROVE  ResultStep
BY DEF ResultStep

LEMMA ResultHolds ==
  ASSUME ~Ties, TypeInv, SafeInv, [Next]_vars
  PROVE  ResultStep
<1>0. StoreTypeOK /\ \A h \in Hosts : Owned(host[h], cmd[h])
  BY DEF TypeInv, TypeOK, SafeInv
<1>1. \A h \in Hosts, i \in CmdIds : cmd[h][i].st \in CmdActive => cmd[h][i].cur
  BY <1>0 DEF Owned, Act
<1>2. \A h \in Hosts, i \in CmdIds : \A st \in CmdFinal :
        Close(cmd[h][i], st).st = st /\ Close(cmd[h][i], st).cur = cmd[h][i].cur
  BY <1>0, CloseType DEF StoreTypeOK
<1>3. CASE Operator
  <2>1. CASE Start \/ Promote \/ Pause
    BY <2>1, NoResult DEF Start, Promote, Pause
  <2>2. CASE Cancel
    BY <2>2, NoResult DEF Cancel
  <2>3. ASSUME NEW ids \in SUBSET Hosts, NEW explicit, NEW force,
               Retry(ids, explicit, force)
        PROVE  ResultStep
    BY <2>3, NoResult DEF Retry, ResetHosts
  <2> QED
    BY <1>3, <2>1, <2>2, <2>3 DEF Operator, ApiNext
<1>4. CASE Agents
  <2>1. PICK h \in Hosts, i \in CmdIds :
          \/ \E arrives \in BOOLEAN : Dequeue(h, i, arrives)
          \/ AgentStep(h, i) \/ Message(h, i) \/ Time(h, i)
    BY <1>4 DEF Agents, GatewayNext
  <2>2. CASE FinalStage(h, i) \/ Report(h, i)
    <3>1. /\ agent[h][i] \in {"success", "failed"} /\ Settle(h, i, agent[h][i])
          /\ cmd[h][i].st \in CmdActive
      BY <2>2 DEF FinalStage, Report
    <3>2. /\ cmd'[h][i] = Close(cmd[h][i], agent[h][i])
          /\ host'[h] = IF host[h] \in HostSealed THEN host[h] ELSE agent[h][i]
          /\ \A g \in Hosts : g # h => host'[g] = host[g]
      BY <1>0, <3>1 DEF Settle, WriteRow, StoreTypeOK
    <3>3. agent[h][i] \in CmdFinal
      BY <3>1 DEF CmdFinal
    <3>4. cmd'[h][i].cur /\ cmd'[h][i].st = agent[h][i]
      BY <1>1, <1>2, <3>1, <3>2, <3>3
    <3>5. host'[h] \in {host[h], agent[h][i]}
      BY <3>2
    <3> QED
      BY <3>2, <3>4, <3>5 DEF ResultStep
  <2>3. CASE ~(FinalStage(h, i) \/ Report(h, i))
    BY <2>1, <2>3, NoResult DEF Message, Time, AgentStep, Verify, Execute, EnterMaintenance,
       Dequeue, AckAccepted, AckSwitch, AckRejected, Progress, LeaseLapses, QueueTimeout
  <2> QED
    BY <2>2, <2>3
<1>5. CASE Orchestrate
  <2>1. CASE Reap
    <3> SUFFICES ASSUME NEW h \in Hosts, host[h] \in {"pending", "running"},
                        host'[h] \in {"success", "failed", "timeout"}
                 PROVE  \E i \in CmdIds : cmd'[h][i].cur /\ cmd'[h][i].st = host'[h]
      BY DEF ResultStep
    <3>1. Expired(h) # {} /\ host'[h] = "timeout"
      BY <2>1 DEF Reap, ReapExpired
    <3>2. PICK i \in Expired(h) : TRUE
      BY <3>1
    <3>3. i \in CmdIds /\ cmd[h][i].st \in CmdActive
          /\ cmd'[h][i] = Close(cmd[h][i], "timeout")
      BY <2>1, <3>2 DEF Reap, ReapExpired, Expired, CmdActive
    <3> QED
      BY <1>1, <1>2, <3>1, <3>3 DEF CmdFinal
  <2>2. CASE Sync
    <3> SUFFICES ASSUME NEW h \in Hosts, host[h] \in {"pending", "running"},
                        host'[h] \in {"success", "failed", "timeout"}
                 PROVE  \E i \in CmdIds : cmd'[h][i].cur /\ cmd'[h][i].st = host'[h]
      BY DEF ResultStep
    <3>1. UNCHANGED cmd /\ Syncable(h)
          /\ host'[h] = CHOOSE st \in SyncResult(h) : TRUE
      BY <2>2 DEF Sync, SyncTaskHostsFromCommands
    <3>2. host'[h] \in SyncResult(h)
      BY <3>1 DEF Syncable
    <3>3. PICK i \in FinalCmds(h) : cmd[h][i].fresh /\ cmd[h][i].st = host'[h]
      BY <3>2 DEF SyncResult
    <3>4. cmd[h][i].cur /\ i \in CmdIds
      BY <1>0, <3>3 DEF Owned, FreshCurrent, Fin, FinalCmds
    <3> QED
      BY <3>1, <3>3, <3>4
  <2>3. ASSUME NEW h \in Hosts, SkipHost(h) \/ DispatchHost(h) PROVE ResultStep
    <3>1. host' = host \/ \E st \in {"running", "skipped"} :
            \A g \in Hosts : host'[g] = host[g] \/ host'[g] = st
      BY <1>0, <2>3 DEF SkipHost, DispatchHost, StoreTypeOK
    <3> QED
      BY <3>1, NoResult
  <2>4. CASE CompleteBatch
    BY <2>4, NoResult DEF CompleteBatch
  <2>5. CASE \/ Finalize \/ Clear \/ Scan \/ CurrentBatch \/ ListPending \/ LoopDone
             \/ CountPending \/ MarkBatch
             \/ BatchProgress \/ HasPendingAfter \/ HasPendingAfterFails
             \/ FinishRead \/ FinishReadFails \/ FinishWrite
    <3>1. host' = host
      BY <2>5 DEF Finalize, FinalizeCompletedStages, Clear, ClearMaintenance, Scan,
         CurrentBatch, ListPending, LoopDone, CountPending, MarkBatch,
         BatchProgress, HasPendingAfter, HasPendingAfterFails,
         FinishRead, FinishReadFails, FinishWrite, storeVars
    <3> QED
      BY <3>1, NoResult
  <2> QED
    BY <1>5, <2>1, <2>2, <2>3, <2>4, <2>5 DEF Orchestrate, OrchStep
<1>6. CASE Fault \/ UNCHANGED vars
  BY <1>6, NoResult DEF Fault, Abort, storeVars, vars
<1> QED
  BY <1>3, <1>4, <1>5, <1>6 DEF Next

(* When the clock that stamps finished_at and started_at never gives two   *)
(* steps the same reading, the attempt a Retry starts is decided only by   *)
(* its own command: no late report, reaped lease or synchronised row of an *)
(* earlier command becomes the host's result.                              *)
THEOREM RetryIsolation ==
  ASSUME ~Ties
  PROVE  Spec => ResultIsCurrent
<1>1. TypeInv /\ SafeInv /\ [Next]_vars => [ResultStep]_vars
  BY ResultHolds
<1> QED
  BY <1>1, Invariance, PTL DEF ResultIsCurrent, Spec

-----------------------------------------------------------------------------
(***************************************************************************)
(* Batches and verdicts.  A Retry reopens hosts behind the round's back    *)
(* and a swallowed query error answers for rows it did not read, so what   *)
(* follows is about the time before the first of them.                     *)
(***************************************************************************)

(* Before a Retry, and unless the task is canceled. *)
Steady == retries = 0 /\ task # "canceled"

AllDone(S) == \A h \in S : host[h] \in HostDone

(* A batch that has ended or failed has no host left to run. *)
EndedAreDone ==
  \A b \in Batches : batch[b] \in {"success", "failed", "skipped"} => AllDone(HostsOf(b))

(* Batches leave "pending" one after the other. *)
FrontMoves ==
  /\ \A b \in Batches : batch[b] # "canceled"
  /\ \A b, c \in Batches : b < c /\ batch[c] # "pending" => batch[b] \in BatchEnded

(* What a round knows of its batch stays true while others act. *)
RoundFits ==
  /\ pc \in {"list", "dispatch", "count", "mark"} =>
       batch[cur] = "pending" /\ \A b \in Batches : b < cur => batch[b] \in BatchEnded
  /\ pc \in {"progress", "after", "complete"} => batch[cur] = "running"
  /\ pc \in {"after", "complete"} => AllDone(HostsOf(cur))
  /\ pc = "dispatch" => todo \subseteq HostsOf(cur)
  /\ pc \notin {"idle", "reap", "sync", "clear", "scan"} => task \in TaskOpen

RoundInv == Steady => EndedAreDone /\ FrontMoves /\ RoundFits

NoneFailed == \A h \in Hosts : host[h] \notin HostFailed

(* The last batch is the last, and what is finished is complete. *)
EndFits ==
  /\ pc = "complete" /\ last => \A b \in Batches : b <= cur
  /\ pc \in {"finread", "finwrite"} \/ task \in {"success", "failed"} => AllDone(Hosts)
  /\ (pc = "finwrite" /\ verdict = "success") \/ task = "success" => NoneFailed

(* Without auto_promote a task that nobody resumed since its last batch    *)
(* has a failed batch in front, or no batch left.                          *)
WaitsForOperator ==
  ~AutoPromote /\ task = "running" /\ ~resumed =>
    (\E b \in Batches : batch[b] = "failed") \/ (\A b \in Batches : batch[b] # "pending")

EndInv == Steady /\ readErrs = 0 => EndFits /\ WaitsForOperator

LEMMA RoundBegins == Init => RoundInv /\ EndInv
<1> SUFFICES ASSUME Init PROVE RoundInv /\ EndInv
  OBVIOUS
<1>1. /\ pc = "idle" /\ task = "draft" /\ \A b \in Batches : batch[b] = "pending"
  BY DEF Init, StoreInit, OrchInit
<1>2. EndedAreDone /\ FrontMoves /\ RoundFits
  BY <1>1 DEF EndedAreDone, FrontMoves, RoundFits
<1>3. EndFits /\ WaitsForOperator
  BY <1>1 DEF EndFits, WaitsForOperator
<1> QED
  BY <1>2, <1>3 DEF RoundInv, EndInv

(* Only a Retry leads out of "canceled", and it is counted. *)
LEMMA SteadyBefore ==
  ASSUME TypeInv, [Next]_vars, Steady'
  PROVE  Steady /\ ~(\E ids \in SUBSET Hosts, explicit, force \in BOOLEAN : Retry(ids, explicit, force))
         /\ ~Cancel
<1>0. retries \in Nat /\ LocalsSet
  BY ApiAssumption DEF TypeInv, TypeOK, ApiTypeOK
<1>1. ASSUME NEW ids, NEW explicit, NEW force, Retry(ids, explicit, force) PROVE FALSE
  BY <1>0, <1>1 DEF Retry, Steady
<1>2. ASSUME Cancel PROVE FALSE
  BY <1>2 DEF Cancel, Steady
<1>3. CASE Operator
  BY <1>1, <1>2, <1>3 DEF Operator, ApiNext, Start, Promote, Pause, Steady
<1>4. CASE Agents
  <2>1. UNCHANGED << task, retries >>
    BY <1>4 DEF Agents, GatewayNext, apiVars, Dequeue, AgentStep, Verify, Execute, Message, Time,
       AckAccepted, AckSwitch, AckRejected, EnterMaintenance, Progress, FinalStage, Report,
       LeaseLapses, QueueTimeout
  <2> QED
    BY <1>1, <1>2, <2>1 DEF Steady
<1>5. CASE Orchestrate
  <2>1. retries' = retries
    BY <1>5 DEF Orchestrate
  <2>2. task' = "canceled" \/ task # "canceled"
    <3>1. CASE CompleteBatch
      BY <3>1 DEF CompleteBatch
    <3>2. CASE FinishWrite
      BY <3>2 DEF FinishWrite, TaskOpen
    <3>3. CASE ~CompleteBatch /\ ~FinishWrite
      BY <1>5, <3>3 DEF Orchestrate, OrchStep, Finalize, FinalizeCompletedStages, Reap, ReapExpired,
         Sync, SyncTaskHostsFromCommands, Clear, ClearMaintenance, Scan, CurrentBatch,
         ListPending, LoopDone, CountPending, MarkBatch, SkipHost, DispatchHost, BatchProgress,
         HasPendingAfter, HasPendingAfterFails, FinishRead, FinishReadFails, storeVars
    <3> QED
      BY <3>1, <3>2, <3>3
  <2> QED
    BY <1>1, <1>2, <2>1, <2>2 DEF Steady
<1>6. CASE Fault \/ UNCHANGED vars
  BY <1>1, <1>2, <1>6 DEF Fault, Abort, storeVars, apiVars, vars, Steady
<1> QED
  BY <1>3, <1>4, <1>5, <1>6 DEF Next

(* What the steps of others leave alone. *)
LEMMA AgentsLeave ==
  ASSUME Agents
  PROVE  UNCHANGED << task, batch, resumed, pc, snap, cur, todo, verdict, last, readErrs >>
BY DEF Agents, GatewayNext, apiVars, orchVars, Dequeue, AgentStep, Verify, Execute, Message, Time,
   AckAccepted, AckSwitch, AckRejected, EnterMaintenance, Progress, FinalStage, Report,
   LeaseLapses, QueueTimeout

(* A host that is done has no active command that could still settle it:   *)
(* it is only marked to be rolled back.                                    *)
LEMMA DoneStays ==
  ASSUME TypeInv, SafeInv, [Next]_vars, Steady', NEW h \in Hosts, host[h] \in HostDone
  PROVE  host'[h] \in HostDone /\ host'[h] \in {host[h], "rolled_back"}
<1>0. StoreTypeOK /\ host[h] \notin {"pending", "running"} /\ "rolled_back" \in HostDone
  BY DEF TypeInv, TypeOK, HostDone, HostStatus
<1> SUFFICES host'[h] \in {host[h], "rolled_back"}
  BY <1>0
<1>1. ActiveCmds(h) = {}
  <2>1. Act(cmd[h]) = {}
    BY <1>0 DEF SafeInv, Owned
  <2> QED
    BY <2>1 DEF Act, ActiveCmds
<1>2. CASE Operator
  BY <1>2, SteadyBefore DEF Operator, ApiNext, Start, Promote, Pause
<1>3. CASE Agents
  <2>1. PICK g \in Hosts, i \in CmdIds :
          \/ \E arrives \in BOOLEAN : Dequeue(g, i, arrives)
          \/ AgentStep(g, i) \/ Message(g, i) \/ Time(g, i)
    BY <1>3 DEF Agents, GatewayNext
  <2>2. CASE FinalStage(g, i) \/ Report(g, i)
    <3>1. cmd[g][i].st \in CmdActive /\ Settle(g, i, agent[g][i])
      BY <2>2 DEF FinalStage, Report
    <3>2. g # h
      BY <1>1, <3>1 DEF ActiveCmds
    <3> QED
      BY <1>0, <3>1, <3>2 DEF Settle, StoreTypeOK
  <2>3. CASE ~(FinalStage(g, i) \/ Report(g, i))
    BY <2>1, <2>3 DEF Message, Time, AgentStep, Verify, Execute, EnterMaintenance,
       Dequeue, AckAccepted, AckSwitch, AckRejected, Progress, LeaseLapses, QueueTimeout
  <2> QED
    BY <2>2, <2>3
<1>4. CASE Orchestrate
  <2>1. CASE Reap \/ Sync
    BY <1>0, <2>1 DEF Reap, ReapExpired, Sync, SyncTaskHostsFromCommands, Syncable
  <2>2. ASSUME NEW g \in Hosts, SkipHost(g) \/ DispatchHost(g) PROVE host'[h] = host[h]
    BY <1>0, <2>2 DEF SkipHost, DispatchHost, StoreTypeOK
  <2>3. CASE CompleteBatch
    BY <2>3 DEF CompleteBatch
  <2>4. CASE \/ Finalize \/ Clear \/ Scan \/ CurrentBatch \/ ListPending \/ LoopDone
             \/ CountPending \/ MarkBatch
             \/ BatchProgress \/ HasPendingAfter \/ HasPendingAfterFails
             \/ FinishRead \/ FinishReadFails \/ FinishWrite
    BY <2>4 DEF Finalize, FinalizeCompletedStages, Clear, ClearMaintenance, Scan,
       CurrentBatch, ListPending, LoopDone, CountPending, MarkBatch,
       BatchProgress, HasPendingAfter, HasPendingAfterFails,
       FinishRead, FinishReadFails, FinishWrite, storeVars
  <2> QED
    BY <1>4, <2>1, <2>2, <2>3, <2>4 DEF Orchestrate, OrchStep
<1>5. CASE Fault \/ UNCHANGED vars
  BY <1>5 DEF Fault, Abort, storeVars, vars
<1> QED
  BY <1>2, <1>3, <1>4, <1>5 DEF Next

LEMMA AllDoneStays ==
  ASSUME TypeInv, SafeInv, [Next]_vars, Steady', NEW S \in SUBSET Hosts, AllDone(S)
  PROVE  AllDone(S)'
BY DoneStays DEF AllDone

(* Batches that nobody writes, or that Promote skips, keep their order. *)
LEMMA BatchesKept ==
  ASSUME TypeInv, SafeInv, [Next]_vars, Steady', EndedAreDone, FrontMoves,
         \A b \in Batches : \/ batch'[b] = batch[b]
                            \/ batch[b] = "failed" /\ batch'[b] = "skipped"
  PROVE  EndedAreDone' /\ FrontMoves'
<1>1. EndedAreDone'
  <2> SUFFICES ASSUME NEW b \in Batches, batch'[b] \in {"success", "failed", "skipped"}
               PROVE  AllDone(HostsOf(b))'
    BY DEF EndedAreDone, HostsOf
  <2>1. AllDone(HostsOf(b)) /\ HostsOf(b) \in SUBSET Hosts
    BY DEF EndedAreDone, HostsOf
  <2>2. HostsOf(b)' = HostsOf(b)
    BY DEF HostsOf
  <2> QED
    BY <2>1, <2>2, AllDoneStays DEF AllDone
<1>2. FrontMoves'
  BY DEF FrontMoves, BatchEnded
<1> QED
  BY <1>1, <1>2

(* The round's own batch moves on: from pending to running, and from       *)
(* running, with all its hosts done, to its verdict.                       *)
LEMMA BatchMoves ==
  ASSUME TypeInv, SafeInv, [Next]_vars, Steady', EndedAreDone, FrontMoves,
         NEW s, batch' = [batch EXCEPT ![cur] = s], cur \in Batches,
         \/ /\ batch[cur] = "pending" /\ s = "running"
            /\ \A b \in Batches : b < cur => batch[b] \in BatchEnded
         \/ /\ batch[cur] = "running" /\ s \in {"success", "failed"}
            /\ AllDone(HostsOf(cur))
  PROVE  EndedAreDone' /\ FrontMoves'
<1>0. /\ batch'[cur] = s /\ \A b \in Batches : b # cur => batch'[b] = batch[b]
      /\ Batches \subseteq Nat
  BY DEF TypeInv, TypeOK, StoreTypeOK, Batches
<1>1. EndedAreDone'
  <2> SUFFICES ASSUME NEW b \in Batches, batch'[b] \in {"success", "failed", "skipped"}
               PROVE  AllDone(HostsOf(b))'
    BY DEF EndedAreDone, HostsOf
  <2>1. AllDone(HostsOf(b)) /\ HostsOf(b) \in SUBSET Hosts
    BY <1>0 DEF EndedAreDone, HostsOf
  <2>2. HostsOf(b)' = HostsOf(b)
    BY DEF HostsOf
  <2> QED
    BY <2>1, <2>2, AllDoneStays DEF AllDone
<1>2. FrontMoves'
  <2>1. \A b \in Batches : batch'[b] # "canceled"
    BY <1>0 DEF FrontMoves
  <2>2. ASSUME NEW b \in Batches, NEW c \in Batches, b < c, batch'[c] # "pending"
        PROVE  batch'[b] \in BatchEnded
    <3>1. batch[cur] \notin BatchEnded
      BY DEF BatchEnded
    <3>2. CASE c = cur
      BY <1>0, <2>2, <3>2 DEF FrontMoves
    <3>3. CASE c # cur
      <4>1. batch[b] \in BatchEnded
        BY <1>0, <2>2, <3>3 DEF FrontMoves
      <4> QED
        BY <1>0, <3>1, <4>1
    <3> QED
      BY <3>2, <3>3
  <2> QED
    BY <2>1, <2>2 DEF FrontMoves
<1> QED
  BY <1>1, <1>2

(* The row keeps its status under the round while the round keeps its      *)
(* place; Promote only writes batches that failed.                         *)
LEMMA RoundKept ==
  ASSUME TypeInv, SafeInv, [Next]_vars, Steady', RoundFits,
         UNCHANGED << pc, cur >>, todo' \subseteq todo,
         task' \in TaskOpen \/ UNCHANGED task,
         \A b \in Batches : \/ batch'[b] = batch[b]
                            \/ batch[b] = "failed" /\ batch'[b] = "skipped"
  PROVE  RoundFits'
<1>0. /\ pc \in {"list", "dispatch", "count", "mark", "progress", "after", "complete"} => cur \in Batches
  BY DEF TypeInv, LocalsSet
<1>1. pc \in {"list", "dispatch", "count", "mark"} =>
        batch'[cur] = "pending" /\ \A b \in Batches : b < cur => batch'[b] \in BatchEnded
  BY <1>0 DEF RoundFits, BatchEnded
<1>2. pc \in {"progress", "after", "complete"} => batch'[cur] = "running"
  BY <1>0 DEF RoundFits
<1>3. pc \in {"after", "complete"} => AllDone(HostsOf(cur))'
  <2>1. HostsOf(cur)' = HostsOf(cur) /\ HostsOf(cur) \in SUBSET Hosts
    BY DEF HostsOf
  <2> QED
    BY <2>1, AllDoneStays DEF RoundFits, AllDone
<1>4. pc = "dispatch" => todo' \subseteq HostsOf(cur)'
  BY DEF RoundFits, HostsOf
<1>5. pc \notin {"idle", "reap", "sync", "clear", "scan"} => task' \in TaskOpen
  BY DEF RoundFits
<1> QED
  BY <1>1, <1>2, <1>3, <1>4, <1>5 DEF RoundFits

(* Outside a batch the round relies on nothing but the task. *)
LEMMA RoundLeft ==
  ASSUME \/ pc' \in {"idle", "reap", "sync", "clear", "scan"}
         \/ pc' \in {"current", "finread", "finwrite"} /\ task' \in TaskOpen
  PROVE  RoundFits'
BY DEF RoundFits

LEMMA RoundStep ==
  ASSUME TypeInv, SafeInv, [Next]_vars, Steady', EndedAreDone, FrontMoves, RoundFits
  PROVE  EndedAreDone' /\ FrontMoves' /\ RoundFits'
<1>0. LocalsSet /\ Batches \subseteq Nat
  BY DEF TypeInv, Batches
<1>kept. UNCHANGED batch => EndedAreDone' /\ FrontMoves'
  BY BatchesKept
<1>1. CASE Operator
  <2>1. Start \/ Promote \/ Pause
    BY <1>1, SteadyBefore DEF Operator, ApiNext
  <2>2. /\ \A b \in Batches : \/ batch'[b] = batch[b]
                              \/ batch[b] = "failed" /\ batch'[b] = "skipped"
        /\ UNCHANGED << pc, cur, todo >> /\ task' \in TaskOpen
    BY <1>1, <2>1 DEF Operator, orchVars, Start, Promote, Pause, TaskOpen
  <2> QED
    BY <2>2, BatchesKept, RoundKept
<1>2. CASE Agents \/ UNCHANGED vars
  <2>1. UNCHANGED << task, batch, pc, cur, todo >>
    BY <1>2, AgentsLeave DEF vars, orchVars
  <2> QED
    BY <2>1, <1>kept, RoundKept
<1>3. CASE Fault
  BY <1>3, <1>kept, RoundLeft DEF Fault, Abort, storeVars
<1>4. CASE Orchestrate
  <2>1. CASE Finalize \/ Reap \/ Sync \/ Clear
    BY <2>1, <1>kept, RoundLeft DEF Finalize, FinalizeCompletedStages, Reap, ReapExpired,
       Sync, SyncTaskHostsFromCommands, Clear, ClearMaintenance
  <2>2. CASE Scan
    BY <2>2, <1>kept, RoundLeft DEF Scan, EndRound, storeVars
  <2>3. CASE CurrentBatch
    <3>1. UNCHANGED storeVars /\ pc = "current" /\ task \in TaskOpen
      BY <2>3 DEF CurrentBatch, RoundFits
    <3>2. CASE pc' \in {"finread", "idle"}
      BY <3>1, <3>2, <1>kept, RoundLeft DEF storeVars
    <3>3. ASSUME NEW b \in OpenBatches, \A c \in OpenBatches : b <= c, cur' = b,
                 \/ batch[b] = "pending" /\ pc' = "list"
                 \/ batch[b] = "running" /\ pc' = "progress"
          PROVE  RoundFits'
      <4>1. \A c \in Batches : c < b => batch[c] \in BatchEnded
        BY <1>0, <3>3 DEF OpenBatches
      <4> QED
        BY <3>1, <3>3, <4>1 DEF RoundFits, storeVars
    <3>4. \/ pc' \in {"finread", "idle"}
          \/ \E b \in OpenBatches :
               /\ \A c \in OpenBatches : b <= c
               /\ cur' = b
               /\ \/ batch[b] = "pending" /\ pc' = "list"
                  \/ batch[b] = "running" /\ pc' = "progress"
      BY <2>3 DEF CurrentBatch, EndRound
    <3> QED
      BY <3>1, <3>2, <3>3, <3>4, <1>kept DEF storeVars
  <2>4. CASE ListPending
    <3>1. UNCHANGED << task, batch, host, cur >> /\ pc = "list" /\ pc' = "dispatch"
          /\ todo' \subseteq HostsOf(cur)
      BY <2>4 DEF ListPending, storeVars
    <3> QED
      BY <3>1, <1>kept DEF RoundFits, HostsOf
  <2>5. ASSUME NEW h \in Hosts, SkipHost(h) \/ DispatchHost(h)
        PROVE  EndedAreDone' /\ FrontMoves' /\ RoundFits'
    <3>1. UNCHANGED << task, batch, pc, cur >> /\ todo' \subseteq todo
      BY <2>5 DEF SkipHost, DispatchHost
    <3> QED
      BY <3>1, <1>kept, RoundKept
  <2>6. CASE LoopDone \/ CountPending
    <3>1. UNCHANGED storeVars /\ pc \in {"dispatch", "count"}
          /\ (pc' # "idle" => pc' \in {"count", "mark"} /\ UNCHANGED cur)
      BY <2>6 DEF LoopDone, CountPending, EndRound, locals
    <3>2. CASE pc' = "idle"
      BY <3>1, <3>2, <1>kept, RoundLeft DEF storeVars
    <3>3. CASE pc' # "idle"
      BY <3>1, <3>3, <1>kept DEF storeVars, RoundFits
    <3> QED
      BY <3>2, <3>3
  <2>7. CASE MarkBatch
    <3>1. /\ pc = "mark" /\ pc' = "idle" /\ batch' = [batch EXCEPT ![cur] = "running"]
      BY <2>7 DEF MarkBatch, EndRound
    <3>2. cur \in Batches /\ batch[cur] = "pending"
          /\ \A b \in Batches : b < cur => batch[b] \in BatchEnded
      BY <1>0, <3>1 DEF LocalsSet, RoundFits
    <3> QED
      BY <3>1, <3>2, BatchMoves, RoundLeft
  <2>8. CASE BatchProgress
    <3>1. UNCHANGED storeVars /\ pc = "progress"
      BY <2>8 DEF BatchProgress
    <3>2. CASE pc' = "idle"
      BY <3>1, <3>2, <1>kept, RoundLeft DEF storeVars
    <3>3. CASE pc' # "idle"
      <4>1. pc' = "after" /\ UNCHANGED cur /\ \A h \in HostsOf(cur) : host[h] \in HostDone
        BY <2>8, <3>3 DEF BatchProgress, EndRound
      <4> QED
        BY <3>1, <4>1, <1>kept DEF storeVars, RoundFits, AllDone, HostsOf
    <3> QED
      BY <3>2, <3>3
  <2>9. CASE HasPendingAfter \/ HasPendingAfterFails
    <3>1. UNCHANGED storeVars /\ UNCHANGED cur /\ pc = "after" /\ pc' = "complete"
      BY <2>9 DEF HasPendingAfter, HasPendingAfterFails
    <3> QED
      BY <3>1, <1>kept DEF storeVars, RoundFits, AllDone, HostsOf
  <2>10. CASE CompleteBatch
    <3>1. /\ pc = "complete" /\ batch' = [batch EXCEPT ![cur] = verdict]
          /\ pc' \in {"finread", "idle"} /\ task' \in {task, "paused"}
      BY <2>10 DEF CompleteBatch, EndRound
    <3>2. /\ cur \in Batches /\ batch[cur] = "running" /\ verdict \in {"success", "failed"}
          /\ AllDone(HostsOf(cur)) /\ task \in TaskOpen
      BY <1>0, <3>1 DEF LocalsSet, RoundFits
    <3>3. task' \in TaskOpen
      BY <3>1, <3>2 DEF TaskOpen
    <3> QED
      BY <3>1, <3>2, <3>3, BatchMoves, RoundLeft
  <2>11. CASE FinishRead \/ FinishReadFails
    <3>1. UNCHANGED storeVars /\ pc' = "finwrite" /\ task \in TaskOpen
      BY <2>11 DEF FinishRead, FinishReadFails, RoundFits
    <3> QED
      BY <3>1, <1>kept, RoundLeft DEF storeVars
  <2>12. CASE FinishWrite
    BY <2>12, <1>kept, RoundLeft DEF FinishWrite, EndRound
  <2> QED
    BY <1>4, <2>1, <2>2, <2>3, <2>4, <2>5, <2>6, <2>7, <2>8, <2>9, <2>10, <2>11, <2>12
       DEF Orchestrate, OrchStep
<1> QED
  BY <1>1, <1>2, <1>3, <1>4 DEF Next

LEMMA RoundInvariance == Spec => [](TypeInv /\ SafeInv /\ RoundInv)
<1>1. Init => RoundInv
  BY RoundBegins
<1>2. TypeInv /\ SafeInv /\ RoundInv /\ [Next]_vars => RoundInv'
  <2> SUFFICES ASSUME TypeInv, SafeInv, RoundInv, [Next]_vars, Steady'
               PROVE  EndedAreDone' /\ FrontMoves' /\ RoundFits'
    BY DEF RoundInv
  <2>1. Steady
    BY SteadyBefore
  <2> QED
    BY <2>1, RoundStep DEF RoundInv
<1> QED
  BY <1>1, <1>2, Invariance, PTL DEF Spec

-----------------------------------------------------------------------------
(* A swallowed error is never forgotten. *)
LEMMA ErrorsStay ==
  ASSUME TypeInv, [Next]_vars, readErrs' = 0
  PROVE  readErrs = 0 /\ ~HasPendingAfterFails /\ ~FinishReadFails
<1>0. readErrs \in Nat
  BY OrchAssumption DEF TypeInv, TypeOK, OrchTypeOK
<1>1. ~HasPendingAfterFails /\ ~FinishReadFails
  BY <1>0 DEF HasPendingAfterFails, FinishReadFails
<1>2. CASE Operator \/ Agents \/ Fault \/ UNCHANGED vars
  BY <1>1, <1>2 DEF Operator, Agents, orchVars, Fault, Abort, vars
<1>3. CASE Orchestrate
  BY <1>1, <1>3 DEF Orchestrate, OrchStep, Finalize, Reap, Sync, Clear, locals, Scan, EndRound,
     CurrentBatch, ListPending, SkipHost, DispatchHost, LoopDone, CountPending, MarkBatch,
     BatchProgress, HasPendingAfter, CompleteBatch, FinishRead, FinishWrite
<1> QED
  BY <1>1, <1>2, <1>3 DEF Next

(* When every batch has ended every host is done. *)
LEMMA AllBatchesDone ==
  ASSUME TypeInv, \A b \in Batches : AllDone(HostsOf(b))
  PROVE  AllDone(Hosts)
BY StoreAssumption DEF AllDone, HostsOf

LEMMA NoneFailedStays ==
  ASSUME TypeInv, SafeInv, [Next]_vars, Steady', AllDone(Hosts), NoneFailed
  PROVE  NoneFailed'
BY DoneStays DEF AllDone, NoneFailed, HostFailed

(* Whoever leaves the round and the verdict alone keeps what was finished. *)
LEMMA EndKept ==
  ASSUME TypeInv, SafeInv, [Next]_vars, Steady', EndFits,
         pc' = "complete" /\ last' => pc = "complete" /\ last /\ UNCHANGED cur,
         pc' \in {"finread", "finwrite"} => pc' = pc /\ UNCHANGED verdict,
         task' \in {"success", "failed"} => UNCHANGED task
  PROVE  EndFits'
<1>1. pc' = "complete" /\ last' => \A b \in Batches : b <= cur'
  BY DEF EndFits
<1>2. pc' \in {"finread", "finwrite"} \/ task' \in {"success", "failed"} => AllDone(Hosts)'
  BY AllDoneStays DEF EndFits, AllDone
<1>3. (pc' = "finwrite" /\ verdict' = "success") \/ task' = "success" => NoneFailed'
  BY NoneFailedStays DEF EndFits
<1> QED
  BY <1>1, <1>2, <1>3 DEF EndFits

(* What a completed batch leaves of the ones before and after it. *)
LEMMA LastIsLast ==
  ASSUME TypeInv, EndedAreDone, FrontMoves, RoundFits, pc \in {"after", "complete"}
  PROVE  /\ \A b \in Batches : b < cur => batch[b] \in BatchEnded
         /\ \A b \in Batches : cur < b => batch[b] = "pending"
         /\ (\A b \in Batches : b <= cur) => AllDone(Hosts)
<1>1. /\ cur \in Batches /\ batch[cur] = "running" /\ batch[cur] \notin BatchEnded
      /\ AllDone(HostsOf(cur)) /\ Batches \subseteq Nat
  BY DEF TypeInv, LocalsSet, RoundFits, BatchEnded, Batches
<1>2. \A b \in Batches : b < cur => batch[b] \in BatchEnded
  BY <1>1 DEF FrontMoves
<1>3. \A b \in Batches : cur < b => batch[b] = "pending"
  BY <1>1 DEF FrontMoves
<1>4. ASSUME \A b \in Batches : b <= cur PROVE AllDone(Hosts)
  <2>1. ASSUME NEW b \in Batches PROVE AllDone(HostsOf(b))
    <3>1. CASE b = cur
      BY <1>1, <3>1
    <3>2. CASE b # cur
      <4>1. b < cur
        BY <1>1, <1>4, <3>2
      <4> QED
        BY <1>2, <4>1 DEF EndedAreDone, FrontMoves, BatchEnded
    <3> QED
      BY <3>1, <3>2
  <2> QED
    BY <2>1, AllBatchesDone
<1> QED
  BY <1>2, <1>3, <1>4

LEMMA EndFitsStep ==
  ASSUME TypeInv, SafeInv, [Next]_vars, Steady', readErrs' = 0,
         EndedAreDone, FrontMoves, RoundFits, EndFits
  PROVE  EndFits'
<1>0. LocalsSet /\ Batches \subseteq Nat
  BY DEF TypeInv, Batches
<1>1. CASE Operator
  BY <1>1, EndKept, SteadyBefore DEF Operator, orchVars, ApiNext, Start, Promote, Pause
<1>2. CASE Agents \/ UNCHANGED vars
  BY <1>2, EndKept, AgentsLeave DEF vars
<1>3. CASE Fault
  BY <1>3, EndKept DEF Fault, Abort, storeVars
<1>4. CASE Orchestrate
  <2>1. CASE Finalize \/ Reap \/ Sync \/ Clear
    BY <2>1, EndKept DEF Finalize, FinalizeCompletedStages, Reap, ReapExpired,
       Sync, SyncTaskHostsFromCommands, Clear, ClearMaintenance
  <2>2. CASE Scan
    BY <2>2, EndKept DEF Scan, EndRound, storeVars
  <2>3. CASE CurrentBatch
    <3>1. UNCHANGED storeVars
      BY <2>3 DEF CurrentBatch
    <3>2. CASE OpenBatches = {}
      <4>1. pc' = "finread"
        BY <2>3, <3>2 DEF CurrentBatch
      <4>2. AllDone(Hosts)
        BY <3>2, AllBatchesDone DEF OpenBatches, EndedAreDone, FrontMoves, BatchEnded
      <4>3. AllDone(Hosts)'
        BY <4>2, AllDoneStays DEF AllDone
      <4>4. task' = "success" => NoneFailed'
        BY <3>1, <4>2, NoneFailedStays DEF EndFits, storeVars
      <4> QED
        BY <4>1, <4>3, <4>4 DEF EndFits
    <3>3. CASE OpenBatches # {}
      <4>1. pc' \in {"list", "progress", "idle"}
        BY <2>3, <3>3 DEF CurrentBatch, EndRound
      <4> QED
        BY <3>1, <4>1, EndKept DEF storeVars
    <3> QED
      BY <3>2, <3>3
  <2>4. ASSUME NEW h \in Hosts, SkipHost(h) \/ DispatchHost(h) PROVE EndFits'
    BY <2>4, EndKept DEF SkipHost, DispatchHost
  <2>5. CASE ListPending \/ LoopDone \/ CountPending \/ MarkBatch \/ BatchProgress
    <3>1. task' = task /\ pc' \in {"dispatch", "count", "mark", "idle", "after"}
      BY <2>5 DEF ListPending, LoopDone, CountPending, MarkBatch, BatchProgress, EndRound, storeVars
    <3> QED
      BY <3>1, EndKept
  <2>6. CASE HasPendingAfter
    <3>1. pc = "after" /\ pc' = "complete" /\ UNCHANGED storeVars /\ UNCHANGED << cur, verdict >>
          /\ (last' => \A c \in Batches : c > cur => batch[c] # "pending")
      BY <2>6 DEF HasPendingAfter, PendingAfter
    <3>2. last' => \A b \in Batches : b <= cur
      <4>1. cur \in Batches
        BY <1>0, <3>1 DEF LocalsSet
      <4> QED
        BY <1>0, <3>1, <4>1, LastIsLast
    <3>3. task' = "success" => NoneFailed'
      BY <3>1, NoneFailedStays DEF EndFits, storeVars
    <3>4. task' \in {"success", "failed"} => AllDone(Hosts)'
      BY <3>1, AllDoneStays DEF EndFits, storeVars, AllDone
    <3> QED
      BY <3>1, <3>2, <3>3, <3>4 DEF EndFits
  <2>7. CASE CompleteBatch
    <3>1. /\ pc = "complete" /\ pc' \in {"finread", "idle"} /\ (pc' = "finread" => last)
          /\ task' \in {task, "paused"}
      BY <2>7 DEF CompleteBatch, EndRound
    <3>2. task \in TaskOpen
      BY <3>1 DEF RoundFits
    <3>3. task' \notin {"success", "failed"}
      BY <3>1, <3>2 DEF TaskOpen
    <3>4. pc' = "finread" => AllDone(Hosts)'
      <4>1. last => AllDone(Hosts)
        BY <3>1, LastIsLast DEF EndFits
      <4> QED
        BY <3>1, <4>1, AllDoneStays DEF AllDone
    <3> QED
      BY <3>1, <3>3, <3>4 DEF EndFits
  <2>8. CASE FinishRead
    <3>1. /\ pc = "finread" /\ pc' = "finwrite" /\ UNCHANGED storeVars
          /\ verdict' = "success" => NoneFailed
      BY <2>8 DEF FinishRead, TaskVerdict, NoneFailed
    <3>2. AllDone(Hosts)
      BY <3>1 DEF EndFits
    <3>3. AllDone(Hosts)'
      BY <3>2, AllDoneStays DEF AllDone
    <3>4. (verdict' = "success" \/ task' = "success") => NoneFailed'
      BY <3>1, <3>2, NoneFailedStays DEF EndFits, storeVars
    <3> QED
      BY <3>1, <3>3, <3>4 DEF EndFits
  <2>9. CASE FinishWrite
    <3>1. pc = "finwrite" /\ pc' = "idle" /\ task' = IF task \in TaskOpen THEN verdict ELSE task
      BY <2>9 DEF FinishWrite, EndRound
    <3>2. AllDone(Hosts)
      BY <3>1 DEF EndFits
    <3>3. AllDone(Hosts)'
      BY <3>2, AllDoneStays DEF AllDone
    <3>4. task' = "success" => NoneFailed'
      BY <3>1, <3>2, NoneFailedStays DEF EndFits
    <3> QED
      BY <3>1, <3>3, <3>4 DEF EndFits
  <2> QED
    BY <1>4, <2>1, <2>2, <2>3, <2>4, <2>5, <2>6, <2>7, <2>8, <2>9, ErrorsStay
       DEF Orchestrate, OrchStep
<1> QED
  BY <1>1, <1>2, <1>3, <1>4 DEF Next

LEMMA WaitsStep ==
  ASSUME TypeInv, SafeInv, [Next]_vars, Steady', readErrs' = 0,
         EndedAreDone, FrontMoves, RoundFits, EndFits, WaitsForOperator
  PROVE  WaitsForOperator'
<1> SUFFICES ASSUME ~AutoPromote, task' = "running", ~resumed'
             PROVE  \/ \E b \in Batches : batch'[b] = "failed"
                    \/ \A b \in Batches : batch'[b] # "pending"
  BY DEF WaitsForOperator
<1>0. LocalsSet /\ Batches \subseteq Nat /\ batch \in [Batches -> BatchStatus]
  BY DEF TypeInv, TypeOK, StoreTypeOK, Batches
<1>kept. ASSUME UNCHANGED << task, batch, resumed >>
         PROVE  \/ \E b \in Batches : batch'[b] = "failed"
                \/ \A b \in Batches : batch'[b] # "pending"
  BY <1>kept DEF WaitsForOperator
<1>1. CASE Operator
  BY <1>1, SteadyBefore DEF Operator, ApiNext, Start, Promote, Pause
<1>2. CASE Agents \/ Fault \/ UNCHANGED vars
  BY <1>2, <1>kept, AgentsLeave DEF Fault, Abort, apiVars, storeVars, vars
<1>3. CASE Orchestrate /\ CompleteBatch
  <2>1. /\ pc = "complete" /\ batch' = [batch EXCEPT ![cur] = verdict] /\ ~PauseWanted
    BY <1>3 DEF CompleteBatch
  <2>2. cur \in Batches /\ verdict \in {"success", "failed"}
    BY <1>0, <2>1 DEF LocalsSet
  <2>3. batch'[cur] = verdict /\ \A b \in Batches : b # cur => batch'[b] = batch[b]
    BY <1>0, <2>1, <2>2
  <2>4. CASE last
    <3>1. \A b \in Batches : b <= cur /\ (b < cur => batch[b] \in BatchEnded)
      BY <2>1, <2>4, LastIsLast DEF EndFits
    <3> QED
      BY <1>0, <2>2, <2>3, <3>1 DEF BatchEnded
  <2>5. CASE ~last
    BY <2>1, <2>2, <2>3, <2>5 DEF PauseWanted
  <2> QED
    BY <2>4, <2>5
<1>4. CASE Orchestrate /\ ~CompleteBatch
  <2>1. pc # "complete"
    BY <1>4 DEF Orchestrate, OrchStep, CompleteBatch, Finalize, Reap, Sync, Clear, Scan, CurrentBatch,
       ListPending, LoopDone, CountPending, MarkBatch, SkipHost, DispatchHost, BatchProgress,
       HasPendingAfter, HasPendingAfterFails, FinishRead, FinishReadFails, FinishWrite
  <2>2. resumed' = resumed
    BY <1>4, <2>1 DEF Orchestrate, TypeInv, TypeOK, ApiTypeOK
  <2>3. CASE MarkBatch
    <3>1. pc = "mark" /\ batch' = [batch EXCEPT ![cur] = "running"] /\ task' = task
      BY <2>3 DEF MarkBatch
    <3>2. cur \in Batches /\ batch[cur] = "pending"
      BY <1>0, <3>1 DEF LocalsSet, RoundFits
    <3> QED
      BY <1>0, <2>2, <3>1, <3>2 DEF WaitsForOperator
  <2>4. CASE FinishWrite
    <3>1. verdict # "running" /\ batch' = batch /\ task' \in {task, verdict}
      BY <1>0, <2>4 DEF FinishWrite, LocalsSet
    <3> QED
      BY <2>2, <3>1, <1>kept
  <2>5. CASE ~MarkBatch /\ ~FinishWrite
    <3>1. UNCHANGED << task, batch >>
      BY <1>4, <2>5 DEF Orchestrate, OrchStep, Finalize, FinalizeCompletedStages, Reap, ReapExpired,
         Sync, SyncTaskHostsFromCommands, Clear, ClearMaintenance, Scan, CurrentBatch,
         ListPending, LoopDone, CountPending, SkipHost, DispatchHost, BatchProgress,
         HasPendingAfter, HasPendingAfterFails, FinishRead, FinishReadFails, storeVars
    <3> QED
      BY <2>2, <3>1, <1>kept
  <2> QED
    BY <2>3, <2>4, <2>5
<1> QED
  BY <1>1, <1>2, <1>3, <1>4 DEF Next

LEMMA EndInvariance == Spec => [](TypeInv /\ SafeInv /\ RoundInv /\ EndInv)
<1>1. Init => EndInv
  BY RoundBegins
<1>2. TypeInv /\ SafeInv /\ RoundInv /\ EndInv /\ [Next]_vars => EndInv'
  <2> SUFFICES ASSUME TypeInv, SafeInv, RoundInv, EndInv, [Next]_vars, Steady', readErrs' = 0
               PROVE  EndFits' /\ WaitsForOperator'
    BY DEF EndInv
  <2>1. Steady /\ readErrs = 0
    BY SteadyBefore, ErrorsStay
  <2> QED
    BY <2>1, EndFitsStep, WaitsStep DEF RoundInv, EndInv
<1> QED
  BY <1>1, <1>2, RoundInvariance, PTL DEF Spec

-----------------------------------------------------------------------------
(* Only dispatchHostWithType gives a host without an active command one,   *)
(* and only to a host that waits in a running task.                        *)
LEMMA NewCommand ==
  ASSUME TypeInv, [Next]_vars, NEW h \in Hosts, ActiveCmds(h) = {}, ActiveCmds(h)' # {}
  PROVE  DispatchHost(h) /\ task = "running"
<1>0. StoreTypeOK
  BY DEF TypeInv, TypeOK
<1>1. PICK i \in CmdIds : cmd'[h][i].st \in CmdActive
  BY DEF ActiveCmds
<1>2. cmd[h][i].st \notin CmdActive /\ cmd' # cmd
  BY <1>1 DEF ActiveCmds
<1>3. \A st \in CmdFinal \cup {"canceled"} : Close(cmd[h][i], st).st \notin CmdActive
  BY DEF Close, Row, CmdFinal, CmdActive
<1>4. ~Operator
  <2>1. ASSUME Cancel PROVE FALSE
    <3>1. \A g \in Hosts, j \in CmdIds : cmd'[g][j].st \notin CmdActive
      BY <1>0, <2>1, RebasedType DEF Cancel
    <3> QED
      BY <1>1, <3>1
  <2>2. ASSUME NEW reset \in SUBSET Hosts, NEW tied, cmd' = Rebased(reset, tied) PROVE FALSE
    <3>1. CancelCommands(reset)[h][i] = cmd[h][i]
      BY <1>2 DEF CancelCommands
    <3>2. \/ cmd'[h][i] = cmd[h][i]
          \/ cmd'[h][i] = Row(cmd[h][i].st, cmd[h][i].fresh /\ h \in tied, FALSE)
      BY <2>2, <3>1 DEF Rebased
    <3>3. cmd'[h][i].st = cmd[h][i].st
      BY <3>2 DEF Row
    <3> QED
      BY <1>1, <1>2, <3>3
  <2>3. ASSUME NEW ids \in SUBSET Hosts, NEW explicit, NEW force, Retry(ids, explicit, force)
        PROVE  FALSE
    <3> DEFINE reset == {g \in ids : Retryable(g, explicit, force)}
    <3>1. \E tied \in SUBSET reset : cmd' = Rebased(reset, tied)
      BY <2>3 DEF Retry, ResetHosts
    <3>2. reset \in SUBSET Hosts
      OBVIOUS
    <3> HIDE DEF reset
    <3> QED
      BY <2>2, <3>1, <3>2
  <2> QED
    BY <1>2, <2>1, <2>3 DEF Operator, ApiNext, Start, Promote, Pause
<1>5. ~Agents
  <2> SUFFICES ASSUME Agents PROVE FALSE
    OBVIOUS
  <2>1. PICK g \in Hosts, j \in CmdIds :
          \/ \E arrives \in BOOLEAN : Dequeue(g, j, arrives)
          \/ AgentStep(g, j) \/ Message(g, j) \/ Time(g, j)
    BY DEF Agents, GatewayNext
  <2>2. cmd[g][j].st \in CmdActive /\ \E row : WriteRow(g, j, row)
    BY <1>2, <2>1 DEF Message, Time, AgentStep, Verify, Execute, EnterMaintenance, CmdActive,
       Dequeue, Queued, AckAccepted, AckSwitch, AckRejected, Progress, FinalStage, Report,
       Settle, LeaseLapses, QueueTimeout
  <2> QED
    BY <1>0, <1>1, <1>2, <2>2 DEF WriteRow, StoreTypeOK
<1>6. Orchestrate
  BY <1>2, <1>4, <1>5 DEF Next, Fault, Abort, storeVars, vars
<1>7. ~Finalize /\ ~Reap
  <2>1. ASSUME Finalize PROVE FALSE
    <3>1. \/ cmd'[h][i] = cmd[h][i]
          \/ \E st \in {"success", "timeout"} : cmd'[h][i] = Close(cmd[h][i], st)
      BY <2>1 DEF Finalize, FinalizeCompletedStages
    <3> QED
      BY <1>1, <1>2, <1>3, <3>1 DEF CmdFinal
  <2>2. ASSUME Reap PROVE FALSE
    <3>1. cmd'[h][i] = cmd[h][i] \/ cmd'[h][i] = Close(cmd[h][i], "timeout")
      BY <2>2 DEF Reap, ReapExpired
    <3> QED
      BY <1>1, <1>2, <1>3, <3>1 DEF CmdFinal
  <2> QED
    BY <2>1, <2>2
<1>8. PICK g \in Hosts : DispatchHost(g)
  BY <1>2, <1>6, <1>7 DEF Orchestrate, OrchStep, Sync, SyncTaskHostsFromCommands, Clear,
     ClearMaintenance, Scan, CurrentBatch, ListPending, LoopDone, CountPending, MarkBatch, SkipHost,
     BatchProgress, HasPendingAfter, HasPendingAfterFails, CompleteBatch,
     FinishRead, FinishReadFails, FinishWrite, storeVars
<1>9. g = h
  BY <1>0, <1>1, <1>2, <1>8 DEF DispatchHost, InsertCommand, WriteRow, StoreTypeOK
<1>10. task = "running"
  BY <1>2, <1>8 DEF DispatchHost
<1> QED
  BY <1>8, <1>9, <1>10

(* The host that gets a command is of the round's batch. *)
LEMMA DispatchFits ==
  ASSUME TypeInv, FrontMoves, RoundFits, NEW h \in Hosts, DispatchHost(h)
  PROVE  /\ cur \in Batches /\ BatchOf[h] = cur /\ batch[cur] = "pending"
         /\ \A b \in Batches : b < cur => batch[b] \in BatchEnded
         /\ \A b \in Batches : batch[b] # "failed"
<1>1. pc = "dispatch" /\ h \in todo /\ LocalsSet /\ Batches \subseteq Nat
  BY DEF DispatchHost, TypeInv, Batches
<1>2. /\ cur \in Batches /\ BatchOf[h] = cur /\ batch[cur] = "pending"
      /\ \A b \in Batches : b < cur => batch[b] \in BatchEnded
  BY <1>1 DEF LocalsSet, RoundFits, HostsOf
<1>3. ASSUME NEW b \in Batches, batch[b] = "failed" PROVE FALSE
  <2>1. ~(cur < b)
    BY <1>2, <1>3 DEF FrontMoves, BatchEnded
  <2>2. ~(b < cur)
    BY <1>2, <1>3 DEF BatchEnded
  <2>3. b # cur
    BY <1>2, <1>3
  <2> QED
    BY <1>1, <1>2, <2>1, <2>2, <2>3
<1> QED
  BY <1>2, <1>3

(* As long as nobody retried, whatever the operator and the agents do in   *)
(* the middle of a round and wherever rounds break off, a host gets a      *)
(* command only when the batches before its own have ended.                *)
THEOREM OrderUntilRetry == Spec => [][retries = 0 => OrderStep]_vars
<1>1. TypeInv /\ SafeInv /\ RoundInv /\ [Next]_vars => [retries = 0 => OrderStep]_vars
  <2> SUFFICES ASSUME TypeInv, RoundInv, [Next]_vars, retries = 0, NEW h \in Hosts,
                      ActiveCmds(h) = {}, ActiveCmds(h)' # {}
               PROVE  \A b \in Batches : b < BatchOf[h] => batch[b] \in BatchEnded
    BY DEF OrderStep
  <2>1. DispatchHost(h) /\ Steady
    BY NewCommand DEF Steady
  <2> QED
    BY <2>1, DispatchFits DEF RoundInv
<1> QED
  BY <1>1, RoundInvariance, PTL DEF Spec

(* Without a Retry the batch gate holds for good: a failed or unfinished   *)
(* canary holds back the rest, even while queries fail and rounds break    *)
(* off.                                                                    *)
THEOREM GateHolds ==
  ASSUME MaxRetry = 0
  PROVE  Spec => BatchesInOrder
<1>1. TypeInv => retries = 0
  BY DEF TypeInv, TypeOK, ApiTypeOK
<1>2. TypeInv /\ [retries = 0 => OrderStep]_vars => [OrderStep]_vars
  BY <1>1
<1> QED
  BY <1>2, Invariance, OrderUntilRetry, PTL DEF BatchesInOrder

(* As long as nobody retried and no error of a query was swallowed, a      *)
(* batch starts only after an operator resumed the task since the batch    *)
(* before it completed, unless the strategy promotes by itself.            *)
THEOREM PromotedUntilError == Spec => [][retries = 0 /\ readErrs = 0 => PromoteStep]_vars
<1>1. TypeInv /\ SafeInv /\ RoundInv /\ EndInv /\ [Next]_vars
        => [retries = 0 /\ readErrs = 0 => PromoteStep]_vars
  <2> SUFFICES ASSUME TypeInv, RoundInv, EndInv, [Next]_vars, retries = 0, readErrs = 0,
                      NEW h \in Hosts, ActiveCmds(h) = {}, ActiveCmds(h)' # {}
               PROVE  AutoPromote \/ resumed
    BY DEF PromoteStep
  <2>1. DispatchHost(h) /\ task = "running" /\ Steady
    BY NewCommand DEF Steady
  <2> QED
    BY <2>1, DispatchFits DEF RoundInv, EndInv, WaitsForOperator
<1> QED
  BY <1>1, EndInvariance, PTL DEF Spec

(* Without a Retry and without swallowed errors only an operator opens the *)
(* next batch of a strategy that does not promote by itself.               *)
THEOREM OperatorOpensBatches ==
  ASSUME MaxRetry = 0, MaxReadErr = 0
  PROVE  Spec => OperatorPromotes
<1>1. TypeInv => retries = 0 /\ readErrs = 0
  BY DEF TypeInv, TypeOK, ApiTypeOK, OrchTypeOK
<1>2. TypeInv /\ [retries = 0 /\ readErrs = 0 => PromoteStep]_vars => [PromoteStep]_vars
  BY <1>1
<1> QED
  BY <1>2, Invariance, PromotedUntilError, PTL DEF OperatorPromotes

(* As long as nobody retried and no error of a query was swallowed, a      *)
(* finished task has no host that waits or runs, and a successful one no   *)
(* host that failed.                                                       *)
THEOREM VerdictUntilError ==
  Spec => [](retries = 0 /\ readErrs = 0 => FinishedIsComplete /\ VerdictIsHonest)
<1>1. TypeInv /\ EndInv => (retries = 0 /\ readErrs = 0 => FinishedIsComplete /\ VerdictIsHonest)
  <2> SUFFICES ASSUME EndInv, retries = 0, readErrs = 0, task \in {"success", "failed"}
               PROVE  FinishedIsComplete /\ VerdictIsHonest
    BY DEF FinishedIsComplete, VerdictIsHonest
  <2>1. EndFits
    BY DEF EndInv, Steady
  <2> QED
    BY <2>1 DEF EndFits, AllDone, NoneFailed, HostDone, FinishedIsComplete, VerdictIsHonest
<1> QED
  BY <1>1, EndInvariance, PTL

(* Without a Retry and without swallowed errors a task is finished only    *)
(* when all its hosts are.                                                 *)
THEOREM FinishedMeansComplete ==
  ASSUME MaxRetry = 0, MaxReadErr = 0
  PROVE  Spec => []FinishedIsComplete
<1>1. TypeInv => retries = 0 /\ readErrs = 0
  BY DEF TypeInv, TypeOK, ApiTypeOK, OrchTypeOK
<1> QED
  BY <1>1, Invariance, VerdictUntilError, PTL

(* Without a Retry and without swallowed errors a task succeeds only if no *)
(* host failed, timed out or was canceled.                                 *)
THEOREM SuccessIsHonest ==
  ASSUME MaxRetry = 0, MaxReadErr = 0
  PROVE  Spec => []VerdictIsHonest
<1>1. TypeInv => retries = 0 /\ readErrs = 0
  BY DEF TypeInv, TypeOK, ApiTypeOK, OrchTypeOK
<1> QED
  BY <1>1, Invariance, VerdictUntilError, PTL

-----------------------------------------------------------------------------
(***************************************************************************)
(* Every host lives as HostCommands says.  The lemmas are about the status *)
(* and the rows of a single host before and after a step; Lives is a step  *)
(* of HostCommands in these terms.  Anew is what it needs beside Owned:    *)
(* a host that waits has no result of its attempt to take.                 *)
(***************************************************************************)
Used(rows) == {k \in CmdIds : rows[k].st # "none"}
Newest(rows) ==
  {rows[i].st : i \in {j \in Fin(rows) : (\A k \in Fin(rows) : k <= j) /\ rows[j].fresh}}
Shown(status, rows) == IF status = "running" /\ Act(rows) = {} THEN Newest(rows) ELSE {}
Decided == {"success", "failed", "timeout"}

Anew(status, rows) == status = "pending" => \A i \in Fin(rows) : ~rows[i].fresh

Leaves(s, rows, t, new) ==
  t = s /\ Used(new) = Used(rows) /\ Act(new) = Act(rows) /\ Shown(t, new) = Shown(s, rows)
Ends(s, rows, t, new) ==
  /\ s = "running" /\ Act(rows) # {} /\ t = "running"
  /\ Used(new) = Used(rows) /\ Act(new) = {} /\ \E r \in Decided : Shown(t, new) = {r}
Settles(s, rows, t, new) ==
  /\ \/ s = "running" /\ Act(rows) = {} /\ t \in Shown(s, rows)
     \/ s = "running" /\ Act(rows) # {} /\ t \in Decided
     \/ s = "pending" /\ t \in {"skipped", "canceled"}
     \/ s = "running" /\ t = "canceled"
     \/ s = "success" /\ t = "rolled_back"
     \/ t = "pending" /\ retries' = retries + 1
  /\ Used(new) = Used(rows) /\ Act(new) = {} /\ Shown(t, new) = {}
Begins(s, rows, t, new) ==
  /\ s = "pending" /\ Act(rows) = {} /\ t = "running" /\ Shown(t, new) = {}
  /\ \E n \in CmdIds :
       (\A k \in Used(rows) : k < n) /\ Used(new) = Used(rows) \cup {n} /\ Act(new) = {n}

Lives(s, rows, t, new) ==
  /\ Leaves(s, rows, t, new) \/ Ends(s, rows, t, new)
     \/ Settles(s, rows, t, new) \/ Begins(s, rows, t, new)
  /\ Anew(t, new)

(* Nothing happened to the host. *)
LEMMA SameLives == ASSUME NEW s, NEW rows, Anew(s, rows) PROVE Lives(s, rows, s, rows)
BY DEF Lives, Leaves

(* The active command moves on. *)
LEMMA MovedLives ==
  ASSUME NEW s, NEW rows \in Rows, Owned(s, rows),
         NEW i \in CmdIds, rows[i].st \in CmdActive, NEW row, row.st \in CmdActive
  PROVE  Lives(s, rows, s, [rows EXCEPT ![i] = row])
<1> DEFINE new == [rows EXCEPT ![i] = row]
<1>1. "none" \notin CmdActive
  BY DEF CmdActive
<1>2. new[i] = row /\ \A j \in CmdIds : j # i => new[j] = rows[j]
  BY DEF Rows
<1> HIDE DEF new
<1>3. Act(new) = Act(rows) /\ Used(new) = Used(rows) /\ i \in Act(rows)
  BY <1>1, <1>2 DEF Act, Used
<1>4. s = "running" /\ Shown(s, new) = {} /\ Shown(s, rows) = {}
  BY <1>3 DEF Owned, Shown
<1> QED
  BY <1>3, <1>4 DEF Lives, Leaves, Anew, new

(* The active command ends, and the host takes its result or will. *)
LEMMA EndedLives ==
  ASSUME NEW s, NEW rows \in Rows, Owned(s, rows), NEW i \in CmdIds, rows[i].st \in CmdActive,
         NEW row, row.st \in Decided, row.fresh = rows[i].fresh, NEW t, t = s \/ t \in Decided
  PROVE  Lives(s, rows, t, [rows EXCEPT ![i] = row])
<1> DEFINE new == [rows EXCEPT ![i] = row]
<1>1. CmdActive \cap CmdFinal = {} /\ "none" \notin CmdActive \cup CmdFinal /\ Decided \subseteq CmdFinal
  BY DEF CmdActive, CmdFinal, Decided
<1>2. new[i] = row /\ \A j \in CmdIds : j # i => new[j] = rows[j]
  BY DEF Rows
<1> HIDE DEF new
<1>3. i \in Act(rows) /\ i \in Fin(new) /\ Used(new) = Used(rows)
  BY <1>1, <1>2 DEF Act, Fin, Used
<1>4. s = "running" /\ Act(new) = {} /\ new[i].fresh
  BY <1>1, <1>2, <1>3 DEF Act, Owned
<1>5. \A j \in CmdIds : j > i => new[j].st = "none"
  BY <1>2, <1>3 DEF Owned, CmdIds
<1>6. \A k \in Fin(new) : k <= i
  BY <1>1, <1>5 DEF Fin, CmdIds
<1>7. \A j \in Fin(new) : (\A k \in Fin(new) : k <= j) => j = i
  BY <1>3, <1>6 DEF Fin, CmdIds
<1>8. Newest(new) = {row.st}
  BY <1>2, <1>3, <1>4, <1>6, <1>7 DEF Newest
<1>9. CASE t = s
  BY <1>3, <1>4, <1>8, <1>9 DEF Lives, Ends, Shown, Anew, new
<1>10. CASE t \in Decided
  BY <1>3, <1>4, <1>10 DEF Lives, Settles, Shown, Anew, Decided, new
<1> QED
  BY <1>9, <1>10

(* The host changes, its commands do not: it takes a result, is given up or *)
(* rolled back.                                                            *)
LEMMA ChangedLives ==
  ASSUME NEW s, NEW rows, Act(rows) = {}, NEW t,
         \/ s = "running" /\ t \in Newest(rows)
         \/ s = "pending" /\ t \in {"skipped", "canceled"}
         \/ s = "running" /\ t = "canceled"
         \/ s = "success" /\ t = "rolled_back"
  PROVE  Lives(s, rows, t, rows)
<1>1. \A r \in Newest(rows) : r \in CmdFinal
  BY DEF Newest, Fin
<1>2. t # "running" /\ t # "pending"
  BY <1>1 DEF CmdFinal
<1> QED
  BY <1>2 DEF Lives, Settles, Shown, Anew

(* A host that waited gets a command. *)
LEMMA QueuedLives ==
  ASSUME NEW rows \in Rows, Act(rows) = {}, NEW i \in CmdIds, Used(rows) = 1..(i - 1)
  PROVE  Lives("pending", rows, "running", [rows EXCEPT ![i] = QueuedCmd])
<1> DEFINE new == [rows EXCEPT ![i] = QueuedCmd]
<1>1. "pending" \in CmdActive /\ QueuedCmd.st = "pending"
  BY DEF CmdActive, QueuedCmd, Row
<1>2. new[i] = QueuedCmd /\ \A j \in CmdIds : j # i => new[j] = rows[j]
  BY DEF Rows
<1> HIDE DEF new
<1>3. Act(new) = {i} /\ Used(new) = Used(rows) \cup {i}
  BY <1>1, <1>2 DEF Act, Used
<1>4. \A k \in Used(rows) : k < i
  BY StoreAssumption DEF CmdIds
<1>5. Shown("running", new) = {}
  BY <1>3 DEF Shown
<1> QED
  BY <1>3, <1>4, <1>5 DEF Lives, Begins, Anew, new

(* The active commands are canceled, with the host if it was open. *)
LEMMA CanceledLives ==
  ASSUME NEW s, NEW rows \in Rows, Owned(s, rows), Anew(s, rows), NEW new \in Rows, NEW t,
         \A k \in CmdIds : IF rows[k].st \in CmdActive THEN new[k].st = "canceled" ELSE new[k] = rows[k],
         t = IF s \in {"pending", "running"} THEN "canceled" ELSE s
  PROVE  Lives(s, rows, t, new)
<1>1. "canceled" \notin CmdActive /\ "none" \notin CmdActive
  BY DEF CmdActive
<1>2. Act(new) = {} /\ Used(new) = Used(rows)
  BY <1>1 DEF Act, Used
<1>3. CASE s \in {"pending", "running"}
  BY <1>2, <1>3 DEF Lives, Settles, Shown, Anew
<1>4. CASE s \notin {"pending", "running"}
  <2>1. Act(rows) = {}
    BY <1>4 DEF Owned
  <2> QED
    BY <1>2, <1>4, <2>1 DEF Lives, Leaves, Shown, Anew
<1> QED
  BY <1>3, <1>4

(* A Retry makes the host wait again. *)
LEMMA ResetLives ==
  ASSUME NEW s, NEW rows, NEW new, Act(new) = {}, Used(new) = Used(rows), Anew("pending", new),
         retries' = retries + 1
  PROVE  Lives(s, rows, "pending", new)
BY DEF Lives, Settles, Shown

AllAnew == \A h \in Hosts : Anew(host[h], cmd[h])
AllLive == \A h \in Hosts : Lives(host[h], cmd[h], host'[h], cmd'[h])

(* Only one host was touched, or none. *)
LEMMA OneLives ==
  ASSUME AllAnew, NEW h \in Hosts, Lives(host[h], cmd[h], host'[h], cmd'[h]),
         \A g \in Hosts : g # h => host'[g] = host[g] /\ cmd'[g] = cmd[g]
  PROVE  AllLive
<1> SUFFICES ASSUME NEW g \in Hosts, g # h PROVE Lives(host[g], cmd[g], host'[g], cmd'[g])
  BY DEF AllLive
<1>1. Lives(host[g], cmd[g], host[g], cmd[g])
  BY SameLives DEF AllAnew
<1> QED
  BY <1>1

(* The commands stay and the hosts change as they may. *)
LEMMA HostsLive ==
  ASSUME TypeInv, SafeInv, AllAnew, UNCHANGED cmd,
         \A h \in Hosts :
           \/ host'[h] = host[h]
           \/ /\ Act(cmd[h]) = {}
              /\ \/ host[h] = "running" /\ host'[h] \in Newest(cmd[h])
                 \/ host[h] = "pending" /\ host'[h] \in {"skipped", "canceled"}
                 \/ host[h] = "success" /\ host'[h] = "rolled_back"
  PROVE  AllLive
<1> SUFFICES ASSUME NEW h \in Hosts PROVE Lives(host[h], cmd[h], host'[h], cmd[h])
  BY DEF AllLive
<1>1. CASE host'[h] = host[h]
  BY <1>1, SameLives DEF AllAnew
<1>2. CASE host'[h] # host[h]
  BY <1>2, ChangedLives
<1> QED
  BY <1>1, <1>2

LEMMA AgentsLive ==
  ASSUME TypeInv, SafeInv, AllAnew, Agents
  PROVE  AllLive
<1>0. StoreTypeOK /\ QueuedTwice
  BY DEF TypeInv, TypeOK
<1>1. PICK h \in Hosts, i \in CmdIds :
        \/ \E arrives \in BOOLEAN : Dequeue(h, i, arrives)
        \/ AgentStep(h, i) \/ Message(h, i) \/ Time(h, i)
  BY DEF Agents, GatewayNext
<1>2. cmd[h] \in Rows /\ cmd[h][i] \in CmdRow /\ Owned(host[h], cmd[h])
  BY <1>0 DEF StoreTypeOK, Rows, SafeInv
<1>3. \A st \in Decided : Close(cmd[h][i], st).st = st /\ Close(cmd[h][i], st).fresh = cmd[h][i].fresh
  BY <1>2, CloseType DEF Decided, CmdFinal
<1>4. CASE UNCHANGED << host, cmd >>
  BY <1>4, HostsLive
<1>5. ASSUME NEW row, WriteRow(h, i, row), UNCHANGED host, cmd[h][i].st \in CmdActive, row.st \in CmdActive
      PROVE  AllLive
  <2>1. cmd'[h] = [cmd[h] EXCEPT ![i] = row] /\ \A g \in Hosts : g # h => cmd'[g] = cmd[g]
    BY <1>0, <1>5 DEF WriteRow, StoreTypeOK
  <2>2. Lives(host[h], cmd[h], host[h], [cmd[h] EXCEPT ![i] = row])
    BY <1>2, <1>5, MovedLives
  <2> QED
    BY <1>5, <2>1, <2>2, OneLives
<1>6. ASSUME NEW st \in Decided, WriteRow(h, i, Close(cmd[h][i], st)), cmd[h][i].st \in CmdActive,
             host'[h] = host[h] \/ host'[h] \in Decided, \A g \in Hosts : g # h => host'[g] = host[g]
      PROVE  AllLive
  <2>1. /\ cmd'[h] = [cmd[h] EXCEPT ![i] = Close(cmd[h][i], st)]
        /\ \A g \in Hosts : g # h => cmd'[g] = cmd[g]
    BY <1>0, <1>6 DEF WriteRow, StoreTypeOK
  <2>2. Lives(host[h], cmd[h], host'[h], [cmd[h] EXCEPT ![i] = Close(cmd[h][i], st)])
    BY <1>2, <1>3, <1>6, EndedLives
  <2> QED
    BY <1>6, <2>1, <2>2, OneLives
<1>7. CASE AgentStep(h, i) \/ EnterMaintenance(h, i)
  BY <1>4, <1>7 DEF AgentStep, Verify, Execute, EnterMaintenance
<1>8. CASE FinalStage(h, i) \/ Report(h, i)
  <2>1. /\ agent[h][i] \in {"success", "failed"} /\ Settle(h, i, agent[h][i])
        /\ cmd[h][i].st \in CmdActive
    BY <1>8 DEF FinalStage, Report
  <2>2. agent[h][i] \in Decided
    BY <2>1 DEF Decided
  <2>3. host'[h] \in {host[h], agent[h][i]} /\ \A g \in Hosts : g # h => host'[g] = host[g]
    BY <1>0, <2>1 DEF Settle, StoreTypeOK
  <2> QED
    BY <1>6, <2>1, <2>2, <2>3 DEF Settle
<1>9. CASE AckRejected(h, i)
  <2>1. WriteRow(h, i, Close(cmd[h][i], "failed")) /\ UNCHANGED host /\ cmd[h][i].st \in CmdActive
    BY <1>9 DEF AckRejected, CmdActive
  <2> QED
    BY <1>6, <2>1 DEF Decided
<1>10. CASE \E arrives \in BOOLEAN : Dequeue(h, i, arrives)
  <2> DEFINE row == [cmd[h][i] EXCEPT !.st = "dispatched", !.lease = "live", !.tries = @ + 1]
  <2>1. WriteRow(h, i, row) /\ UNCHANGED host /\ cmd[h][i].st \in CmdActive
    BY <1>10 DEF Dequeue, Queued, CmdActive
  <2>2. row.st \in CmdActive
    BY <1>2 DEF CmdRow, CmdActive
  <2> HIDE DEF row
  <2> QED
    BY <1>5, <2>1, <2>2
<1>11. CASE AckAccepted(h, i)
  <2> DEFINE row == [cmd[h][i] EXCEPT !.st = "accepted"]
  <2>1. WriteRow(h, i, row) /\ UNCHANGED host /\ cmd[h][i].st \in CmdActive
    BY <1>11 DEF AckAccepted, CmdActive
  <2>2. row.st \in CmdActive
    BY <1>2 DEF CmdRow, CmdActive
  <2> HIDE DEF row
  <2> QED
    BY <1>5, <2>1, <2>2
<1>12. CASE AckSwitch(h, i)
  <2> DEFINE row == [cmd[h][i] EXCEPT !.st = "pending", !.lease = "null"]
  <2>1. WriteRow(h, i, row) /\ UNCHANGED host /\ cmd[h][i].st \in CmdActive
    BY <1>12 DEF AckSwitch, CmdActive
  <2>2. row.st \in CmdActive
    BY <1>2 DEF CmdRow, CmdActive
  <2> HIDE DEF row
  <2> QED
    BY <1>5, <2>1, <2>2
<1>13. ASSUME NEW s \in {"early", "step", "done"}, Progress(h, i, s) PROVE AllLive
  <2> DEFINE row == [cmd[h][i] EXCEPT !.st = "running",
                       !.lease = IF @ = "null" THEN "null" ELSE "live",
                       !.stage = StageAfter(@, s)]
  <2>1. WriteRow(h, i, row) /\ UNCHANGED host /\ cmd[h][i].st \in CmdActive
    BY <1>13 DEF Progress
  <2>2. row.st \in CmdActive
    BY <1>2 DEF CmdRow, CmdActive
  <2> HIDE DEF row
  <2> QED
    BY <1>5, <2>1, <2>2
<1>14. CASE LeaseLapses(h, i)
  <2> DEFINE row == [cmd[h][i] EXCEPT !.lease = "lapsed"]
  <2>1. WriteRow(h, i, row) /\ UNCHANGED host /\ cmd[h][i].st \in CmdActive
    BY <1>14 DEF LeaseLapses
  <2>2. row.st = cmd[h][i].st
    BY <1>2 DEF CmdRow
  <2> HIDE DEF row
  <2> QED
    BY <1>5, <2>1, <2>2
<1>15. CASE QueueTimeout(h, i)
  <2> DEFINE row == [cmd[h][i] EXCEPT !.dead = TRUE]
  <2>1. WriteRow(h, i, row) /\ UNCHANGED host /\ cmd[h][i].st \in CmdActive
    BY <1>15 DEF QueueTimeout, CmdActive
  <2>2. row.st = cmd[h][i].st
    BY <1>2 DEF CmdRow
  <2> HIDE DEF row
  <2> QED
    BY <1>5, <2>1, <2>2
<1> QED
  BY <1>1, <1>7, <1>8, <1>9, <1>10, <1>11, <1>12, <1>13, <1>14, <1>15 DEF Message, Time

LEMMA OperatorLives ==
  ASSUME ~Ties, TypeInv, SafeInv, AllAnew, Operator
  PROVE  AllLive
<1>0. StoreTypeOK /\ \A h \in Hosts : cmd[h] \in Rows /\ Owned(host[h], cmd[h]) /\ Anew(host[h], cmd[h])
  BY DEF TypeInv, TypeOK, StoreTypeOK, Rows, SafeInv, AllAnew
<1>1. CASE Start \/ Promote \/ Pause
  BY <1>1, HostsLive DEF Start, Promote, Pause
<1>2. CASE Cancel
  <2> SUFFICES ASSUME NEW h \in Hosts PROVE Lives(host[h], cmd[h], host'[h], cmd'[h])
    BY DEF AllLive
  <2>1. /\ cmd' = CancelCommands(Hosts)
        /\ host'[h] = IF host[h] \in {"pending", "running"} THEN "canceled" ELSE host[h]
    BY <1>2 DEF Cancel
  <2>2. CancelCommands(Hosts)[h] \in Rows
    BY <1>0, RebasedType DEF Rows
  <2>3. \A k \in CmdIds : IF cmd[h][k].st \in CmdActive THEN CancelCommands(Hosts)[h][k].st = "canceled"
                           ELSE CancelCommands(Hosts)[h][k] = cmd[h][k]
    <3>1. \A k \in CmdIds : Close(cmd[h][k], "canceled").st = "canceled"
      BY <1>0, CloseType DEF StoreTypeOK
    <3> QED
      BY <3>1 DEF CancelCommands
  <2> QED
    BY <1>0, <2>1, <2>2, <2>3, CanceledLives
<1>3. ASSUME NEW ids \in SUBSET Hosts, NEW explicit \in BOOLEAN, NEW force \in BOOLEAN,
             Retry(ids, explicit, force)
      PROVE  AllLive
  <2> DEFINE reset == {h \in ids : Retryable(h, explicit, force)}
  <2>1. PICK tied \in SUBSET reset : (Ties \/ tied = {}) /\ ResetHosts(reset, tied)
    BY <1>3 DEF Retry
  <2>2. reset \in SUBSET Hosts
    OBVIOUS
  <2> HIDE DEF reset
  <2>3. ASSUME NEW h \in reset PROVE Lives(host[h], cmd[h], host'[h], cmd'[h])
    <3>1. host'[h] = "pending" /\ cmd' = Rebased(reset, tied) /\ h \in Hosts
      BY <2>1, <2>2 DEF ResetHosts
    <3>2. Act(cmd'[h]) = {}
      BY <1>0, <2>1, <2>2, <3>1, RebasedOwned
    <3>3. ASSUME NEW k \in CmdIds
          PROVE  /\ cmd'[h][k].st = "none" <=> cmd[h][k].st = "none"
                 /\ cmd'[h][k].st \in CmdFinal => ~cmd'[h][k].fresh
      <4>1. CASE cmd[h][k].st = "none"
        <5>1. cmd'[h][k] = cmd[h][k] /\ "none" \notin CmdFinal
          BY <3>1, <4>1 DEF Rebased, CmdFinal
        <5> QED
          BY <4>1, <5>1
      <4>2. CASE cmd[h][k].st # "none"
        <5>1. cmd'[h][k] = Row(CancelCommands(reset)[h][k].st, cmd[h][k].fresh /\ h \in tied, FALSE)
          BY <3>1, <4>2 DEF Rebased
        <5>2. CancelCommands(reset)[h][k].st \in {cmd[h][k].st, "canceled"}
          <6>1. Close(cmd[h][k], "canceled").st = "canceled"
            BY <1>0, <3>1, CloseType DEF StoreTypeOK
          <6> QED
            BY <3>1, <6>1 DEF CancelCommands
        <5>3. cmd'[h][k].st = CancelCommands(reset)[h][k].st /\ cmd'[h][k].fresh = (cmd[h][k].fresh /\ h \in tied)
          BY <5>1 DEF Row
        <5> QED
          BY <2>1, <4>2, <5>2, <5>3
      <4> QED
        BY <4>1, <4>2
    <3>4. Used(cmd'[h]) = Used(cmd[h]) /\ Anew("pending", cmd'[h])
      BY <3>3 DEF Used, Anew, Fin
    <3>5. retries' = retries + 1
      BY <1>3 DEF Retry
    <3> QED
      BY <3>1, <3>2, <3>4, <3>5, ResetLives
  <2>4. ASSUME NEW h \in Hosts \ reset PROVE Lives(host[h], cmd[h], host'[h], cmd'[h])
    <3>1. cmd'[h] = [i \in CmdIds |-> cmd[h][i]] /\ host'[h] = host[h]
      BY <2>1, <2>4 DEF ResetHosts, Rebased
    <3>2. cmd'[h] = cmd[h]
      BY <1>0, <3>1 DEF StoreTypeOK
    <3> QED
      BY <1>0, <3>1, <3>2, SameLives
  <2> QED
    BY <2>3, <2>4 DEF AllLive
<1> QED
  BY <1>1, <1>2, <1>3 DEF Operator, ApiNext

(* Reconciliation ends commands, and gives hosts the results of theirs. *)
LEMMA ReconcileLives ==
  ASSUME ~Ties, TypeInv, SafeInv, AllAnew, Finalize \/ Reap \/ Sync \/ Clear
  PROVE  AllLive
<1>0. /\ StoreTypeOK /\ StoreTypeOK'
      /\ \A h \in Hosts : cmd[h] \in Rows /\ cmd'[h] \in Rows /\ Owned(host[h], cmd[h]) /\ Anew(host[h], cmd[h])
  <2>1. StoreTypeOK /\ StoreTypeOK'
    BY ReconcileType DEF TypeInv, TypeOK, Finalize, Reap, Sync, Clear
  <2> QED
    BY <2>1 DEF StoreTypeOK, Rows, SafeInv, AllAnew
<1>1. ASSUME NEW h \in Hosts, NEW st \in Decided, NEW i \in CmdIds
      PROVE  Close(cmd[h][i], st).st = st /\ Close(cmd[h][i], st).fresh = cmd[h][i].fresh
  BY <1>0, CloseType DEF Decided, CmdFinal, StoreTypeOK
<1>2. ASSUME NEW h \in Hosts,
             \A k \in CmdIds : \/ cmd'[h][k] = cmd[h][k]
                               \/ /\ cmd[h][k].st \in CmdActive
                                  /\ \E st \in Decided : cmd'[h][k] = Close(cmd[h][k], st),
             \/ host'[h] = host[h]
             \/ /\ host'[h] \in Decided
                /\ \E k \in CmdIds : /\ cmd[h][k].st \in CmdActive
                                     /\ \E st \in Decided : cmd'[h][k] = Close(cmd[h][k], st)
      PROVE  Lives(host[h], cmd[h], host'[h], cmd'[h])
  <2>1. CASE \E i \in CmdIds : /\ cmd[h][i].st \in CmdActive
                               /\ \E st \in Decided : cmd'[h][i] = Close(cmd[h][i], st)
    <3>1. PICK i \in CmdIds, st \in Decided : cmd[h][i].st \in CmdActive /\ cmd'[h][i] = Close(cmd[h][i], st)
      BY <2>1
    <3>2. ASSUME NEW k \in CmdIds, k # i PROVE cmd'[h][k] = cmd[h][k]
      <4>1. cmd[h][k].st \notin CmdActive
        BY <1>0, <3>1, <3>2 DEF Owned, Act
      <4> QED
        BY <1>2, <4>1
    <3>3. cmd'[h] = [cmd[h] EXCEPT ![i] = Close(cmd[h][i], st)]
      BY <1>0, <3>1, <3>2 DEF Rows
    <3>4. Lives(host[h], cmd[h], host'[h], [cmd[h] EXCEPT ![i] = Close(cmd[h][i], st)])
      BY <1>0, <1>1, <1>2, <3>1, EndedLives
    <3> QED
      BY <3>3, <3>4
  <2>2. CASE ~\E i \in CmdIds : /\ cmd[h][i].st \in CmdActive
                                /\ \E st \in Decided : cmd'[h][i] = Close(cmd[h][i], st)
    <3>1. \A k \in CmdIds : cmd'[h][k] = cmd[h][k]
      BY <1>2, <2>2
    <3>2. cmd'[h] = cmd[h] /\ host'[h] = host[h]
      BY <1>0, <1>2, <2>2, <3>1 DEF Rows
    <3> QED
      BY <1>0, <3>2, SameLives
  <2> QED
    BY <2>1, <2>2
<1>3. {"dispatched", "accepted", "running"} \subseteq CmdActive /\ {"success", "timeout"} \subseteq Decided
  BY DEF CmdActive, Decided
<1>4. CASE Finalize
  <2>1. PICK silent \in SUBSET DoneUnreported : cmd' = [h \in Hosts |-> [i \in CmdIds |->
                 IF <<h, i>> \in silent
                   THEN Close(cmd[h][i], IF cmd[h][i].stage = "proven"
                                           THEN "success" ELSE "timeout")
                   ELSE cmd[h][i]]]
    BY <1>4 DEF Finalize, FinalizeCompletedStages
  <2>2. ASSUME NEW h \in Hosts, NEW k \in CmdIds
        PROVE  \/ cmd'[h][k] = cmd[h][k]
               \/ /\ cmd[h][k].st \in CmdActive
                  /\ \E st \in Decided : cmd'[h][k] = Close(cmd[h][k], st)
    <3>1. CASE <<h, k>> \in silent
      <4>1. cmd[h][k].st \in CmdActive
        BY <1>3, <2>1, <3>1 DEF DoneUnreported
      <4>2. cmd'[h][k] = Close(cmd[h][k], IF cmd[h][k].stage = "proven" THEN "success" ELSE "timeout")
        BY <2>1, <3>1
      <4> QED
        BY <1>3, <4>1, <4>2
    <3>2. CASE <<h, k>> \notin silent
      BY <2>1, <3>2
    <3> QED
      BY <3>1, <3>2
  <2>3. UNCHANGED host
    BY <1>4 DEF Finalize, FinalizeCompletedStages
  <2> QED
    BY <1>2, <2>2, <2>3 DEF AllLive
<1>5. CASE Reap
  <2>1. \A h \in Hosts : \A k \in Expired(h) :
          k \in CmdIds /\ cmd[h][k].st \in CmdActive /\ cmd'[h][k] = Close(cmd[h][k], "timeout")
    BY <1>3, <1>5 DEF Expired, Reap, ReapExpired
  <2>2. \A h \in Hosts, k \in CmdIds : k \notin Expired(h) => cmd'[h][k] = cmd[h][k]
    BY <1>5 DEF Reap, ReapExpired
  <2>3. \A h \in Hosts : \/ host'[h] = host[h]
                         \/ Expired(h) # {} /\ host'[h] = "timeout"
    BY <1>5 DEF Reap, ReapExpired
  <2>4. ASSUME NEW h \in Hosts PROVE Lives(host[h], cmd[h], host'[h], cmd'[h])
    <3>1. \A k \in CmdIds : \/ cmd'[h][k] = cmd[h][k]
                            \/ /\ cmd[h][k].st \in CmdActive
                               /\ \E st \in Decided : cmd'[h][k] = Close(cmd[h][k], st)
      BY <1>3, <2>1, <2>2
    <3>2. \/ host'[h] = host[h]
          \/ /\ host'[h] \in Decided
             /\ \E k \in CmdIds : /\ cmd[h][k].st \in CmdActive
                                  /\ \E st \in Decided : cmd'[h][k] = Close(cmd[h][k], st)
      BY <1>3, <2>1, <2>3
    <3> QED
      BY <1>2, <3>1, <3>2
  <2> QED
    BY <2>4 DEF AllLive
<1>6. CASE Sync
  <2>1. ASSUME NEW h \in Hosts, host'[h] # host[h]
        PROVE  host[h] = "running" /\ Act(cmd[h]) = {} /\ host'[h] \in Newest(cmd[h])
    <3>1. Syncable(h) /\ host'[h] = CHOOSE st \in SyncResult(h) : TRUE
      BY <1>6, <2>1 DEF Sync, SyncTaskHostsFromCommands
    <3>2. ActiveCmds(h) = Act(cmd[h]) /\ FinalCmds(h) = Fin(cmd[h])
      BY DEF ActiveCmds, Act, FinalCmds, Fin
    <3>3. SyncResult(h) = Newest(cmd[h])
      BY <3>2 DEF SyncResult, Newest
    <3>4. host'[h] \in Newest(cmd[h]) /\ Act(cmd[h]) = {} /\ host[h] \in {"pending", "running"}
      BY <3>1, <3>2, <3>3 DEF Syncable
    <3>5. host[h] # "pending"
      BY <1>0, <3>4 DEF Anew, Newest
    <3> QED
      BY <3>4, <3>5
  <2> QED
    BY <1>6, <2>1, HostsLive DEF Sync, SyncTaskHostsFromCommands
<1>7. CASE Clear
  BY <1>7, HostsLive DEF Clear, ClearMaintenance
<1> QED
  BY <1>4, <1>5, <1>6, <1>7

LEMMA RoundLives ==
  ASSUME ~Ties, TypeInv, SafeInv, AllAnew, Orchestrate
  PROVE  AllLive
<1>0. StoreTypeOK /\ \A h \in Hosts : cmd[h] \in Rows /\ Owned(host[h], cmd[h])
  BY DEF TypeInv, TypeOK, StoreTypeOK, Rows, SafeInv
<1>1. \A h \in Hosts : host[h] # "running" => Act(cmd[h]) = {}
  BY <1>0 DEF Owned
<1>2. CASE UNCHANGED << host, cmd >>
  BY <1>2, HostsLive
<1>3. CASE \/ Scan \/ CurrentBatch \/ ListPending \/ LoopDone \/ CountPending
           \/ MarkBatch \/ BatchProgress \/ HasPendingAfter \/ HasPendingAfterFails
           \/ FinishRead \/ FinishReadFails \/ FinishWrite
  BY <1>2, <1>3 DEF Scan, CurrentBatch, ListPending, LoopDone, CountPending, MarkBatch,
     BatchProgress, HasPendingAfter, HasPendingAfterFails, FinishRead, FinishReadFails, FinishWrite,
     storeVars
<1>4. ASSUME NEW h \in Hosts, SkipHost(h) PROVE AllLive
  <2>1. UNCHANGED cmd /\ host' = [host EXCEPT ![h] = IF @ = "pending" THEN "skipped" ELSE @]
    BY <1>4 DEF SkipHost
  <2>2. \A g \in Hosts : host'[g] = host[g] \/ (host[g] = "pending" /\ host'[g] = "skipped")
    BY <1>0, <2>1 DEF StoreTypeOK
  <2> QED
    BY <1>1, <2>1, <2>2, HostsLive
<1>5. ASSUME NEW h \in Hosts, DispatchHost(h) PROVE AllLive
  <2>1. CASE ~(host[h] = "pending" /\ task = "running")
    BY <1>2, <1>5, <2>1 DEF DispatchHost
  <2>2. CASE host[h] = "pending" /\ task = "running"
    <3>1. ActiveCmds(h) = {} /\ Act(cmd[h]) = {}
      BY <1>1, <2>2 DEF ActiveCmds, Act
    <3>2. InsertCommand(h) /\ host' = [host EXCEPT ![h] = "running"]
      BY <1>5, <2>2 DEF DispatchHost
    <3>3. PICK i \in CmdIds : IsNext(h, i) /\ WriteRow(h, i, QueuedCmd)
      BY <3>1, <3>2 DEF InsertCommand
    <3>4. /\ cmd'[h] = [cmd[h] EXCEPT ![i] = QueuedCmd] /\ host'[h] = "running"
          /\ \A g \in Hosts : g # h => host'[g] = host[g] /\ cmd'[g] = cmd[g]
      BY <1>0, <3>2, <3>3 DEF WriteRow, StoreTypeOK
    <3>5. Used(cmd[h]) = 1..(i - 1)
      BY <3>3 DEF IsNext, Issued, Used
    <3>6. Lives("pending", cmd[h], "running", [cmd[h] EXCEPT ![i] = QueuedCmd])
      BY <1>0, <3>1, <3>5, QueuedLives
    <3> QED
      BY <2>2, <3>4, <3>6, OneLives
  <2> QED
    BY <2>1, <2>2
<1>6. CASE CompleteBatch
  <2>1. UNCHANGED cmd /\ \A h \in Hosts : \/ host'[h] = host[h]
                                          \/ host[h] = "success" /\ host'[h] = "rolled_back"
    BY <1>6 DEF CompleteBatch
  <2> QED
    BY <1>1, <2>1, HostsLive
<1> QED
  BY <1>3, <1>4, <1>5, <1>6, ReconcileLives DEF Orchestrate, OrchStep

LEMMA StepLives ==
  ASSUME ~Ties, TypeInv, SafeInv, AllAnew, [Next]_vars
  PROVE  AllLive
<1>1. CASE Fault \/ UNCHANGED vars
  BY <1>1, HostsLive DEF Fault, Abort, storeVars, vars
<1> QED
  BY <1>1, AgentsLive, OperatorLives, RoundLives DEF Next

(* What HostCommands calls issued, active and result, before and after. *)
LEMMA AsCommands ==
  ASSUME NEW h \in Hosts
  PROVE  /\ Issued(h) = Used(cmd[h]) /\ ActiveCmds(h) = Act(cmd[h]) /\ Outcome(h) = Shown(host[h], cmd[h])
         /\ Issued(h)' = Used(cmd'[h]) /\ ActiveCmds(h)' = Act(cmd'[h]) /\ Outcome(h)' = Shown(host'[h], cmd'[h])
<1>1. Issued(h) = Used(cmd[h]) /\ ActiveCmds(h) = Act(cmd[h]) /\ SyncResult(h) = Newest(cmd[h])
  BY DEF Issued, Used, ActiveCmds, Act, FinalCmds, Fin, SyncResult, Newest
<1>2. Issued(h)' = Used(cmd'[h]) /\ ActiveCmds(h)' = Act(cmd'[h]) /\ SyncResult(h)' = Newest(cmd'[h])
  BY DEF Issued, Used, ActiveCmds, Act, FinalCmds, Fin, SyncResult, Newest
<1> QED
  BY <1>1, <1>2 DEF Outcome, Shown

LEMMA RetriesCount == [Next]_vars => retries' \in {retries, retries + 1}
BY DEF Next, Operator, ApiNext, Start, Promote, Pause, Cancel, Retry, Agents, Orchestrate, Fault, apiVars, vars

(* A step of all hosts is a step of HostCommands. *)
LEMMA LivesObey ==
  ASSUME StoreTypeOK', AllLive, retries' \in {retries, retries + 1}
  PROVE  Commands!Next
<1>1. DOMAIN host' = Hosts
  BY DEF StoreTypeOK
<1>2. ASSUME NEW h \in Hosts
      PROVE  \/ Commands!Stays(h) \/ Commands!Issue(h) \/ Commands!End(h) \/ Commands!Take(h)
             \/ Commands!EndAndTake(h) \/ Commands!GiveUp(h) \/ Commands!RollBack(h) \/ Commands!Restart(h)
  <2>1. Lives(host[h], cmd[h], host'[h], cmd'[h])
    BY DEF AllLive
  <2>2. CASE Leaves(host[h], cmd[h], host'[h], cmd'[h])
    BY <2>2, AsCommands DEF Leaves, Commands!Stays
  <2>3. CASE Ends(host[h], cmd[h], host'[h], cmd'[h])
    BY <2>3, AsCommands DEF Ends, Decided, Commands!End, Commands!Results
  <2>4. CASE Settles(host[h], cmd[h], host'[h], cmd'[h])
    BY <2>4, AsCommands DEF Settles, Decided, Commands!Take, Commands!EndAndTake, Commands!GiveUp,
       Commands!RollBack, Commands!Restart, Commands!Alone, Commands!Results
  <2>5. CASE Begins(host[h], cmd[h], host'[h], cmd'[h])
    BY <2>5, AsCommands DEF Begins, Commands!Issue
  <2> QED
    BY <2>1, <2>2, <2>3, <2>4, <2>5 DEF Lives
<1> QED
  BY <1>1, <1>2 DEF Commands!Next

LEMMA DraftObeys == Init => AllAnew /\ Commands!Init
<1> SUFFICES ASSUME Init PROVE AllAnew /\ Commands!Init
  OBVIOUS
<1>1. NoCmd.st = "none" /\ "none" \notin CmdActive \cup CmdFinal
  BY DEF NoCmd, Row, CmdActive, CmdFinal
<1>2. \A h \in Hosts : host[h] = "pending" /\ Fin(cmd[h]) = {} /\ Used(cmd[h]) = {} /\ Act(cmd[h]) = {}
  BY <1>1 DEF Init, StoreInit, Fin, Used, Act
<1>3. \A h \in Hosts : Issued(h) = {} /\ ActiveCmds(h) = {} /\ Outcome(h) = {}
  BY <1>2, AsCommands DEF Shown
<1>4. host = [h \in Hosts |-> "pending"]
  BY DEF Init, StoreInit
<1> QED
  BY <1>2, <1>3, <1>4 DEF AllAnew, Anew, Init, ApiInit, Commands!Init

(* Whatever the operator, the agents, the clock and a crashing             *)
(* orchestrator do, each host lives as HostCommands says, if no two steps  *)
(* read the same clock: every attempt has one command, whose end decides   *)
(* it, and a host that is done waits again only after a Retry.             *)
THEOREM RolloutObeysCommands ==
  ASSUME ~Ties
  PROVE  Spec => HostsObeyCommands
<1> DEFINE ObeyInv == TypeInv /\ SafeInv /\ AllAnew
<1>1. Init => ObeyInv /\ Commands!Init
  BY InitTypeInv, InitSafeInv, DraftObeys
<1>2. ObeyInv /\ [Next]_vars => ObeyInv' /\ Commands!Next
  <2> SUFFICES ASSUME ObeyInv, [Next]_vars PROVE ObeyInv' /\ Commands!Next
    OBVIOUS
  <2>1. TypeInv' /\ SafeInv' /\ AllLive
    BY TypeInvStep, SafeInvStep, StepLives
  <2>2. AllAnew'
    BY <2>1 DEF AllLive, AllAnew, Lives
  <2> QED
    BY <2>1, <2>2, RetriesCount, LivesObey DEF TypeInv, TypeOK
<1> QED
  BY <1>1, <1>2, PTL DEF Spec, HostsObeyCommands, Commands!Spec
=============================================================================
