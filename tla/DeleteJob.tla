------------------------------ MODULE DeleteJob ------------------------------
(***************************************************************************)
(* Background jobs that delete tasks in chunks (logic/task/delete_job.go   *)
(* and delete.go).  A replica claims the oldest open job with a row lock,  *)
(* looks at the tasks of the next chunk, then locks them, checks them      *)
(* again, deletes those that still qualify and records the progress; claim *)
(* to commit is one transaction, but the tasks may change between the      *)
(* first look and the locks.  Jobs have one variable per column.           *)
(***************************************************************************)
EXTENDS Integers, FiniteSets, Sequences

CONSTANTS
  Ids,          \* task ids that callers may name
  Users,        \* owners of jobs
  Calls,        \* API calls of CreateDeleteJob that may be in flight
  Caller,       \* [Calls -> Users]
  Requests,     \* lists of ids that a call may carry
  Replicas,     \* server replicas running RunDeleteJobs
  Chunk,        \* batchDeleteChunk
  MaxJobs,      \* bound: jobs ever created
  MaxFaults,    \* bound: failed chunks, lost transactions and crashes
  MaxReopens    \* bound: tasks put back to running by a Retry

JobIds == 1..MaxJobs
NoJob == 0
Free == << >>

VARIABLES
  task,         \* upgrade_tasks.status, or "gone"
  active,       \* the task has commands that have not ended
  njobs, owner, ids, processed, deleted, failed, status, cancel,
  asked,        \* per call: the ids between its check and its INSERT
  rep,          \* per replica: the claimed job and what the first look found
  removedBy,    \* history: the job whose transaction removed the task
  faults, reopens

jobVars == << njobs, owner, ids, processed, deleted, failed, status, cancel >>
taskVars == << task, active >>
vars == << taskVars, jobVars, asked, rep, removedBy, faults, reopens >>

(* The list sorted ascending, each id once, without ids that are not positive. *)
Uniq(r) ==
  LET S == {r[i] : i \in DOMAIN r} \ {0}
  IN CHOOSE s \in [1..Cardinality(S) -> S] :
       \A i, j \in 1..Cardinality(S) : i < j => s[i] < s[j]

Increasing(s) ==
  \A i, j \in DOMAIN s : i < j => s[i] < s[j]

ASSUME JobAssumption ==
  /\ Users # {}
  /\ Ids \subseteq Nat \ {0}
  /\ Caller \in [Calls -> Users]
  /\ Chunk \in Nat \ {0} /\ MaxJobs \in Nat /\ MaxFaults \in Nat /\ MaxReopens \in Nat
  /\ \A r \in Requests : Uniq(r) \in Seq(Ids) /\ Increasing(Uniq(r))

-----------------------------------------------------------------------------
TaskStatus == {"draft", "running", "ended", "gone"}

deletableStatus(s) == s \in {"draft", "ended"}

OpenJob(j) == status[j] \in {"pending", "running"}

IdleRep == [pc |-> "idle", job |-> NoJob, found |-> {}]

Locked(j) == \E r \in Replicas : rep[r].job = j

(* ids[processed:end] *)
ChunkEnd(j) ==
  IF processed[j] + Chunk > Len(ids[j]) THEN Len(ids[j]) ELSE processed[j] + Chunk

ChunkIds(j) == {ids[j][k] : k \in processed[j] + 1 .. ChunkEnd(j)}

Init ==
  /\ task \in [Ids -> {"draft", "gone"}]
  /\ active = [t \in Ids |-> FALSE]
  /\ njobs = 0
  /\ owner = [j \in JobIds |-> CHOOSE u \in Users : TRUE]
  /\ ids = [j \in JobIds |-> << >>]
  /\ processed = [j \in JobIds |-> 0]
  /\ deleted = [j \in JobIds |-> 0]
  /\ failed = [j \in JobIds |-> 0]
  /\ status = [j \in JobIds |-> "none"]
  /\ cancel = [j \in JobIds |-> FALSE]
  /\ asked = [c \in Calls |-> Free]
  /\ rep = [r \in Replicas |-> IdleRep]
  /\ removedBy = [t \in Ids |-> NoJob]
  /\ faults = 0
  /\ reopens = 0

-----------------------------------------------------------------------------
(* The API.  CreateDeleteJob looks for an open job of the caller first and *)
(* inserts in a second statement.                                          *)

CreateCheck(c, r) ==
  /\ asked[c] = Free
  /\ Len(Uniq(r)) > 0
  /\ ~\E j \in JobIds : OpenJob(j) /\ owner[j] = Caller[c]
  /\ asked' = [asked EXCEPT ![c] = Uniq(r)]
  /\ UNCHANGED << taskVars, jobVars, rep, removedBy, faults, reopens >>

UniqueOpenMutant(u) == TRUE

(* uq_task_delete_jobs_one_active *)
UniqueOpen(u) == ~\E j \in JobIds : OpenJob(j) /\ owner[j] = u

CreateInsert(c) ==
  /\ asked[c] # Free
  /\ njobs < MaxJobs
  /\ UniqueOpen(Caller[c])
  /\ njobs' = njobs + 1
  /\ owner' = [owner EXCEPT ![njobs + 1] = Caller[c]]
  /\ ids' = [ids EXCEPT ![njobs + 1] = asked[c]]
  /\ status' = [status EXCEPT ![njobs + 1] = "pending"]
  /\ asked' = [asked EXCEPT ![c] = Free]
  /\ UNCHANGED << taskVars, processed, deleted, failed, cancel, rep, removedBy,
                  faults, reopens >>

CreateRefused(c) ==
  /\ asked[c] # Free
  /\ ~UniqueOpen(Caller[c])
  /\ asked' = [asked EXCEPT ![c] = Free]
  /\ UNCHANGED << taskVars, jobVars, rep, removedBy, faults, reopens >>

(* The UPDATE waits for the row lock of a replica and then reads the row again. *)
CancelDeleteJob(j) ==
  /\ ~Locked(j)
  /\ OpenJob(j)
  /\ ~cancel[j]
  /\ cancel' = [cancel EXCEPT ![j] = TRUE]
  /\ UNCHANGED << taskVars, njobs, owner, ids, processed, deleted, failed, status,
                  asked, rep, removedBy, faults, reopens >>

-----------------------------------------------------------------------------
(* runDeleteJobOnce *)

ClaimableMutant(j) ==
  /\ status[j] = "pending" /\ ~Locked(j)
  /\ \A i \in JobIds : OpenJob(i) /\ ~Locked(i) => j <= i

(* ORDER BY id LIMIT 1 FOR UPDATE SKIP LOCKED *)
Claimable(j) ==
  /\ OpenJob(j) /\ ~Locked(j)
  /\ \A i \in JobIds : OpenJob(i) /\ ~Locked(i) => j <= i

StopsMutant(j) == processed[j] >= Len(ids[j])

Stops(j) == cancel[j] \/ processed[j] >= Len(ids[j])

FinishJob(r, j) ==
  /\ rep[r].pc = "idle"
  /\ Claimable(j)
  /\ Stops(j)
  /\ status' = [status EXCEPT ![j] =
                  IF cancel[j] /\ processed[j] < Len(ids[j]) THEN "canceled" ELSE "done"]
  /\ UNCHANGED << taskVars, njobs, owner, ids, processed, deleted, failed, cancel,
                  asked, rep, removedBy, faults, reopens >>

(* Claim the job and look at the chunk without locks. *)
Claim(r, j) ==
  /\ rep[r].pc = "idle"
  /\ Claimable(j)
  /\ ~Stops(j)
  /\ rep' = [rep EXCEPT ![r] =
       [pc |-> "look", job |-> j,
        found |-> {t \in ChunkIds(j) : deletableStatus(task[t])}]]
  /\ UNCHANGED << taskVars, jobVars, asked, removedBy, faults, reopens >>

FinalMutant(r) == {t \in rep[r].found : deletableStatus(task[t])}

(* What still qualifies once the rows are locked. *)
Final(r) ==
  {t \in rep[r].found : deletableStatus(task[t]) /\ ~active[t]}

RecordChunkMutant(r, j, D) ==
  /\ processed' = [processed EXCEPT ![j] = ChunkEnd(j)]
  /\ deleted' = [deleted EXCEPT ![j] = @ + Cardinality(D)]
  /\ failed' = [failed EXCEPT ![j] = @ + Cardinality(rep[r].found \ D)]
  /\ status' = [status EXCEPT ![j] =
       IF ChunkEnd(j) >= Len(ids[j]) THEN "done" ELSE "running"]
  /\ rep' = [rep EXCEPT ![r] = IdleRep]
  /\ UNCHANGED << njobs, owner, ids, cancel, asked, reopens >>

(* Progress of a chunk of which the tasks D were deleted. *)
RecordChunk(r, j, D) ==
  /\ processed' = [processed EXCEPT ![j] = ChunkEnd(j)]
  /\ deleted' = [deleted EXCEPT ![j] = @ + Cardinality(D)]
  /\ failed' = [failed EXCEPT ![j] =
       @ + Cardinality({k \in processed[j] + 1 .. ChunkEnd(j) : ids[j][k] \notin D})]
  /\ status' = [status EXCEPT ![j] =
       IF ChunkEnd(j) >= Len(ids[j]) THEN "done" ELSE "running"]
  /\ rep' = [rep EXCEPT ![r] = IdleRep]
  /\ UNCHANGED << njobs, owner, ids, cancel, asked, reopens >>

DeleteChunk(r) ==
  LET j == rep[r].job IN
  /\ rep[r].pc = "look"
  /\ task' = [t \in Ids |-> IF t \in Final(r) THEN "gone" ELSE task[t]]
  /\ removedBy' = [t \in Ids |-> IF t \in Final(r) THEN j ELSE removedBy[t]]
  /\ RecordChunk(r, j, Final(r))
  /\ UNCHANGED << active, faults >>

ChunkFailsMutant(r) ==
  /\ rep[r].pc = "look"
  /\ faults < MaxFaults
  /\ faults' = faults + 1
  /\ status' = [status EXCEPT ![rep[r].job] = "failed"]
  /\ rep' = [rep EXCEPT ![r] = IdleRep]
  /\ UNCHANGED << taskVars, njobs, owner, ids, processed, deleted, failed, cancel,
                  asked, removedBy, reopens >>

ChunkFailsKeepsCount(r) ==
  /\ rep[r].pc = "look"
  /\ faults < MaxFaults
  /\ faults' = faults + 1
  /\ RecordChunk(r, rep[r].job, Final(r))
  /\ UNCHANGED << taskVars, removedBy >>

(* deleteChunkTx fails: ROLLBACK TO SAVEPOINT, the whole chunk counts as failed. *)
ChunkFails(r) ==
  /\ rep[r].pc = "look"
  /\ faults < MaxFaults
  /\ faults' = faults + 1
  /\ RecordChunk(r, rep[r].job, {})
  /\ UNCHANGED << taskVars, removedBy >>

(* The transaction is lost: shutdown, crash, or an error of its own statements. *)
Lost(r) ==
  /\ rep[r].pc = "look"
  /\ faults < MaxFaults
  /\ faults' = faults + 1
  /\ rep' = [rep EXCEPT ![r] = IdleRep]
  /\ UNCHANGED << taskVars, jobVars, asked, removedBy, reopens >>

(* Ended jobs are removed after deleteJobRetention. *)
Purge(j) ==
  /\ status[j] \in {"done", "canceled"}
  /\ status' = [status EXCEPT ![j] = "purged"]
  /\ UNCHANGED << taskVars, njobs, owner, ids, processed, deleted, failed, cancel,
                  asked, rep, removedBy, faults, reopens >>

-----------------------------------------------------------------------------
(* The rest of the system, as far as it changes what may be deleted. *)

TaskStep(t, from, to, act) ==
  /\ task[t] = from
  /\ task' = [task EXCEPT ![t] = to]
  /\ active' = [active EXCEPT ![t] = act]
  /\ UNCHANGED << jobVars, asked, rep, removedBy, faults >>

StartTask(t) == TaskStep(t, "draft", "running", TRUE) /\ UNCHANGED reopens

EndTask(t) == \E act \in BOOLEAN : TaskStep(t, "running", "ended", act) /\ UNCHANGED reopens

RetryTask(t) ==
  /\ reopens < MaxReopens
  /\ reopens' = reopens + 1
  /\ TaskStep(t, "ended", "running", TRUE)

CommandEnds(t) ==
  /\ active[t] /\ task[t] = "ended"
  /\ TaskStep(t, "ended", "ended", FALSE) /\ UNCHANGED reopens

(* Delete, the call for a single task: the same conditions under the same locks. *)
Delete(t) ==
  /\ deletableStatus(task[t]) /\ ~active[t]
  /\ TaskStep(t, task[t], "gone", FALSE) /\ UNCHANGED reopens

(* Of the tasks that the first look let through, the chunk deletes those   *)
(* that qualify under the locks; the others are answered as failed.        *)
deleteChunk(S) ==
  /\ \A t \in S : deletableStatus(task[t]) /\ ~active[t]
  /\ task' = [t \in Ids |-> IF t \in S THEN "gone" ELSE task[t]]
  /\ UNCHANGED << active, jobVars, asked, rep, removedBy, faults, reopens >>

(* The call for several tasks at once: chunk after chunk, each a transaction. *)
BatchDelete ==
  \E S \in SUBSET Ids : Cardinality(S) <= Chunk /\ deleteChunk(S)

-----------------------------------------------------------------------------
Api ==
  \/ \E c \in Calls : \/ \E r \in Requests : CreateCheck(c, r)
                      \/ CreateInsert(c)
                      \/ CreateRefused(c)
  \/ \E j \in JobIds : CancelDeleteJob(j) \/ Purge(j)

RunOnce(r) ==
  \/ \E j \in JobIds : FinishJob(r, j) \/ Claim(r, j)
  \/ DeleteChunk(r)

Tasks ==
  \E t \in Ids : StartTask(t) \/ EndTask(t) \/ RetryTask(t) \/ CommandEnds(t) \/ Delete(t)

Next ==
  \/ Api
  \/ \E r \in Replicas : RunOnce(r) \/ ChunkFails(r) \/ Lost(r)
  \/ Tasks \/ BatchDelete

Spec == Init /\ [][Next]_vars

(* The ticker of a replica fires every second and a chunk is bounded work. *)
FairSpec == Spec /\ \A r \in Replicas : WF_vars(RunOnce(r))

-----------------------------------------------------------------------------
TypeOK ==
  /\ task \in [Ids -> TaskStatus] /\ active \in [Ids -> BOOLEAN]
  /\ njobs \in 0..MaxJobs
  /\ owner \in [JobIds -> Users]
  /\ ids \in [JobIds -> Seq(Ids)]
  /\ processed \in [JobIds -> Nat] /\ deleted \in [JobIds -> Nat] /\ failed \in [JobIds -> Nat]
  /\ status \in [JobIds -> {"none", "pending", "running", "done", "canceled", "purged"}]
  /\ cancel \in [JobIds -> BOOLEAN]
  /\ asked \in [Calls -> Seq(Ids)]
  /\ rep \in [Replicas -> [pc : {"idle", "look"}, job : JobIds \cup {NoJob}, found : SUBSET Ids]]
  /\ removedBy \in [Ids -> JobIds \cup {NoJob}]
  /\ faults \in 0..MaxFaults /\ reopens \in 0..MaxReopens

(* The counters of a job add up at every commit: what is processed was     *)
(* either deleted or recorded as failed, also after failed chunks, lost    *)
(* transactions and tasks that changed between the look and the locks.     *)
Accounts ==
  \A j \in JobIds :
    /\ processed[j] <= Len(ids[j])
    /\ deleted[j] + failed[j] = processed[j]

(* The deleted counter is the number of tasks that this job's transactions *)
(* removed: two jobs that name the same task, or a chunk that is done over *)
(* after a crash, never count it twice (RunDeleteJobs).                    *)
CountsRealDeletes ==
  \A j \in JobIds : deleted[j] = Cardinality({t \in Ids : removedBy[t] = j})

(* No transaction removes a task that runs or has commands at work, even   *)
(* if it qualified when the chunk was looked at (deleteChunkTx).           *)
OnlyIdleTasksGo ==
  [][\A t \in Ids :
       task[t] # "gone" /\ task'[t] = "gone" => deletableStatus(task[t]) /\ ~active[t]]_vars

(* A caller has at most one open job although the check and the INSERT of  *)
(* CreateDeleteJob are two statements.                                     *)
OneOpenJob ==
  \A i, j \in JobIds : OpenJob(i) /\ OpenJob(j) /\ owner[i] = owner[j] => i = j

(* Once a stop is recorded the job removes nothing more (CancelDeleteJob). *)
CancelHolds ==
  [][\A j \in JobIds : cancel[j] => deleted'[j] = deleted[j]]_vars

(* Every job ends: a chunk that fails is passed over, a lost transaction is *)
(* repeated by any replica, and no stream of new jobs overtakes it.         *)
JobsEnd == \A j \in JobIds : OpenJob(j) ~> ~OpenJob(j)
=============================================================================
