---------------------------- MODULE HostRemoval -----------------------------
(***************************************************************************)
(* Deleting hosts, one by one or in jobs that every replica of the server  *)
(* works on, while tasks are created for them.  A job deletes a chunk of   *)
(* its hosts and records its progress in one transaction, each host behind *)
(* a savepoint; it keeps the rows of the hosts it deleted locked until the *)
(* commit.  A task's transaction holds a share of the row of every host it *)
(* has inserted a record for (the foreign key), so the two may wait for    *)
(* each other until the database ends one of them.                         *)
(***************************************************************************)
EXTENDS Integers, Sequences, FiniteSets, Relation

CONSTANTS
  RemHosts,       \* ids of hosts
  RemJobs,        \* ids of jobs; each administrator has one of them
  HostLists,      \* the sets of hosts that requests name
  Replicas,       \* replicas of the server
  hostDeleteJobChunk,
  MaxCreations,   \* bound: tasks created
  MaxStops        \* bound: replicas that stop

ASSUME HostRemovalAssumption ==
  /\ RemHosts \subseteq Nat /\ IsFiniteSet(RemHosts) /\ RemJobs \subseteq Nat
  /\ HostLists \subseteq SUBSET RemHosts /\ {} \notin HostLists
  /\ hostDeleteJobChunk \in Nat \ {0} /\ MaxCreations \in Nat /\ MaxStops \in Nat

NoJob == [status |-> "none", ids |-> << >>, processed |-> 0, deleted |-> 0,
          failed |-> 0, cancel |-> FALSE]
NoChunk == [job |-> 0, todo |-> << >>, gone |-> {}, failed |-> {}]

VARIABLES
  hRow,           \* the hosts that exist
  hWork,          \* hosts with a pending or running record of a committed task
  hNew,           \* the task being created: hosts to do and hosts done
  hJob,           \* the rows of host_delete_jobs
  hTx,            \* the chunk each replica is at
  hBy,            \* history: the hosts each job has deleted
  hCreations, hStops   \* bounds

hVars == << hRow, hWork, hNew, hJob, hTx, hBy, hCreations, hStops >>

HostRemovalInit ==
  /\ hRow = RemHosts
  /\ hWork = {}
  /\ hNew = [todo |-> {}, done |-> {}]
  /\ hJob = [j \in RemJobs |-> NoJob]
  /\ hTx = [r \in Replicas |-> NoChunk]
  /\ hBy = [j \in RemJobs |-> {}]
  /\ hCreations = 0
  /\ hStops = 0

\* The list of a job is kept in the order of the ids.
Ascending(s) ==
  CHOOSE q \in [1 .. Cardinality(s) -> s] : \A i, j \in DOMAIN q : i < j => q[i] < q[j]

HeldBy(r) == hTx[r].gone
\* Does not lock the row of the job.
JobLockedMutant(j) == FALSE

\* A replica works on the job and holds its row.
JobLocked(j) == \E r \in Replicas : hTx[r].job = j

\* Does not wait for records that are being inserted.
HostFreeMutant(h, r) == \A q \in Replicas \ {r} : h \notin HeldBy(q)

\* Nobody else holds the row of h: no chunk that deleted it, and no
\* transaction that inserted a record for it.
HostFree(h, r) == h \notin hNew.done /\ \A q \in Replicas \ {r} : h \notin HeldBy(q)
-----------------------------------------------------------------------------
(* Tasks *)

CreateBegins(hs) ==
  /\ hNew.todo = {} /\ hNew.done = {} /\ hCreations < MaxCreations
  /\ hs \subseteq hRow
  /\ hNew' = [todo |-> hs, done |-> {}]
  /\ hCreations' = hCreations + 1
  /\ UNCHANGED << hRow, hWork, hJob, hTx, hBy, hStops >>

\* Inserts the record of a host; a host that is gone undoes the task.
CreateInserts(h) ==
  /\ h \in hNew.todo /\ \A r \in Replicas : h \notin HeldBy(r)
  /\ hNew' = IF h \in hRow THEN [todo |-> hNew.todo \ {h}, done |-> hNew.done \cup {h}]
             ELSE [todo |-> {}, done |-> {}]
  /\ UNCHANGED << hRow, hWork, hJob, hTx, hBy, hCreations, hStops >>

CreateCommits ==
  /\ hNew.todo = {} /\ hNew.done # {}
  /\ hWork' = hWork \cup hNew.done
  /\ hNew' = [todo |-> {}, done |-> {}]
  /\ UNCHANGED << hRow, hJob, hTx, hBy, hCreations, hStops >>

WorkEnds(h) ==
  /\ h \in hWork
  /\ hWork' = hWork \ {h}
  /\ UNCHANGED << hRow, hNew, hJob, hTx, hBy, hCreations, hStops >>
-----------------------------------------------------------------------------
(* Deletion *)

Deletable(h, r) == h \in hRow \ HeldBy(r) /\ h \notin hWork

\* One host in a transaction of its own.
deleteHost(h) ==
  /\ h \in hRow \ hWork /\ h \notin hNew.done /\ \A q \in Replicas : h \notin HeldBy(q)
  /\ hRow' = hRow \ {h}
  /\ UNCHANGED << hWork, hNew, hJob, hTx, hBy, hCreations, hStops >>

\* Host by host; the hosts that stay are answered as failed.
HostBatchDelete == \E h \in RemHosts : deleteHost(h)

\* An administrator has one unfinished job at a time.
HostDeleteJobCreate(j, hs) ==
  /\ hJob[j] = NoJob
  /\ hJob' = [hJob EXCEPT ![j] = [NoJob EXCEPT !.status = "pending", !.ids = Ascending(hs)]]
  /\ UNCHANGED << hRow, hWork, hNew, hTx, hBy, hCreations, hStops >>

\* Waits for the chunk that holds the row.
HostDeleteJobCancel(j) ==
  /\ hJob[j].status \in {"pending", "running"} /\ ~JobLocked(j)
  /\ ~hJob[j].cancel
  /\ hJob' = [hJob EXCEPT ![j].cancel = TRUE]
  /\ UNCHANGED << hRow, hWork, hNew, hTx, hBy, hCreations, hStops >>

Waiting == {j \in RemJobs : hJob[j].status \in {"pending", "running"} /\ ~JobLocked(j)}

JobOver(j) == hJob[j].cancel \/ hJob[j].processed >= Len(hJob[j].ids)

\* Where the next chunk of the list ends.
ChunkEnd(j) ==
  IF hJob[j].processed + hostDeleteJobChunk < Len(hJob[j].ids)
  THEN hJob[j].processed + hostDeleteJobChunk ELSE Len(hJob[j].ids)

\* Takes the oldest job nobody works on: ends it, or begins its next chunk.
runHostDeleteJobOnce(r) ==
  /\ hTx[r] = NoChunk
  /\ \E j \in Waiting :
       /\ \A i \in Waiting : j <= i
       /\ IF JobOver(j)
          THEN /\ hJob' = [hJob EXCEPT ![j].status =
                    IF hJob[j].processed < Len(hJob[j].ids) THEN "canceled" ELSE "done"]
               /\ UNCHANGED hTx
          ELSE /\ hTx' = [hTx EXCEPT ![r] = [NoChunk EXCEPT !.job = j,
                    !.todo = SubSeq(hJob[j].ids, hJob[j].processed + 1, ChunkEnd(j))]]
               /\ UNCHANGED hJob
  /\ UNCHANGED << hRow, hWork, hNew, hBy, hCreations, hStops >>

\* The next host of the chunk: waits for its row, then deletes it or notes
\* why not and goes back to the savepoint.
deleteHostTx(r) ==
  /\ hTx[r].todo # << >>
  /\ LET h == Head(hTx[r].todo)
     IN  /\ h \in hRow => HostFree(h, r)
         /\ hTx' = [hTx EXCEPT ![r] =
              [job |-> @.job, todo |-> Tail(@.todo),
               gone |-> IF Deletable(h, r) THEN @.gone \cup {h} ELSE @.gone,
               failed |-> IF Deletable(h, r) THEN @.failed ELSE @.failed \cup {h}]]
  /\ UNCHANGED << hRow, hWork, hNew, hJob, hBy, hCreations, hStops >>

\* The deletions and the progress become visible together.
CommitChunk(r) ==
  /\ hTx[r] # NoChunk /\ hTx[r].todo = << >>
  /\ LET j == hTx[r].job
         end == ChunkEnd(j)
     IN  /\ hJob' = [hJob EXCEPT ![j].processed = end,
                       ![j].deleted = @ + Cardinality(hTx[r].gone),
                       ![j].failed = @ + Cardinality(hTx[r].failed),
                       ![j].status = IF end >= Len(hJob[j].ids) THEN "done" ELSE "running"]
         /\ hBy' = [hBy EXCEPT ![j] = @ \cup hTx[r].gone]
  /\ hRow' = hRow \ hTx[r].gone
  /\ hWork' = hWork \ hTx[r].gone
  /\ hTx' = [hTx EXCEPT ![r] = NoChunk]
  /\ UNCHANGED << hNew, hCreations, hStops >>

\* The replica stops, or a statement outside a savepoint fails.
StopReplica(r) ==
  /\ hTx[r] # NoChunk /\ hStops < MaxStops
  /\ hTx' = [hTx EXCEPT ![r] = NoChunk]
  /\ hStops' = hStops + 1
  /\ UNCHANGED << hRow, hWork, hNew, hJob, hBy, hCreations >>

\* Replica q waits for a row that r holds.
WaitsFor ==
  [q, r \in Replicas |-> hTx[q].todo # << >> /\ Head(hTx[q].todo) \in HeldBy(r)]

\* The task waits for r, or for a replica that waits for r.
OnCycle(r) ==
  \E q \in Replicas :
    /\ hNew.todo \cap HeldBy(q) # {}
    /\ ReflexiveTransitiveClosure(WaitsFor, Replicas)[q, r]

\* A chunk waits for a task that waits for it: the database fails one of them.
BreakDeadlock(r) ==
  /\ hTx[r].todo # << >> /\ Head(hTx[r].todo) \in hNew.done
  /\ OnCycle(r)
  /\ \/ /\ hNew' = [todo |-> {}, done |-> {}]
        /\ UNCHANGED hTx
     \/ /\ hTx' = [hTx EXCEPT ![r] = [job |-> @.job, todo |-> Tail(@.todo), gone |-> @.gone,
                                       failed |-> @.failed \cup {Head(@.todo)}]]
        /\ UNCHANGED hNew
  /\ UNCHANGED << hRow, hWork, hJob, hBy, hCreations, hStops >>
-----------------------------------------------------------------------------
ReplicaStep(r) == runHostDeleteJobOnce(r) \/ deleteHostTx(r) \/ CommitChunk(r) \/ BreakDeadlock(r)
CreateStep == CreateCommits \/ \E h \in RemHosts : CreateInserts(h)

HostRemovalNext ==
  \/ \E hs \in HostLists :
       CreateBegins(hs) \/ \E j \in RemJobs : HostDeleteJobCreate(j, hs)
  \/ CreateStep
  \/ (\E h \in RemHosts : WorkEnds(h)) \/ HostBatchDelete
  \/ \E j \in RemJobs : HostDeleteJobCancel(j)
  \/ \E r \in Replicas : ReplicaStep(r) \/ StopReplica(r)

HostRemovalTypeOK ==
  /\ hRow \subseteq RemHosts /\ hWork \subseteq RemHosts
  /\ \A j \in RemJobs : hJob[j].status \in {"none", "pending", "running", "done", "canceled"}
  /\ \A r \in Replicas : hTx[r].gone \subseteq hRow
  /\ hStops \in 0 .. MaxStops

\* Whatever a task has committed for a host keeps the host: deletions and the
\* creation of tasks are ordered by the host's row.
ActiveWorkSurvives == [][\A h \in hRow \cap hWork : h \in hRow']_hVars

\* A job counts every host of its list once, as deleted or as failed, though
\* replicas stop in the middle of chunks and jobs meet on the same hosts.
JobCountsOnce ==
  \A j \in RemJobs :
    /\ hJob[j].processed = hJob[j].deleted + hJob[j].failed
    /\ hJob[j].deleted = Cardinality(hBy[j])
    /\ hJob[j].status = "done" => hJob[j].processed = Len(hJob[j].ids)

\* What a job reports is what it did.
HostJobsInv == HostRemovalTypeOK /\ JobCountsOnce
=============================================================================
