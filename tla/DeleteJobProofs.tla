--------------------------- MODULE DeleteJobProofs ---------------------------
(* Proofs about DeleteJob for every set of ids, callers and replicas. *)
EXTENDS DeleteJob, FiniteSetTheorems, TLAPS

Ascending ==
  /\ \A j \in JobIds : Increasing(ids[j])
  /\ \A c \in Calls : Increasing(asked[c])

Unused(j) ==
  /\ status[j] = "none" /\ ids[j] = << >> /\ cancel[j] = FALSE
  /\ processed[j] = 0 /\ deleted[j] = 0 /\ failed[j] = 0

Fresh == \A j \in JobIds : j > njobs => Unused(j)

(* What a replica that has claimed a job may rely on until its commit. *)
ClaimOK(r) ==
  rep[r].pc = "look" =>
    /\ rep[r].job \in JobIds
    /\ OpenJob(rep[r].job)
    /\ cancel[rep[r].job] = FALSE
    /\ processed[rep[r].job] < Len(ids[rep[r].job])
    /\ rep[r].found \subseteq ChunkIds(rep[r].job)

Claims ==
  /\ \A r \in Replicas : ClaimOK(r)
  /\ \A r \in Replicas : rep[r].pc = "idle" => rep[r].job = NoJob
  /\ \A r, q \in Replicas : rep[r].pc = "look" /\ rep[q].pc = "look" /\ r # q
                              => rep[r].job # rep[q].job

Inv == TypeOK /\ Accounts /\ OneOpenJob /\ Ascending /\ Fresh /\ Claims

LEMMA IdsNat == Ids \subseteq Nat
BY JobAssumption, Zenon

-----------------------------------------------------------------------------
LEMMA BoundTypes ==
  /\ Chunk \in Nat /\ Chunk > 0 /\ MaxJobs \in Nat
  /\ MaxFaults \in Nat /\ MaxReopens \in Nat
  /\ NoJob \notin JobIds /\ JobIds \subseteq Nat
<1>1. Chunk \in Nat \ {0} /\ MaxJobs \in Nat /\ MaxFaults \in Nat /\ MaxReopens \in Nat
  BY JobAssumption, Zenon
<1> QED
  BY <1>1 DEF NoJob, JobIds

(* The claims survive a step that leaves the claimed jobs as they are. *)
LEMMA ClaimFrame ==
  ASSUME Claims, rep' = rep,
         \A r \in Replicas : rep[r].pc = "look" =>
            LET j == rep[r].job IN
              /\ ids'[j] = ids[j] /\ processed'[j] = processed[j]
              /\ OpenJob(j)' /\ cancel'[j] = FALSE
  PROVE  Claims'
<1>1. ASSUME NEW r \in Replicas PROVE ClaimOK(r)'
  <2> SUFFICES ASSUME rep[r].pc = "look" PROVE ClaimOK(r)'
    BY Zenon DEF ClaimOK
  <2>1. ClaimOK(r)
    BY Zenon DEF Claims
  <2>2. ids'[rep[r].job] = ids[rep[r].job] /\ processed'[rep[r].job] = processed[rep[r].job]
    BY Zenon
  <2>3. ChunkIds(rep[r].job)' = ChunkIds(rep[r].job)
    BY <2>2, Zenon DEF ChunkIds, ChunkEnd
  <2> QED
    BY <2>1, <2>2, <2>3, Zenon DEF ClaimOK, OpenJob
<1> QED
  BY <1>1, Zenon DEF Claims

(* A step that leaves the jobs, the calls and the replicas alone keeps      *)
(* everything but the types of the tasks.                                  *)
LEMMA JobFrame ==
  ASSUME Inv, UNCHANGED << jobVars, asked, rep >>
  PROVE  Accounts' /\ OneOpenJob' /\ Ascending' /\ Fresh' /\ Claims'
<1> USE DEF Inv, jobVars
<1>1. Accounts'
  BY Zenon DEF Accounts
<1>2. OneOpenJob'
  BY Zenon DEF OneOpenJob, OpenJob
<1>3. Ascending'
  BY Zenon DEF Ascending, Increasing
<1>4. Fresh'
  BY Zenon DEF Fresh, Unused
<1>5. Claims'
  BY ClaimFrame, Zenon DEF Claims, ClaimOK, OpenJob
<1> QED
  BY <1>1, <1>2, <1>3, <1>4, <1>5

LEMMA InitInv == Init => Inv
<1> SUFFICES ASSUME Init PROVE Inv
  OBVIOUS
<1> USE DEF Init
<1>1. TypeOK
  <2>1. owner \in [JobIds -> Users]
    <3> SUFFICES ASSUME NEW j \in JobIds PROVE (CHOOSE u \in Users : TRUE) \in Users
      BY Zenon
    <3> QED
      BY JobAssumption, Zenon
  <2>2. task \in [Ids -> TaskStatus] /\ active \in [Ids -> BOOLEAN]
    BY DEF TaskStatus
  <2>3. rep \in [Replicas -> [pc : {"idle", "look"}, job : JobIds \cup {NoJob}, found : SUBSET Ids]]
    BY DEF IdleRep
  <2>4. cancel \in [JobIds -> BOOLEAN]
    BY Zenon
  <2>5. ids \in [JobIds -> Seq(Ids)] /\ asked \in [Calls -> Seq(Ids)]
    BY DEF Free
  <2> QED
    BY <2>1, <2>2, <2>3, <2>4, <2>5, BoundTypes DEF TypeOK
<1>2. Accounts
  BY DEF Accounts
<1>3. OneOpenJob
  BY DEF OneOpenJob, OpenJob
<1>4. Ascending
  BY DEF Ascending, Increasing, Free
<1>5. Fresh
  BY DEF Fresh, Unused
<1>6. Claims
  BY DEF Claims, ClaimOK, IdleRep
<1> QED
  BY <1>1, <1>2, <1>3, <1>4, <1>5, <1>6 DEF Inv

LEMMA TasksInv == Inv /\ Tasks => Inv'
<1> SUFFICES ASSUME Inv, Tasks PROVE Inv'
  OBVIOUS
<1>1. UNCHANGED << jobVars, asked, rep >>
  BY Zenon DEF Tasks, StartTask, EndTask, RetryTask, CommandEnds, Delete, TaskStep
<1>2. TypeOK'
  <2>1. PICK t \in Ids : StartTask(t) \/ EndTask(t) \/ RetryTask(t) \/ CommandEnds(t) \/ Delete(t)
    BY Zenon DEF Tasks
  <2>2. PICK from, to \in TaskStatus, act \in BOOLEAN : TaskStep(t, from, to, act)
    BY <2>1 DEF StartTask, EndTask, RetryTask, CommandEnds, Delete, TaskStatus, deletableStatus
  <2>3. task' \in [Ids -> TaskStatus]
    BY <2>2, Zenon DEF TaskStep, Inv, TypeOK
  <2>4. active' \in [Ids -> BOOLEAN]
    BY <2>2, Zenon DEF TaskStep, Inv, TypeOK
  <2>5. removedBy' = removedBy /\ faults' = faults
    BY <2>2 DEF TaskStep
  <2>6. reopens' \in 0..MaxReopens
    <3>1. reopens' = reopens \/ (reopens < MaxReopens /\ reopens' = reopens + 1)
      BY <2>1, Zenon DEF StartTask, EndTask, RetryTask, CommandEnds, Delete
    <3> QED
      BY <3>1, BoundTypes DEF Inv, TypeOK
  <2> QED
    BY <1>1, <2>3, <2>4, <2>5, <2>6, Zenon DEF Inv, TypeOK, jobVars
<1> QED
  BY <1>1, <1>2, JobFrame DEF Inv

-----------------------------------------------------------------------------
LEMMA CreateCheckInv ==
  ASSUME Inv, NEW c \in Calls, NEW r \in Requests, CreateCheck(c, r)
  PROVE  Inv'
<1> USE DEF Inv, CreateCheck
<1>1. Uniq(r) \in Seq(Ids) /\ Increasing(Uniq(r))
  BY JobAssumption, Zenon
<1>2. TypeOK'
  <2>1. asked' \in [Calls -> Seq(Ids)]
    BY <1>1, Zenon DEF TypeOK
  <2> QED
    BY <2>1, Zenon DEF TypeOK, taskVars, jobVars
<1>3. Accounts' /\ OneOpenJob'
  BY Zenon DEF Accounts, OneOpenJob, OpenJob, jobVars
<1>4. Ascending'
  <2>1. \A j \in JobIds : Increasing(ids[j])'
    BY Zenon DEF Ascending, Increasing, jobVars
  <2>2. \A d \in Calls : Increasing(asked'[d])
    BY <1>1, Zenon DEF Ascending, TypeOK
  <2> QED
    BY <2>1, <2>2 DEF Ascending, Increasing
<1>5. Fresh'
  BY Zenon DEF Fresh, Unused, jobVars
<1>6. Claims'
  BY ClaimFrame, Zenon DEF Claims, ClaimOK, OpenJob, jobVars
<1> QED
  BY <1>2, <1>3, <1>4, <1>5, <1>6

LEMMA CreateRefusedInv ==
  ASSUME Inv, NEW c \in Calls, CreateRefused(c)
  PROVE  Inv'
<1> USE DEF Inv, CreateRefused
<1>1. Free \in Seq(Ids) /\ Increasing(Free)
  BY DEF Free, Increasing
<1>2. TypeOK'
  <2>1. asked' \in [Calls -> Seq(Ids)]
    BY <1>1, Zenon DEF TypeOK
  <2> QED
    BY <2>1, Zenon DEF TypeOK, taskVars, jobVars
<1>3. Accounts' /\ OneOpenJob'
  BY Zenon DEF Accounts, OneOpenJob, OpenJob, jobVars
<1>4. Ascending'
  <2>1. \A j \in JobIds : Increasing(ids[j])'
    BY Zenon DEF Ascending, Increasing, jobVars
  <2>2. \A d \in Calls : Increasing(asked'[d])
    BY <1>1, Zenon DEF Ascending, TypeOK
  <2> QED
    BY <2>1, <2>2 DEF Ascending, Increasing
<1>5. Fresh'
  BY Zenon DEF Fresh, Unused, jobVars
<1>6. Claims'
  BY ClaimFrame, Zenon DEF Claims, ClaimOK, OpenJob, jobVars
<1> QED
  BY <1>2, <1>3, <1>4, <1>5, <1>6

LEMMA OpenIsUsed == ASSUME Inv, NEW j \in JobIds, OpenJob(j) PROVE j <= njobs
<1>1. njobs \in Nat /\ j \in Nat
  BY BoundTypes DEF Inv, TypeOK
<1>2. ~(j > njobs)
  BY Zenon DEF Inv, Fresh, Unused, OpenJob
<1> QED
  BY <1>1, <1>2

LEMMA CreateInsertInv ==
  ASSUME Inv, NEW c \in Calls, CreateInsert(c)
  PROVE  Inv'
<1> DEFINE n == njobs + 1
<1>0. n \in JobIds /\ n > njobs /\ njobs \in Nat
  BY BoundTypes DEF Inv, TypeOK, CreateInsert, JobIds
<1>1. Unused(n) /\ asked[c] \in Seq(Ids) /\ Increasing(asked[c])
  BY <1>0, Zenon DEF Inv, Fresh, Ascending, TypeOK
<1>a. /\ njobs' = n /\ owner' = [owner EXCEPT ![n] = Caller[c]]
      /\ ids' = [ids EXCEPT ![n] = asked[c]]
      /\ status' = [status EXCEPT ![n] = "pending"]
      /\ asked' = [asked EXCEPT ![c] = Free]
      /\ UniqueOpen(Caller[c])
      /\ UNCHANGED << taskVars, processed, deleted, failed, cancel, rep, removedBy, faults, reopens >>
  BY DEF CreateInsert
<1>b. Inv
  OBVIOUS
<1> HIDE DEF n
<1>2. TypeOK'
  <2>1. Caller[c] \in Users
    BY JobAssumption, Zenon
  <2>2. Free \in Seq(Ids)
    BY DEF Free
  <2>3. n \in 0..MaxJobs
    BY <1>0, BoundTypes DEF JobIds
  <2>4. owner' \in [JobIds -> Users] /\ ids' \in [JobIds -> Seq(Ids)]
    BY <1>a, <1>b, <1>1, <2>1, Zenon DEF Inv, TypeOK
  <2>5. asked' \in [Calls -> Seq(Ids)]
    BY <1>a, <1>b, <2>2, Zenon DEF Inv, TypeOK
  <2>6. status' \in [JobIds -> {"none", "pending", "running", "done", "canceled", "purged"}]
    BY <1>a, <1>b, Zenon DEF Inv, TypeOK
  <2> QED
    BY <1>a, <1>b, <2>3, <2>4, <2>5, <2>6, Zenon DEF Inv, TypeOK, taskVars
<1>3. Accounts'
  <2> SUFFICES ASSUME NEW j \in JobIds
               PROVE  processed'[j] <= Len(ids'[j]) /\ deleted'[j] + failed'[j] = processed'[j]
    BY Zenon DEF Accounts
  <2>1. CASE j = n
    <3>1. processed'[j] = 0 /\ deleted'[j] = 0 /\ failed'[j] = 0
      BY <1>a, <1>1, <2>1, Zenon DEF Unused
    <3>2. ids'[j] = asked[c]
      BY <1>0, <1>a, <1>b, <2>1, Zenon DEF Inv, TypeOK
    <3>3. Len(asked[c]) \in Nat
      BY <1>1
    <3> QED
      BY <3>1, <3>2, <3>3
  <2>2. CASE j # n
    BY <1>a, <1>b, <2>2, Zenon DEF Inv, Accounts, TypeOK
  <2> QED
    BY <2>1, <2>2
<1>4. OneOpenJob'
  <2> SUFFICES ASSUME NEW i \in JobIds, NEW j \in JobIds, OpenJob(i)', OpenJob(j)',
                      owner'[i] = owner'[j]
               PROVE  i = j
    BY Zenon DEF OneOpenJob
  <2>1. ASSUME NEW k \in JobIds, k # n PROVE owner'[k] = owner[k] /\ (OpenJob(k)' <=> OpenJob(k))
    BY <1>a, <1>b, <2>1, Zenon DEF Inv, TypeOK, OpenJob
  <2>2. owner'[n] = Caller[c]
    BY <1>0, <1>a, <1>b, Zenon DEF Inv, TypeOK
  <2>3. CASE i # n /\ j # n
    BY <1>b, <2>1, <2>3, Zenon DEF Inv, OneOpenJob
  <2>4. CASE i = n /\ j # n
    BY <1>a, <2>1, <2>2, <2>4, Zenon DEF UniqueOpen
  <2>5. CASE i # n /\ j = n
    BY <1>a, <2>1, <2>2, <2>5, Zenon DEF UniqueOpen
  <2> QED
    BY <2>3, <2>4, <2>5, Zenon
<1>5. Ascending'
  <2>1. Increasing(Free)
    BY DEF Free, Increasing
  <2>2. \A j \in JobIds : Increasing(ids'[j])
    BY <1>a, <1>b, <1>1, Zenon DEF Inv, Ascending, TypeOK
  <2>3. \A d \in Calls : Increasing(asked'[d])
    BY <1>a, <1>b, <2>1, Zenon DEF Inv, Ascending, TypeOK
  <2> QED
    BY <2>2, <2>3 DEF Ascending, Increasing
<1>6. Fresh'
  <2> SUFFICES ASSUME NEW j \in JobIds, j > njobs' PROVE Unused(j)'
    BY Zenon DEF Fresh
  <2>0. j \in Nat
    BY BoundTypes
  <2>1. j > njobs /\ j # n
    BY <1>0, <1>a, <2>0
  <2>2. Unused(j)
    BY <1>b, <2>1, Zenon DEF Inv, Fresh
  <2> QED
    BY <1>a, <1>b, <2>1, <2>2, Zenon DEF Unused, Inv, TypeOK
<1>7. Claims'
  <2>1. ASSUME NEW r \in Replicas, rep[r].pc = "look"
        PROVE  LET j == rep[r].job IN
                 /\ ids'[j] = ids[j] /\ processed'[j] = processed[j]
                 /\ OpenJob(j)' /\ cancel'[j] = FALSE
    <3> DEFINE j == rep[r].job
    <3>1. j \in JobIds /\ OpenJob(j) /\ cancel[j] = FALSE
      BY <1>b, <2>1, Zenon DEF Inv, Claims, ClaimOK
    <3>2. j # n
      BY <1>1, <3>1, Zenon DEF Unused, OpenJob
    <3> QED
      BY <1>a, <1>b, <3>1, <3>2, Zenon DEF Inv, TypeOK, OpenJob
  <2> QED
    BY <1>a, <1>b, <2>1, ClaimFrame, Zenon DEF Inv
<1> QED
  BY <1>2, <1>3, <1>4, <1>5, <1>6, <1>7 DEF Inv

-----------------------------------------------------------------------------
LEMMA LenTypes == ASSUME Inv, NEW j \in JobIds
                  PROVE  Len(ids[j]) \in Nat /\ processed[j] \in Nat
<1>1. ids[j] \in Seq(Ids) /\ processed[j] \in Nat
  BY Zenon DEF Inv, TypeOK
<1> QED
  BY <1>1

(* A chunk is a non-empty part of the list as long as the job is not done. *)
LEMMA ChunkRange ==
  ASSUME Inv, NEW j \in JobIds
  PROVE  /\ ChunkEnd(j) \in Nat /\ ChunkEnd(j) <= Len(ids[j])
         /\ processed[j] <= Len(ids[j]) => processed[j] <= ChunkEnd(j)
  BY LenTypes, BoundTypes DEF ChunkEnd

LEMMA ChunkInIds ==
  ASSUME Inv, NEW j \in JobIds
  PROVE  ChunkIds(j) \subseteq Ids
<1>1. ids[j] \in Seq(Ids)
  BY Zenon DEF Inv, TypeOK
<1>2. \A k \in processed[j] + 1 .. ChunkEnd(j) : k \in 1..Len(ids[j])
  BY ChunkRange, LenTypes
<1>3. \A k \in 1..Len(ids[j]) : ids[j][k] \in Ids
  BY <1>1
<1> QED
  BY <1>2, <1>3, Zenon DEF ChunkIds

(* The positions of the chunk whose task was not deleted. *)
FailedAt(j, D) == {k \in processed[j] + 1 .. ChunkEnd(j) : ids[j][k] \notin D}

(* The positions of a chunk split into deleted and failed ones: counting   *)
(* the deleted ids and the failed positions gives the length of the chunk, *)
(* because an increasing list names each id once (RecordChunk).            *)
LEMMA ChunkCount ==
  ASSUME Inv, NEW j \in JobIds, processed[j] < Len(ids[j]),
         NEW D, D \subseteq ChunkIds(j)
  PROVE  /\ Cardinality(D) \in Nat /\ Cardinality(FailedAt(j, D)) \in Nat
         /\ Cardinality(D) + Cardinality(FailedAt(j, D)) = ChunkEnd(j) - processed[j]
<1> DEFINE s == ids[j]
           lo == processed[j]
           hi == ChunkEnd(j)
           F == FailedAt(j, D)
           P == lo + 1 .. hi
           K == {k \in P : s[k] \in D}
           g == [k \in K |-> s[k]]
<1>a. s \in Seq(Ids) /\ Increasing(s)
  BY Zenon DEF Inv, TypeOK, Ascending
<1>b. lo \in Nat /\ hi \in Nat /\ Len(s) \in Nat /\ lo <= hi /\ hi <= Len(s)
  BY LenTypes, ChunkRange
<1>c. \A t \in D : \E k \in P : s[k] = t
  BY Zenon DEF ChunkIds
<1>d. \A k : k \in F <=> k \in P /\ s[k] \notin D
  BY Zenon DEF FailedAt
<1> HIDE DEF s, lo, hi, F
<1>1. IsFiniteSet(P) /\ Cardinality(P) = hi - lo
  <2>1. lo + 1 \in Int /\ hi \in Int
    BY <1>b
  <2>2. IsFiniteSet(P) /\ Cardinality(P) = IF lo + 1 > hi THEN 0 ELSE hi - (lo + 1) + 1
    BY <2>1, FS_Interval, Zenon
  <2> QED
    BY <1>b, <2>2
<1>2. IsFiniteSet(K) /\ IsFiniteSet(F)
  <2>1. K \in SUBSET P /\ F \in SUBSET P
    BY <1>d
  <2> HIDE DEF P, K
  <2> QED
    BY <1>1, <2>1, FS_Subset
<1>3. P \subseteq DOMAIN s /\ DOMAIN s = 1..Len(s)
  BY <1>a, <1>b
<1>4. \A i, m \in K : i # m => s[i] # s[m]
  <2> SUFFICES ASSUME NEW i \in K, NEW m \in K, i < m
               PROVE  s[i] # s[m]
    BY <1>3
  <2>1. s[i] < s[m]
    BY <1>a, <1>3 DEF Increasing
  <2>2. s[i] \in Ids /\ s[m] \in Ids
    <3>1. i \in 1..Len(s) /\ m \in 1..Len(s)
      BY <1>3
    <3> HIDE DEF K, P
    <3> QED
      BY <1>a, <3>1
  <2>3. s[i] \in Nat /\ s[m] \in Nat
    BY <2>2, IdsNat, Zenon
  <2> QED
    BY <2>1, <2>3
<1>5. g \in Bijection(K, D)
  <2>1. g \in [K -> D]
    OBVIOUS
  <2>2. \A t \in D : \E k \in K : g[k] = t
    BY <1>c
  <2>3. \A i, m \in K : g[i] = g[m] => i = m
    BY <1>4
  <2> HIDE DEF g, K
  <2> QED
    BY <2>1, <2>2, <2>3, Zenon DEF Bijection, Injection, Surjection, IsInjective
<1>6. IsFiniteSet(D) /\ Cardinality(D) = Cardinality(K)
  <2> HIDE DEF g, K
  <2> QED BY <1>2, <1>5, FS_Bijection DEF ExistsBijection
<1>7. F = P \ K /\ P \cap K = K
  BY <1>d
<1>8. Cardinality(F) = Cardinality(P) - Cardinality(K)
  <2> HIDE DEF P, K
  <2>1. Cardinality(P \ K) = Cardinality(P) - Cardinality(P \cap K)
    BY <1>1, FS_Difference
  <2> QED
    BY <1>7, <2>1
<1>9. Cardinality(K) \in Nat /\ Cardinality(F) \in Nat
  BY <1>2, FS_CardinalityType
<1>10. Cardinality(D) \in Nat /\ Cardinality(F) \in Nat /\ Cardinality(D) + Cardinality(F) = hi - lo
  BY <1>b, <1>1, <1>6, <1>8, <1>9
<1> QED
  BY <1>10 DEF lo, hi, F

LEMMA IdleType ==
  IdleRep \in [pc : {"idle", "look"}, job : JobIds \cup {NoJob}, found : SUBSET Ids]
  BY DEF IdleRep

(* Releasing a claim keeps the claims of the other replicas exclusive.     *)
LEMMA Released ==
  ASSUME TypeOK, Claims, NEW r \in Replicas, rep' = [rep EXCEPT ![r] = IdleRep],
         \A q \in Replicas : q # r => ClaimOK(q)'
  PROVE  Claims'
<1>1. rep'[r] = IdleRep /\ \A q \in Replicas : q # r => rep'[q] = rep[q]
  BY Zenon DEF TypeOK
<1>2. IdleRep.pc = "idle" /\ IdleRep.job = NoJob /\ IdleRep.pc # "look"
  BY DEF IdleRep
<1>3. \A q \in Replicas : ClaimOK(q)'
  BY <1>1, <1>2, Zenon DEF ClaimOK
<1>4. \A q \in Replicas : rep'[q].pc = "idle" => rep'[q].job = NoJob
  BY <1>1, <1>2, Zenon DEF Claims
<1>5. \A p, q \in Replicas : rep'[p].pc = "look" /\ rep'[q].pc = "look" /\ p # q
                              => rep'[p].job # rep'[q].job
  <2> SUFFICES ASSUME NEW p \in Replicas, NEW q \in Replicas,
                      rep'[p].pc = "look", rep'[q].pc = "look", p # q
               PROVE  rep'[p].job # rep'[q].job
    BY Zenon
  <2>1. p # r /\ q # r
    BY <1>1, <1>2, Zenon
  <2> QED
    BY <1>1, <2>1, Zenon DEF Claims
<1> QED
  BY <1>3, <1>4, <1>5 DEF Claims

(* Cancel, Purge and FinishJob write one row that no replica has claimed.  *)
LEMMA UnclaimedRow ==
  ASSUME Inv, NEW j \in JobIds, OpenJob(j) => ~Locked(j),
         UNCHANGED << taskVars, njobs, owner, ids, processed, deleted, failed,
                      asked, rep, removedBy, faults, reopens >>,
         NEW st \in {"none", "pending", "running", "done", "canceled", "purged"},
         NEW cn \in BOOLEAN,
         status' = [status EXCEPT ![j] = st], cancel' = [cancel EXCEPT ![j] = cn],
         OpenJob(j)' => OpenJob(j), j <= njobs
  PROVE  Inv'
<1> USE DEF Inv
<1>0. \A k \in JobIds : k # j => status'[k] = status[k] /\ cancel'[k] = cancel[k]
  BY Zenon DEF TypeOK
<1>1. TypeOK'
  <2>1. status' \in [JobIds -> {"none", "pending", "running", "done", "canceled", "purged"}]
        /\ cancel' \in [JobIds -> BOOLEAN]
    BY Zenon DEF TypeOK
  <2> QED
    BY <2>1, Zenon DEF TypeOK, taskVars
<1>2. Accounts' /\ Ascending'
  BY Zenon DEF Accounts, Ascending, Increasing
<1>3. OneOpenJob'
  <2>1. \A k \in JobIds : OpenJob(k)' => OpenJob(k)
    BY <1>0, Zenon DEF OpenJob
  <2> QED
    BY <2>1, Zenon DEF OneOpenJob
<1>4. Fresh'
  <2> SUFFICES ASSUME NEW k \in JobIds, k > njobs PROVE Unused(k)'
    BY Zenon DEF Fresh
  <2>1. k # j
    BY BoundTypes DEF TypeOK
  <2> QED
    BY <1>0, <2>1, Zenon DEF Fresh, Unused
<1>5. Claims'
  <2>1. ASSUME NEW r \in Replicas, rep[r].pc = "look"
        PROVE  OpenJob(rep[r].job)' /\ cancel'[rep[r].job] = FALSE
    <3>1. rep[r].job \in JobIds /\ OpenJob(rep[r].job) /\ cancel[rep[r].job] = FALSE
      BY <2>1, Zenon DEF Claims, ClaimOK
    <3>2. rep[r].job # j
      BY <3>1, Zenon DEF Locked
    <3> QED
      BY <1>0, <3>1, <3>2, Zenon DEF OpenJob
  <2> QED
    BY <2>1, ClaimFrame, Zenon
<1> QED
  BY <1>1, <1>2, <1>3, <1>4, <1>5

LEMMA CancelInv ==
  ASSUME Inv, NEW j \in JobIds, CancelDeleteJob(j)
  PROVE  Inv'
<1>1. OpenJob(j)' => OpenJob(j)
  BY DEF CancelDeleteJob
<1>2. status' = [status EXCEPT ![j] = status[j]]
  BY Zenon DEF CancelDeleteJob, Inv, TypeOK
<1>3. status[j] \in {"none", "pending", "running", "done", "canceled", "purged"} /\ TRUE \in BOOLEAN
  BY Zenon DEF Inv, TypeOK
<1> QED
  BY <1>1, <1>2, <1>3, OpenIsUsed, UnclaimedRow, Zenon DEF CancelDeleteJob

LEMMA PurgeInv ==
  ASSUME Inv, NEW j \in JobIds, Purge(j)
  PROVE  Inv'
<1>1. ~OpenJob(j)' /\ ~OpenJob(j)
  BY DEF Purge, OpenJob, Inv, TypeOK
<1>2. cancel' = [cancel EXCEPT ![j] = cancel[j]] /\ cancel[j] \in BOOLEAN
  BY Zenon DEF Purge, Inv, TypeOK
<1>3. j <= njobs
  <2>1. ~(j > njobs)
    BY DEF Purge, Inv, Fresh, Unused
  <2> QED
    BY <2>1, BoundTypes DEF Inv, TypeOK
<1> QED
  BY <1>1, <1>2, <1>3, UnclaimedRow, Zenon DEF Purge

LEMMA FinishJobInv ==
  ASSUME Inv, NEW r \in Replicas, NEW j \in JobIds, FinishJob(r, j)
  PROVE  Inv'
<1> DEFINE st == IF cancel[j] /\ processed[j] < Len(ids[j]) THEN "canceled" ELSE "done"
<1>1. st \in {"none", "pending", "running", "done", "canceled", "purged"}
  OBVIOUS
<1>2. cancel' = [cancel EXCEPT ![j] = cancel[j]] /\ cancel[j] \in BOOLEAN
  BY Zenon DEF FinishJob, Inv, TypeOK
<1>3. OpenJob(j) /\ ~Locked(j) /\ j <= njobs
  BY OpenIsUsed, Zenon DEF FinishJob, Claimable
<1>4. status' = [status EXCEPT ![j] = st]
  BY Zenon DEF FinishJob
<1> HIDE DEF st
<1> QED
  BY <1>1, <1>2, <1>3, <1>4, UnclaimedRow, Zenon DEF FinishJob

LEMMA ClaimInv ==
  ASSUME Inv, NEW r \in Replicas, NEW j \in JobIds, Claim(r, j)
  PROVE  Inv'
<1> DEFINE found == {t \in ChunkIds(j) : deletableStatus(task[t])}
           new == [pc |-> "look", job |-> j, found |-> found]
<1>1. rep' = [rep EXCEPT ![r] = new]
  BY Zenon DEF Claim
<1>2. /\ OpenJob(j) /\ ~Locked(j) /\ ~Stops(j)
      /\ UNCHANGED << taskVars, jobVars, asked, removedBy, faults, reopens >>
  BY Zenon DEF Claim, Claimable
<1>3. found \subseteq ChunkIds(j)
  OBVIOUS
<1>4. ChunkIds(j) \subseteq Ids
  BY ChunkInIds
<1>5. new \in [pc : {"idle", "look"}, job : JobIds \cup {NoJob}, found : SUBSET Ids]
  BY <1>3, <1>4
<1>6. new.pc = "look" /\ new.job = j /\ new.found = found
  OBVIOUS
<1> HIDE DEF new, found
<1>7. TypeOK'
  <2>1. rep' \in [Replicas -> [pc : {"idle", "look"}, job : JobIds \cup {NoJob}, found : SUBSET Ids]]
    BY <1>1, <1>5, Zenon DEF Inv, TypeOK
  <2> QED
    BY <1>2, <2>1, Zenon DEF Inv, TypeOK, taskVars, jobVars
<1>8. Accounts' /\ OneOpenJob' /\ Ascending' /\ Fresh'
  BY <1>2, Zenon DEF Inv, Accounts, OneOpenJob, OpenJob, Ascending, Increasing, Fresh, Unused, jobVars
<1>9. Claims'
  <2>1. rep'[r] = new /\ \A q \in Replicas : q # r => rep'[q] = rep[q]
    BY <1>1, Zenon DEF Inv, TypeOK
  <2>2. \A k : OpenJob(k)' = OpenJob(k) /\ ChunkIds(k)' = ChunkIds(k)
    BY <1>2, Zenon DEF OpenJob, ChunkIds, ChunkEnd, jobVars
  <2>3. ASSUME NEW q \in Replicas PROVE ClaimOK(q)'
    <3>1. CASE q = r
      <4>1. cancel[j] = FALSE /\ processed[j] < Len(ids[j])
        BY <1>2, LenTypes DEF Stops, Inv, TypeOK
      <4> QED
        BY <1>2, <1>3, <1>6, <2>1, <2>2, <3>1, <4>1, Zenon DEF ClaimOK, jobVars
    <3>2. CASE q # r
      <4>1. ClaimOK(q) /\ rep'[q] = rep[q]
        BY <2>1, <3>2, Zenon DEF Inv, Claims
      <4> QED
        BY <1>2, <2>2, <4>1, Zenon DEF ClaimOK, jobVars
    <3> QED
      BY <3>1, <3>2
  <2>4. \A q \in Replicas : rep'[q].pc = "idle" => rep'[q].job = NoJob
    BY <1>6, <2>1, Zenon DEF Inv, Claims
  <2>5. ASSUME NEW p \in Replicas, NEW q \in Replicas,
               rep'[p].pc = "look", rep'[q].pc = "look", p # q
        PROVE  rep'[p].job # rep'[q].job
    <3>1. \A s \in Replicas : rep[s].job # j
      BY <1>2, Zenon DEF Locked
    <3> QED
      BY <1>6, <2>1, <2>5, <3>1, Zenon DEF Inv, Claims
  <2> QED
    BY <2>3, <2>4, <2>5, Zenon DEF Claims
<1> QED
  BY <1>7, <1>8, <1>9 DEF Inv

LEMMA LostInv ==
  ASSUME Inv, NEW r \in Replicas, Lost(r)
  PROVE  Inv'
<1>1. /\ rep' = [rep EXCEPT ![r] = IdleRep]
      /\ UNCHANGED << taskVars, jobVars, asked, removedBy, reopens >>
  BY Zenon DEF Lost
<1>2. faults' \in 0..MaxFaults
  BY BoundTypes DEF Lost, Inv, TypeOK
<1>3. TypeOK'
  <2>1. rep' \in [Replicas -> [pc : {"idle", "look"}, job : JobIds \cup {NoJob}, found : SUBSET Ids]]
    BY <1>1, IdleType, Zenon DEF Inv, TypeOK
  <2> QED
    BY <1>1, <1>2, <2>1, Zenon DEF Inv, TypeOK, taskVars, jobVars
<1>4. Accounts' /\ OneOpenJob' /\ Ascending' /\ Fresh'
  BY <1>1, Zenon DEF Inv, Accounts, OneOpenJob, OpenJob, Ascending, Increasing, Fresh, Unused, jobVars
<1>5. Claims'
  <2>1. \A q \in Replicas : q # r => ClaimOK(q)'
    <3> SUFFICES ASSUME NEW q \in Replicas, q # r PROVE ClaimOK(q)'
      BY Zenon
    <3>1. rep'[q] = rep[q] /\ ClaimOK(q)
      BY <1>1, Zenon DEF Inv, TypeOK, Claims
    <3>3. \A k : OpenJob(k)' = OpenJob(k) /\ ChunkIds(k)' = ChunkIds(k)
      BY <1>1, Zenon DEF OpenJob, ChunkIds, ChunkEnd, jobVars
    <3> QED
      BY <1>1, <3>1, <3>3, Zenon DEF ClaimOK, jobVars
  <2> QED
    BY <1>1, <2>1, Released DEF Inv
<1> QED
  BY <1>3, <1>4, <1>5 DEF Inv

-----------------------------------------------------------------------------
LEMMA SumOfParts ==
  ASSUME NEW a \in Nat, NEW b \in Nat, NEW x \in Nat, NEW y \in Nat,
         NEW lo \in Nat, NEW hi \in Nat, a + b = lo, x + y = hi - lo
  PROVE  a + x \in Nat /\ b + y \in Nat /\ (a + x) + (b + y) = hi
  OBVIOUS

(* The commit of a chunk of which the tasks D were deleted.                *)
LEMMA RecordInv ==
  ASSUME Inv, NEW r \in Replicas, rep[r].pc = "look",
         NEW D, D \subseteq rep[r].found,
         RecordChunk(r, rep[r].job, D),
         task' \in [Ids -> TaskStatus], active' = active,
         removedBy' \in [Ids -> JobIds \cup {NoJob}], faults' \in 0..MaxFaults
  PROVE  Inv'
<1> DEFINE j == rep[r].job
           lo == processed[j]
           hi == ChunkEnd(j)
           F == {k \in lo + 1 .. hi : ids[j][k] \notin D}
           st == IF hi >= Len(ids[j]) THEN "done" ELSE "running"
<1>1. j \in JobIds /\ OpenJob(j) /\ cancel[j] = FALSE /\ lo < Len(ids[j])
      /\ rep[r].found \subseteq ChunkIds(j)
  BY Zenon DEF Inv, Claims, ClaimOK
<1>2. lo \in Nat /\ hi \in Nat /\ Len(ids[j]) \in Nat /\ lo <= hi /\ hi <= Len(ids[j])
  BY <1>1, LenTypes, ChunkRange
<1>3. /\ Cardinality(D) \in Nat /\ Cardinality(F) \in Nat
      /\ Cardinality(D) + Cardinality(F) = hi - lo
  <2>1. D \subseteq ChunkIds(j)
    BY <1>1, Zenon
  <2>2. F = FailedAt(j, D)
    BY DEF FailedAt
  <2> HIDE DEF j, F
  <2> QED
    BY <1>1, <2>1, <2>2, ChunkCount, Zenon DEF lo, hi
<1>4. /\ processed' = [processed EXCEPT ![j] = hi]
      /\ deleted' = [deleted EXCEPT ![j] = deleted[j] + Cardinality(D)]
      /\ failed' = [failed EXCEPT ![j] = failed[j] + Cardinality(F)]
      /\ status' = [status EXCEPT ![j] = st]
      /\ rep' = [rep EXCEPT ![r] = IdleRep]
      /\ UNCHANGED << njobs, owner, ids, cancel, asked, reopens >>
  BY DEF RecordChunk, Inv, TypeOK
<1>5. st \in {"running", "done"}
  OBVIOUS
<1> HIDE DEF j, lo, hi, F, st
<1>6. deleted[j] \in Nat /\ failed[j] \in Nat /\ deleted[j] + failed[j] = lo
  BY <1>1, Zenon DEF Inv, TypeOK, Accounts, lo
<1>7. deleted[j] + Cardinality(D) \in Nat /\ failed[j] + Cardinality(F) \in Nat
      /\ (deleted[j] + Cardinality(D)) + (failed[j] + Cardinality(F)) = hi
  <2> DEFINE a == deleted[j]
             b == failed[j]
             x == Cardinality(D)
             y == Cardinality(F)
  <2>1. a \in Nat /\ b \in Nat /\ a + b = lo
    BY <1>6
  <2>2. x \in Nat /\ y \in Nat /\ x + y = hi - lo
    BY <1>3
  <2> HIDE DEF a, b, x, y
  <2>3. a + x \in Nat /\ b + y \in Nat /\ (a + x) + (b + y) = hi
    <3>1. lo \in Nat /\ hi \in Nat
      BY <1>2
    <3>2. a + x \in Nat /\ b + y \in Nat
      BY <2>1, <2>2
    <3>3. (a + x) + (b + y) = (a + b) + (x + y)
      BY <2>1, <2>2
    <3>4. lo + (hi - lo) = hi
      BY <3>1
    <3> QED
      BY <2>1, <2>2, <3>2, <3>3, <3>4, Zenon
  <2> QED
    BY <2>3 DEF a, b, x, y
<1>8. /\ processed'[j] = hi /\ deleted'[j] = deleted[j] + Cardinality(D)
      /\ failed'[j] = failed[j] + Cardinality(F) /\ status'[j] = st
  BY <1>1, <1>4, Zenon DEF Inv, TypeOK
<1>9. \A k \in JobIds : k # j =>
        /\ processed'[k] = processed[k] /\ deleted'[k] = deleted[k]
        /\ failed'[k] = failed[k] /\ status'[k] = status[k]
  BY <1>1, <1>4, Zenon DEF Inv, TypeOK
<1>10. TypeOK'
  <2>1. processed' \in [JobIds -> Nat] /\ deleted' \in [JobIds -> Nat] /\ failed' \in [JobIds -> Nat]
    BY <1>1, <1>2, <1>4, <1>7, Zenon DEF Inv, TypeOK
  <2>2. status' \in [JobIds -> {"none", "pending", "running", "done", "canceled", "purged"}]
    BY <1>4, <1>5, Zenon DEF Inv, TypeOK
  <2>3. rep' \in [Replicas -> [pc : {"idle", "look"}, job : JobIds \cup {NoJob}, found : SUBSET Ids]]
    BY <1>4, IdleType, Zenon DEF Inv, TypeOK
  <2> QED
    BY <1>4, <2>1, <2>2, <2>3, Zenon DEF Inv, TypeOK
<1>11. Accounts'
  <2> SUFFICES ASSUME NEW k \in JobIds
               PROVE  processed'[k] <= Len(ids'[k]) /\ deleted'[k] + failed'[k] = processed'[k]
    BY Zenon DEF Accounts
  <2>1. CASE k = j
    <3>1. processed'[j] <= Len(ids'[j])
      BY <1>2, <1>4, <1>8, Zenon
    <3>2. deleted'[j] + failed'[j] = processed'[j]
      BY <1>7, <1>8, Zenon
    <3> QED
      BY <2>1, <3>1, <3>2, Zenon
  <2>2. CASE k # j
    BY <1>4, <1>9, <2>2, Zenon DEF Inv, Accounts
  <2> QED
    BY <2>1, <2>2
<1>12. OneOpenJob'
  <2>1. \A k \in JobIds : OpenJob(k)' => OpenJob(k)
    BY <1>1, <1>9, Zenon DEF OpenJob
  <2> QED
    BY <1>4, <2>1, Zenon DEF Inv, OneOpenJob
<1>13. Ascending'
  BY <1>4, Zenon DEF Inv, Ascending, Increasing
<1>14. Fresh'
  <2> SUFFICES ASSUME NEW k \in JobIds, k > njobs' PROVE Unused(k)'
    BY Zenon DEF Fresh
  <2>1. Unused(k) /\ k # j
    <3>1. Unused(k)
      BY <1>4, Zenon DEF Inv, Fresh
    <3> QED
      BY <1>1, <3>1, Zenon DEF Unused, OpenJob
  <2> QED
    BY <1>4, <1>9, <2>1, Zenon DEF Unused
<1>15. Claims'
  <2>1. ASSUME NEW q \in Replicas, q # r PROVE ClaimOK(q)'
    <3>1. rep'[q] = rep[q]
      BY <1>4, <2>1, Zenon DEF Inv, TypeOK
    <3> SUFFICES ASSUME rep[q].pc = "look" PROVE ClaimOK(q)'
      BY <3>1, Zenon DEF ClaimOK
    <3>2. ClaimOK(q) /\ rep[q].job # j
      BY <2>1, Zenon DEF Inv, Claims, j
    <3>3. rep[q].job \in JobIds
      BY <3>2, Zenon DEF ClaimOK
    <3>4. processed'[rep[q].job] = processed[rep[q].job] /\ status'[rep[q].job] = status[rep[q].job]
      BY <1>9, <3>2, <3>3, Zenon
    <3>5. ChunkIds(rep[q].job)' = ChunkIds(rep[q].job)
      BY <1>4, <3>1, <3>4, Zenon DEF ChunkIds, ChunkEnd
    <3> QED
      BY <1>4, <3>1, <3>2, <3>4, <3>5, Zenon DEF ClaimOK, OpenJob
  <2> QED
    BY <1>4, <2>1, Released, Zenon DEF Inv
<1> QED
  BY <1>10, <1>11, <1>12, <1>13, <1>14, <1>15 DEF Inv

LEMMA DeleteChunkInv ==
  ASSUME Inv, NEW r \in Replicas, DeleteChunk(r)
  PROVE  Inv'
<1>1. rep[r].pc = "look" /\ RecordChunk(r, rep[r].job, Final(r)) /\ active' = active /\ faults' = faults
  BY Zenon DEF DeleteChunk
<1>2. Final(r) \subseteq rep[r].found
  BY DEF Final
<1>3. task' \in [Ids -> TaskStatus]
  BY DEF DeleteChunk, Inv, TypeOK, TaskStatus
<1>4. rep[r].job \in JobIds \cup {NoJob}
  BY <1>1, Zenon DEF Inv, Claims, ClaimOK
<1>5. removedBy' \in [Ids -> JobIds \cup {NoJob}]
  BY <1>4 DEF DeleteChunk, Inv, TypeOK
<1> QED
  BY <1>1, <1>2, <1>3, <1>5, RecordInv, Zenon DEF Inv, TypeOK

LEMMA ChunkFailsInv ==
  ASSUME Inv, NEW r \in Replicas, ChunkFails(r)
  PROVE  Inv'
<1>1. rep[r].pc = "look" /\ RecordChunk(r, rep[r].job, {}) /\ UNCHANGED << taskVars, removedBy >>
  BY Zenon DEF ChunkFails
<1>2. faults' \in 0..MaxFaults
  BY BoundTypes DEF ChunkFails, Inv, TypeOK
<1>3. task' \in [Ids -> TaskStatus] /\ active' = active /\ removedBy' \in [Ids -> JobIds \cup {NoJob}]
  BY <1>1, Zenon DEF Inv, TypeOK, taskVars
<1>4. {} \subseteq rep[r].found
  OBVIOUS
<1> QED
  BY <1>1, <1>2, <1>3, <1>4, RecordInv

LEMMA BatchDeleteInv == Inv /\ BatchDelete => Inv'
<1> SUFFICES ASSUME Inv, NEW S \in SUBSET Ids, deleteChunk(S) PROVE Inv'
  BY Zenon DEF BatchDelete
<1>1. UNCHANGED << jobVars, asked, rep >>
  BY Zenon DEF deleteChunk
<1>2. task' \in [Ids -> TaskStatus]
  BY DEF deleteChunk, Inv, TypeOK, TaskStatus
<1>3. TypeOK'
  BY <1>1, <1>2, Zenon DEF deleteChunk, Inv, TypeOK, jobVars
<1> QED
  BY <1>1, <1>3, JobFrame DEF Inv

LEMMA NextInv == Inv /\ [Next]_vars => Inv'
<1> SUFFICES ASSUME Inv, [Next]_vars PROVE Inv'
  OBVIOUS
<1>1. CASE Api
  BY <1>1, CreateCheckInv, CreateInsertInv, CreateRefusedInv, CancelInv, PurgeInv, Zenon DEF Api
<1>2. CASE \E r \in Replicas : RunOnce(r) \/ ChunkFails(r) \/ Lost(r)
  BY <1>2, FinishJobInv, ClaimInv, DeleteChunkInv, ChunkFailsInv, LostInv, Zenon DEF RunOnce
<1>3. CASE Tasks
  BY <1>3, TasksInv
<1>5. CASE BatchDelete
  BY <1>5, BatchDeleteInv
<1>4. CASE UNCHANGED vars
  <2>1. UNCHANGED << jobVars, asked, rep >> /\ TypeOK'
    BY <1>4, Zenon DEF vars, taskVars, jobVars, Inv, TypeOK
  <2> QED
    BY <2>1, JobFrame DEF Inv
<1> QED
  BY <1>1, <1>2, <1>3, <1>4, <1>5 DEF Next

-----------------------------------------------------------------------------
(* The inductive invariant holds in every behaviour. *)
THEOREM InvHolds == Spec => []Inv
  BY InitInv, NextInv, PTL DEF Spec

(* Whatever chunks fail, transactions are lost or tasks change meanwhile,  *)
(* the counters of every delete job add up (runDeleteJobOnce).             *)
THEOREM JobAccounts == Spec => []Accounts
<1>1. Inv => Accounts
  BY DEF Inv
<1> QED
  BY <1>1, InvHolds, PTL

(* Two calls of CreateDeleteJob between the other's check and INSERT still *)
(* leave their caller with one open job.                                   *)
THEOREM OneJobPerCaller == Spec => []OneOpenJob
<1>1. Inv => OneOpenJob
  BY DEF Inv
<1> QED
  BY <1>1, InvHolds, PTL

(* A chunk removes a task only if it qualifies under the locks, however    *)
(* long ago it was looked at (deleteChunkTx, Delete).                      *)
THEOREM RunningTasksStay == Spec => OnlyIdleTasksGo
<1>1. Inv /\ [Next]_vars =>
        [\A t \in Ids :
           task[t] # "gone" /\ task'[t] = "gone" => deletableStatus(task[t]) /\ ~active[t]]_vars
  <2> SUFFICES ASSUME Inv, Next, NEW t \in Ids, task[t] # "gone", task'[t] = "gone"
               PROVE  deletableStatus(task[t]) /\ ~active[t]
    BY Zenon
  <2>0. task \in [Ids -> TaskStatus]
    BY DEF Inv, TypeOK
  <2>1. CASE Api
    BY <2>1, Zenon DEF Api, CreateCheck, CreateInsert, CreateRefused, CancelDeleteJob, Purge, taskVars
  <2>2. CASE \E r \in Replicas : RunOnce(r) \/ ChunkFails(r) \/ Lost(r)
    <3>1. PICK r \in Replicas : RunOnce(r) \/ ChunkFails(r) \/ Lost(r)
      BY <2>2
    <3>2. task' = task \/ DeleteChunk(r)
      BY <3>1, Zenon DEF RunOnce, ChunkFails, Lost, FinishJob, Claim, taskVars
    <3>3. CASE DeleteChunk(r)
      BY <3>3, Zenon DEF DeleteChunk, Final
    <3> QED
      BY <3>2, <3>3
  <2>3. CASE Tasks
    <3>1. PICK s \in Ids : StartTask(s) \/ EndTask(s) \/ RetryTask(s) \/ CommandEnds(s) \/ Delete(s)
      BY <2>3, Zenon DEF Tasks
    <3>2. CASE Delete(s)
      <4>1. task' = [task EXCEPT ![s] = "gone"]
        BY <3>2, Zenon DEF Delete, TaskStep
      <4>2. s = t
        BY <2>0, <4>1, Zenon
      <4> QED
        BY <3>2, <4>2, Zenon DEF Delete
    <3>3. CASE ~Delete(s)
      <4>1. PICK to \in {"running", "ended"} : task' = [task EXCEPT ![s] = to]
        BY <3>1, <3>3 DEF StartTask, EndTask, RetryTask, CommandEnds, TaskStep
      <4>2. CASE s = t
        <5>1. task'[t] = to
          BY <2>0, <4>1, <4>2, Zenon
        <5> QED
          BY <5>1
      <4>3. CASE s # t
        BY <2>0, <4>1, <4>3, Zenon
      <4> QED
        BY <4>2, <4>3
    <3> QED
      BY <3>2, <3>3
  <2>4. CASE BatchDelete
    <3>1. PICK S \in SUBSET Ids : deleteChunk(S)
      BY <2>4, Zenon DEF BatchDelete
    <3> QED
      BY <3>1, Zenon DEF deleteChunk
  <2> QED
    BY <2>1, <2>2, <2>3, <2>4 DEF Next
<1> QED
  BY <1>1, InvHolds, PTL DEF Spec, OnlyIdleTasksGo

(* A recorded stop request is obeyed by every later transaction            *)
(* (CancelDeleteJob): the replica that would go on read it under the lock. *)
THEOREM StopIsObeyed == Spec => CancelHolds
<1>1. Inv /\ [Next]_vars =>
        [\A j \in JobIds : cancel[j] => deleted'[j] = deleted[j]]_vars
  <2> SUFFICES ASSUME Inv, Next, NEW j \in JobIds, cancel[j] PROVE deleted'[j] = deleted[j]
    BY Zenon
  <2>1. CASE Api
    BY <2>1, Zenon DEF Api, CreateCheck, CreateInsert, CreateRefused, CancelDeleteJob, Purge, jobVars
  <2>2. CASE \E r \in Replicas : RunOnce(r) \/ ChunkFails(r) \/ Lost(r)
    <3>1. PICK r \in Replicas : RunOnce(r) \/ ChunkFails(r) \/ Lost(r)
      BY <2>2
    <3>2. CASE DeleteChunk(r) \/ ChunkFails(r)
      <4>1. PICK D : RecordChunk(r, rep[r].job, D) /\ rep[r].pc = "look"
        BY <3>2, Zenon DEF DeleteChunk, ChunkFails
      <4>2. rep[r].job # j
        BY <4>1, Zenon DEF Inv, Claims, ClaimOK
      <4> QED
        BY <4>1, <4>2, Zenon DEF RecordChunk, Inv, TypeOK
    <3>3. CASE ~(DeleteChunk(r) \/ ChunkFails(r))
      BY <3>1, <3>3, Zenon DEF RunOnce, Lost, FinishJob, Claim, jobVars
    <3> QED
      BY <3>2, <3>3
  <2>3. CASE Tasks
    BY <2>3, Zenon DEF Tasks, StartTask, EndTask, RetryTask, CommandEnds, Delete, TaskStep, jobVars
  <2>4. CASE BatchDelete
    BY <2>4, Zenon DEF BatchDelete, deleteChunk, jobVars
  <2> QED
    BY <2>1, <2>2, <2>3, <2>4 DEF Next
<1> QED
  BY <1>1, InvHolds, PTL DEF Spec, CancelHolds

-----------------------------------------------------------------------------
(* What a job removed stays away and is counted: the tasks that job j      *)
(* removed are finitely many, and its counter is their number.             *)
RemovedByJob(j) == {t \in Ids : removedBy[t] = j}

CountInv ==
  /\ \A t \in Ids : removedBy[t] # NoJob => task[t] = "gone"
  /\ \A j \in JobIds : IsFiniteSet(RemovedByJob(j)) /\ deleted[j] = Cardinality(RemovedByJob(j))

LEMMA InitCount == Init => CountInv
<1> SUFFICES ASSUME Init PROVE CountInv
  OBVIOUS
<1>1. \A t \in Ids : removedBy[t] = NoJob
  BY Zenon DEF Init
<1>2. \A j \in JobIds : RemovedByJob(j) = {} /\ deleted[j] = 0
  BY <1>1, BoundTypes DEF RemovedByJob, Init
<1> QED
  BY <1>1, <1>2, FS_EmptySet DEF CountInv

(* A step of anyone but a replica that commits a chunk counts nothing. *)
LEMMA CountFrame ==
  ASSUME CountInv, removedBy' = removedBy, deleted' = deleted,
         \A t \in Ids : task[t] = "gone" => task'[t] = "gone"
  PROVE  CountInv'
<1>1. \A j \in JobIds : RemovedByJob(j)' = RemovedByJob(j)
  BY Zenon DEF RemovedByJob
<1> QED
  BY <1>1, Zenon DEF CountInv

LEMMA ImageIsFinite ==
  ASSUME NEW S, IsFiniteSet(S), NEW f
  PROVE  IsFiniteSet({f[k] : k \in S})
<1> DEFINE T == {f[k] : k \in S}
<1> DEFINE g == [k \in S |-> f[k]]
<1>1. g \in Surjection(S, T)
  BY DEF Surjection
<1> HIDE DEF g, T
<1>2. IsFiniteSet(T)
  BY <1>1, FS_Surjection, Zenon
<1> QED
  BY <1>2 DEF T

(* The tasks a chunk deletes are finitely many. *)
LEMMA ChunkIsFinite ==
  ASSUME Inv, NEW r \in Replicas, rep[r].pc = "look"
  PROVE  IsFiniteSet(Final(r)) /\ Final(r) \subseteq Ids
<1> DEFINE j == rep[r].job
<1> DEFINE places == processed[j] + 1 .. ChunkEnd(j)
<1>1. j \in JobIds /\ rep[r].found \subseteq ChunkIds(j)
  BY Zenon DEF Inv, Claims, ClaimOK
<1>2. processed[j] \in Nat /\ ids[j] \in Seq(Ids)
  BY <1>1, Zenon DEF Inv, TypeOK
<1>3. ChunkEnd(j) \in Nat
  BY <1>2, BoundTypes DEF ChunkEnd
<1>4. IsFiniteSet(places)
  <2>1. processed[j] + 1 \in Int /\ ChunkEnd(j) \in Int
    BY <1>2, <1>3
  <2> QED
    BY <2>1, FS_Interval, Zenon
<1>5. IsFiniteSet({ids[j][k] : k \in places})
  BY <1>4, ImageIsFinite, Zenon
<1>6. Final(r) \subseteq {ids[j][k] : k \in places}
  BY <1>1 DEF Final, ChunkIds
<1>7. Final(r) \subseteq Ids
  BY Zenon DEF Final, Inv, TypeOK
<1> QED
  BY <1>5, <1>6, <1>7, FS_Subset, Zenon

LEMMA DeleteChunkCounts ==
  ASSUME Inv, CountInv, NEW r \in Replicas, DeleteChunk(r)
  PROVE  CountInv'
<1>0. PICK j, D : j = rep[r].job /\ D = Final(r)
  OBVIOUS
<1>1. rep[r].pc = "look" /\ RecordChunk(r, j, D)
  BY <1>0, Zenon DEF DeleteChunk
<1>2. j \in JobIds /\ j # NoJob
  BY <1>0, <1>1, BoundTypes, Zenon DEF Inv, Claims, ClaimOK
<1>3. IsFiniteSet(D) /\ D \subseteq Ids
  BY <1>0, <1>1, ChunkIsFinite, Zenon
<1>4. \A t \in D : removedBy[t] = NoJob
  BY <1>0, <1>3 DEF CountInv, Final, deletableStatus
<1>5. \A t \in Ids : removedBy'[t] = IF t \in D THEN j ELSE removedBy[t]
  BY <1>0, Zenon DEF DeleteChunk
<1>6. RemovedByJob(j)' = RemovedByJob(j) \cup D
  BY <1>3, <1>5 DEF RemovedByJob
<1>7. RemovedByJob(j) \cap D = {}
  BY <1>2, <1>4 DEF RemovedByJob
<1>8. IsFiniteSet(RemovedByJob(j)) /\ deleted[j] = Cardinality(RemovedByJob(j))
  BY <1>2, Zenon DEF CountInv
<1>9. IsFiniteSet(RemovedByJob(j) \cup D)
  BY <1>3, <1>8, FS_Union, Zenon
<1>10. Cardinality(RemovedByJob(j) \cup D) = Cardinality(RemovedByJob(j)) + Cardinality(D)
  <2>1. Cardinality(RemovedByJob(j) \cup D)
          = Cardinality(RemovedByJob(j)) + Cardinality(D) - Cardinality(RemovedByJob(j) \cap D)
    BY <1>3, <1>8, FS_Union, Zenon
  <2>2. Cardinality(RemovedByJob(j) \cap D) = 0
    BY <1>7, FS_EmptySet, Zenon
  <2>3. Cardinality(RemovedByJob(j)) \in Nat /\ Cardinality(D) \in Nat
    BY <1>3, <1>8, FS_CardinalityType, Zenon
  <2> QED
    BY <2>1, <2>2, <2>3
<1>11. deleted' = [deleted EXCEPT ![j] = @ + Cardinality(D)]
  BY <1>1, Zenon DEF RecordChunk
<1>12. ASSUME NEW i \in JobIds
       PROVE  IsFiniteSet(RemovedByJob(i)') /\ deleted'[i] = Cardinality(RemovedByJob(i)')
  <2>1. CASE i = j
    <3>1. deleted'[i] = deleted[j] + Cardinality(D)
      BY <1>2, <1>11, <2>1, Zenon DEF Inv, TypeOK
    <3> QED
      BY <2>1, <3>1, <1>6, <1>8, <1>9, <1>10, Zenon
  <2>2. CASE i # j
    <3>1. deleted'[i] = deleted[i]
      BY <1>2, <1>11, <2>2, Zenon DEF Inv, TypeOK
    <3>2. i # NoJob
      BY BoundTypes, Zenon
    <3>3. RemovedByJob(i)' = RemovedByJob(i)
      BY <1>4, <1>5, <2>2, <3>2 DEF RemovedByJob
    <3> QED
      BY <3>1, <3>3, Zenon DEF CountInv
  <2> QED
    BY <2>1, <2>2
<1>13. \A t \in Ids : removedBy'[t] # NoJob => task'[t] = "gone"
  BY <1>0, <1>5, Zenon DEF DeleteChunk, CountInv
<1> QED
  BY <1>12, <1>13, Zenon DEF CountInv

LEMMA NextCount == Inv /\ CountInv /\ [Next]_vars => CountInv'
<1> SUFFICES ASSUME Inv, CountInv, [Next]_vars PROVE CountInv'
  OBVIOUS
<1>0. task \in [Ids -> TaskStatus] /\ deleted \in [JobIds -> Nat]
  BY DEF Inv, TypeOK
<1>1. CASE Api
  <2>1. task' = task /\ removedBy' = removedBy /\ deleted' = deleted
    BY <1>1, Zenon DEF Api, CreateCheck, CreateInsert, CreateRefused, CancelDeleteJob, Purge, taskVars, jobVars
  <2> QED
    BY <2>1, CountFrame, Zenon
<1>2. CASE \E r \in Replicas : RunOnce(r) \/ ChunkFails(r) \/ Lost(r)
  <2>1. PICK r \in Replicas : RunOnce(r) \/ ChunkFails(r) \/ Lost(r)
    BY <1>2
  <2>2. CASE DeleteChunk(r)
    BY <2>2, DeleteChunkCounts
  <2>3. CASE ChunkFails(r)
    <3>1. task' = task /\ removedBy' = removedBy
      BY <2>3, Zenon DEF ChunkFails, taskVars
    <3>2. rep[r].job \in JobIds
      BY <2>3, Zenon DEF ChunkFails, Inv, Claims, ClaimOK
    <3>3. deleted' = [deleted EXCEPT ![rep[r].job] = @ + 0]
      BY <2>3, FS_EmptySet, Zenon DEF ChunkFails, RecordChunk
    <3>4. deleted' = deleted
      BY <1>0, <3>2, <3>3
    <3> QED
      BY <3>1, <3>4, CountFrame, Zenon
  <2>4. CASE ~DeleteChunk(r) /\ ~ChunkFails(r)
    <3>1. task' = task /\ removedBy' = removedBy /\ deleted' = deleted
      BY <2>1, <2>4, Zenon DEF RunOnce, Lost, FinishJob, Claim, taskVars, jobVars
    <3> QED
      BY <3>1, CountFrame, Zenon
  <2> QED
    BY <2>2, <2>3, <2>4
<1>3. CASE Tasks
  <2>1. PICK t \in Ids : StartTask(t) \/ EndTask(t) \/ RetryTask(t) \/ CommandEnds(t) \/ Delete(t)
    BY <1>3, Zenon DEF Tasks
  <2>2. removedBy' = removedBy /\ deleted' = deleted
    BY <2>1, Zenon DEF StartTask, EndTask, RetryTask, CommandEnds, Delete, TaskStep, jobVars
  <2>3. PICK to : task' = [task EXCEPT ![t] = to] /\ (task[t] = "gone" => to = "gone")
    BY <2>1 DEF StartTask, EndTask, RetryTask, CommandEnds, Delete, TaskStep
  <2>4. \A s \in Ids : task[s] = "gone" => task'[s] = "gone"
    BY <1>0, <2>3, Zenon
  <2> QED
    BY <2>2, <2>4, CountFrame, Zenon
<1>4. CASE BatchDelete
  <2>1. PICK S \in SUBSET Ids : deleteChunk(S)
    BY <1>4, Zenon DEF BatchDelete
  <2>2. removedBy' = removedBy /\ deleted' = deleted
    BY <2>1, Zenon DEF deleteChunk, jobVars
  <2>3. \A s \in Ids : task[s] = "gone" => task'[s] = "gone"
    BY <2>1, Zenon DEF deleteChunk
  <2> QED
    BY <2>2, <2>3, CountFrame, Zenon
<1>5. CASE UNCHANGED vars
  BY <1>5, CountFrame, Zenon DEF vars, taskVars, jobVars
<1> QED
  BY <1>1, <1>2, <1>3, <1>4, <1>5 DEF Next

(* Each deletion a job reports was made by a transaction of that job and   *)
(* is counted once, though chunks are done over after a crash and jobs     *)
(* name the same tasks (deleteChunkTx, runDeleteJobOnce).                  *)
THEOREM DeletionsAreReal == Spec => []CountsRealDeletes
<1>1. CountInv => CountsRealDeletes
  BY Zenon DEF CountInv, CountsRealDeletes, RemovedByJob
<1> QED
  BY <1>1, InitCount, NextCount, InvHolds, PTL DEF Spec
=============================================================================
