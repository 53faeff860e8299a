---------------------------- MODULE PlatformProofs ---------------------------
(***************************************************************************)
(* Proofs about the shared services of the platform, for any number of     *)
(* users, teams, uploads, goroutines, artifacts, hosts and replicas, and   *)
(* any limits, strategies and settings.                                    *)
(***************************************************************************)
EXTENDS MCPlatform, FiniteSetTheorems, TLAPS

(* The upload limiter and the connection pool *)

LEMMA ClampedRange ==
  ASSUME NEW n \in Int
  PROVE  Clamped(n) \in 1 .. maxArtifactUploadConcurrency
<1>1. /\ maxArtifactUploadConcurrency \in Nat
      /\ defaultArtifactUploadConcurrency \in Nat \ {0}
      /\ defaultArtifactUploadConcurrency <= maxArtifactUploadConcurrency
  BY ConcurrencyAssumption
<1> QED
  BY <1>1 DEF Clamped

\* The requests that have a slot, by a given pc.
Holders(pc) == {u \in Uploads : pc[u] \in {"woken", "in"}}

PcStates == {"out", "waiting", "woken", "in"}

LEMMA HoldersFinite ==
  ASSUME NEW pc
  PROVE  IsFiniteSet(Holders(pc)) /\ Cardinality(Holders(pc)) \in Nat
<1>1. Holders(pc) \in SUBSET Uploads
  BY DEF Holders
<1>2. IsFiniteSet(Holders(pc))
  BY <1>1, FS_Subset, UploadsAssumption, Zenon
<1> QED
  BY <1>2, FS_CardinalityType, Zenon

\* Handing out slots keeps the accounts, and ends with no slot or no request.
LEMMA WakeAccounts ==
  ASSUME NEW active \in Nat, NEW pc \in [Uploads -> PcStates],
         active = Cardinality(Holders(pc)),
         lWaiters = {u \in Uploads : pc[u] = "waiting"},
         lLimit' \in 1 .. maxArtifactUploadConcurrency,
         maxArtifactUploadConcurrency \in Nat,
         wakeLocked(active, pc)
  PROVE  /\ lActive' \in Nat /\ lWaiters' \subseteq Uploads
         /\ lPc' \in [Uploads -> PcStates]
         /\ lActive' = Cardinality(Holders(lPc'))
         /\ lWaiters' = {u \in Uploads : lPc'[u] = "waiting"}
         /\ lWaiters' # {} => lActive' >= lLimit'
         /\ lActive' > active => lActive' <= lLimit'
<1>1. PICK woken \in SUBSET lWaiters :
        /\ woken # {} => active + Cardinality(woken) <= lLimit'
        /\ woken # lWaiters => active + Cardinality(woken) >= lLimit'
        /\ lWaiters' = lWaiters \ woken
        /\ lActive' = active + Cardinality(woken)
        /\ lPc' = [u \in Uploads |-> IF u \in woken THEN "woken" ELSE pc[u]]
  BY Zenon DEF wakeLocked
<1>2. woken \in SUBSET Uploads
  BY <1>1
<1>3. IsFiniteSet(woken) /\ Cardinality(woken) \in Nat
  BY <1>2, FS_Subset, FS_CardinalityType, UploadsAssumption, Zenon
<1>4. lPc' \in [Uploads -> PcStates]
  BY <1>1 DEF PcStates
<1>5. \A u \in Uploads : lPc'[u] = IF u \in woken THEN "woken" ELSE pc[u]
  BY <1>1, Zenon
<1>6. \A u \in woken : pc[u] = "waiting"
  BY <1>1
<1>7. Holders(lPc') = Holders(pc) \cup woken
  BY <1>2, <1>5, <1>6 DEF Holders
<1>8. Holders(pc) \cap woken = {}
  BY <1>6 DEF Holders
<1>9. Cardinality(Holders(lPc')) = active + Cardinality(woken)
  <2>1. Cardinality(Holders(pc) \cup woken)
          = Cardinality(Holders(pc)) + Cardinality(woken) - Cardinality(Holders(pc) \cap woken)
    BY <1>3, HoldersFinite, FS_Union, Zenon
  <2>2. Cardinality(Holders(pc) \cap woken) = 0
    BY <1>8, FS_EmptySet, Zenon
  <2> QED
    BY <1>3, <1>7, <2>1, <2>2
<1>10. lWaiters' = {u \in Uploads : lPc'[u] = "waiting"}
  BY <1>1, <1>2, <1>5
<1>11. lWaiters' # {} => woken # lWaiters
  BY <1>1
<1>12. lActive' \in Nat /\ (lActive' > active => woken # {})
  <2>1. Cardinality({}) = 0
    BY FS_EmptySet, Zenon
  <2>2. woken = {} => Cardinality(woken) = 0
    BY <2>1
  <2> QED
    BY <1>1, <1>3, <2>2
<1> QED
  BY <1>1, <1>2, <1>4, <1>9, <1>10, <1>11, <1>12
-----------------------------------------------------------------------------
(* The limiter *)

LEMMA InitAccounts == LimiterInit => LimiterInv
<1> SUFFICES ASSUME LimiterInit PROVE LimiterInv
  OBVIOUS
<1>1. lLimit \in 1 .. maxArtifactUploadConcurrency
  <2>1. PICK n \in LimitChoices : lLimit = Clamped(n)
    BY DEF LimiterInit
  <2>2. n \in Int
    BY ConcurrencyAssumption
  <2> QED
    BY <2>1, <2>2, ClampedRange
<1>2. /\ lActive = 0 /\ lWaiters = {} /\ lGone = {}
      /\ lPc = [u \in Uploads |-> "out"]
  BY DEF LimiterInit
<1>3. {u \in Uploads : lPc[u] \in {"woken", "in"}} = {}
  BY <1>2
<1>4. lActive = Cardinality({u \in Uploads : lPc[u] \in {"woken", "in"}})
  BY <1>2, <1>3, FS_EmptySet, Zenon
<1> QED
  BY <1>1, <1>2, <1>4 DEF LimiterInv, LimiterTypeOK, SlotsAccounted, NoIdleSlot

\* What a step of the limiter owes.
LimiterKept == LimiterInv' /\ (lActive' > lActive => lActive' <= lLimit')

LEMMA Unfolded ==
  LimiterInv <=>
    /\ lLimit \in 1 .. maxArtifactUploadConcurrency /\ lActive \in Nat
    /\ lWaiters \subseteq Uploads /\ lGone \subseteq Uploads
    /\ lPc \in [Uploads -> PcStates]
    /\ lActive = Cardinality(Holders(lPc))
    /\ lWaiters = {u \in Uploads : lPc[u] = "waiting"}
    /\ lWaiters # {} => lActive >= lLimit
BY Zenon DEF LimiterInv, LimiterTypeOK, SlotsAccounted, NoIdleSlot, PcStates, Holders

LEMMA UnfoldedNext ==
  LimiterInv' <=>
    /\ lLimit' \in 1 .. maxArtifactUploadConcurrency /\ lActive' \in Nat
    /\ lWaiters' \subseteq Uploads /\ lGone' \subseteq Uploads
    /\ lPc' \in [Uploads -> PcStates]
    /\ lActive' = Cardinality(Holders(lPc'))
    /\ lWaiters' = {u \in Uploads : lPc'[u] = "waiting"}
    /\ lWaiters' # {} => lActive' >= lLimit'
BY Zenon DEF LimiterInv, LimiterTypeOK, SlotsAccounted, NoIdleSlot, PcStates, Holders

\* One more holder, and one less.
LEMMA HolderComes ==
  ASSUME NEW pc \in [Uploads -> PcStates], NEW u \in Uploads, pc[u] \in {"out", "waiting"},
         NEW s \in {"woken", "in"}
  PROVE  Cardinality(Holders([pc EXCEPT ![u] = s])) = Cardinality(Holders(pc)) + 1
<1>1. Holders([pc EXCEPT ![u] = s]) = Holders(pc) \cup {u} /\ u \notin Holders(pc)
  BY DEF Holders, PcStates
<1> QED
  BY <1>1, HoldersFinite, FS_AddElement, Zenon

LEMMA HolderGoes ==
  ASSUME NEW pc \in [Uploads -> PcStates], NEW u \in Uploads, pc[u] \in {"woken", "in"},
         NEW s \in {"out", "waiting"}
  PROVE  Cardinality(Holders([pc EXCEPT ![u] = s])) = Cardinality(Holders(pc)) - 1
<1>1. Holders([pc EXCEPT ![u] = s]) = Holders(pc) \ {u} /\ u \in Holders(pc)
  BY DEF Holders, PcStates
<1> QED
  BY <1>1, HoldersFinite, FS_RemoveElement, Zenon

LEMMA SameHolders ==
  ASSUME NEW pc \in [Uploads -> PcStates], NEW u \in Uploads, NEW s \in PcStates,
         pc[u] \in {"woken", "in"} <=> s \in {"woken", "in"}
  PROVE  Holders([pc EXCEPT ![u] = s]) = Holders(pc)
BY DEF Holders, PcStates

LEMMA ReleaseKeeps ==
  ASSUME LimiterInv, NEW u \in Uploads, lPc[u] \in {"woken", "in"}, release(u)
  PROVE  LimiterKept
<1> DEFINE pc == [lPc EXCEPT ![u] = "out"]
           active == IF lActive > 0 THEN lActive - 1 ELSE lActive
<1>0. maxArtifactUploadConcurrency \in Nat
  BY ConcurrencyAssumption
<1>1. /\ lLimit' = lLimit /\ lGone' = lGone \ {u}
      /\ wakeLocked(active, pc)
  BY Zenon DEF release
<1>2. Cardinality(Holders(pc)) = Cardinality(Holders(lPc)) - 1
  BY HolderGoes, Unfolded, Zenon
<1>3. Cardinality(Holders(pc)) \in Nat
  BY HoldersFinite, Zenon
<1>4. active \in Nat /\ active = Cardinality(Holders(pc)) /\ active < lActive
  BY <1>2, <1>3, Unfolded
<1>5. pc \in [Uploads -> PcStates]
  BY Unfolded DEF PcStates
<1>6. lWaiters = {x \in Uploads : pc[x] = "waiting"}
  BY Unfolded DEF PcStates
<1>7. lLimit' \in 1 .. maxArtifactUploadConcurrency
  BY <1>1, Unfolded
<1> HIDE DEF pc, active
<1>8. /\ lActive' \in Nat /\ lWaiters' \subseteq Uploads
      /\ lPc' \in [Uploads -> PcStates]
      /\ lActive' = Cardinality(Holders(lPc'))
      /\ lWaiters' = {x \in Uploads : lPc'[x] = "waiting"}
      /\ lWaiters' # {} => lActive' >= lLimit'
      /\ lActive' > active => lActive' <= lLimit'
  BY <1>0, <1>1, <1>4, <1>5, <1>6, <1>7, WakeAccounts, Zenon
<1>9. lGone' \subseteq Uploads
  BY <1>1, Unfolded
<1>10. lActive' > lActive => lActive' > active
  BY <1>4, <1>8, Unfolded
<1> QED
  BY <1>7, <1>8, <1>9, <1>10, UnfoldedNext, Zenon DEF LimiterKept

LEMMA AcquireKeeps ==
  ASSUME LimiterInv, NEW u \in Uploads, Acquire(u)
  PROVE  LimiterKept
<1>1. lPc[u] = "out" /\ lLimit' = lLimit /\ lGone' = lGone
  BY DEF Acquire
<1>2. CASE lActive < lLimit
  <2>1. lActive' = lActive + 1 /\ lPc' = [lPc EXCEPT ![u] = "in"] /\ lWaiters' = lWaiters
    BY <1>2 DEF Acquire
  <2>2. Cardinality(Holders(lPc')) = lActive'
    BY <1>1, <2>1, HolderComes, Unfolded, Zenon
  <2>3. lPc' \in [Uploads -> PcStates] /\ lWaiters' = {x \in Uploads : lPc'[x] = "waiting"}
    BY <1>1, <2>1, Unfolded DEF PcStates
  <2>4. lActive' \in Nat /\ lActive' <= lLimit' /\ (lWaiters' # {} => lActive' >= lLimit')
    BY <1>1, <1>2, <2>1, Unfolded, ConcurrencyAssumption
  <2> QED
    BY <1>1, <2>1, <2>2, <2>3, <2>4, Unfolded, UnfoldedNext, Zenon DEF LimiterKept
<1>3. CASE ~(lActive < lLimit)
  <2>1. /\ lActive' = lActive /\ lPc' = [lPc EXCEPT ![u] = "waiting"]
        /\ lWaiters' = lWaiters \cup {u}
    BY <1>3 DEF Acquire
  <2>2. Holders(lPc') = Holders(lPc)
    BY <1>1, <2>1, SameHolders, Unfolded, Zenon DEF PcStates
  <2>3. lPc' \in [Uploads -> PcStates] /\ lWaiters' = {x \in Uploads : lPc'[x] = "waiting"}
    BY <1>1, <2>1, Unfolded DEF PcStates
  <2>4. lActive' >= lLimit' /\ ~(lActive' > lActive)
    BY <1>1, <1>3, <2>1, Unfolded, ConcurrencyAssumption
  <2>5. lWaiters' \subseteq Uploads
    BY <2>3
  <2> QED
    BY <1>1, <2>1, <2>2, <2>3, <2>4, <2>5, Unfolded, UnfoldedNext, Zenon DEF LimiterKept
<1> QED
  BY <1>2, <1>3

LEMMA QuietKeeps ==
  ASSUME LimiterInv, lLimit' = lLimit, lActive' = lActive, lWaiters' = lWaiters, lPc' = lPc,
         lGone' \subseteq Uploads
  PROVE  LimiterKept
<1>1. ~(lActive' > lActive)
  BY Unfolded
<1> QED
  BY <1>1, Unfolded, UnfoldedNext, Zenon DEF LimiterKept

LEMMA ResumeKeeps ==
  ASSUME LimiterInv, NEW u \in Uploads, Resume(u)
  PROVE  LimiterKept
<1>1. lPc[u] = "woken"
  BY DEF Resume
<1>2. CASE u \in lGone
  BY <1>1, <1>2, ReleaseKeeps, Zenon DEF Resume
<1>3. CASE u \notin lGone
  <2>1. lPc' = [lPc EXCEPT ![u] = "in"] /\ UNCHANGED << lLimit, lActive, lWaiters, lGone >>
    BY <1>3 DEF Resume
  <2>2. Holders(lPc') = Holders(lPc)
    BY <1>1, <2>1, SameHolders, Unfolded, Zenon DEF PcStates
  <2>3. lPc' \in [Uploads -> PcStates] /\ lWaiters' = {x \in Uploads : lPc'[x] = "waiting"}
    BY <1>1, <2>1, Unfolded DEF PcStates
  <2>4. ~(lActive' > lActive)
    BY <2>1, Unfolded
  <2> QED
    BY <2>1, <2>2, <2>3, <2>4, Unfolded, UnfoldedNext, Zenon DEF LimiterKept
<1> QED
  BY <1>2, <1>3

LEMMA AbandonKeeps ==
  ASSUME LimiterInv, NEW u \in Uploads, Abandon(u)
  PROVE  LimiterKept
<1>1. /\ lPc[u] = "waiting" /\ lWaiters' = lWaiters \ {u} /\ lGone' = lGone \ {u}
      /\ lPc' = [lPc EXCEPT ![u] = "out"] /\ lLimit' = lLimit /\ lActive' = lActive
  BY DEF Abandon
<1>2. Holders(lPc') = Holders(lPc)
  BY <1>1, SameHolders, Unfolded, Zenon DEF PcStates
<1>3. lPc' \in [Uploads -> PcStates] /\ lWaiters' = {x \in Uploads : lPc'[x] = "waiting"}
  BY <1>1, Unfolded DEF PcStates
<1>4. ~(lActive' > lActive) /\ (lWaiters' # {} => lWaiters # {})
      /\ lGone' \subseteq Uploads /\ lWaiters' \subseteq Uploads
  BY <1>1, Unfolded
<1> QED
  BY <1>1, <1>2, <1>3, <1>4, Unfolded, UnfoldedNext, Zenon DEF LimiterKept

LEMMA SetLimitKeeps ==
  ASSUME LimiterInv, NEW n \in LimitChoices, setLimit(n)
  PROVE  LimiterKept
<1>1. lLimit' = Clamped(n) /\ wakeLocked(lActive, lPc) /\ lGone' = lGone
  BY Zenon DEF setLimit
<1>2. lLimit' \in 1 .. maxArtifactUploadConcurrency
  BY <1>1, ClampedRange, ConcurrencyAssumption
<1>3. maxArtifactUploadConcurrency \in Nat
  BY ConcurrencyAssumption
<1>4. /\ lActive' \in Nat /\ lWaiters' \subseteq Uploads
      /\ lPc' \in [Uploads -> PcStates]
      /\ lActive' = Cardinality(Holders(lPc'))
      /\ lWaiters' = {x \in Uploads : lPc'[x] = "waiting"}
      /\ lWaiters' # {} => lActive' >= lLimit'
      /\ lActive' > lActive => lActive' <= lLimit'
  BY <1>1, <1>2, <1>3, Unfolded, WakeAccounts, Zenon
<1> QED
  BY <1>1, <1>2, <1>4, Unfolded, UnfoldedNext, Zenon DEF LimiterKept

LEMMA StepKeeps ==
  ASSUME LimiterInv, [LimiterNext]_lVars
  PROVE  LimiterKept
<1>1. ASSUME NEW u \in Uploads, Acquire(u) PROVE LimiterKept
  BY <1>1, AcquireKeeps, Zenon
<1>2. ASSUME NEW u \in Uploads, ClientLeaves(u) PROVE LimiterKept
  <2>1. lGone' = lGone \cup {u} /\ UNCHANGED << lLimit, lActive, lWaiters, lPc >>
    BY <1>2 DEF ClientLeaves
  <2>2. lGone' \subseteq Uploads
    BY <2>1, Unfolded
  <2> QED
    BY <2>1, <2>2, QuietKeeps, Zenon
<1>3. ASSUME NEW u \in Uploads, Resume(u) PROVE LimiterKept
  BY <1>3, ResumeKeeps, Zenon
<1>4. ASSUME NEW u \in Uploads, Abandon(u) PROVE LimiterKept
  BY <1>4, AbandonKeeps, Zenon
<1>5. ASSUME NEW u \in Uploads, Finish(u) PROVE LimiterKept
  <2>1. lPc[u] \in {"woken", "in"} /\ release(u)
    BY <1>5, Zenon DEF Finish
  <2> QED
    BY <2>1, ReleaseKeeps, Zenon
<1>6. ASSUME NEW n \in LimitChoices, setLimit(n) PROVE LimiterKept
  BY <1>6, SetLimitKeeps, Zenon
<1>7. CASE UNCHANGED lVars
  BY <1>7, QuietKeeps, Unfolded DEF lVars
<1> QED
  BY <1>1, <1>2, <1>3, <1>4, <1>5, <1>6, <1>7, Zenon DEF LimiterNext

\* Slots are neither lost nor handed out twice and none is free while a request
\* waits, however the limit changes and whoever leaves (acquire, release,
\* setLimit).
THEOREM SlotsAreKept == LimiterSpec => []LimiterInv
<1>1. LimiterInv /\ [LimiterNext]_lVars => LimiterInv'
  BY StepKeeps DEF LimiterKept
<1> QED
  BY <1>1, InitAccounts, PTL DEF LimiterSpec

\* The number of uploads grows only up to the limit in force (acquire, setLimit).
THEOREM GrowthIsLimited == LimiterSpec => NeverAboveLimit
<1>1. LimiterInv /\ [LimiterNext]_lVars => [lActive' > lActive => lActive' <= lLimit']_lVars
  BY StepKeeps DEF LimiterKept
<1> QED
  BY <1>1, SlotsAreKept, PTL DEF LimiterSpec, NeverAboveLimit
-----------------------------------------------------------------------------
(* The pool *)

LEMMA PoolStepsAreLimiterSteps ==
  ASSUME [PoolNext]_<< lVars, pVars >>
  PROVE  [LimiterNext]_lVars
<1>1. ASSUME NEW u \in Uploads, UploadEnds(u) PROVE LimiterNext
  BY <1>1, Zenon DEF UploadEnds, LimiterNext
<1>2. ASSUME NEW n \in LimitChoices, ReloadLimiter(n) PROVE LimiterNext
  BY <1>2, Zenon DEF ReloadLimiter, LimiterNext
<1>3. ASSUME NEW u \in Uploads, SaveLocks(u) PROVE lVars' = lVars
  BY <1>3, Zenon DEF SaveLocks
<1>4. ASSUME NEW r \in Removals, RemovalLocks(r) \/ RemovalWorks(r) \/ RemovalLeaves(r)
      PROVE  lVars' = lVars
  BY <1>4, Zenon DEF RemovalLocks, RemovalWorks, RemovalLeaves
<1>5. ReloadPool => lVars' = lVars
  BY Zenon DEF ReloadPool
<1>6. ASSUME NEW u \in Uploads, Acquire(u) \/ ClientLeaves(u) \/ Resume(u) \/ Abandon(u)
      PROVE  LimiterNext
  BY <1>6, Zenon DEF LimiterNext
<1> QED
  BY <1>1, <1>2, <1>3, <1>4, <1>5, <1>6, Zenon DEF PoolNext

\* With its connections the limiter is still the limiter (AcquireUploadSlot).
THEOREM PoolUsesLimiter == PoolSpec => LimiterSpec
<1>1. PoolInit => LimiterInit
  BY DEF PoolInit
<1> QED
  BY <1>1, PoolStepsAreLimiterSteps, PTL DEF PoolSpec, LimiterSpec

\* The shape of the pool; the upload with a connection has a slot, and the pool
\* follows the limiter but while ReloadArtifactSettings is between the two.
PoolShape ==
  /\ pHolds \subseteq Uploads \cup Removals
  /\ pMax = 0 \/ (pMax \in Nat /\ pMax >= 5)
  /\ pReload \subseteq LimitChoices

PoolFollows ==
  /\ pMax # 0 /\ pReload = {} => pMax >= lLimit + 4
  /\ \A n \in pReload : lLimit = Clamped(n)

HoldersIn(holds, pc) == \A u \in holds \cap Uploads : pc[u] = "in"

PoolIInv == LimiterInv /\ PoolShape /\ PoolFollows /\ HoldersIn(pHolds, lPc)

LEMMA PoolFloor ==
  ASSUME NEW n \in Int
  PROVE  tuneDBPool(n) = 0 \/ (tuneDBPool(n) \in Nat /\ tuneDBPool(n) >= Clamped(n) + 4
                                /\ tuneDBPool(n) >= 5)
<1>1. Clamped(n) \in Nat /\ Clamped(n) >= 1
  BY ClampedRange, ConcurrencyAssumption
<1>2. BaseConns \in Nat
  BY PoolAssumption
<1> QED
  BY <1>1, <1>2 DEF tuneDBPool

LEMMA PoolIInvInit == PoolInit => PoolIInv
<1> SUFFICES ASSUME PoolInit PROVE PoolIInv
  OBVIOUS
<1>0. LimiterInv
  BY InitAccounts DEF PoolInit
<1>1. lLimit \in Int /\ lLimit \in 1 .. maxArtifactUploadConcurrency
  BY <1>0, Unfolded, ConcurrencyAssumption
<1>2. pMax = tuneDBPool(lLimit) /\ pHolds = {} /\ pReload = {}
  BY DEF PoolInit
<1>3. Clamped(lLimit) = lLimit
  BY <1>1, ConcurrencyAssumption DEF Clamped
<1>4. PoolShape /\ PoolFollows
  BY <1>1, <1>2, <1>3, PoolFloor DEF PoolShape, PoolFollows
<1> QED
  BY <1>0, <1>2, <1>4 DEF PoolIInv, HoldersIn

\* Waking and releasing leave every other request that is in where it is.
LEMMA ReleaseLeavesIn ==
  ASSUME LimiterInv, NEW u \in Uploads, release(u)
  PROVE  lLimit' = lLimit /\ \A x \in Uploads \ {u} : lPc[x] = "in" => lPc'[x] = "in"
<1>1. lLimit' = lLimit
  BY Zenon DEF release
<1>2. wakeLocked(IF lActive > 0 THEN lActive - 1 ELSE lActive, [lPc EXCEPT ![u] = "out"])
  BY Zenon DEF release
<1>3. PICK woken \in SUBSET lWaiters :
        lPc' = [x \in Uploads |-> IF x \in woken THEN "woken" ELSE [lPc EXCEPT ![u] = "out"][x]]
  BY <1>2, Zenon DEF wakeLocked
<1>4. \A x \in woken : lPc[x] = "waiting"
  BY <1>3, Unfolded
<1>5. \A x \in Uploads \ {u} : lPc[x] = "in" => lPc'[x] = "in"
  BY <1>3, <1>4, Unfolded
<1> QED
  BY <1>1, <1>5

LEMMA SetLimitLeavesIn ==
  ASSUME LimiterInv, NEW n \in LimitChoices, setLimit(n)
  PROVE  lLimit' = Clamped(n) /\ \A x \in Uploads : lPc[x] = "in" => lPc'[x] = "in"
<1>1. lLimit' = Clamped(n) /\ wakeLocked(lActive, lPc)
  BY Zenon DEF setLimit
<1>2. PICK woken \in SUBSET lWaiters :
        lPc' = [x \in Uploads |-> IF x \in woken THEN "woken" ELSE lPc[x]]
  BY <1>1, Zenon DEF wakeLocked
<1>3. \A x \in woken : lPc[x] = "waiting"
  BY <1>2, Unfolded
<1> QED
  BY <1>1, <1>2, <1>3, Unfolded

\* What a request does before its upload leaves the limit and those that are in.
LEMMA RequestLeavesIn ==
  ASSUME LimiterInv, NEW u \in Uploads, Acquire(u) \/ ClientLeaves(u) \/ Resume(u) \/ Abandon(u)
  PROVE  lLimit' = lLimit /\ \A x \in Uploads : lPc[x] = "in" => lPc'[x] = "in"
<1>1. CASE Acquire(u)
  <2>1. lLimit' = lLimit /\ lPc[u] = "out"
        /\ (lPc' = [lPc EXCEPT ![u] = "in"] \/ lPc' = [lPc EXCEPT ![u] = "waiting"])
    BY <1>1 DEF Acquire
  <2> QED
    BY <2>1, Unfolded
<1>2. CASE ClientLeaves(u)
  BY <1>2 DEF ClientLeaves
<1>3. CASE Resume(u)
  <2>1. lPc[u] = "woken"
    BY <1>3 DEF Resume
  <2>2. CASE release(u)
    BY <2>1, <2>2, ReleaseLeavesIn
  <2>3. CASE lPc' = [lPc EXCEPT ![u] = "in"] /\ lLimit' = lLimit
    BY <2>1, <2>3, Unfolded
  <2> QED
    BY <1>3, <2>2, <2>3, Zenon DEF Resume
<1>4. CASE Abandon(u)
  <2>1. lPc[u] = "waiting" /\ lPc' = [lPc EXCEPT ![u] = "out"] /\ lLimit' = lLimit
    BY <1>4 DEF Abandon
  <2> QED
    BY <2>1, Unfolded
<1> QED
  BY <1>1, <1>2, <1>3, <1>4

\* What the limiter leaves alone keeps the invariant of the pool.
LEMMA PoolUntouched ==
  ASSUME PoolIInv, LimiterInv', lLimit' = lLimit, pMax' = pMax, pReload' = pReload,
         pHolds' \subseteq Uploads \cup Removals, HoldersIn(pHolds', lPc')
  PROVE  PoolIInv'
BY DEF PoolIInv, PoolShape, PoolFollows, HoldersIn

LEMMA PoolIInvStep ==
  ASSUME PoolIInv, [PoolNext]_<< lVars, pVars >>
  PROVE  PoolIInv'
<1>0. LimiterInv /\ LimiterInv'
  BY PoolStepsAreLimiterSteps, StepKeeps, Zenon DEF LimiterKept, PoolIInv
<1>1. pHolds \subseteq Uploads \cup Removals /\ HoldersIn(pHolds, lPc)
  BY DEF PoolIInv, PoolShape
<1>2. ASSUME NEW u \in Uploads,
             (Acquire(u) \/ ClientLeaves(u) \/ Resume(u) \/ Abandon(u)) /\ UNCHANGED pVars
      PROVE  PoolIInv'
  <2>1. lLimit' = lLimit /\ \A x \in Uploads : lPc[x] = "in" => lPc'[x] = "in"
    BY <1>0, <1>2, RequestLeavesIn, Zenon
  <2>2. pMax' = pMax /\ pHolds' = pHolds /\ pReload' = pReload
    BY <1>2, Zenon DEF pVars
  <2>3. HoldersIn(pHolds', lPc')
    BY <1>1, <2>1, <2>2 DEF HoldersIn
  <2> QED
    BY <1>0, <1>1, <2>1, <2>2, <2>3, PoolUntouched, Zenon
<1>3. ASSUME NEW u \in Uploads, SaveLocks(u) PROVE PoolIInv'
  <2>1. /\ pHolds' = pHolds \cup {u} /\ lPc[u] = "in"
        /\ lLimit' = lLimit /\ lPc' = lPc /\ pMax' = pMax /\ pReload' = pReload
    BY <1>3 DEF SaveLocks, lVars
  <2>2. HoldersIn(pHolds', lPc') /\ pHolds' \subseteq Uploads \cup Removals
    BY <1>1, <2>1 DEF HoldersIn
  <2> QED
    BY <1>0, <2>1, <2>2, PoolUntouched, Zenon
<1>4. ASSUME NEW u \in Uploads, UploadEnds(u) PROVE PoolIInv'
  <2>1. pHolds' = pHolds \ {u} /\ pMax' = pMax /\ pReload' = pReload
    BY <1>4, Zenon DEF UploadEnds
  <2>2. release(u)
    BY <1>4, Zenon DEF UploadEnds, Finish
  <2>3. lLimit' = lLimit /\ \A x \in Uploads \ {u} : lPc[x] = "in" => lPc'[x] = "in"
    BY <1>0, <2>2, ReleaseLeavesIn, Zenon
  <2>4. HoldersIn(pHolds', lPc') /\ pHolds' \subseteq Uploads \cup Removals
    BY <1>1, <2>1, <2>3 DEF HoldersIn
  <2> QED
    BY <1>0, <2>1, <2>3, <2>4, PoolUntouched, Zenon
<1>5. ASSUME NEW r \in Removals, RemovalLocks(r) \/ RemovalWorks(r) \/ RemovalLeaves(r)
      PROVE  PoolIInv'
  <2>1. /\ pHolds' = pHolds \cup {r} \/ pHolds' = pHolds \ {r}
        /\ lLimit' = lLimit /\ lPc' = lPc /\ pMax' = pMax /\ pReload' = pReload
    BY <1>5 DEF RemovalLocks, RemovalWorks, RemovalLeaves, lVars
  <2>2. r \notin Uploads
    BY PoolAssumption
  <2>3. HoldersIn(pHolds', lPc') /\ pHolds' \subseteq Uploads \cup Removals
    BY <1>1, <2>1, <2>2 DEF HoldersIn
  <2> QED
    BY <1>0, <2>1, <2>3, PoolUntouched, Zenon
<1>6. ASSUME NEW n \in LimitChoices, ReloadLimiter(n) PROVE PoolIInv'
  <2>1. pReload' = {n} /\ pMax' = pMax /\ pHolds' = pHolds
    BY <1>6, Zenon DEF ReloadLimiter
  <2>2. lLimit' = Clamped(n) /\ \A x \in Uploads : lPc[x] = "in" => lPc'[x] = "in"
    BY <1>0, <1>6, SetLimitLeavesIn, Zenon DEF ReloadLimiter
  <2>3. PoolShape' /\ PoolFollows'
    BY <2>1, <2>2 DEF PoolIInv, PoolShape, PoolFollows
  <2>4. HoldersIn(pHolds', lPc')
    BY <1>1, <2>1, <2>2 DEF HoldersIn
  <2> QED
    BY <1>0, <2>3, <2>4 DEF PoolIInv
<1>7. ASSUME ReloadPool PROVE PoolIInv'
  <2>1. PICK n \in pReload : /\ pMax' = tuneDBPool(n) /\ pReload' = {} /\ pHolds' = pHolds
                             /\ lLimit' = lLimit /\ lPc' = lPc
    BY <1>7 DEF ReloadPool, lVars
  <2>2. n \in Int /\ lLimit = Clamped(n)
    BY <2>1, ConcurrencyAssumption DEF PoolIInv, PoolShape, PoolFollows
  <2>3. PoolShape' /\ PoolFollows'
    BY <2>1, <2>2, PoolFloor DEF PoolIInv, PoolShape, PoolFollows
  <2> QED
    BY <1>0, <1>1, <2>1, <2>3 DEF PoolIInv
<1>8. CASE UNCHANGED << lVars, pVars >>
  BY <1>8, <1>0, <1>1, PoolUntouched DEF lVars, pVars
<1> QED
  BY <1>2, <1>3, <1>4, <1>5, <1>6, <1>7, <1>8, Zenon DEF PoolNext

\* Four removals and loops that hold connections at a time never fill the pool
\* with connections that wait for another one, however many more there are,
\* whatever uploads hold and however the limit is changed (tuneDBPool,
\* acquireArtifactDBLocks).
THEOREM PoolNeverFills == PoolSpec => []PoolMoves
<1>1. PoolIInv => PoolMoves
  <2> SUFFICES ASSUME PoolShape, Cardinality(pHolds \cap Removals) <= 4,
                      pHolds \cap Uploads = {}, pMax # 0
               PROVE  Cardinality(pHolds) < pMax
    BY DEF PoolMoves, ConnFree, PoolIInv
  <2>1. pHolds \cap Removals = pHolds /\ pHolds \in SUBSET Removals
    BY DEF PoolShape
  <2>2. IsFiniteSet(pHolds)
    BY <2>1, FS_Subset, PoolAssumption, Zenon
  <2>3. Cardinality(pHolds) \in Nat
    BY <2>2, FS_CardinalityType, Zenon
  <2> QED
    BY <2>1, <2>3 DEF PoolShape
<1> QED
  BY <1>1, PoolIInvInit, PoolIInvStep, PTL DEF PoolSpec

\* The uploads within the limit leave four connections for everything else, for
\* any uploads, limits and pool, but while the pool still has to follow a change
\* of the limit (ReloadArtifactSettings, tuneDBPool).
THEOREM UploadsLeaveRoom == PoolSpec => []RoomForRest
<1>1. PoolIInv => RoomForRest
  <2> SUFFICES ASSUME PoolIInv, pMax # 0, pReload = {}, lActive <= lLimit
               PROVE  Cardinality(pHolds \cap Uploads) + 4 <= pMax
    BY DEF RoomForRest
  <2>1. pHolds \cap Uploads \in SUBSET Holders(lPc)
    BY DEF PoolIInv, HoldersIn, Holders
  <2>2. /\ IsFiniteSet(pHolds \cap Uploads)
        /\ Cardinality(pHolds \cap Uploads) <= Cardinality(Holders(lPc))
    BY <2>1, HoldersFinite, FS_Subset, Zenon
  <2>3. Cardinality(pHolds \cap Uploads) \in Nat
    BY <2>2, FS_CardinalityType, Zenon
  <2>4. lActive = Cardinality(Holders(lPc)) /\ lActive \in Nat /\ lLimit \in Int
    BY Unfolded, ConcurrencyAssumption DEF PoolIInv
  <2>5. pMax \in Nat /\ pMax >= lLimit + 4
    BY DEF PoolIInv, PoolShape, PoolFollows
  <2> QED
    BY <2>2, <2>3, <2>4, <2>5
<1> QED
  BY <1>1, PoolIInvInit, PoolIInvStep, PTL DEF PoolSpec

\* Slots and connections together, for any uploads, removals and limits
\* (uploadLimiter, tuneDBPool).
THEOREM PoolStaysSound == PoolSpec => []PoolInv
<1>1. LimiterInv /\ PoolMoves /\ RoomForRest => PoolInv
  BY DEF PoolInv
<1> QED
  BY <1>1, PoolUsesLimiter, SlotsAreKept, PoolNeverFills, UploadsLeaveRoom, PTL
-----------------------------------------------------------------------------
(* The locks by key *)

\* The users of an entry, by what every goroutine has got.
UsersIn(entry, e) == {t \in Threads : entry[t] = e}

LEMMA UsersFinite ==
  ASSUME NEW entry, NEW e
  PROVE  IsFiniteSet(UsersIn(entry, e)) /\ Cardinality(UsersIn(entry, e)) \in Nat
<1>1. UsersIn(entry, e) \in SUBSET Threads
  BY DEF UsersIn
<1>2. IsFiniteSet(UsersIn(entry, e))
  BY <1>1, FS_Subset, ThreadsAssumption, Zenon
<1> QED
  BY <1>2, FS_CardinalityType, Zenon

LEMMA CountsUnfolded ==
  CountIsUsers <=>
    /\ \A t \in Threads :
         kEntry[t] # NoEntry => kRefs[kEntry[t]] = Cardinality(UsersIn(kEntry, kEntry[t]))
    /\ \A k \in LockKeys : kMap[k] # NoEntry => UsersIn(kEntry, kMap[k]) # {}
BY Zenon DEF CountIsUsers, EntryUsers, UsersIn

LEMMA CountsUnfoldedNext ==
  CountIsUsers' <=>
    /\ \A t \in Threads :
         kEntry'[t] # NoEntry => kRefs'[kEntry'[t]] = Cardinality(UsersIn(kEntry', kEntry'[t]))
    /\ \A k \in LockKeys : kMap'[k] # NoEntry => UsersIn(kEntry', kMap'[k]) # {}
BY Zenon DEF CountIsUsers, EntryUsers, UsersIn

LEMMA OneInside ==
  ASSUME KeyedLockTypeOK, EntryIsShared, HolderIsInside
  PROVE  MutualExclusion
<1> SUFFICES ASSUME NEW t \in Threads, NEW u \in Threads,
                    kAt[t] = "in", kAt[u] = "in", kKey[t] = kKey[u]
             PROVE  t = u
  BY DEF MutualExclusion
<1>1. kEntry[t] = kEntry[u]
  BY DEF EntryIsShared
<1> QED
  BY <1>1 DEF HolderIsInside

LEMMA KeyedLockStarts == KeyedLockInit => KeyedLockInv
<1> SUFFICES ASSUME KeyedLockInit PROVE KeyedLockInv
  OBVIOUS
<1>1. KeyedLockTypeOK
  BY DEF KeyedLockInit, KeyedLockTypeOK
<1>2. EntryIsShared /\ HolderIsInside /\ KeysApart
  BY DEF KeyedLockInit, EntryIsShared, HolderIsInside, KeysApart
<1>3. CountIsUsers
  BY DEF KeyedLockInit, CountIsUsers
<1> QED
  BY <1>1, <1>2, <1>3, OneInside DEF KeyedLockInv
-----------------------------------------------------------------------------
\* What a step has to show; mutual exclusion follows.
LockKept ==
  /\ KeyedLockTypeOK' /\ EntryIsShared' /\ CountIsUsers' /\ KeysApart' /\ HolderIsInside'

LEMMA OneInsideNext ==
  ASSUME LockKept
  PROVE  KeyedLockInv'
<1> SUFFICES ASSUME NEW t \in Threads, NEW u \in Threads,
                    kAt'[t] = "in", kAt'[u] = "in", kKey'[t] = kKey'[u]
             PROVE  t = u
  BY DEF LockKept, KeyedLockInv, MutualExclusion
<1>1. kEntry'[t] = kEntry'[u]
  BY DEF LockKept, EntryIsShared
<1> QED
  BY <1>1 DEF LockKept, HolderIsInside

\* Taking and releasing the entry's mutex leaves map and counts alone.
LEMMA CountsStand ==
  ASSUME KeyedLockInv, kMap' = kMap, kRefs' = kRefs, kEntry' = kEntry
  PROVE  CountIsUsers' /\ KeysApart'
<1> QED
  BY CountsUnfolded, CountsUnfoldedNext DEF KeyedLockInv, KeysApart

LEMMA TakeKeeps ==
  ASSUME KeyedLockInv, NEW t \in Threads, Take(t)
  PROVE  LockKept
<1> USE DEF KeyedLockInv
<1>1. /\ kAt[t] = "queued" /\ kEntry[t] \notin kHeld
      /\ kHeld' = kHeld \cup {kEntry[t]} /\ kAt' = [kAt EXCEPT ![t] = "in"]
      /\ kMap' = kMap /\ kRefs' = kRefs /\ kKey' = kKey /\ kEntry' = kEntry
  BY DEF Take
<1>2. kEntry[t] \in Entries
  BY <1>1 DEF EntryIsShared
<1>3. KeyedLockTypeOK'
  BY <1>1, <1>2 DEF KeyedLockTypeOK
<1>4. EntryIsShared'
  BY <1>1 DEF EntryIsShared, KeyedLockTypeOK
<1>5. HolderIsInside'
  BY <1>1 DEF HolderIsInside, KeyedLockTypeOK
<1> QED
  BY <1>1, <1>3, <1>4, <1>5, CountsStand DEF LockKept

LEMMA UnlockKeeps ==
  ASSUME KeyedLockInv, NEW t \in Threads, Unlock(t)
  PROVE  LockKept
<1> USE DEF KeyedLockInv
<1>1. /\ kAt[t] = "in" /\ kHeld' = kHeld \ {kEntry[t]} /\ kAt' = [kAt EXCEPT ![t] = "leaving"]
      /\ kMap' = kMap /\ kRefs' = kRefs /\ kKey' = kKey /\ kEntry' = kEntry
  BY DEF Unlock
<1>2. KeyedLockTypeOK'
  BY <1>1 DEF KeyedLockTypeOK
<1>3. EntryIsShared'
  BY <1>1 DEF EntryIsShared, KeyedLockTypeOK
<1>4. HolderIsInside'
  BY <1>1 DEF HolderIsInside, KeyedLockTypeOK
<1> QED
  BY <1>1, <1>2, <1>3, <1>4, CountsStand DEF LockKept

LEMMA LockKeeps ==
  ASSUME KeyedLockInv, NEW t \in Threads, NEW k \in LockKeys, Lock(t, k)
  PROVE  LockKept
<1> USE DEF KeyedLockInv
<1>1. PICK e \in Entries :
        /\ kMap[k] = e \/ (kMap[k] = NoEntry /\ Fresh(e))
        /\ kMap' = [kMap EXCEPT ![k] = e]
        /\ kEntry' = [kEntry EXCEPT ![t] = e]
        /\ kRefs' = [kRefs EXCEPT ![e] = (IF kMap[k] = e THEN kRefs[e] ELSE 0) + 1]
  BY DEF Lock
<1>2. /\ kAt[t] = "out" /\ kAt' = [kAt EXCEPT ![t] = "queued"]
      /\ kKey' = [kKey EXCEPT ![t] = k] /\ kHeld' = kHeld
  BY DEF Lock
<1>3. kEntry[t] = NoEntry /\ NoEntry # e /\ kMap[k] \in {e, NoEntry}
  BY <1>1, <1>2, EntriesAssumption DEF EntryIsShared
<1>4. \A u \in Threads \ {t} :
        /\ kAt'[u] = kAt[u] /\ kKey'[u] = kKey[u] /\ kEntry'[u] = kEntry[u]
  BY <1>1, <1>2 DEF KeyedLockTypeOK
<1>5. /\ kAt'[t] = "queued" /\ kKey'[t] = k /\ kEntry'[t] = e
      /\ kMap'[k] = e /\ \A j \in LockKeys \ {k} : kMap'[j] = kMap[j]
  BY <1>1, <1>2 DEF KeyedLockTypeOK
<1>6. KeyedLockTypeOK'
  BY <1>1, <1>2 DEF KeyedLockTypeOK
<1>7. EntryIsShared'
  <2>1. ASSUME NEW u \in Threads \ {t}, kAt[u] # "out"
        PROVE  kEntry[u] \in Entries /\ kMap[kKey[u]] = kEntry[u] /\ kMap'[kKey[u]] = kEntry[u]
    BY <1>3, <1>5, <2>1, EntriesAssumption DEF EntryIsShared, KeyedLockTypeOK
  <2>2. ASSUME NEW u \in Threads \ {t}, kAt[u] = "out" PROVE kEntry[u] = NoEntry
    BY <2>2 DEF EntryIsShared
  <2> QED
    BY <1>4, <1>5, <2>1, <2>2 DEF EntryIsShared
<1>8. \A j \in LockKeys : kMap[j] = e => j = k
  BY <1>1, <1>3 DEF KeysApart, Fresh
<1>9. KeysApart'
  BY <1>3, <1>5, <1>8 DEF KeysApart
<1>10. HolderIsInside'
  BY <1>2, <1>4, <1>5 DEF HolderIsInside
<1>11. UsersIn(kEntry', e) = UsersIn(kEntry, e) \cup {t} /\ t \notin UsersIn(kEntry, e)
  BY <1>3, <1>4, <1>5 DEF UsersIn
<1>12. \A f : f # e /\ f # NoEntry => UsersIn(kEntry', f) = UsersIn(kEntry, f)
  BY <1>3, <1>4, <1>5 DEF UsersIn
<1>13. kRefs'[e] = Cardinality(UsersIn(kEntry', e))
  <2>1. Cardinality(UsersIn(kEntry, e) \cup {t}) = Cardinality(UsersIn(kEntry, e)) + 1
    BY <1>11, UsersFinite, FS_AddElement, Zenon
  <2>2. CASE kMap[k] = e
    <3>1. PICK u \in Threads : kEntry[u] = e
      BY <2>2, <1>3, CountsUnfolded DEF UsersIn
    <3>2. kRefs[e] = Cardinality(UsersIn(kEntry, e))
      BY <1>3, <3>1, CountsUnfolded
    <3>3. kRefs'[e] = kRefs[e] + 1
      BY <1>1, <2>2 DEF KeyedLockTypeOK
    <3> QED
      BY <1>11, <2>1, <3>2, <3>3
  <2>3. CASE kMap[k] # e
    <3>1. UsersIn(kEntry, e) = {}
      BY <1>1, <2>3 DEF Fresh, UsersIn
    <3>2. Cardinality(UsersIn(kEntry, e)) = 0
      BY <3>1, FS_EmptySet, Zenon
    <3>3. kRefs'[e] = 1
      BY <1>1, <2>3 DEF KeyedLockTypeOK
    <3> QED
      BY <1>11, <2>1, <3>2, <3>3
  <2> QED
    BY <2>2, <2>3
<1>14. CountIsUsers'
  <2>1. ASSUME NEW u \in Threads, kEntry'[u] # NoEntry
        PROVE  kRefs'[kEntry'[u]] = Cardinality(UsersIn(kEntry', kEntry'[u]))
    <3>1. CASE kEntry'[u] = e
      BY <1>13, <3>1
    <3>2. CASE kEntry'[u] # e
      <4>1. kEntry'[u] = kEntry[u] /\ kEntry[u] \in Entries /\ kEntry[u] # e
        BY <1>4, <1>5, <2>1, <3>2 DEF KeyedLockTypeOK
      <4>2. kRefs'[kEntry[u]] = kRefs[kEntry[u]]
        BY <1>1, <4>1 DEF KeyedLockTypeOK
      <4>3. kRefs[kEntry[u]] = Cardinality(UsersIn(kEntry, kEntry[u]))
        BY <2>1, <4>1, CountsUnfolded
      <4> QED
        BY <1>12, <2>1, <4>1, <4>2, <4>3
    <3> QED
      BY <3>1, <3>2
  <2>2. ASSUME NEW j \in LockKeys, kMap'[j] # NoEntry PROVE UsersIn(kEntry', kMap'[j]) # {}
    <3>1. CASE j = k
      BY <1>5, <1>11, <3>1
    <3>2. CASE j # k
      <4>1. kMap'[j] = kMap[j] /\ kMap[j] # NoEntry
        BY <1>5, <2>2, <3>2
      <4>2. UsersIn(kEntry, kMap[j]) # {}
        BY <4>1, CountsUnfolded
      <4> QED
        BY <1>11, <1>12, <4>1, <4>2
    <3> QED
      BY <3>1, <3>2
  <2> QED
    BY <2>1, <2>2, CountsUnfoldedNext, Zenon
<1> QED
  BY <1>6, <1>7, <1>9, <1>10, <1>14 DEF LockKept

LEMMA DropKeeps ==
  ASSUME KeyedLockInv, NEW t \in Threads, Drop(t)
  PROVE  LockKept
<1> USE DEF KeyedLockInv
<1> DEFINE e == kEntry[t]
           k == kKey[t]
<1>1. /\ kAt[t] = "leaving" /\ kAt' = [kAt EXCEPT ![t] = "out"]
      /\ kRefs' = [kRefs EXCEPT ![e] = @ - 1]
      /\ kMap' = IF kRefs[e] = 1 THEN [kMap EXCEPT ![k] = NoEntry] ELSE kMap
      /\ kEntry' = [kEntry EXCEPT ![t] = NoEntry]
      /\ kHeld' = kHeld /\ kKey' = kKey
  BY DEF Drop
<1>2. e \in Entries /\ k \in LockKeys /\ kMap[k] = e /\ e # NoEntry
  BY <1>1, EntriesAssumption DEF EntryIsShared, KeyedLockTypeOK
<1> HIDE DEF e, k
<1>3. \A u \in Threads \ {t} : kAt'[u] = kAt[u] /\ kEntry'[u] = kEntry[u]
  BY <1>1 DEF KeyedLockTypeOK
<1>4. kAt'[t] = "out" /\ kEntry'[t] = NoEntry
  BY <1>1 DEF KeyedLockTypeOK
<1>5. UsersIn(kEntry', e) = UsersIn(kEntry, e) \ {t} /\ t \in UsersIn(kEntry, e)
  BY <1>2, <1>3, <1>4 DEF UsersIn, e
<1>6. \A f : f # e /\ f # NoEntry => UsersIn(kEntry', f) = UsersIn(kEntry, f)
  BY <1>2, <1>3, <1>4 DEF UsersIn, e
<1>7. kRefs[e] = Cardinality(UsersIn(kEntry, e))
  BY <1>2, CountsUnfolded DEF e
<1>8. Cardinality(UsersIn(kEntry', e)) = kRefs[e] - 1 /\ kRefs[e] \in Nat
  <2>1. Cardinality(UsersIn(kEntry, e) \ {t}) = Cardinality(UsersIn(kEntry, e)) - 1
    BY <1>5, UsersFinite, FS_RemoveElement, Zenon
  <2>2. Cardinality(UsersIn(kEntry, e)) \in Nat
    BY UsersFinite, Zenon
  <2> QED
    BY <1>5, <1>7, <2>1, <2>2
<1>9. kRefs'[e] = Cardinality(UsersIn(kEntry', e))
  BY <1>1, <1>2, <1>8 DEF KeyedLockTypeOK
<1>10. kRefs[e] - 1 \in Nat
  BY <1>8, UsersFinite, Zenon
<1>11. kRefs[e] = 1 <=> UsersIn(kEntry', e) = {}
  <2>1. Cardinality(UsersIn(kEntry', e)) = 0 <=> UsersIn(kEntry', e) = {}
    BY UsersFinite, FS_EmptySet, Zenon
  <2> QED
    BY <1>8, <2>1
<1>12. KeyedLockTypeOK'
  BY <1>1, <1>2, <1>10 DEF KeyedLockTypeOK
<1>13. \A j \in LockKeys : kMap'[j] = kMap[j] \/ (kMap'[j] = NoEntry /\ kMap[j] = e)
  BY <1>1, <1>2 DEF KeyedLockTypeOK
<1>14. kRefs[e] = 1 => kMap'[k] = NoEntry
  BY <1>1, <1>2 DEF KeyedLockTypeOK
<1>15. EntryIsShared'
  <2>1. ASSUME NEW u \in Threads \ {t}, kAt[u] # "out"
        PROVE  kEntry[u] \in Entries /\ kMap'[kKey[u]] = kEntry[u]
    <3>1. kEntry[u] \in Entries /\ kMap[kKey[u]] = kEntry[u] /\ kKey[u] \in LockKeys
      BY <2>1 DEF EntryIsShared, KeyedLockTypeOK
    <3>2. CASE kEntry[u] = e
      <4>1. u \in UsersIn(kEntry', e)
        BY <1>3, <3>2 DEF UsersIn
      <4>2. kMap' = kMap
        BY <1>1, <1>11, <4>1
      <4> QED
        BY <3>1, <4>2
    <3>3. CASE kEntry[u] # e
      BY <1>13, <3>1, <3>3
    <3> QED
      BY <3>2, <3>3
  <2>2. ASSUME NEW u \in Threads \ {t}, kAt[u] = "out" PROVE kEntry[u] = NoEntry
    BY <2>2 DEF EntryIsShared
  <2> QED
    BY <1>1, <1>3, <1>4, <2>1, <2>2 DEF EntryIsShared
<1>16. KeysApart'
  BY <1>13 DEF KeysApart
<1>17. HolderIsInside'
  BY <1>1, <1>3, <1>4 DEF HolderIsInside
<1>18. CountIsUsers'
  <2>1. ASSUME NEW u \in Threads, kEntry'[u] # NoEntry
        PROVE  kRefs'[kEntry'[u]] = Cardinality(UsersIn(kEntry', kEntry'[u]))
    <3>1. kEntry'[u] = kEntry[u] /\ kEntry[u] \in Entries
      BY <1>3, <1>4, <2>1 DEF KeyedLockTypeOK
    <3>2. CASE kEntry[u] = e
      BY <1>9, <3>1, <3>2
    <3>3. CASE kEntry[u] # e
      <4>1. kRefs'[kEntry[u]] = kRefs[kEntry[u]]
        BY <1>1, <3>1, <3>3 DEF KeyedLockTypeOK
      <4>2. kRefs[kEntry[u]] = Cardinality(UsersIn(kEntry, kEntry[u]))
        BY <2>1, <3>1, CountsUnfolded
      <4> QED
        BY <1>6, <2>1, <3>1, <3>3, <4>1, <4>2
    <3> QED
      BY <3>2, <3>3
  <2>2. ASSUME NEW j \in LockKeys, kMap'[j] # NoEntry PROVE UsersIn(kEntry', kMap'[j]) # {}
    <3>1. kMap'[j] = kMap[j]
      BY <1>13, <2>2
    <3>2. UsersIn(kEntry, kMap[j]) # {}
      BY <2>2, <3>1, CountsUnfolded
    <3>3. CASE kMap[j] = e
      <4>1. j = k
        BY <1>2, <3>3 DEF KeysApart
      <4> QED
        BY <1>11, <1>14, <2>2, <3>1, <3>3, <4>1
    <3>4. CASE kMap[j] # e
      BY <1>6, <2>2, <3>1, <3>2, <3>4
    <3> QED
      BY <3>3, <3>4
  <2> QED
    BY <2>1, <2>2, CountsUnfoldedNext, Zenon
<1> QED
  BY <1>12, <1>15, <1>16, <1>17, <1>18 DEF LockKept

LEMMA KeyedLockStep ==
  ASSUME KeyedLockInv, [KeyedLockNext]_kVars
  PROVE  KeyedLockInv'
<1>1. ASSUME NEW t \in Threads, NEW k \in LockKeys, Lock(t, k) PROVE LockKept
  BY <1>1, LockKeeps, Zenon
<1>2. ASSUME NEW t \in Threads, Take(t) PROVE LockKept
  BY <1>2, TakeKeeps, Zenon
<1>3. ASSUME NEW t \in Threads, Unlock(t) PROVE LockKept
  BY <1>3, UnlockKeeps, Zenon
<1>4. ASSUME NEW t \in Threads, Drop(t) PROVE LockKept
  BY <1>4, DropKeeps, Zenon
<1>5. CASE UNCHANGED kVars
  <2>1. /\ kMap' = kMap /\ kRefs' = kRefs /\ kHeld' = kHeld /\ kAt' = kAt
        /\ kKey' = kKey /\ kEntry' = kEntry
    BY <1>5 DEF kVars
  <2>2. KeyedLockTypeOK' /\ EntryIsShared' /\ HolderIsInside'
    BY <2>1 DEF KeyedLockInv, KeyedLockTypeOK, EntryIsShared, HolderIsInside
  <2> QED
    BY <2>1, <2>2, CountsStand, OneInsideNext, Zenon DEF LockKept
<1> QED
  BY <1>1, <1>2, <1>3, <1>4, <1>5, OneInsideNext, Zenon DEF KeyedLockNext

\* The lock by key excludes, counts its users and leaves no entry behind, for
\* any number of goroutines and keys (Locker.Lock and the function it returns).
THEOREM LockerIsSound == KeyedLockSpec => []KeyedLockInv
BY KeyedLockStarts, KeyedLockStep, PTL DEF KeyedLockSpec
-----------------------------------------------------------------------------
(* The refinement *)

\* Where a goroutine is, as the abstract mutex sees it.
Seen(t) == IF kAt[t] = "leaving" THEN "out" ELSE kAt[t]
SeenAt == [t \in Threads |-> Seen(t)]

LEMMA StepImplements ==
  ASSUME KeyedLockInv, [KeyedLockNext]_kVars
  PROVE  Mutex!Next \/ (SeenAt' = SeenAt /\ kKey' = kKey)
<1> USE DEF KeyedLockInv, KeyedLockTypeOK
<1>1. ASSUME NEW t \in Threads, NEW k \in LockKeys, Lock(t, k) PROVE Mutex!Next
  <2>1. /\ kAt[t] = "out" /\ kAt' = [kAt EXCEPT ![t] = "queued"]
        /\ kKey' = [kKey EXCEPT ![t] = k]
    BY <1>1 DEF Lock
  <2>2. SeenAt[t] = "out" /\ SeenAt' = [SeenAt EXCEPT ![t] = "queued"]
    BY <2>1 DEF SeenAt, Seen
  <2>3. SeenAt'[t] # SeenAt[t]
    BY <2>2 DEF SeenAt
  <2>4. Mutex!Ask(t, k)
    BY <2>1, <2>2 DEF Mutex!Ask, SeenAt, Seen
  <2> QED
    BY <2>3, <2>4 DEF Mutex!Next, SeenAt, Seen
<1>2. ASSUME NEW t \in Threads, Take(t) PROVE Mutex!Next
  <2>1. /\ kAt[t] = "queued" /\ kEntry[t] \notin kHeld
        /\ kAt' = [kAt EXCEPT ![t] = "in"] /\ kKey' = kKey
    BY <1>2 DEF Take
  <2>2. SeenAt[t] = "queued" /\ SeenAt' = [SeenAt EXCEPT ![t] = "in"]
    BY <2>1 DEF SeenAt, Seen
  <2>3. SeenAt'[t] # SeenAt[t]
    BY <2>2 DEF SeenAt
  <2>4. ASSUME NEW u \in Threads, kKey[u] = kKey[t] PROVE SeenAt[u] # "in"
    <3> SUFFICES ASSUME kAt[u] = "in" PROVE FALSE
      BY DEF SeenAt, Seen
    <3>1. kEntry[u] = kEntry[t]
      BY <2>1, <2>4 DEF EntryIsShared
    <3> QED
      BY <2>1, <3>1 DEF HolderIsInside
  <2>5. Mutex!Enter(t)
    BY <2>1, <2>2, <2>4 DEF Mutex!Enter, SeenAt, Seen
  <2> QED
    BY <2>3, <2>5 DEF Mutex!Next, SeenAt, Seen
<1>3. ASSUME NEW t \in Threads, Unlock(t) PROVE Mutex!Next
  <2>1. kAt[t] = "in" /\ kAt' = [kAt EXCEPT ![t] = "leaving"] /\ kKey' = kKey
    BY <1>3 DEF Unlock
  <2>2. SeenAt[t] = "in" /\ SeenAt' = [SeenAt EXCEPT ![t] = "out"]
    BY <2>1 DEF SeenAt, Seen
  <2>3. SeenAt'[t] # SeenAt[t]
    BY <2>2 DEF SeenAt
  <2>4. Mutex!Leave(t)
    BY <2>1, <2>2 DEF Mutex!Leave, SeenAt, Seen
  <2> QED
    BY <2>3, <2>4 DEF Mutex!Next, SeenAt, Seen
<1>4. ASSUME NEW t \in Threads, Drop(t) PROVE SeenAt' = SeenAt /\ kKey' = kKey
  <2>1. kAt[t] = "leaving" /\ kAt' = [kAt EXCEPT ![t] = "out"] /\ kKey' = kKey
    BY <1>4 DEF Drop
  <2> QED
    BY <2>1 DEF SeenAt, Seen
<1>5. CASE UNCHANGED kVars
  BY <1>5 DEF kVars, SeenAt, Seen
<1> QED
  BY <1>1, <1>2, <1>3, <1>4, <1>5, Zenon DEF KeyedLockNext

\* Entries that are created, counted and dropped implement one mutex for every
\* key (Locker.Lock and the function it returns).
THEOREM LocksImplementMutexes == KeyedLockSpec => LocksAreMutexes
<1>1. KeyedLockInit => Mutex!Init
  BY DEF KeyedLockInit, Mutex!Init
<1>2. KeyedLockInv /\ [KeyedLockNext]_kVars
        => [Mutex!Next]_<< [t \in Threads |-> IF kAt[t] = "leaving" THEN "out" ELSE kAt[t]], kKey >>
  BY StepImplements DEF SeenAt, Seen
<1> QED
  BY <1>1, <1>2, LockerIsSound, PTL DEF KeyedLockSpec, LocksAreMutexes, Mutex!Spec
-----------------------------------------------------------------------------
(* The catalog of artifacts *)

Files == Artifacts \X FileNames
ArtifactRow == [id : 1 .. MaxUploads, name : FileNames, sum : 1 .. MaxUploads]
SaveRequest ==
  [pc : {"wait", "locked", "stored", "undo"}, op : {"upload"}, art : Artifacts,
   name : FileNames, sum : 1 .. MaxUploads]
DeleteRequest ==
  [pc : {"wait", "locked", "checked", "remove"}, op : {"delete"}, art : Artifacts,
   name : SUBSET Files, sum : 1 .. MaxUploads, late : BOOLEAN]
DropRequest ==
  [pc : {"wait", "locked", "paths", "remove"}, op : {"cascade", "drop"}, art : Artifacts,
   name : SUBSET Files, sum : {0}]

RequestTypes ==
  /\ DOMAIN cReq = Requests
  /\ \A w \in Requests : cReq[w] # IdleRequest =>
       \/ cReq[w].op = "upload" /\ cReq[w] \in SaveRequest
       \/ cReq[w].op = "delete" /\ cReq[w] \in DeleteRequest
       \/ cReq[w].op \in {"cascade", "drop"} /\ cReq[w] \in DropRequest

CatalogTypes ==
  /\ cComp \subseteq CatComps
  /\ cRow \in [Artifacts -> ArtifactRow \cup {NoRow}]
  /\ cFile \in [Files -> 0 .. MaxUploads]
  /\ cTask \in [Artifacts -> {"none", "draft", "running", "over"}]
  /\ cCmd \in [Artifacts -> 0 .. MaxUploads]
  /\ RequestTypes
  /\ cSession \subseteq Requests
  /\ cUps \in 0 .. MaxUploads

Asked(w) == cReq[w] # IdleRequest
IsSave(w) == Asked(w) /\ cReq[w].op = "upload"
SameComp(v, w) == cReq[v].art[1] = cReq[w].art[1]

\* An upload's number is no row's id and no other request's number: ids of rows
\* are never used again.
IdsFit ==
  /\ \A a, b \in Artifacts : cRow[a] # NoRow /\ cRow[b] # NoRow /\ cRow[a].id = cRow[b].id => a = b
  /\ \A a \in Artifacts : cRow[a].id <= cUps
  /\ \A w \in Requests : Asked(w) => cReq[w].sum <= cUps
  /\ \A w \in Requests : IsSave(w) =>
       /\ \A a \in Artifacts : cRow[a].id # cReq[w].sum
       /\ \A v \in Requests \ {w} : Asked(v) => cReq[v].sum # cReq[w].sum

\* Whose session is alive has its locks, and nobody else has.
LocksFit ==
  /\ \A w \in cSession : cReq[w].pc \notin {"idle", "wait"}
  /\ \A v, w \in cSession : v # w /\ SameComp(v, w) =>
       IsSave(v) /\ IsSave(w) /\ cReq[v].art # cReq[w].art

\* What an upload with its locks has stored is still there.
StoredStays ==
  \A w \in cSession : cReq[w].pc = "stored" /\ cReq[w].art \notin cTorn =>
    cFile[<< cReq[w].art, cReq[w].name >>] = cReq[w].sum

\* A removal with its locks knows all files its rows had.
RemovalsFit ==
  /\ \A w \in Requests : cReq[w].pc \in {"paths", "remove"} =>
       \A k \in cReq[w].name : k[1][1] = cReq[w].art[1]
  /\ \A w \in cSession : cReq[w].pc = "remove" => \A k \in cReq[w].name : cRow[k[1]] = NoRow
  /\ \A w \in cSession : cReq[w].pc = "paths" =>
       \A a \in Artifacts : a[1] = cReq[w].art[1] /\ cRow[a] # NoRow =>
         << a, cRow[a].name >> \in cReq[w].name \cup cLeft

\* What a removal found unused is unused until a task is started.
LookHolds ==
  \A w \in Requests :
    cReq[w].pc = "checked" /\ ~cReq[w].late /\ cRow[cReq[w].art].id = cReq[w].sum =>
      ~InUse(cReq[w].art, cReq[w].sum)

CatalogIInv ==
  /\ CatalogTypes
  /\ IdsFit /\ LocksFit /\ StoredStays /\ RemovalsFit /\ LookHolds
  /\ FileMatchesRow /\ NoStrayFile /\ InUseStays /\ TaskHasComponent

-----------------------------------------------------------------------------
LEMMA RequestKinds ==
  ASSUME CatalogTypes, NEW w \in Requests
  PROVE  /\ ~Asked(w) => cReq[w].pc = "idle"
         /\ Asked(w) =>
              /\ cReq[w].pc \in {"wait", "locked", "stored", "undo", "checked", "paths", "remove"}
              /\ cReq[w].art \in Artifacts /\ cReq[w].sum \in 0 .. MaxUploads
              /\ cReq[w].op \in {"upload", "delete", "cascade", "drop"}
         /\ IsSave(w) => /\ cReq[w].pc \in {"wait", "locked", "stored", "undo"}
                         /\ cReq[w].name \in FileNames /\ cReq[w].sum \in 1 .. MaxUploads
         /\ Asked(w) /\ ~IsSave(w) =>
              /\ cReq[w].pc \in {"wait", "locked", "checked", "paths", "remove"}
              /\ cReq[w].name \in SUBSET Files
         /\ cReq[w].pc = "checked" => Asked(w) /\ cReq[w].op = "delete" /\ cReq[w].sum \in 1 .. MaxUploads
                                      /\ cReq[w].late \in BOOLEAN
         /\ cReq[w].pc \in {"stored", "undo"} => IsSave(w)
BY CatalogAssumption DEF CatalogTypes, RequestTypes, SaveRequest, DeleteRequest, DropRequest, Asked, IsSave, IdleRequest

\* A request that goes to another place stays what it is.
LEMMA GotoMoves ==
  ASSUME CatalogTypes, NEW w \in Requests, Asked(w), NEW pc, Goto(w, pc)
  PROVE  /\ DOMAIN cReq' = Requests
         /\ \A v \in Requests \ {w} : cReq'[v] = cReq[v]
         /\ cReq'[w] # IdleRequest
         /\ cReq'[w].pc = pc /\ cReq'[w].op = cReq[w].op /\ cReq'[w].art = cReq[w].art
         /\ cReq'[w].name = cReq[w].name /\ cReq'[w].sum = cReq[w].sum
         /\ cReq[w].op = "delete" => cReq'[w].late = cReq[w].late
BY DEF CatalogTypes, RequestTypes, SaveRequest, DeleteRequest, DropRequest, Asked, Goto, IdleRequest

LEMMA EndsMoves ==
  ASSUME CatalogTypes, NEW w \in Requests, Ends(w)
  PROVE  /\ DOMAIN cReq' = Requests
         /\ \A v \in Requests \ {w} : cReq'[v] = cReq[v]
         /\ cReq'[w] = IdleRequest /\ cReq'[w].pc = "idle"
         /\ cSession' = cSession \ {w}
BY DEF CatalogTypes, RequestTypes, Ends, IdleRequest

LEMMA GotoTypes ==
  ASSUME CatalogTypes, NEW w \in Requests, Asked(w), NEW pc, Goto(w, pc),
         \/ cReq[w].op = "upload" /\ pc \in {"wait", "locked", "stored", "undo"}
         \/ cReq[w].op = "delete" /\ pc \in {"wait", "locked", "checked", "remove"}
         \/ cReq[w].op \in {"cascade", "drop"} /\ pc \in {"wait", "locked", "paths", "remove"}
  PROVE  RequestTypes'
BY DEF CatalogTypes, RequestTypes, SaveRequest, DeleteRequest, DropRequest, Asked, Goto, IdleRequest

LEMMA EndsTypes ==
  ASSUME CatalogTypes, NEW w \in Requests, Ends(w)
  PROVE  RequestTypes'
BY DEF CatalogTypes, RequestTypes, Ends

LEMMA SessionsAsk ==
  ASSUME CatalogTypes, LocksFit
  PROVE  \A v \in cSession : v \in Requests /\ Asked(v)
BY RequestKinds DEF LocksFit, CatalogTypes

\* The locks of those whose session goes on.
LEMMA LocksStay ==
  ASSUME CatalogTypes, LocksFit, cSession' \subseteq cSession,
         \A v \in cSession' :
           /\ cReq'[v] # IdleRequest /\ cReq'[v].pc \notin {"idle", "wait"}
           /\ cReq'[v].op = cReq[v].op /\ cReq'[v].art = cReq[v].art
  PROVE  LocksFit'
<1> QED
  BY DEF LocksFit, IsSave, Asked, SameComp

-----------------------------------------------------------------------------
\* Both properties of the files, for an artifact and a name.
Matches(a, f) ==
  a \notin cTorn /\ cRow[a] # NoRow /\ cRow[a].name = f /\ ~Writing(a, f) =>
    cFile[<< a, f >>] = cRow[a].sum
Known(a, f) ==
  cFile[<< a, f >>] # 0 /\ a \notin cTorn /\ cRow[a].name # f =>
    \/ << a, f >> \in cLeft \/ Writing(a, f)
    \/ \E v \in Requests : cReq[v].pc = "remove" /\ << a, f >> \in cReq[v].name

LEMMA ByArtifact ==
  ASSUME CatalogTypes
  PROVE  /\ FileMatchesRow <=> \A a \in Artifacts, f \in FileNames : Matches(a, f)
         /\ NoStrayFile <=> \A a \in Artifacts, f \in FileNames : Known(a, f)
<1>1. \A a \in Artifacts : cRow[a] # NoRow => cRow[a].name \in FileNames
  BY DEF CatalogTypes, ArtifactRow
<1>2. FileMatchesRow <=> \A a \in Artifacts, f \in FileNames : Matches(a, f)
  BY <1>1 DEF FileMatchesRow, Matches
<1>3. ASSUME NoStrayFile, NEW a \in Artifacts, NEW f \in FileNames PROVE Known(a, f)
  <2> << a, f >> \in DOMAIN cFile /\ << a, f >>[1] = a /\ << a, f >>[2] = f
    BY DEF CatalogTypes, Files
  <2> QED
    BY <1>3 DEF NoStrayFile, Known
<1>4. ASSUME \A a \in Artifacts, f \in FileNames : Known(a, f) PROVE NoStrayFile
  <2> SUFFICES ASSUME NEW k \in Files, cFile[k] # 0, k[1] \notin cTorn, cRow[k[1]].name # k[2],
                      k \notin cLeft, ~Writing(k[1], k[2])
               PROVE  \E v \in Requests : cReq[v].pc = "remove" /\ k \in cReq[v].name
    BY DEF NoStrayFile, CatalogTypes
  <2>1. k[1] \in Artifacts /\ k[2] \in FileNames /\ k = << k[1], k[2] >>
    BY DEF Files
  <2>2. Known(k[1], k[2])
    BY <1>4, <2>1
  <2> QED
    BY <2>1, <2>2 DEF Known
<1> QED
  BY <1>2, <1>3, <1>4

EachFile == \A a \in Artifacts, f \in FileNames : Matches(a, f) /\ Known(a, f)

LEMMA ByArtifactNext == CatalogTypes' /\ EachFile' => FileMatchesRow' /\ NoStrayFile'
<1>1. CatalogTypes /\ EachFile => FileMatchesRow /\ NoStrayFile
  BY ByArtifact DEF EachFile
<1> QED
  BY <1>1, PTL

\* Where neither rows nor files change, and nobody stops writing or removing.
LEMMA FilesKept ==
  ASSUME CatalogIInv, UNCHANGED << rows, cFile, notes >>,
         \A v \in Requests : cReq[v].pc \in {"stored", "undo"} =>
           /\ cReq'[v].pc \in {"stored", "undo"} /\ cReq'[v].op = cReq[v].op
           /\ cReq'[v].art = cReq[v].art /\ cReq'[v].name = cReq[v].name,
         \A v \in Requests : cReq[v].pc = "remove" =>
           cReq'[v].pc = "remove" /\ cReq'[v].name = cReq[v].name
  PROVE  FileMatchesRow' /\ NoStrayFile' /\ InUseStays' /\ TaskHasComponent'
<1> USE DEF CatalogIInv, rows, notes
<1>1. \A a, f : Writing(a, f) => Writing(a, f)'
  BY DEF Writing
<1>2. FileMatchesRow'
  BY <1>1 DEF FileMatchesRow
<1>3. NoStrayFile'
  <2> SUFFICES ASSUME NEW k \in Files, cFile'[k] # 0, k[1] \notin cTorn', cRow'[k[1]].name # k[2],
                      k \notin cLeft', ~Writing(k[1], k[2])'
               PROVE  \E v \in Requests : cReq'[v].pc = "remove" /\ k \in cReq'[v].name
    BY DEF NoStrayFile, CatalogTypes, RequestTypes
  <2>1. cFile[k] # 0 /\ k[1] \notin cTorn /\ cRow[k[1]].name # k[2] /\ k \notin cLeft
    OBVIOUS
  <2>2. ~Writing(k[1], k[2]) /\ k \in DOMAIN cFile
    BY <1>1 DEF Files, CatalogTypes, RequestTypes
  <2> QED
    BY <2>1, <2>2 DEF NoStrayFile
<1> QED
  BY <1>2, <1>3 DEF InUseStays, TaskHasComponent

\* A request moves among the places where it neither writes nor removes.
LEMMA QuietStep ==
  ASSUME CatalogIInv, UNCHANGED << rows, cFile, notes >>, NEW w \in Requests,
         CatalogTypes', IdsFit', LocksFit',
         \A v \in Requests \ {w} : cReq'[v] = cReq[v] /\ (v \in cSession' <=> v \in cSession),
         cReq[w].pc \in {"idle", "wait", "locked"},
         cReq'[w].pc \in {"idle", "wait", "locked"}
  PROVE  CatalogIInv'
<1> USE DEF CatalogIInv, rows, notes
<1>1. FileMatchesRow' /\ NoStrayFile' /\ InUseStays' /\ TaskHasComponent'
  BY FilesKept
<1>2. StoredStays'
  BY DEF StoredStays, CatalogTypes, RequestTypes
<1>3. RemovalsFit'
  BY DEF RemovalsFit, CatalogTypes, RequestTypes
<1>4. LookHolds'
  BY DEF LookHolds, InUse
<1> QED
  BY <1>1, <1>2, <1>3, <1>4

LEMMA SaveBeginsKeeps ==
  ASSUME CatalogIInv, NEW w \in Requests, NEW a \in Artifacts, NEW f \in FileNames, SaveBegins(w, a, f)
  PROVE  CatalogIInv'
<1> USE DEF CatalogIInv
<1>1. /\ cReq[w] = IdleRequest /\ cUps < MaxUploads /\ cUps' = cUps + 1 /\ cSession' = cSession
      /\ UNCHANGED << rows, cFile, notes >>
  BY DEF SaveBegins
<1>2. /\ DOMAIN cReq' = Requests /\ \A v \in Requests \ {w} : cReq'[v] = cReq[v]
      /\ cReq'[w] = [pc |-> "wait", op |-> "upload", art |-> a, name |-> f, sum |-> cUps + 1]
  BY DEF SaveBegins, CatalogTypes, RequestTypes
<1>3. cReq[w].pc = "idle" /\ cReq'[w].pc = "wait" /\ w \notin cSession
  BY <1>1, <1>2 DEF IdleRequest, LocksFit
<1>4. cUps + 1 \in 1 .. MaxUploads
  BY <1>1, CatalogAssumption DEF CatalogTypes, RequestTypes
<1>5. cReq'[w] \in SaveRequest
  BY <1>2, <1>4 DEF SaveRequest
<1>6. CatalogTypes'
  BY <1>1, <1>2, <1>4, <1>5 DEF CatalogTypes, RequestTypes, rows
<1>7. LocksFit'
  BY <1>1, <1>2, <1>3 DEF LocksFit, IsSave, Asked, SameComp, CatalogTypes, RequestTypes
<1>8. IdsFit'
  <2>1. cUps \in Nat /\ \A v \in Requests : Asked(v) => cReq[v].sum \in Nat
    BY CatalogAssumption, RequestKinds DEF CatalogTypes, RequestTypes
  <2>2. \A b \in Artifacts : cRow'[b] = cRow[b] /\ cRow[b].id \in Nat
    BY <1>1, CatalogAssumption DEF CatalogTypes, RequestTypes, rows, ArtifactRow, NoRow
  <2> QED
    BY <1>1, <1>2, <2>1, <2>2 DEF IdsFit, Asked, IsSave, rows
<1> QED
  BY <1>1, <1>2, <1>3, <1>6, <1>7, <1>8, QuietStep

\* A request that only moves keeps numbers and types.
LEMMA MovesKeepIds ==
  ASSUME IdsFit, UNCHANGED << cRow, cUps >>, NEW w \in Requests,
         \A v \in Requests \ {w} : cReq'[v] = cReq[v],
         cReq'[w] = IdleRequest \/ (Asked(w) /\ cReq'[w].op = cReq[w].op /\ cReq'[w].sum = cReq[w].sum)
  PROVE  IdsFit'
BY DEF IdsFit, Asked, IsSave

LEMMA acquireKeeps ==
  ASSUME CatalogIInv, NEW w \in Requests, acquireArtifactDBLocks(w)
  PROVE  CatalogIInv'
<1> USE DEF CatalogIInv
<1>1. /\ cReq[w].pc = "wait" /\ cSession' = cSession \cup {w} /\ Goto(w, "locked")
      /\ cReq[w].op = "upload" => UploadLocksFree(w)
      /\ cReq[w].op # "upload" => RemovalLockFree(w)
      /\ UNCHANGED << rows, cFile, notes, counts >>
  BY DEF acquireArtifactDBLocks
<1>2. Asked(w)
  BY <1>1, RequestKinds
<1>3. /\ DOMAIN cReq' = Requests
      /\ \A v \in Requests \ {w} : cReq'[v] = cReq[v]
      /\ cReq'[w] # IdleRequest
      /\ cReq'[w].pc = "locked" /\ cReq'[w].op = cReq[w].op /\ cReq'[w].art = cReq[w].art
      /\ cReq'[w].name = cReq[w].name /\ cReq'[w].sum = cReq[w].sum
  BY <1>1, <1>2, GotoMoves
<1>4. CatalogTypes'
  BY <1>1, <1>2 DEF CatalogTypes, RequestTypes, rows, counts, Goto, Asked, SaveRequest, DeleteRequest, DropRequest, IdleRequest
<1>5. IdsFit'
  BY <1>1, <1>2, <1>3, MovesKeepIds DEF rows, counts
<1>6. LocksFit'
  <2>1. ASSUME NEW v \in cSession', v # w, SameComp(v, w)
        PROVE  IsSave(v) /\ IsSave(w) /\ cReq[v].art # cReq[w].art
    <3>1. v \in cSession /\ v \in Others(w) /\ Asked(v)
      BY <1>1, <2>1, RequestKinds DEF Others, LocksFit, CatalogTypes, RequestTypes
    <3> QED
      BY <1>1, <1>2, <2>1, <3>1 DEF UploadLocksFree, RemovalLockFree, SameComp, IsSave
  <2>2. \A v \in cSession' : cReq'[v].pc \notin {"idle", "wait"}
    BY <1>1, <1>3 DEF LocksFit, CatalogTypes, RequestTypes
  <2> SUFFICES ASSUME NEW v \in cSession', NEW u \in cSession', v # u, SameComp(v, u)'
               PROVE  IsSave(v)' /\ IsSave(u)' /\ cReq'[v].art # cReq'[u].art
    BY <2>2 DEF LocksFit
  <2>3. \A x \in Requests : /\ cReq'[x].art = cReq[x].art
                            /\ IsSave(x)' <=> IsSave(x)
    BY <1>2, <1>3 DEF IsSave, Asked
  <2>4. SameComp(v, u) /\ SameComp(u, v) /\ v \in Requests /\ u \in Requests
    BY <1>1, <2>3 DEF SameComp, CatalogTypes, RequestTypes
  <2>5. IsSave(v) /\ IsSave(u) /\ cReq[v].art # cReq[u].art
    <3>1. CASE v = w
      BY <2>1, <2>4, <3>1
    <3>2. CASE u = w
      BY <2>1, <2>4, <3>2
    <3>3. CASE v # w /\ u # w
      BY <1>1, <2>4, <3>3 DEF LocksFit
    <3> QED
      BY <3>1, <3>2, <3>3
  <2> QED
    BY <2>3, <2>4, <2>5
<1> QED
  BY <1>1, <1>3, <1>4, <1>5, <1>6, QuietStep

\* A request that neither writes nor removes may end.
LEMMA EndsKeeps ==
  ASSUME CatalogIInv, NEW w \in Requests, cReq[w].pc \in {"wait", "locked", "checked", "paths"},
         Ends(w), UNCHANGED << rows, cFile, notes, cUps >>
  PROVE  CatalogIInv'
<1> USE DEF CatalogIInv
<1>1. /\ \A v \in Requests \ {w} : cReq'[v] = cReq[v]
      /\ cReq'[w] = IdleRequest /\ cReq'[w].pc = "idle" /\ cSession' = cSession \ {w}
  BY EndsMoves
<1>2. CatalogTypes'
  BY <1>1, EndsTypes DEF CatalogTypes, rows
<1>3. IdsFit'
  BY <1>1, MovesKeepIds DEF rows
<1>4. LocksFit'
  BY <1>1, LocksStay, SessionsAsk DEF LocksFit, Asked
<1>5. FileMatchesRow' /\ NoStrayFile' /\ InUseStays' /\ TaskHasComponent'
  BY <1>1, FilesKept
<1>6. StoredStays' /\ RemovalsFit'
  BY <1>1 DEF StoredStays, RemovalsFit, CatalogTypes, rows, notes
<1>7. LookHolds'
  BY <1>1 DEF LookHolds, InUse, rows
<1> QED
  BY <1>2, <1>3, <1>4, <1>5, <1>6, <1>7

LEMMA GivesUpKeeps ==
  ASSUME CatalogIInv, NEW w \in Requests, GivesUp(w)
  PROVE  CatalogIInv'
BY EndsKeeps DEF GivesUp, counts

LEMMA GetArtifactKeeps ==
  ASSUME CatalogIInv, NEW w \in Requests, NEW a \in Artifacts, GetArtifact(w, a)
  PROVE  CatalogIInv'
<1> USE DEF CatalogIInv
<1>1. /\ cReq[w] = IdleRequest /\ cRow[a] # NoRow /\ cSession' = cSession
      /\ UNCHANGED << rows, cFile, notes, counts >>
  BY DEF GetArtifact
<1>2. /\ DOMAIN cReq' = Requests /\ \A v \in Requests \ {w} : cReq'[v] = cReq[v]
      /\ cReq'[w] = [pc |-> "wait", op |-> "delete", art |-> a, name |-> {}, sum |-> cRow[a].id,
                     late |-> FALSE]
  BY DEF GetArtifact, CatalogTypes, RequestTypes
<1>3. cReq[w].pc = "idle" /\ cReq'[w].pc = "wait" /\ w \notin cSession
  BY <1>1, <1>2 DEF IdleRequest, LocksFit
<1>4. cRow[a].id \in 1 .. MaxUploads
  BY <1>1 DEF CatalogTypes, ArtifactRow
<1>5. cReq'[w] \in DeleteRequest /\ cReq'[w].op = "delete" /\ cReq'[w].sum = cRow[a].id
  BY <1>2, <1>4 DEF DeleteRequest
<1>6. CatalogTypes'
  BY <1>1, <1>2, <1>5 DEF CatalogTypes, RequestTypes, rows, counts
<1>7. LocksFit'
  BY <1>1, <1>2, <1>3 DEF LocksFit, IsSave, Asked, SameComp, CatalogTypes, RequestTypes
<1>8. IdsFit'
  <2>1. \A v \in Requests \ {w} : IsSave(v)' <=> IsSave(v)
    BY <1>2 DEF IsSave, Asked
  <2>2. ~IsSave(w)'
    BY <1>5 DEF IsSave
  <2> QED
    BY <1>1, <1>2, <1>5, <2>1, <2>2 DEF IdsFit, Asked, rows, counts
<1> QED
  BY <1>1, <1>2, <1>3, <1>6, <1>7, <1>8, QuietStep

LEMMA CheckDeleteKeeps ==
  ASSUME CatalogIInv, NEW w \in Requests, NEW c, NEW cascade \in BOOLEAN, CheckDelete(w, c, cascade)
  PROVE  CatalogIInv'
<1> USE DEF CatalogIInv
<1>1. /\ cReq[w] = IdleRequest /\ c \in cComp /\ cSession' = cSession
      /\ UNCHANGED << rows, cFile, notes, counts >>
  BY DEF CheckDelete, Removable
<1>2. PICK v \in Versions :
        cReq' = [cReq EXCEPT ![w] = [pc |-> "wait", op |-> IF cascade THEN "cascade" ELSE "drop",
                                     art |-> << c, v >>, name |-> {}, sum |-> 0]]
  BY DEF CheckDelete
<1>3. << c, v >> \in Artifacts
  BY <1>1 DEF Artifacts, CatalogTypes
<1>4. /\ DOMAIN cReq' = Requests /\ \A u \in Requests \ {w} : cReq'[u] = cReq[u]
      /\ cReq'[w].pc = "wait" /\ cReq'[w].sum = 0 /\ cReq'[w].op \in {"cascade", "drop"}
      /\ cReq'[w] \in DropRequest
  BY <1>2, <1>3 DEF CatalogTypes, RequestTypes, DropRequest
<1>5. cReq[w].pc = "idle" /\ w \notin cSession
  BY <1>1 DEF IdleRequest, LocksFit
<1>6. CatalogTypes'
  BY <1>1, <1>4 DEF CatalogTypes, RequestTypes, rows, counts
<1>7. LocksFit'
  BY <1>1, <1>4, <1>5 DEF LocksFit, IsSave, Asked, SameComp, CatalogTypes, RequestTypes
<1>8. IdsFit'
  <2>1. \A u \in Requests \ {w} : IsSave(u)' <=> IsSave(u)
    BY <1>4 DEF IsSave, Asked
  <2>2. ~IsSave(w)'
    BY <1>4 DEF IsSave
  <2>3. \A u \in Requests : IsSave(u) => cReq[u].sum # 0
    BY RequestKinds
  <2>4. 0 <= cUps
    BY CatalogAssumption DEF CatalogTypes
  <2> QED
    BY <1>1, <1>4, <2>1, <2>2, <2>3, <2>4 DEF IdsFit, Asked, rows, counts
<1> QED
  BY <1>1, <1>4, <1>5, <1>6, <1>7, <1>8, QuietStep

LEMMA RowFailsKeeps ==
  ASSUME CatalogIInv, NEW w \in Requests, RowFails(w)
  PROVE  CatalogIInv'
<1> USE DEF CatalogIInv
<1>1. /\ cReq[w].pc = "stored" /\ Goto(w, "undo") /\ cSession' = cSession /\ cUps' = cUps
      /\ UNCHANGED << rows, cFile, notes >>
  BY DEF RowFails
<1>2. Asked(w) /\ cReq[w].op = "upload"
  BY <1>1, RequestKinds DEF IsSave
<1>3. /\ DOMAIN cReq' = Requests
      /\ \A v \in Requests \ {w} : cReq'[v] = cReq[v]
      /\ cReq'[w] # IdleRequest
      /\ cReq'[w].pc = "undo" /\ cReq'[w].op = cReq[w].op /\ cReq'[w].art = cReq[w].art
      /\ cReq'[w].name = cReq[w].name /\ cReq'[w].sum = cReq[w].sum
  BY <1>1, <1>2, GotoMoves
<1>4. CatalogTypes'
  BY <1>1, <1>2, GotoTypes DEF CatalogTypes, rows
<1>5. IdsFit'
  BY <1>1, <1>2, <1>3, MovesKeepIds DEF rows
<1>6. LocksFit'
  <2>1. \A v \in cSession : v \in Requests /\ Asked(v)
    BY RequestKinds DEF LocksFit, CatalogTypes
  <2> QED
    BY <1>1, <1>3, <2>1, LocksStay DEF LocksFit, Asked
<1>7. FileMatchesRow' /\ NoStrayFile' /\ InUseStays' /\ TaskHasComponent'
  BY <1>1, <1>3, FilesKept
<1>8. StoredStays' /\ RemovalsFit'
  <2>1. \A v \in Requests : cReq'[v].pc \in {"stored", "checked", "paths", "remove"} => cReq'[v] = cReq[v]
    BY <1>3
  <2>2. cSession' \subseteq Requests
    BY <1>1 DEF CatalogTypes
  <2>3. StoredStays'
    BY <1>1, <2>1, <2>2 DEF StoredStays, notes
  <2>4. RemovalsFit'
    BY <1>1, <2>1, <2>2 DEF RemovalsFit, rows, notes
  <2> QED
    BY <2>3, <2>4
<1>9. LookHolds'
  BY <1>1, <1>3 DEF LookHolds, InUse, rows
<1> QED
  BY <1>4, <1>5, <1>6, <1>7, <1>8, <1>9

LEMMA BackendSavesKeeps ==
  ASSUME CatalogIInv, NEW w \in Requests, BackendSaves(w)
  PROVE  CatalogIInv'
<1> USE DEF CatalogIInv
<1> DEFINE key == << cReq[w].art, cReq[w].name >>
<1>1. /\ cReq[w].pc = "locked" /\ cReq[w].op = "upload" /\ Goto(w, "stored")
      /\ cFile' = [cFile EXCEPT ![key] = cReq[w].sum]
      /\ cTorn' = IF w \in cSession THEN cTorn ELSE cTorn \cup {cReq[w].art}
      /\ cSession' = cSession /\ cLeft' = cLeft /\ cStolen' = cStolen
      /\ UNCHANGED << rows, counts >>
  BY DEF BackendSaves
<1>2. IsSave(w) /\ Asked(w) /\ cReq[w].art \in Artifacts /\ cReq[w].name \in FileNames
      /\ cReq[w].sum \in 1 .. MaxUploads
  BY <1>1, RequestKinds DEF IsSave, Asked, IdleRequest
<1>3. /\ DOMAIN cReq' = Requests
      /\ \A v \in Requests \ {w} : cReq'[v] = cReq[v]
      /\ cReq'[w] # IdleRequest
      /\ cReq'[w].pc = "stored" /\ cReq'[w].op = cReq[w].op /\ cReq'[w].art = cReq[w].art
      /\ cReq'[w].name = cReq[w].name /\ cReq'[w].sum = cReq[w].sum
  BY <1>1, <1>2, GotoMoves
<1>4. key \in Files
  BY <1>2 DEF Files
<1>5. cFile' \in [Files -> 0 .. MaxUploads] /\ cFile'[key] = cReq[w].sum
      /\ \A k \in Files : k # key => cFile'[k] = cFile[k]
  <2>1. cReq[w].sum \in 0 .. MaxUploads
    BY <1>2, CatalogAssumption
  <2> HIDE DEF key
  <2> QED
    BY <1>1, <1>4, <2>1 DEF CatalogTypes
<1>6. CatalogTypes'
  BY <1>1, <1>2, <1>5, GotoTypes DEF CatalogTypes, rows, counts
<1>7. IdsFit'
  BY <1>1, <1>2, <1>3, MovesKeepIds DEF rows, counts
<1>8. LocksFit'
  BY <1>1, <1>3, SessionsAsk, LocksStay DEF LocksFit, Asked
<1>9. RemovalsFit' /\ LookHolds'
  BY <1>1, <1>3 DEF RemovalsFit, LookHolds, InUse, CatalogTypes, rows
<1>10. StoredStays'
  <2> SUFFICES ASSUME NEW v \in cSession, cReq'[v].pc = "stored", cReq'[v].art \notin cTorn'
               PROVE  cFile'[<< cReq'[v].art, cReq'[v].name >>] = cReq'[v].sum
    BY <1>1 DEF StoredStays
  <2>1. CASE v = w
    BY <1>3, <1>5, <2>1
  <2>2. CASE v # w
    <3>1. v \in Requests /\ cReq'[v] = cReq[v] /\ IsSave(v) /\ cReq[v].art \in Artifacts
          /\ cReq[v].name \in FileNames
      BY <1>3, <2>2, RequestKinds DEF CatalogTypes, IsSave
    <3>2. cReq[v].art # cReq[w].art
      <4>1. CASE w \in cSession
        BY <2>2, <4>1 DEF LocksFit, SameComp
      <4>2. CASE w \notin cSession
        BY <1>1, <3>1, <4>2
      <4> QED
        BY <4>1, <4>2
    <3>3. cReq[v].art \notin cTorn
      BY <1>1, <3>1
    <3>4. cFile[<< cReq[v].art, cReq[v].name >>] = cReq[v].sum
      BY <3>1, <3>3 DEF StoredStays
    <3>5. << cReq[v].art, cReq[v].name >> \in Files /\ << cReq[v].art, cReq[v].name >> # key
      BY <3>1, <3>2 DEF Files
    <3> QED
      BY <1>5, <3>1, <3>4, <3>5
  <2> QED
    BY <2>1, <2>2
<1>11. \A a, f : /\ Writing(a, f) => Writing(a, f)'
                 /\ a = cReq[w].art /\ f = cReq[w].name => Writing(a, f)'
  BY <1>1, <1>3 DEF Writing
<1>12. ASSUME NEW a \in Artifacts, NEW f \in FileNames PROVE Matches(a, f)' /\ Known(a, f)'
  <2>1. CASE << a, f >> = key
    BY <1>11, <2>1 DEF Matches, Known
  <2>2. CASE << a, f >> # key
    <3>1. cFile'[<< a, f >>] = cFile[<< a, f >>]
      BY <1>5, <2>2 DEF Files
    <3>2. cRow' = cRow /\ cLeft' = cLeft /\ (a \in cTorn => a \in cTorn')
      BY <1>1 DEF rows
    <3>3. \A v \in Requests : cReq[v].pc = "remove" => cReq'[v].pc = "remove" /\ cReq'[v].name = cReq[v].name
      BY <1>1, <1>3
    <3>4. Matches(a, f) /\ Known(a, f)
      BY ByArtifact
    <3> QED
      BY <1>11, <3>1, <3>2, <3>3, <3>4 DEF Matches, Known
  <2> QED
    BY <2>1, <2>2
<1>13. FileMatchesRow' /\ NoStrayFile'
  BY <1>6, <1>12, ByArtifactNext DEF EachFile
<1>14. InUseStays' /\ TaskHasComponent'
  BY <1>1 DEF InUseStays, TaskHasComponent, rows
<1> QED
  BY <1>6, <1>7, <1>8, <1>9, <1>10, <1>13, <1>14

LEMMA RowSavedKeeps ==
  ASSUME CatalogIInv, NEW w \in Requests, RowSaved(w)
  PROVE  CatalogIInv'
<1> USE DEF CatalogIInv
<1>1. PICK a \in Artifacts : a = cReq[w].art
  BY RequestKinds DEF RowSaved, IsSave
<1>2. PICK n \in FileNames : n = cReq[w].name
  BY RequestKinds DEF RowSaved
<1>3. /\ cReq[w].pc = "stored" /\ w \in cSession /\ Ends(w) /\ a[1] \in cComp
      /\ cLeft' = IF cRow[a].name \in {NoName, n} THEN cLeft ELSE cLeft \cup {<< a, cRow[a].name >>}
      /\ cRow' = [cRow EXCEPT ![a] = [id |-> IF @ = NoRow THEN cReq[w].sum ELSE @.id,
                                      name |-> n, sum |-> cReq[w].sum]]
      /\ UNCHANGED << cComp, cTask, cCmd, cFile, cTorn, cStolen, cUps >>
  BY <1>1, <1>2 DEF RowSaved, counts
<1>4. IsSave(w) /\ Asked(w) /\ cReq[w].sum \in 1 .. MaxUploads
  BY <1>3, RequestKinds DEF IsSave
<1>5. /\ \A v \in Requests \ {w} : cReq'[v] = cReq[v]
      /\ cReq'[w] = IdleRequest /\ cReq'[w].pc = "idle" /\ cSession' = cSession \ {w}
  BY <1>3, EndsMoves
<1>6. /\ cRow'[a].name = n /\ cRow'[a].sum = cReq[w].sum /\ cRow'[a] # NoRow
      /\ cRow'[a].id = IF cRow[a] = NoRow THEN cReq[w].sum ELSE cRow[a].id
      /\ cRow'[a] \in ArtifactRow /\ DOMAIN cRow' = Artifacts
      /\ \A b \in Artifacts \ {a} : cRow'[b] = cRow[b]
  BY <1>3, <1>4, CatalogAssumption DEF CatalogTypes, ArtifactRow, NoRow
<1>7. CatalogTypes'
  <2>1. cRow' \in [Artifacts -> ArtifactRow \cup {NoRow}]
    BY <1>3, <1>6 DEF CatalogTypes
  <2> QED
    BY <1>3, <1>5, <2>1, EndsTypes DEF CatalogTypes
<1>8. IdsFit'
  <2>1. ASSUME NEW b \in Artifacts, b # a, cRow[b] # NoRow PROVE cRow[b].id # cRow'[a].id
    BY <1>4, <1>6, <2>1 DEF IdsFit
  <2>2. cRow'[a].id <= cUps
    BY <1>4, <1>6 DEF IdsFit
  <2>3. ASSUME NEW v \in Requests, v # w, IsSave(v) PROVE cRow'[a].id # cReq[v].sum
    BY <1>4, <1>6, <2>3 DEF IdsFit
  <2> QED
    BY <1>3, <1>5, <1>6, <2>1, <2>2, <2>3 DEF IdsFit, Asked, IsSave
<1>9. LocksFit'
  BY <1>5, SessionsAsk, LocksStay DEF LocksFit, Asked
<1>10. StoredStays'
  BY <1>3, <1>5 DEF StoredStays, CatalogTypes
<1>11. ASSUME NEW v \in cSession, cReq[v].pc \in {"paths", "remove"} PROVE v \in Requests /\ cReq[v].art[1] # a[1]
  <2>1. v \in Requests /\ ~IsSave(v) /\ v # w
    BY <1>3, <1>11, RequestKinds DEF CatalogTypes
  <2> QED
    BY <1>1, <1>3, <2>1 DEF LocksFit, SameComp
<1>12. RemovalsFit'
  <2>1. ASSUME NEW v \in cSession', cReq'[v].pc = "remove", NEW k \in cReq'[v].name PROVE cRow'[k[1]] = NoRow
    <3>1. v \in cSession /\ cReq'[v] = cReq[v] /\ cReq[v].pc = "remove"
      BY <1>5, <2>1 DEF CatalogTypes
    <3>2. k[1][1] = cReq[v].art[1] /\ cRow[k[1]] = NoRow /\ v \in Requests
      BY <1>11, <2>1, <3>1 DEF RemovalsFit
    <3>3. k[1] # a /\ Asked(v) /\ ~IsSave(v)
      BY <1>11, <3>1, <3>2, RequestKinds
    <3>4. k[1] \in Artifacts
      BY <2>1, <3>1, <3>2, <3>3, RequestKinds DEF Files
    <3> QED
      BY <1>6, <3>2, <3>3, <3>4
  <2>2. ASSUME NEW v \in cSession', cReq'[v].pc = "paths", NEW b \in Artifacts,
               b[1] = cReq'[v].art[1], cRow'[b] # NoRow
        PROVE  << b, cRow'[b].name >> \in cReq'[v].name \cup cLeft'
    <3>1. v \in cSession /\ cReq'[v] = cReq[v]
      BY <1>5, <2>2 DEF CatalogTypes
    <3>2. b # a
      BY <1>11, <2>2, <3>1
    <3>3. cRow'[b] = cRow[b]
      BY <1>6, <3>2
    <3>4. << b, cRow[b].name >> \in cReq[v].name \cup cLeft
      BY <2>2, <3>1, <3>3 DEF RemovalsFit
    <3>5. cLeft \subseteq cLeft'
      BY <1>3
    <3> QED
      BY <3>1, <3>3, <3>4, <3>5
  <2> QED
    BY <1>5, <2>1, <2>2 DEF RemovalsFit
<1>13. LookHolds'
  <2> SUFFICES ASSUME NEW v \in Requests, cReq'[v].pc = "checked", ~cReq'[v].late,
                      cRow'[cReq'[v].art].id = cReq'[v].sum
               PROVE  ~InUse(cReq[v].art, cReq[v].sum)'
    BY DEF LookHolds
  <2>1. v # w /\ cReq'[v] = cReq[v] /\ Asked(v) /\ cReq[v].art \in Artifacts
    BY <1>5, RequestKinds
  <2>2. cReq[v].sum # cReq[w].sum
    BY <1>4, <2>1 DEF IdsFit
  <2>3. cRow[cReq[v].art].id = cReq[v].sum
    BY <1>6, <2>1, <2>2
  <2>4. ~InUse(cReq[v].art, cReq[v].sum)
    BY <2>1, <2>3 DEF LookHolds
  <2> QED
    BY <1>3, <2>1, <2>4 DEF InUse
<1>14. ASSUME NEW b \in Artifacts, NEW f \in FileNames PROVE Matches(b, f)' /\ Known(b, f)'
  <2>1. Matches(b, f) /\ Known(b, f)
    BY ByArtifact
  <2>2. \A v \in Requests : cReq[v].pc = "remove" => cReq'[v] = cReq[v]
    BY <1>3, <1>5
  <2>3. CASE b # a
    <3>1. Writing(b, f) => Writing(b, f)'
      BY <1>1, <1>5, <2>3 DEF Writing
    <3>2. cRow'[b] = cRow[b] /\ cLeft \subseteq cLeft'
      BY <1>3, <1>6, <2>3
    <3> QED
      BY <1>3, <2>1, <2>2, <3>1, <3>2 DEF Matches, Known
  <2>4. CASE b = a
    <3>1. f # n => (Writing(b, f) => Writing(b, f)')
      BY <1>2, <1>5 DEF Writing
    <3>2. Matches(b, f)'
      BY <1>1, <1>2, <1>3, <1>6, <2>4 DEF Matches, StoredStays
    <3>3. f # n /\ cRow[a].name = f => << a, f >> \in cLeft'
      BY <1>3, CatalogAssumption
    <3>4. cLeft \subseteq cLeft'
      BY <1>3
    <3>5. Known(b, f)'
      BY <1>3, <1>6, <2>1, <2>2, <2>4, <3>1, <3>3, <3>4 DEF Known
    <3> QED
      BY <3>2, <3>5
  <2> QED
    BY <2>3, <2>4
<1>15. FileMatchesRow' /\ NoStrayFile'
  BY <1>7, <1>14, ByArtifactNext DEF EachFile
<1>16. InUseStays' /\ TaskHasComponent'
  BY <1>3 DEF InUseStays, TaskHasComponent
<1> QED
  BY <1>7, <1>8, <1>9, <1>10, <1>12, <1>13, <1>15, <1>16

LEMMA UndoKeeps ==
  ASSUME CatalogIInv, NEW w \in Requests, Undo(w)
  PROVE  CatalogIInv'
<1> USE DEF CatalogIInv
<1>1. IsSave(w) /\ Asked(w) /\ cReq[w].pc = "undo"
  BY RequestKinds DEF Undo, IsSave
<1>2. PICK a \in Artifacts, n \in FileNames : a = cReq[w].art /\ n = cReq[w].name
  BY <1>1, RequestKinds
<1>3. /\ Ends(w) /\ cFile' = [cFile EXCEPT ![<< a, n >>] = 0]
      /\ cTorn' = IF w \in cSession /\ cRow[a].name # n THEN cTorn ELSE cTorn \cup {a}
      /\ UNCHANGED << cComp, cRow, cTask, cCmd, cLeft, cStolen, cUps >>
  BY <1>2 DEF Undo, rows, counts
<1>4. /\ \A v \in Requests \ {w} : cReq'[v] = cReq[v]
      /\ cReq'[w] = IdleRequest /\ cReq'[w].pc = "idle" /\ cSession' = cSession \ {w}
  BY <1>3, EndsMoves
<1>5. cFile' \in [Files -> 0 .. MaxUploads] /\ cFile'[<< a, n >>] = 0
      /\ \A k \in Files : k # << a, n >> => cFile'[k] = cFile[k]
  <2>1. PICK key \in Files : key = << a, n >>
    BY DEF Files
  <2> QED
    BY <1>3, <2>1, CatalogAssumption DEF CatalogTypes
<1>6. CatalogTypes'
  BY <1>3, <1>4, <1>5, EndsTypes DEF CatalogTypes
<1>7. IdsFit'
  BY <1>1, <1>3, <1>4, MovesKeepIds
<1>8. LocksFit'
  BY <1>4, SessionsAsk, LocksStay DEF LocksFit, Asked
<1>9. RemovalsFit' /\ LookHolds'
  BY <1>3, <1>4 DEF RemovalsFit, LookHolds, InUse, CatalogTypes
<1>10. StoredStays'
  <2> SUFFICES ASSUME NEW v \in cSession', cReq'[v].pc = "stored", cReq'[v].art \notin cTorn'
               PROVE  cFile'[<< cReq'[v].art, cReq'[v].name >>] = cReq'[v].sum
    BY DEF StoredStays
  <2>1. /\ v \in Requests /\ v # w /\ v \in cSession /\ cReq'[v] = cReq[v] /\ IsSave(v)
        /\ cReq[v].art \in Artifacts /\ cReq[v].name \in FileNames
    BY <1>4, RequestKinds DEF CatalogTypes, IsSave
  <2>2. cReq[v].art # a
    <3>1. CASE w \in cSession
      BY <1>2, <2>1, <3>1 DEF LocksFit, SameComp
    <3>2. CASE w \notin cSession
      BY <1>3, <2>1, <3>2
    <3> QED
      BY <3>1, <3>2
  <2>3. cFile[<< cReq[v].art, cReq[v].name >>] = cReq[v].sum
    BY <1>3, <2>1 DEF StoredStays
  <2>4. << cReq[v].art, cReq[v].name >> \in Files /\ << cReq[v].art, cReq[v].name >> # << a, n >>
    BY <2>1, <2>2 DEF Files
  <2> QED
    BY <1>5, <2>1, <2>3, <2>4
<1>11. ASSUME NEW b \in Artifacts, NEW f \in FileNames PROVE Matches(b, f)' /\ Known(b, f)'
  <2>1. Matches(b, f) /\ Known(b, f)
    BY ByArtifact
  <2>2. \A v \in Requests : cReq[v].pc = "remove" => cReq'[v] = cReq[v]
    BY <1>1, <1>4
  <2>3. CASE << b, f >> = << a, n >>
    BY <1>3, <1>5, <2>3 DEF Matches, Known
  <2>4. CASE << b, f >> # << a, n >>
    <3>1. Writing(b, f) => Writing(b, f)'
      BY <1>2, <1>4, <2>4 DEF Writing
    <3>2. cFile'[<< b, f >>] = cFile[<< b, f >>] /\ (b \in cTorn => b \in cTorn')
      BY <1>3, <1>5, <2>4 DEF Files
    <3> QED
      BY <1>3, <2>1, <2>2, <3>1, <3>2 DEF Matches, Known
  <2> QED
    BY <2>3, <2>4
<1>12. FileMatchesRow' /\ NoStrayFile'
  BY <1>6, <1>11, ByArtifactNext DEF EachFile
<1>13. InUseStays' /\ TaskHasComponent'
  BY <1>3 DEF InUseStays, TaskHasComponent
<1> QED
  BY <1>6, <1>7, <1>8, <1>9, <1>10, <1>12, <1>13

\* A removal that moves with a set of files to remove.
LEMMA NamesMove ==
  ASSUME CatalogTypes, NEW w \in Requests, Asked(w), ~IsSave(w), NEW pc, NEW fs \in SUBSET Files,
         cReq' = [cReq EXCEPT ![w].pc = pc, ![w].name = fs],
         \/ cReq[w].op = "delete" /\ pc = "remove"
         \/ cReq[w].op # "delete" /\ pc = "paths"
  PROVE  /\ RequestTypes'
         /\ \A v \in Requests \ {w} : cReq'[v] = cReq[v]
         /\ cReq'[w] # IdleRequest /\ cReq'[w].pc = pc /\ cReq'[w].name = fs
         /\ cReq'[w].op = cReq[w].op /\ cReq'[w].art = cReq[w].art /\ cReq'[w].sum = cReq[w].sum
<1>1. CASE cReq[w].op = "delete"
  <2>1. cReq[w] \in DeleteRequest
    BY <1>1 DEF CatalogTypes, RequestTypes, Asked, IsSave
  <2>2. cReq'[w] \in DeleteRequest /\ cReq'[w].pc = pc /\ cReq'[w].name = fs
         /\ cReq'[w].op = cReq[w].op /\ cReq'[w].art = cReq[w].art /\ cReq'[w].sum = cReq[w].sum
    BY <1>1, <2>1 DEF DeleteRequest, CatalogTypes, RequestTypes
  <2> QED
    BY <1>1, <2>1, <2>2 DEF CatalogTypes, RequestTypes, DeleteRequest, IdleRequest
<1>2. CASE cReq[w].op # "delete"
  <2>1. cReq[w] \in DropRequest
    BY <1>2 DEF CatalogTypes, RequestTypes, Asked, IsSave
  <2>2. cReq'[w] \in DropRequest /\ cReq'[w].pc = pc /\ cReq'[w].name = fs
         /\ cReq'[w].op = cReq[w].op /\ cReq'[w].art = cReq[w].art /\ cReq'[w].sum = cReq[w].sum
    BY <1>2, <2>1 DEF DropRequest, CatalogTypes, RequestTypes
  <2> QED
    BY <1>2, <2>1, <2>2 DEF CatalogTypes, RequestTypes, DropRequest, IdleRequest
<1> QED
  BY <1>1, <1>2

LEMMA CheckInUseKeeps ==
  ASSUME CatalogIInv, NEW w \in Requests, CheckInUse(w)
  PROVE  CatalogIInv'
<1> USE DEF CatalogIInv
<1>1. /\ cReq[w].pc = "locked" /\ cReq[w].op = "delete"
      /\ UNCHANGED << rows, cFile, notes, cUps >>
  BY DEF CheckInUse, counts
<1>2. CASE InUse(cReq[w].art, cReq[w].sum)
  BY <1>1, <1>2, EndsKeeps DEF CheckInUse
<1>3. CASE ~InUse(cReq[w].art, cReq[w].sum)
  <2>1. Goto(w, "checked") /\ cSession' = cSession /\ Asked(w)
    BY <1>1, <1>3, RequestKinds DEF CheckInUse
  <2>2. /\ \A v \in Requests \ {w} : cReq'[v] = cReq[v]
        /\ cReq'[w] # IdleRequest
        /\ cReq'[w].pc = "checked" /\ cReq'[w].op = cReq[w].op /\ cReq'[w].art = cReq[w].art
        /\ cReq'[w].sum = cReq[w].sum
    BY <2>1, GotoMoves
  <2>3. CatalogTypes'
    BY <1>1, <2>1, GotoTypes DEF CatalogTypes, rows
  <2>4. IdsFit'
    BY <1>1, <2>1, <2>2, MovesKeepIds DEF rows
  <2>5. LocksFit'
    BY <2>1, <2>2, LocksStay, SessionsAsk DEF LocksFit, Asked
  <2>6. FileMatchesRow' /\ NoStrayFile' /\ InUseStays' /\ TaskHasComponent'
    BY <1>1, <2>2, FilesKept
  <2>7. StoredStays' /\ RemovalsFit'
    BY <1>1, <2>1, <2>2 DEF StoredStays, RemovalsFit, CatalogTypes, rows, notes
  <2>8. LookHolds'
    <3>1. \A a, id : InUse(a, id)' <=> InUse(a, id)
      BY <1>1 DEF InUse, rows
    <3> QED
      BY <1>1, <1>3, <2>2, <3>1 DEF LookHolds, InUse, rows
  <2> QED
    BY <2>3, <2>4, <2>5, <2>6, <2>7, <2>8
<1> QED
  BY <1>2, <1>3

LEMMA DeleteRowKeeps ==
  ASSUME CatalogIInv, NEW w \in Requests, DeleteRow(w)
  PROVE  CatalogIInv'
<1> USE DEF CatalogIInv
<1>1. /\ cReq[w].pc = "checked" /\ Asked(w) /\ cReq[w].op = "delete" /\ ~IsSave(w)
      /\ cReq[w].sum \in 1 .. MaxUploads /\ cReq[w].late \in BOOLEAN
      /\ UNCHANGED << cComp, cTask, cCmd, cFile, cTorn, cLeft, cUps >>
  BY RequestKinds DEF DeleteRow, counts, IsSave
<1>2. PICK a \in Artifacts : a = cReq[w].art
  BY <1>1, RequestKinds
<1>3. CASE cRow[a].id # cReq[w].sum
  BY <1>1, <1>2, <1>3, EndsKeeps DEF DeleteRow, rows, notes
<1>4. CASE cRow[a].id = cReq[w].sum
  <2>1. cRow[a] # NoRow /\ cRow[a] \in ArtifactRow
    BY <1>1, <1>4, CatalogAssumption DEF NoRow, CatalogTypes
  <2>2. PICK n \in FileNames : n = cRow[a].name
    BY <2>1 DEF ArtifactRow
  <2>3. /\ cRow' = [cRow EXCEPT ![a] = NoRow]
        /\ cReq' = [cReq EXCEPT ![w].pc = "remove", ![w].name = {<< a, n >>}]
        /\ cStolen' = cStolen /\ cSession' = cSession
    BY <1>1, <1>2, <1>4, <2>2 DEF DeleteRow, LookHolds
  <2>4. {<< a, n >>} \in SUBSET Files
    BY DEF Files
  <2>5. /\ RequestTypes'
        /\ \A v \in Requests \ {w} : cReq'[v] = cReq[v]
        /\ cReq'[w] # IdleRequest /\ cReq'[w].pc = "remove" /\ cReq'[w].name = {<< a, n >>}
        /\ cReq'[w].op = cReq[w].op /\ cReq'[w].art = cReq[w].art /\ cReq'[w].sum = cReq[w].sum
    BY <1>1, <2>3, <2>4, NamesMove
  <2>6. /\ cRow'[a] = NoRow /\ \A b \in Artifacts \ {a} : cRow'[b] = cRow[b]
        /\ cRow' \in [Artifacts -> ArtifactRow \cup {NoRow}]
    BY <2>3 DEF CatalogTypes
  <2>7. CatalogTypes'
    BY <1>1, <2>3, <2>5, <2>6 DEF CatalogTypes
  <2>8. IdsFit'
    <3>1. cRow'[a].id = 0 /\ 0 <= cUps
      BY <2>6, CatalogAssumption DEF NoRow, CatalogTypes
    <3>2. \A v \in Requests : IsSave(v) => cReq[v].sum # 0 /\ v # w
      BY <1>1, RequestKinds
    <3>3. \A v \in Requests : (IsSave(v)' <=> IsSave(v)) /\ (Asked(v)' <=> Asked(v))
                              /\ cReq'[v].sum = cReq[v].sum
      BY <1>1, <2>5 DEF IsSave, Asked
    <3> QED
      BY <1>1, <2>6, <3>1, <3>2, <3>3 DEF IdsFit
  <2>9. LocksFit'
    BY <2>3, <2>5, LocksStay, SessionsAsk DEF LocksFit, Asked
  <2>10. StoredStays'
    <3> SUFFICES ASSUME NEW v \in cSession, cReq'[v].pc = "stored", cReq'[v].art \notin cTorn'
                 PROVE  cFile'[<< cReq'[v].art, cReq'[v].name >>] = cReq'[v].sum
      BY <2>3 DEF StoredStays
    <3>1. v # w /\ cReq'[v] = cReq[v]
      BY <2>5 DEF CatalogTypes
    <3> QED
      BY <1>1, <3>1 DEF StoredStays
  <2>11. RemovalsFit'
    <3>1. \A b \in Artifacts : cRow[b] = NoRow => cRow'[b] = NoRow
      BY <2>6
    <3>2. ASSUME NEW v \in Requests, cReq'[v].pc \in {"paths", "remove"}, NEW k \in cReq'[v].name
          PROVE  k[1][1] = cReq'[v].art[1]
      BY <1>2, <2>5, <3>2 DEF RemovalsFit
    <3>3. ASSUME NEW v \in cSession, cReq'[v].pc = "remove", NEW k \in cReq'[v].name
          PROVE  cRow'[k[1]] = NoRow
      <4>1. CASE v = w
        BY <2>5, <2>6, <3>3, <4>1
      <4>2. CASE v # w
        <5>1. v \in Requests /\ cReq'[v] = cReq[v] /\ Asked(v) /\ ~IsSave(v)
          BY <2>5, <3>3, <4>2, RequestKinds DEF CatalogTypes
        <5>2. k[1] \in Artifacts
          BY <3>3, <5>1, RequestKinds DEF Files
        <5> QED
          BY <3>1, <3>3, <5>1, <5>2 DEF RemovalsFit
      <4> QED
        BY <4>1, <4>2
    <3>4. ASSUME NEW v \in cSession, cReq'[v].pc = "paths", NEW b \in Artifacts,
                 b[1] = cReq'[v].art[1], cRow'[b] # NoRow
          PROVE  << b, cRow'[b].name >> \in cReq'[v].name \cup cLeft'
      <4>1. v \in Requests /\ cReq'[v] = cReq[v]
        BY <2>5, <3>4 DEF CatalogTypes
      <4>2. cRow'[b] = cRow[b]
        BY <2>6, <3>4
      <4> QED
        BY <1>1, <3>4, <4>1, <4>2 DEF RemovalsFit
    <3> QED
      BY <2>3, <3>2, <3>3, <3>4 DEF RemovalsFit
  <2>12. LookHolds'
    <3> SUFFICES ASSUME NEW v \in Requests, cReq'[v].pc = "checked", ~cReq'[v].late,
                        cRow'[cReq'[v].art].id = cReq'[v].sum
                 PROVE  ~InUse(cReq[v].art, cReq[v].sum)' /\ cReq'[v] = cReq[v]
      BY DEF LookHolds
    <3>1. v # w /\ cReq'[v] = cReq[v] /\ cReq[v].sum \in 1 .. MaxUploads /\ cReq[v].art \in Artifacts
      BY <2>5, RequestKinds
    <3>2. cReq[v].art # a
      BY <2>6, <3>1, CatalogAssumption DEF NoRow
    <3>3. ~InUse(cReq[v].art, cReq[v].sum)
      BY <2>6, <3>1, <3>2 DEF LookHolds
    <3> QED
      BY <1>1, <3>1, <3>3 DEF InUse
  <2>13. ASSUME NEW b \in Artifacts, NEW f \in FileNames PROVE Matches(b, f)' /\ Known(b, f)'
    <3>1. Matches(b, f) /\ Known(b, f)
      BY ByArtifact
    <3>2. Writing(b, f) => Writing(b, f)'
      BY <1>1, <2>5 DEF Writing
    <3>3. \A v \in Requests : cReq[v].pc = "remove" => cReq'[v] = cReq[v]
      BY <1>1, <2>5
    <3>4. CASE b = a
      <4>1. Matches(b, f)'
        BY <2>6, <3>4 DEF Matches
      <4>2. CASE f = n
        <5>1. << b, f >> \in cReq'[w].name
          BY <2>5, <3>4, <4>2
        <5> QED
          BY <2>5, <4>1, <5>1 DEF Known
      <4>3. CASE f # n
        BY <1>1, <2>2, <3>1, <3>2, <3>3, <3>4, <4>1, <4>3 DEF Known
      <4> QED
        BY <4>2, <4>3
    <3>5. CASE b # a
      BY <1>1, <2>6, <3>1, <3>2, <3>3, <3>5 DEF Matches, Known
    <3> QED
      BY <3>4, <3>5
  <2>14. FileMatchesRow' /\ NoStrayFile'
    BY <2>7, <2>13, ByArtifactNext DEF EachFile
  <2>15. InUseStays' /\ TaskHasComponent'
    BY <1>1, <2>3 DEF InUseStays, TaskHasComponent
  <2> QED
    BY <2>7, <2>8, <2>9, <2>10, <2>11, <2>12, <2>14, <2>15
<1> QED
  BY <1>3, <1>4

LEMMA RemoveObjectsKeeps ==
  ASSUME CatalogIInv, NEW w \in Requests, RemoveObjects(w)
  PROVE  CatalogIInv'
<1> USE DEF CatalogIInv
<1>1. Asked(w) /\ ~IsSave(w) /\ cReq[w].pc = "remove"
  BY RequestKinds DEF RemoveObjects
<1>2. PICK fs \in SUBSET Files : fs = cReq[w].name
  BY <1>1, RequestKinds
<1>3. PICK kept : kept \in {{}} \cup {{k} : k \in fs} /\ cLeft' = cLeft \cup kept
        /\ cFile' = [k \in DOMAIN cFile |-> IF k \in fs \ kept THEN 0 ELSE cFile[k]]
  BY <1>2 DEF RemoveObjects
<1>4. /\ Ends(w)
      /\ cTorn' = IF w \in cSession THEN cTorn ELSE cTorn \cup {k[1] : k \in fs}
      /\ UNCHANGED << cComp, cRow, cTask, cCmd, cStolen, cUps >>
  BY <1>2 DEF RemoveObjects, rows
<1>5. /\ \A v \in Requests \ {w} : cReq'[v] = cReq[v]
      /\ cReq'[w] = IdleRequest /\ cReq'[w].pc = "idle" /\ cSession' = cSession \ {w}
  BY <1>4, EndsMoves
<1>6. /\ cFile' \in [Files -> 0 .. MaxUploads]
      /\ \A k \in Files : (k \in fs /\ k \notin kept => cFile'[k] = 0)
                          /\ (k \notin fs => cFile'[k] = cFile[k])
                          /\ (cFile'[k] = 0 \/ cFile'[k] = cFile[k])
  BY <1>3, CatalogAssumption DEF CatalogTypes
<1>7. CatalogTypes'
  BY <1>4, <1>5, <1>6, EndsTypes DEF CatalogTypes
<1>8. IdsFit'
  BY <1>1, <1>4, <1>5, MovesKeepIds
<1>9. LocksFit'
  BY <1>5, SessionsAsk, LocksStay DEF LocksFit, Asked
<1>10. LookHolds'
  BY <1>4, <1>5 DEF LookHolds, InUse
<1>11. cLeft \subseteq cLeft' /\ kept \subseteq cLeft' /\ cTorn \subseteq cTorn'
  BY <1>3, <1>4
<1>12. RemovalsFit'
  BY <1>4, <1>5, <1>11 DEF RemovalsFit, CatalogTypes
\* Of the versions whose files it removes, none has a row, or all are noted.
<1>13. ASSUME NEW k \in fs PROVE k \in Files /\ (k[1] \in cTorn' \/ (w \in cSession /\ cRow[k[1]] = NoRow
                                    /\ k[1][1] = cReq[w].art[1]))
  <2>1. CASE w \in cSession
    BY <1>1, <1>2, <2>1 DEF RemovalsFit
  <2>2. CASE w \notin cSession
    BY <1>4, <2>2
  <2> QED
    BY <1>2, <2>1, <2>2
<1>14. StoredStays'
  <2> SUFFICES ASSUME NEW v \in cSession', cReq'[v].pc = "stored", cReq'[v].art \notin cTorn'
               PROVE  cFile'[<< cReq'[v].art, cReq'[v].name >>] = cReq'[v].sum
    BY DEF StoredStays
  <2>1. /\ v \in Requests /\ v # w /\ v \in cSession /\ cReq'[v] = cReq[v] /\ IsSave(v)
        /\ cReq[v].art \in Artifacts /\ cReq[v].name \in FileNames
    BY <1>5, RequestKinds DEF CatalogTypes, IsSave
  <2>2. PICK key \in Files : key = << cReq[v].art, cReq[v].name >>
    BY <2>1 DEF Files
  <2>3. key \notin fs
    <3> SUFFICES ASSUME key \in fs PROVE FALSE
      OBVIOUS
    <3>1. w \in cSession /\ cReq[v].art[1] = cReq[w].art[1]
      BY <1>13, <2>1, <2>2
    <3> QED
      BY <1>1, <2>1, <3>1 DEF LocksFit, SameComp
  <2>4. cFile[key] = cReq[v].sum
    BY <1>11, <2>1, <2>2 DEF StoredStays
  <2> QED
    BY <1>6, <2>1, <2>2, <2>3, <2>4
<1>15. ASSUME NEW b \in Artifacts, NEW f \in FileNames PROVE Matches(b, f)' /\ Known(b, f)'
  <2>1. Matches(b, f) /\ Known(b, f)
    BY ByArtifact
  <2>2. PICK key \in Files : key = << b, f >>
    BY DEF Files
  <2>7. key[1] = b
    BY <2>2
  <2>3. Writing(b, f) => Writing(b, f)'
    BY <1>1, <1>5 DEF Writing
  <2>4. \A v \in Requests : v # w /\ cReq[v].pc = "remove" => cReq'[v] = cReq[v]
    BY <1>5
  <2>5. CASE key \in fs
    <3>1. b \in cTorn' \/ cRow[b] = NoRow
      BY <1>13, <2>5, <2>7
    <3>2. Matches(b, f)'
      BY <1>4, <3>1 DEF Matches
    <3>3. cFile'[key] # 0 => key \in cLeft'
      BY <1>6, <1>11, <2>5
    <3> QED
      BY <2>2, <3>2, <3>3 DEF Known
  <2>6. CASE key \notin fs
    <3>1. cFile'[<< b, f >>] = cFile[<< b, f >>] /\ << b, f >> \notin cReq[w].name
      BY <1>2, <1>6, <2>2, <2>6
    <3> QED
      BY <1>4, <1>11, <2>1, <2>3, <2>4, <3>1 DEF Matches, Known
  <2> QED
    BY <2>5, <2>6
<1>16. FileMatchesRow' /\ NoStrayFile'
  BY <1>7, <1>15, ByArtifactNext DEF EachFile
<1>17. InUseStays' /\ TaskHasComponent'
  BY <1>4 DEF InUseStays, TaskHasComponent
<1> QED
  BY <1>7, <1>8, <1>9, <1>10, <1>12, <1>14, <1>16, <1>17

LEMMA PathsByComponentKeeps ==
  ASSUME CatalogIInv, NEW w \in Requests, PathsByComponent(w)
  PROVE  CatalogIInv'
<1> USE DEF CatalogIInv
<1> DEFINE known == {<< a, cRow[a].name >> : a \in {b \in Artifacts :
                       b[1] = cReq[w].art[1] /\ cRow[b] # NoRow}}
<1>1. /\ cReq[w].pc = "locked" /\ cReq[w].op \in {"cascade", "drop"} /\ Asked(w) /\ ~IsSave(w)
      /\ UNCHANGED << rows, cFile, cSession, cTorn, cStolen, cUps >>
  BY RequestKinds DEF PathsByComponent, IsSave
<1>2. PICK read : read \in {known, {}} /\ cLeft' = cLeft \cup (known \ read)
        /\ cReq' = [cReq EXCEPT ![w].pc = "paths", ![w].name = read]
  BY DEF PathsByComponent
<1>3. known \in SUBSET Files /\ \A k \in known : k[1][1] = cReq[w].art[1]
  BY DEF CatalogTypes, ArtifactRow, Files
<1>4. read \in SUBSET Files /\ (\A k \in read : k[1][1] = cReq[w].art[1])
      /\ known \subseteq read \cup cLeft' /\ cLeft \subseteq cLeft'
  BY <1>2, <1>3
<1>5. \A a \in Artifacts : a[1] = cReq[w].art[1] /\ cRow[a] # NoRow =>
        << a, cRow[a].name >> \in read \cup cLeft'
  BY <1>4
<1> HIDE DEF known
<1>6. /\ RequestTypes'
      /\ \A v \in Requests \ {w} : cReq'[v] = cReq[v]
      /\ cReq'[w] # IdleRequest /\ cReq'[w].pc = "paths" /\ cReq'[w].name = read
      /\ cReq'[w].op = cReq[w].op /\ cReq'[w].art = cReq[w].art /\ cReq'[w].sum = cReq[w].sum
  <2>1. cReq[w].op # "delete"
    BY <1>1
  <2> QED
    BY <1>1, <1>2, <1>4, <2>1, NamesMove
<1>7. CatalogTypes'
  BY <1>1, <1>6 DEF CatalogTypes, rows
<1>8. IdsFit'
  BY <1>1, <1>6, MovesKeepIds DEF rows
<1>9. LocksFit'
  BY <1>1, <1>6, SessionsAsk, LocksStay DEF LocksFit, Asked
<1>10. LookHolds'
  BY <1>1, <1>6 DEF LookHolds, InUse, rows
<1>11. StoredStays'
  BY <1>1, <1>6 DEF StoredStays, CatalogTypes
<1>12. RemovalsFit'
  <2>1. ASSUME NEW v \in Requests, cReq'[v].pc \in {"paths", "remove"}, NEW k \in cReq'[v].name
        PROVE  k[1][1] = cReq'[v].art[1]
    BY <1>4, <1>6, <2>1 DEF RemovalsFit
  <2>2. ASSUME NEW v \in cSession, cReq'[v].pc = "remove", NEW k \in cReq'[v].name
        PROVE  cRow'[k[1]] = NoRow
    <3>1. v \in Requests /\ v # w
      BY <1>6, <2>2 DEF CatalogTypes
    <3> QED
      BY <1>1, <1>6, <2>2, <3>1 DEF RemovalsFit, rows
  <2>3. ASSUME NEW v \in cSession, cReq'[v].pc = "paths", NEW b \in Artifacts,
               b[1] = cReq'[v].art[1], cRow'[b] # NoRow
        PROVE  << b, cRow'[b].name >> \in cReq'[v].name \cup cLeft'
    <3>1. CASE v = w
      BY <1>1, <1>5, <1>6, <2>3, <3>1 DEF rows
    <3>2. CASE v # w
      <4>1. v \in Requests /\ cReq'[v] = cReq[v]
        BY <1>6, <3>2 DEF CatalogTypes
      <4> QED
        BY <1>1, <1>4, <2>3, <4>1 DEF RemovalsFit, rows
    <3> QED
      BY <3>1, <3>2
  <2> QED
    BY <1>1, <2>1, <2>2, <2>3 DEF RemovalsFit
<1>13. ASSUME NEW b \in Artifacts, NEW f \in FileNames PROVE Matches(b, f)' /\ Known(b, f)'
  <2>1. Matches(b, f) /\ Known(b, f)
    BY ByArtifact
  <2>2. Writing(b, f) => Writing(b, f)'
    BY <1>1, <1>6 DEF Writing
  <2>3. \A v \in Requests : cReq[v].pc = "remove" => cReq'[v] = cReq[v]
    BY <1>1, <1>6
  <2> QED
    BY <1>1, <1>4, <2>1, <2>2, <2>3 DEF Matches, Known, rows
<1>14. FileMatchesRow' /\ NoStrayFile'
  BY <1>7, <1>13, ByArtifactNext DEF EachFile
<1>15. InUseStays' /\ TaskHasComponent'
  BY <1>1 DEF InUseStays, TaskHasComponent, rows
<1> QED
  BY <1>7, <1>8, <1>9, <1>10, <1>11, <1>12, <1>14, <1>15

LEMMA DropComponentKeeps ==
  ASSUME CatalogIInv, NEW w \in Requests, DropComponent(w)
  PROVE  CatalogIInv'
<1> USE DEF CatalogIInv
<1>1. /\ cReq[w].pc = "paths" /\ Asked(w) /\ ~IsSave(w)
      /\ UNCHANGED << cCmd, cFile, cLeft, cStolen, cUps >>
  BY RequestKinds DEF DropComponent, counts
<1>2. PICK art \in Artifacts : art = cReq[w].art
  BY <1>1, RequestKinds
<1>3. CASE ~Removable(art[1], cReq[w].op = "cascade")
  BY <1>1, <1>2, <1>3, EndsKeeps DEF DropComponent, rows, notes
<1>4. CASE Removable(art[1], cReq[w].op = "cascade")
  <2> DEFINE c == art[1]
  <2>1. /\ cComp' = cComp \ {c}
        /\ cRow' = [a \in Artifacts |-> IF a[1] = c THEN NoRow ELSE cRow[a]]
        /\ cTask' = [a \in Artifacts |-> IF a[1] = c THEN "none" ELSE cTask[a]]
        /\ cTorn' = IF w \in cSession THEN cTorn ELSE cTorn \cup {a \in Artifacts : a[1] = c}
        /\ Goto(w, "remove") /\ cSession' = cSession
    BY <1>2, <1>4 DEF DropComponent
  <2>2. /\ \A v \in Requests \ {w} : cReq'[v] = cReq[v]
        /\ cReq'[w] # IdleRequest
        /\ cReq'[w].pc = "remove" /\ cReq'[w].op = cReq[w].op /\ cReq'[w].art = cReq[w].art
        /\ cReq'[w].name = cReq[w].name /\ cReq'[w].sum = cReq[w].sum
    BY <1>1, <2>1, GotoMoves
  <2>3. cReq[w].op \in {"cascade", "drop"}
    BY <1>1 DEF CatalogTypes, RequestTypes, DeleteRequest, SaveRequest, Asked
  <2>4. CatalogTypes'
    <3>1. cRow' \in [Artifacts -> ArtifactRow \cup {NoRow}]
      BY <2>1 DEF CatalogTypes
    <3>2. cTask' \in [Artifacts -> {"none", "draft", "running", "over"}]
      BY <2>1 DEF CatalogTypes
    <3>3. RequestTypes'
      BY <1>1, <2>1, <2>3, GotoTypes
    <3> QED
      BY <1>1, <2>1, <3>1, <3>2, <3>3 DEF CatalogTypes
  <2>5. \A b \in Artifacts : cRow'[b] = NoRow \/ cRow'[b] = cRow[b]
    BY <2>1
  <2>6. IdsFit'
    <3>1. NoRow.id = 0 /\ 0 <= cUps
      BY CatalogAssumption DEF NoRow, CatalogTypes
    <3>2. \A v \in Requests : IsSave(v) => cReq[v].sum # 0 /\ v # w
      BY <1>1, RequestKinds
    <3>3. \A v \in Requests : (IsSave(v)' <=> IsSave(v)) /\ (Asked(v)' <=> Asked(v))
                              /\ cReq'[v].sum = cReq[v].sum
      BY <1>1, <2>2 DEF IsSave, Asked
    <3> QED
      BY <1>1, <2>5, <3>1, <3>2, <3>3 DEF IdsFit
  <2>7. LocksFit'
    BY <2>1, <2>2, LocksStay, SessionsAsk DEF LocksFit, Asked
  <2>8. StoredStays'
    <3> SUFFICES ASSUME NEW v \in cSession, cReq'[v].pc = "stored", cReq'[v].art \notin cTorn'
                 PROVE  cFile'[<< cReq'[v].art, cReq'[v].name >>] = cReq'[v].sum
      BY <2>1 DEF StoredStays
    <3>1. v # w /\ cReq'[v] = cReq[v] /\ (cTorn \subseteq cTorn')
      BY <2>1, <2>2 DEF CatalogTypes
    <3> QED
      BY <1>1, <3>1 DEF StoredStays
  <2>9. RemovalsFit'
    <3>1. ASSUME NEW v \in Requests, cReq'[v].pc \in {"paths", "remove"}, NEW k \in cReq'[v].name
          PROVE  k[1][1] = cReq'[v].art[1]
      BY <1>1, <2>2, <3>1 DEF RemovalsFit
    <3>2. ASSUME NEW v \in cSession, cReq'[v].pc = "remove", NEW k \in cReq'[v].name
          PROVE  cRow'[k[1]] = NoRow
      <4>1. v \in Requests /\ Asked(v) /\ ~IsSave(v) /\ k \in cReq[v].name
        BY <1>1, <2>2, <3>2, RequestKinds DEF CatalogTypes
      <4>2. k[1] \in Artifacts
        BY <4>1, RequestKinds DEF Files
      <4>3. CASE v = w
        <5>1. k[1][1] = c
          BY <1>1, <1>2, <4>1, <4>3 DEF RemovalsFit
        <5> QED
          BY <2>1, <4>2, <5>1
      <4>4. CASE v # w
        BY <2>2, <2>5, <3>2, <4>1, <4>2, <4>4 DEF RemovalsFit
      <4> QED
        BY <4>3, <4>4
    <3>3. ASSUME NEW v \in cSession, cReq'[v].pc = "paths", NEW b \in Artifacts,
                 b[1] = cReq'[v].art[1], cRow'[b] # NoRow
          PROVE  << b, cRow'[b].name >> \in cReq'[v].name \cup cLeft'
      <4>1. v \in Requests /\ cReq'[v] = cReq[v]
        BY <2>2, <3>3 DEF CatalogTypes
      <4>2. cRow'[b] = cRow[b]
        BY <2>5, <3>3
      <4> QED
        BY <1>1, <3>3, <4>1, <4>2 DEF RemovalsFit
    <3> QED
      BY <2>1, <3>1, <3>2, <3>3 DEF RemovalsFit
  <2>10. ASSUME NEW b \in Artifacts, cTask'[b] = "running" PROVE cTask[b] = "running"
    BY <2>1, <2>10
  <2>11. LookHolds'
    <3> SUFFICES ASSUME NEW v \in Requests, cReq'[v].pc = "checked", ~cReq'[v].late,
                        cRow'[cReq'[v].art].id = cReq'[v].sum
                 PROVE  ~InUse(cReq[v].art, cReq[v].sum)' /\ cReq'[v] = cReq[v]
      BY DEF LookHolds
    <3>1. v # w /\ cReq'[v] = cReq[v] /\ cReq[v].sum \in 1 .. MaxUploads /\ cReq[v].art \in Artifacts
      BY <2>2, RequestKinds
    <3>2. cRow'[cReq[v].art] = cRow[cReq[v].art]
      BY <2>5, <3>1, CatalogAssumption DEF NoRow
    <3>3. ~InUse(cReq[v].art, cReq[v].sum)
      BY <3>1, <3>2 DEF LookHolds
    <3> QED
      BY <1>1, <2>10, <3>1, <3>3 DEF InUse
  <2>12. ASSUME NEW b \in Artifacts, NEW f \in FileNames PROVE Matches(b, f)' /\ Known(b, f)'
    <3>1. Matches(b, f) /\ Known(b, f)
      BY ByArtifact
    <3>2. Writing(b, f) => Writing(b, f)'
      BY <1>1, <2>2 DEF Writing
    <3>3. \A v \in Requests : cReq[v].pc = "remove" => cReq'[v] = cReq[v]
      BY <1>1, <2>2
    <3>4. Matches(b, f)'
      BY <1>1, <2>1, <2>5, <3>1, <3>2 DEF Matches
    <3>5. Known(b, f)'
      <4>1. CASE cRow'[b] = cRow[b]
        BY <1>1, <2>1, <3>1, <3>2, <3>3, <4>1 DEF Known
      <4>2. CASE cRow'[b] # cRow[b] /\ f # cRow[b].name
        BY <1>1, <2>1, <3>1, <3>2, <3>3, <4>2 DEF Known
      <4>3. CASE cRow'[b] # cRow[b] /\ f = cRow[b].name
        <5>1. b[1] = c /\ cRow[b] # NoRow
          BY <2>1, <2>5, <4>3
        <5>2. w \in cSession => << b, f >> \in cReq[w].name \cup cLeft
          BY <1>1, <1>2, <4>3, <5>1 DEF RemovalsFit
        <5>3. w \notin cSession => b \in cTorn'
          BY <2>1, <5>1
        <5> QED
          BY <1>1, <2>2, <5>2, <5>3 DEF Known
      <4> QED
        BY <4>1, <4>2, <4>3
    <3> QED
      BY <3>4, <3>5
  <2>13. FileMatchesRow' /\ NoStrayFile'
    BY <2>4, <2>12, ByArtifactNext DEF EachFile
  <2>14. InUseStays' /\ TaskHasComponent'
    BY <1>1, <2>1 DEF InUseStays, TaskHasComponent
  <2> QED
    BY <2>4, <2>6, <2>7, <2>8, <2>9, <2>11, <2>13, <2>14
<1> QED
  BY <1>3, <1>4

-----------------------------------------------------------------------------
\* A step of a task: the requests stay, but for a note that the task started.
LEMMA TaskStep ==
  ASSUME CatalogIInv, UNCHANGED << cComp, cRow, cFile, cSession, notes, cUps >>,
         CatalogTypes', TaskHasComponent', LookHolds',
         \A v \in Requests :
           /\ cReq'[v].pc = cReq[v].pc /\ cReq'[v].op = cReq[v].op /\ cReq'[v].art = cReq[v].art
           /\ cReq'[v].name = cReq[v].name /\ cReq'[v].sum = cReq[v].sum
           /\ cReq'[v] = IdleRequest <=> cReq[v] = IdleRequest
  PROVE  CatalogIInv'
<1> USE DEF CatalogIInv, notes
<1>1. IdsFit'
  BY DEF IdsFit, Asked, IsSave
<1>2. LocksFit'
  BY DEF LocksFit, Asked, IsSave, SameComp, CatalogTypes
<1>3. StoredStays' /\ RemovalsFit'
  BY DEF StoredStays, RemovalsFit, CatalogTypes
<1>4. \A a, f : Writing(a, f)' <=> Writing(a, f)
  BY DEF Writing
<1>5. ASSUME NEW b \in Artifacts, NEW f \in FileNames PROVE Matches(b, f)' /\ Known(b, f)'
  <2>1. Matches(b, f) /\ Known(b, f)
    BY ByArtifact
  <2> QED
    BY <1>4, <2>1 DEF Matches, Known
<1>6. FileMatchesRow' /\ NoStrayFile'
  BY <1>5, ByArtifactNext DEF EachFile
<1> QED
  BY <1>1, <1>2, <1>3, <1>6 DEF InUseStays

LEMMA TaskCreatedKeeps ==
  ASSUME CatalogIInv, NEW a \in Artifacts, TaskCreated(a)
  PROVE  CatalogIInv'
<1> USE DEF CatalogIInv
<1>1. /\ a[1] \in cComp /\ cTask' = [cTask EXCEPT ![a] = "draft"]
      /\ UNCHANGED << cComp, cRow, cCmd, cFile, cReq, cSession, notes, cUps >>
  BY DEF TaskCreated
<1>2. CatalogTypes'
  BY <1>1 DEF CatalogTypes, RequestTypes
<1>3. TaskHasComponent'
  BY <1>1 DEF TaskHasComponent, CatalogTypes
<1>4. LookHolds'
  <2>1. \A b, id : InUse(b, id)' => InUse(b, id) \/ b \notin Artifacts
    BY <1>1 DEF InUse, CatalogTypes
  <2> QED
    BY <1>1, <2>1, RequestKinds DEF LookHolds
<1> QED
  BY <1>1, <1>2, <1>3, <1>4, TaskStep

LEMMA TaskStartsKeeps ==
  ASSUME CatalogIInv, NEW a \in Artifacts, TaskStarts(a)
  PROVE  CatalogIInv'
<1> USE DEF CatalogIInv
<1>1. /\ cTask[a] # "none" /\ cTask' = [cTask EXCEPT ![a] = "running"]
      /\ cReq' = [w \in Requests |->
           IF cReq[w].pc = "checked" /\ cReq[w].art = a THEN [cReq[w] EXCEPT !.late = TRUE]
           ELSE cReq[w]]
      /\ UNCHANGED << cComp, cRow, cCmd, cFile, cSession, notes, cUps >>
  BY DEF TaskStarts, counts
<1>2. DOMAIN cReq' = Requests /\ \A v \in Requests :
           /\ cReq'[v].pc = cReq[v].pc /\ cReq'[v].op = cReq[v].op /\ cReq'[v].art = cReq[v].art
           /\ cReq'[v].name = cReq[v].name /\ cReq'[v].sum = cReq[v].sum
           /\ cReq'[v] = IdleRequest <=> cReq[v] = IdleRequest
           /\ cReq'[v] = cReq[v] \/ cReq'[v] \in DeleteRequest
           /\ cReq[v].pc = "checked" /\ cReq[v].art = a => cReq'[v].late = TRUE
  <2>1. ASSUME NEW v \in Requests, cReq[v].pc = "checked", cReq[v].art = a
        PROVE  cReq[v] \in DeleteRequest
    BY <2>1, RequestKinds DEF CatalogTypes, RequestTypes, Asked
  <2> QED
    BY <1>1, <2>1 DEF DeleteRequest, IdleRequest
<1>3. CatalogTypes'
  <2>1. RequestTypes'
    BY <1>2 DEF CatalogTypes, RequestTypes, SaveRequest, DeleteRequest, DropRequest
  <2> QED
    BY <1>1, <2>1 DEF CatalogTypes
<1>4. TaskHasComponent'
  BY <1>1 DEF TaskHasComponent, CatalogTypes
<1>5. LookHolds'
  <2> SUFFICES ASSUME NEW v \in Requests, cReq'[v].pc = "checked", ~cReq'[v].late,
                      cRow'[cReq'[v].art].id = cReq'[v].sum
               PROVE  ~InUse(cReq[v].art, cReq[v].sum)'
    BY <1>2 DEF LookHolds
  <2>1. cReq[v].art # a /\ cReq'[v] = cReq[v] /\ cReq[v].art \in Artifacts
    BY <1>1, <1>2, RequestKinds
  <2>2. ~InUse(cReq[v].art, cReq[v].sum)
    BY <1>1, <2>1 DEF LookHolds
  <2> QED
    BY <1>1, <2>1, <2>2 DEF InUse, CatalogTypes
<1> QED
  BY <1>1, <1>2, <1>3, <1>4, <1>5, TaskStep

LEMMA TaskDispatchesKeeps ==
  ASSUME CatalogIInv, NEW a \in Artifacts, TaskDispatches(a)
  PROVE  CatalogIInv'
<1> USE DEF CatalogIInv
<1>1. /\ cTask[a] = "running" /\ cRow[a] # NoRow /\ cCmd' = [cCmd EXCEPT ![a] = cRow[a].id]
      /\ UNCHANGED << cComp, cRow, cTask, cFile, cReq, cSession, notes, cUps >>
  BY DEF TaskDispatches, counts
<1>2. cRow[a].id \in 0 .. MaxUploads
  BY <1>1, CatalogAssumption DEF CatalogTypes, ArtifactRow
<1>3. CatalogTypes'
  <2>1. cCmd' \in [Artifacts -> 0 .. MaxUploads]
    BY <1>1, <1>2 DEF CatalogTypes
  <2> QED
    BY <1>1, <2>1 DEF CatalogTypes, RequestTypes
<1>4. TaskHasComponent'
  BY <1>1 DEF TaskHasComponent
\* The removal of another version looks for another id.
<1>5. LookHolds'
  <2> SUFFICES ASSUME NEW v \in Requests, cReq[v].pc = "checked", ~cReq[v].late,
                      cRow[cReq[v].art].id = cReq[v].sum
               PROVE  ~InUse(cReq[v].art, cReq[v].sum)'
    BY <1>1 DEF LookHolds
  <2>1. cReq[v].art \in Artifacts /\ cReq[v].sum \in 1 .. MaxUploads
    BY RequestKinds
  <2>2. ~InUse(cReq[v].art, cReq[v].sum)
    BY DEF LookHolds
  <2>3. cReq[v].art # a
    BY <1>1, <2>2 DEF InUse
  <2>4. cRow[cReq[v].art] # NoRow
    BY <2>1, CatalogAssumption DEF NoRow
  <2>5. cRow[a].id # cReq[v].sum
    BY <1>1, <2>1, <2>3, <2>4 DEF IdsFit
  <2> QED
    BY <1>1, <2>2, <2>5 DEF InUse, CatalogTypes
<1> QED
  BY <1>1, <1>3, <1>4, <1>5, TaskStep

LEMMA CommandEndsKeeps ==
  ASSUME CatalogIInv, NEW a \in Artifacts, CommandEnds(a)
  PROVE  CatalogIInv'
<1> USE DEF CatalogIInv
<1>1. /\ cCmd' = [cCmd EXCEPT ![a] = 0]
      /\ UNCHANGED << cComp, cRow, cTask, cFile, cReq, cSession, notes, cUps >>
  BY DEF CommandEnds, counts
<1>2. CatalogTypes'
  <2>1. cCmd' \in [Artifacts -> 0 .. MaxUploads]
    BY <1>1, CatalogAssumption DEF CatalogTypes
  <2> QED
    BY <1>1, <2>1 DEF CatalogTypes, RequestTypes
<1>3. TaskHasComponent'
  BY <1>1 DEF TaskHasComponent
<1>4. LookHolds'
  <2> SUFFICES ASSUME NEW v \in Requests, cReq[v].pc = "checked", ~cReq[v].late,
                      cRow[cReq[v].art].id = cReq[v].sum
               PROVE  ~InUse(cReq[v].art, cReq[v].sum)'
    BY <1>1 DEF LookHolds
  <2>1. cReq[v].sum \in 1 .. MaxUploads
    BY RequestKinds
  <2>2. ~InUse(cReq[v].art, cReq[v].sum)
    BY DEF LookHolds
  <2>3. cReq[v].sum # 0
    BY <2>1
  <2> QED
    BY <1>1, <2>2, <2>3 DEF InUse, CatalogTypes
<1> QED
  BY <1>1, <1>2, <1>3, <1>4, TaskStep

LEMMA TaskOverKeeps ==
  ASSUME CatalogIInv, NEW a \in Artifacts, TaskOver(a)
  PROVE  CatalogIInv'
<1> USE DEF CatalogIInv
<1>1. /\ cTask[a] = "running" /\ cTask' = [cTask EXCEPT ![a] = "over"]
      /\ UNCHANGED << cComp, cRow, cCmd, cFile, cReq, cSession, notes, cUps >>
  BY DEF TaskOver, counts
<1>2. CatalogTypes'
  BY <1>1 DEF CatalogTypes, RequestTypes
<1>3. TaskHasComponent'
  BY <1>1 DEF TaskHasComponent, CatalogTypes
<1>4. LookHolds'
  <2>1. ASSUME NEW b \in Artifacts, NEW id, InUse(b, id)' PROVE InUse(b, id)
    BY <1>1, <2>1 DEF InUse, CatalogTypes
  <2> QED
    BY <1>1, <2>1, RequestKinds DEF LookHolds
<1> QED
  BY <1>1, <1>2, <1>3, <1>4, TaskStep

LEMMA SessionBreaksKeeps ==
  ASSUME CatalogIInv, NEW w \in Requests, SessionBreaks(w)
  PROVE  CatalogIInv'
<1> USE DEF CatalogIInv
<1>1. /\ cSession' \subseteq cSession /\ cReq' = cReq
      /\ UNCHANGED << rows, cFile, notes, cUps >>
  BY DEF SessionBreaks
<1>2. CatalogTypes' /\ IdsFit'
  BY <1>1 DEF CatalogTypes, RequestTypes, IdsFit, Asked, IsSave, rows
<1>3. LocksFit'
  BY <1>1, SessionsAsk, LocksStay DEF LocksFit, Asked
<1>4. StoredStays' /\ RemovalsFit'
  BY <1>1 DEF StoredStays, RemovalsFit, rows, notes
<1>5. LookHolds'
  BY <1>1 DEF LookHolds, InUse, rows
<1>6. FileMatchesRow' /\ NoStrayFile' /\ InUseStays' /\ TaskHasComponent'
  BY <1>1, FilesKept
<1> QED
  BY <1>2, <1>3, <1>4, <1>5, <1>6

\* The files a replica worked on when it died are noted.
LEMMA CrashKeeps ==
  ASSUME CatalogIInv, NEW w \in Requests, Crash(w)
  PROVE  CatalogIInv'
<1> USE DEF CatalogIInv
<1>1. /\ Ends(w) /\ UNCHANGED << rows, cFile, cStolen, cUps >>
      /\ cReq[w].pc \in {"stored", "undo", "checked", "paths", "remove"}
  BY DEF Crash
<1>2. CASE cReq[w].pc \in {"checked", "paths"}
  <2>1. UNCHANGED << cLeft, cTorn >>
    BY <1>2 DEF Crash
  <2> QED
    BY <1>1, <1>2, <2>1, EndsKeeps DEF notes
<1>3. CASE cReq[w].pc \in {"stored", "undo", "remove"}
  <2>1. /\ Asked(w) /\ \A v \in Requests \ {w} : cReq'[v] = cReq[v]
        /\ cReq'[w] = IdleRequest /\ cReq'[w].pc = "idle" /\ cSession' = cSession \ {w}
    BY <1>1, <1>3, EndsMoves, RequestKinds
  <2>2. cLeft \subseteq cLeft' /\ cTorn \subseteq cTorn'
    BY <1>3 DEF Crash
  <2>3. CatalogTypes'
    BY <1>1, <2>1, EndsTypes DEF CatalogTypes, rows
  <2>4. IdsFit'
    BY <1>1, <2>1, MovesKeepIds DEF rows
  <2>5. LocksFit'
    BY <2>1, SessionsAsk, LocksStay DEF LocksFit, Asked
  <2>6. LookHolds'
    BY <1>1, <2>1 DEF LookHolds, InUse, rows
  <2>7. StoredStays' /\ RemovalsFit'
    BY <1>1, <2>1, <2>2 DEF StoredStays, RemovalsFit, CatalogTypes, rows
  <2>8. ASSUME NEW b \in Artifacts, NEW f \in FileNames PROVE Matches(b, f)' /\ Known(b, f)'
    <3>1. Matches(b, f) /\ Known(b, f)
      BY ByArtifact
    <3>2. CASE cReq[w].pc = "remove"
      <4>1. cReq[w].name \subseteq cLeft'
        BY <1>3, <3>2 DEF Crash
      <4>2. Writing(b, f) => Writing(b, f)'
        BY <2>1, <3>2 DEF Writing
      <4> QED
        BY <1>1, <2>1, <2>2, <3>1, <4>1, <4>2 DEF Matches, Known, rows
    <3>3. CASE cReq[w].pc # "remove"
      <4>1. PICK a \in Artifacts, n \in FileNames : a = cReq[w].art /\ n = cReq[w].name
        BY <1>3, <3>3, RequestKinds
      <4>2. << a, n >> \in cLeft' /\ (cRow[a].name = n => a \in cTorn')
        BY <1>3, <3>3, <4>1 DEF Crash
      <4>3. CASE b = a /\ f = n
        BY <1>1, <4>2, <4>3 DEF Matches, Known, rows
      <4>4. CASE ~(b = a /\ f = n)
        <5>1. Writing(b, f) => Writing(b, f)'
          BY <2>1, <4>1, <4>4 DEF Writing
        <5> QED
          BY <1>1, <2>1, <2>2, <3>1, <3>3, <5>1 DEF Matches, Known, rows
      <4> QED
        BY <4>3, <4>4
    <3> QED
      BY <3>2, <3>3
  <2>9. FileMatchesRow' /\ NoStrayFile'
    BY <2>3, <2>8, ByArtifactNext DEF EachFile
  <2>10. InUseStays' /\ TaskHasComponent'
    BY <1>1 DEF InUseStays, TaskHasComponent, rows
  <2> QED
    BY <2>3, <2>4, <2>5, <2>6, <2>7, <2>9, <2>10
<1> QED
  BY <1>1, <1>2, <1>3

LEMMA CatalogBegins == CatalogInit => CatalogIInv
<1> SUFFICES ASSUME CatalogInit PROVE CatalogIInv
  OBVIOUS
<1> USE CatalogAssumption DEF CatalogInit
<1>1. \A w \in Requests : cReq[w] = IdleRequest /\ cReq[w].pc = "idle"
  BY DEF IdleRequest
<1>2. \A a \in Artifacts : cRow[a] = NoRow /\ cRow[a].id = 0
  BY DEF NoRow
<1>3. CatalogTypes
  BY <1>1 DEF CatalogTypes, RequestTypes, Files
<1>4. IdsFit /\ LocksFit /\ StoredStays
  BY <1>1, <1>2 DEF IdsFit, LocksFit, StoredStays, Asked, IsSave
<1>5. RemovalsFit /\ LookHolds
  BY <1>1, <1>2 DEF RemovalsFit, LookHolds
<1>6. FileMatchesRow
  BY <1>2 DEF FileMatchesRow
<1>7. NoStrayFile
  BY DEF NoStrayFile
<1>8. InUseStays /\ TaskHasComponent
  BY DEF InUseStays, TaskHasComponent
<1> QED
  BY <1>3, <1>4, <1>5, <1>6, <1>7, <1>8 DEF CatalogIInv

LEMMA CatalogStays == CatalogIInv /\ UNCHANGED cVars => CatalogIInv'
<1> SUFFICES ASSUME CatalogIInv, UNCHANGED cVars PROVE CatalogIInv'
  OBVIOUS
<1> USE DEF CatalogIInv, cVars
<1>1. CatalogTypes' /\ IdsFit' /\ LocksFit'
  BY DEF CatalogTypes, RequestTypes, IdsFit, LocksFit, Asked, IsSave, SameComp
<1>2. StoredStays' /\ RemovalsFit' /\ LookHolds'
  BY DEF StoredStays, RemovalsFit, LookHolds, InUse
<1>3. FileMatchesRow' /\ NoStrayFile' /\ InUseStays' /\ TaskHasComponent'
  BY DEF FileMatchesRow, NoStrayFile, InUseStays, TaskHasComponent, Writing
<1> QED
  BY <1>1, <1>2, <1>3

LEMMA CatalogMoves == CatalogIInv /\ CatalogNext => CatalogIInv'
<1> SUFFICES ASSUME CatalogIInv, CatalogNext PROVE CatalogIInv'
  OBVIOUS
<1>1. ASSUME NEW w \in Requests, NEW a \in Artifacts, NEW f \in FileNames, SaveBegins(w, a, f)
      PROVE  CatalogIInv'
  BY <1>1, SaveBeginsKeeps
<1>2. ASSUME NEW w \in Requests, NEW a \in Artifacts, GetArtifact(w, a) PROVE CatalogIInv'
  BY <1>2, GetArtifactKeeps
<1>3. ASSUME NEW w \in Requests, NEW c \in CatComps, NEW cascade \in BOOLEAN, CheckDelete(w, c, cascade)
      PROVE  CatalogIInv'
  BY <1>3, CheckDeleteKeeps
<1>4. ASSUME NEW w \in Requests,
             acquireArtifactDBLocks(w) \/ GivesUp(w)
             \/ BackendSaves(w) \/ RowSaved(w) \/ RowFails(w) \/ Undo(w)
      PROVE  CatalogIInv'
  BY <1>4, acquireKeeps, GivesUpKeeps, BackendSavesKeeps, RowSavedKeeps, RowFailsKeeps, UndoKeeps
<1>5. ASSUME NEW w \in Requests,
             CheckInUse(w) \/ DeleteRow(w) \/ RemoveObjects(w)
             \/ PathsByComponent(w) \/ DropComponent(w) \/ SessionBreaks(w) \/ Crash(w)
      PROVE  CatalogIInv'
  BY <1>5, CheckInUseKeeps, DeleteRowKeeps, RemoveObjectsKeeps, PathsByComponentKeeps,
     DropComponentKeeps, SessionBreaksKeeps, CrashKeeps
<1>6. ASSUME NEW a \in Artifacts,
             TaskCreated(a) \/ TaskStarts(a) \/ TaskDispatches(a) \/ CommandEnds(a) \/ TaskOver(a)
      PROVE  CatalogIInv'
  BY <1>6, TaskCreatedKeeps, TaskStartsKeeps, TaskDispatchesKeeps, CommandEndsKeeps, TaskOverKeeps
<1> QED
  BY <1>1, <1>2, <1>3, <1>4, <1>5, <1>6 DEF CatalogNext

LEMMA CatalogHolds == CatalogIInv => CatalogInv
<1> SUFFICES ASSUME CatalogIInv PROVE CatalogTypeOK
  BY DEF CatalogIInv, CatalogInv
<1>1. \A a \in Artifacts : cRow[a].id \in 0 .. MaxUploads /\ cRow[a].sum \in 0 .. MaxUploads
  BY CatalogAssumption DEF CatalogIInv, CatalogTypes, ArtifactRow, NoRow
<1> QED
  BY <1>1 DEF CatalogIInv, CatalogTypes, CatalogTypeOK

\* Rows, files, tasks and components agree whatever uploads and removals meet
\* and wherever one of them breaks off, for any number of requests, components,
\* versions, tasks and failures (Save, Delete and deleteComponent).
THEOREM CatalogIsSound == PlatformSpec => []CatalogInv
<1>1. PlatformInit => CatalogIInv
  BY CatalogBegins DEF PlatformInit
<1>2. CatalogIInv /\ [PlatformNext]_platformVars => CatalogIInv'
  <2> SUFFICES ASSUME CatalogIInv, [PlatformNext]_platformVars PROVE CatalogIInv'
    OBVIOUS
  <2>1. CatalogNext \/ UNCHANGED cVars
    BY DEF PlatformNext, platformVars
  <2> QED
    BY <2>1, CatalogMoves, CatalogStays
<1> QED
  BY <1>1, <1>2, CatalogHolds, PTL DEF PlatformSpec
-----------------------------------------------------------------------------
(* The inventory of hosts *)

RowFits(h) ==
  LET x == iHost[h] IN
  /\ x = [source |-> x.source, group |-> x.group, synced |-> x.synced, field |-> x.field, busy |-> x.busy]
  /\ x.source \in {"none", "agent"} \cup Locks /\ x.synced \in 0 .. MaxRounds

RunFits(l) ==
  LET k == iRun[l] IN
  k # NoRound =>
    /\ k = [pc |-> k.pc, seen |-> k.seen, todo |-> k.todo, at |-> k.at, group |-> k.group,
            cleans |-> k.cleans, map |-> k.map, cand |-> k.cand, waits |-> k.waits]
    /\ k.pc \in {"write", "delete"} /\ k.seen \subseteq IPs \X Nat /\ k.at \in 1 .. MaxRounds
    /\ k.cand \subseteq IPs /\ k.waits \in IPs \cup {0}
    /\ k.pc = "delete" => k.todo = {}

InventoryTypes ==
  /\ DOMAIN iHost = IPs /\ \A h \in IPs : RowFits(h)
  /\ DOMAIN iRun = Locks /\ \A l \in Locks : RunFits(l)
  /\ DOMAIN iHuman = IPs /\ iClock \in 0 .. MaxRounds
  /\ iListed \in [Locks -> SUBSET (IPs \X Nat)]

\* A host that a round has written is out of the reach of its removal, or the
\* other source has stamped it since.
Stamped(l) ==
  iRun[l].pc # "idle" => \A x \in iRun[l].seen :
    \/ x \in iRun[l].todo \/ x[1] \in iCrossed
    \/ iHost[x[1]].synced >= iRun[l].at \/ iHost[x[1]].source # l

InventoryIInv ==
  /\ InventoryTypes /\ \A l \in Locks : Stamped(l)
  /\ SeenHostsStay /\ UsedHostsStay /\ HumanStands

LEMMA NoRoundFits == NoRound.pc = "idle"
BY DEF NoRound

LEMMA InventoryBegins == InventoryInit => InventoryIInv
<1> SUFFICES ASSUME InventoryInit PROVE InventoryIInv
  OBVIOUS
<1> USE InventoryAssumption DEF InventoryInit
<1>1. \A h \in IPs : iHost[h] = [source |-> "consul", group |-> 0, synced |-> 0, field |-> NoField, busy |-> FALSE]
  BY DEF NoHost
<1>2. \A h \in IPs : RowFits(h)
  BY <1>1 DEF RowFits, Locks
<1>3. \A l \in Locks : iRun[l] = NoRound /\ RunFits(l) /\ Stamped(l)
  BY NoRoundFits DEF RunFits, Stamped
<1>4. iListed \in [Locks -> SUBSET (IPs \X Nat)]
  <2>1. PICK gone : iListed = [l \in Locks |-> IF l = "consul" THEN (IPs \ gone) \X {0} ELSE IPs \X Groups]
    OBVIOUS
  <2> QED
    BY <2>1
<1>5. InventoryTypes
  BY <1>2, <1>3, <1>4 DEF InventoryTypes
<1> QED
  BY <1>3, <1>5 DEF InventoryIInv, SeenHostsStay, UsedHostsStay, HumanStands

\* Where no host changes, a round may move.
LEMMA RoundMoves ==
  ASSUME InventoryIInv, NEW l \in Locks,
         UNCHANGED << iHost, iListed, iHuman, iMissed, iCrossed, iDropped >>,
         iClock' \in 0 .. MaxRounds, DOMAIN iRun' = Locks,
         \A m \in Locks \ {l} : iRun'[m] = iRun[m], RunFits(l)', Stamped(l)'
  PROVE  InventoryIInv'
<1> USE DEF InventoryIInv
<1>1. \A m \in Locks : RunFits(m)'
  BY DEF InventoryTypes, RunFits
<1>2. \A m \in Locks : Stamped(m)'
  BY DEF Stamped
<1>3. InventoryTypes'
  BY <1>1 DEF InventoryTypes, RowFits
<1> QED
  BY <1>2, <1>3 DEF SeenHostsStay, UsedHostsStay, HumanStands

LEMMA RoundGoes ==
  ASSUME InventoryIInv, NEW l \in Locks, iRun' = [iRun EXCEPT ![l] = NoRound],
         UNCHANGED << iHost, iListed, iClock, iHuman, iMissed, iCrossed, iDropped >>
  PROVE  InventoryIInv'
<1>1. /\ DOMAIN iRun' = Locks /\ iRun'[l] = NoRound /\ iClock' \in 0 .. MaxRounds
      /\ \A m \in Locks \ {l} : iRun'[m] = iRun[m]
  BY DEF InventoryIInv, InventoryTypes
<1>2. RunFits(l)' /\ Stamped(l)'
  BY <1>1, NoRoundFits DEF RunFits, Stamped
<1> QED
  BY <1>1, <1>2, RoundMoves

\* Where the rounds stay, others may give a host to an agent and change what
\* does not matter to the rounds.
LEMMA OthersKeep ==
  ASSUME InventoryIInv, UNCHANGED << iClock, iRun, iMissed, iCrossed, iDropped >>,
         iListed' \in [Locks -> SUBSET (IPs \X Nat)],
         DOMAIN iHost' = IPs, DOMAIN iHuman' = IPs,
         \A h \in IPs : /\ RowFits(h)' /\ iHost'[h].synced = iHost[h].synced
                        /\ iHost'[h].source = iHost[h].source \/ iHost'[h].source = "agent"
                        /\ iHuman'[h] # NoField => iHost'[h].field = iHuman'[h]
  PROVE  InventoryIInv'
<1> USE DEF InventoryIInv
<1>1. \A m \in Locks : RunFits(m)'
  BY DEF InventoryTypes, RunFits
<1>2. InventoryTypes'
  BY <1>1 DEF InventoryTypes
<1>3. ASSUME NEW m \in Locks PROVE Stamped(m)'
  <2> SUFFICES ASSUME iRun[m].pc # "idle", NEW x \in iRun[m].seen
               PROVE  \/ x \in iRun[m].todo \/ x[1] \in iCrossed
                      \/ iHost'[x[1]].synced >= iRun[m].at \/ iHost'[x[1]].source # m
    BY DEF Stamped
  <2>1. x[1] \in IPs
    BY NoRoundFits DEF InventoryTypes, RunFits
  <2>2. m # "agent"
    BY DEF Locks
  <2>3. Stamped(m)
    OBVIOUS
  <2> QED
    BY <2>1, <2>2, <2>3 DEF Stamped
<1> QED
  BY <1>2, <1>3 DEF SeenHostsStay, UsedHostsStay, HumanStands

LEMMA SyncStartsKeeps ==
  ASSUME InventoryIInv, NEW l \in Locks, NEW group \in Nat, NEW partial, NEW cleanup,
         SyncStarts(l, group, partial, cleanup)
  PROVE  InventoryIInv'
<1>1. /\ iClock < MaxRounds /\ iClock' = iClock + 1
      /\ UNCHANGED << iHost, iListed, iHuman, iMissed, iCrossed, iDropped >>
  BY DEF SyncStarts, world, notedInv
<1>2. PICK seen \in SUBSET iListed[l] :
        iRun' = [iRun EXCEPT ![l] =
            [pc |-> "write", seen |-> seen, todo |-> seen, at |-> iClock + 1, group |-> group,
             cleans |-> CleansUp(l, group, partial, cleanup, seen), map |-> iMap[l],
             cand |-> {}, waits |-> 0]]
  BY DEF SyncStarts
<1>3. /\ DOMAIN iRun' = Locks /\ \A m \in Locks \ {l} : iRun'[m] = iRun[m]
      /\ iRun'[l] = [pc |-> "write", seen |-> seen, todo |-> seen, at |-> iClock + 1, group |-> group,
             cleans |-> CleansUp(l, group, partial, cleanup, seen), map |-> iMap[l],
             cand |-> {}, waits |-> 0]
  BY <1>2 DEF InventoryIInv, InventoryTypes
<1>4. iClock + 1 \in 1 .. MaxRounds /\ iClock' \in 0 .. MaxRounds
  BY <1>1, InventoryAssumption DEF InventoryIInv, InventoryTypes
<1>5. seen \subseteq IPs \X Nat
  BY <1>2 DEF InventoryIInv, InventoryTypes
<1>6. RunFits(l)'
  BY <1>3, <1>4, <1>5 DEF RunFits
<1>7. Stamped(l)'
  BY <1>3 DEF Stamped
<1> QED
  BY <1>1, <1>3, <1>4, <1>6, <1>7, RoundMoves

\* A row written under a round's stamp is not for that round to remove; another
\* round that had seen it knows.
LEMMA upsertKeeps ==
  ASSUME InventoryIInv, NEW l \in Locks, NEW x \in iRun[l].seen, NEW meta, upsert(l, x, meta)
  PROVE  InventoryIInv'
<1> USE DEF InventoryIInv
<1>1. PICK k : k = iRun[l]
  OBVIOUS
<1>2. k.pc = "write" /\ k # NoRound /\ x \in k.todo /\ x \in k.seen
  BY <1>1, NoRoundFits DEF upsert
<1>3. RunFits(l)
  BY DEF InventoryTypes
<1>4. /\ x \in IPs \X Nat /\ k.at \in 1 .. MaxRounds
      /\ k = [pc |-> k.pc, seen |-> k.seen, todo |-> k.todo, at |-> k.at, group |-> k.group,
            cleans |-> k.cleans, map |-> k.map, cand |-> k.cand, waits |-> k.waits]
  BY <1>1, <1>2, <1>3 DEF RunFits
<1>5. PICK h \in IPs : h = x[1]
  BY <1>4
<1>6. PICK s, g, f : iHost' = [iHost EXCEPT ![h] =
         [source |-> s, group |-> g, synced |-> k.at, busy |-> iHost[h].busy, field |-> f]]
       /\ s = (IF iHost[h] = NoHost THEN l ELSE iHost[h].source)
       /\ f = Written(iHost[h].field, k.map, meta)
  BY <1>1, <1>5 DEF upsert, InventoryTypes
<1>7. /\ iHuman' = (IF Overwrites(k.map, meta) THEN [iHuman EXCEPT ![h] = NoField] ELSE iHuman)
      /\ iCrossed' = (IF \E m \in Locks \ {l} : \E y \in iRun[m].seen : y[1] = h
                      THEN iCrossed \cup {h} ELSE iCrossed)
      /\ iRun' = [iRun EXCEPT ![l].todo = @ \ {x}]
      /\ UNCHANGED << iClock, iListed, iMissed, iDropped >>
  BY <1>1, <1>5 DEF upsert, world
<1>8. /\ DOMAIN iHost' = IPs /\ \A j \in IPs \ {h} : iHost'[j] = iHost[j]
      /\ iHost'[h] = [source |-> s, group |-> g, synced |-> k.at, busy |-> iHost[h].busy, field |-> f]
  BY <1>6 DEF InventoryTypes
<1>9. \A j \in IPs : RowFits(j)'
  <2>1. RowFits(h)'
    <3>1. s \in {"none", "agent"} \cup Locks
      BY <1>6 DEF InventoryTypes, RowFits
    <3>2. k.at \in 0 .. MaxRounds
      BY <1>4, InventoryAssumption
    <3> QED
      BY <1>8, <3>1, <3>2 DEF RowFits
  <2>2. ASSUME NEW j \in IPs \ {h} PROVE RowFits(j)'
    BY <1>8 DEF InventoryTypes, RowFits
  <2> QED
    BY <2>1, <2>2
<1>10. /\ DOMAIN iRun' = Locks /\ \A m \in Locks \ {l} : iRun'[m] = iRun[m]
       /\ iRun'[l] = [pc |-> k.pc, seen |-> k.seen, todo |-> k.todo \ {x}, at |-> k.at, group |-> k.group,
            cleans |-> k.cleans, map |-> k.map, cand |-> k.cand, waits |-> k.waits]
  BY <1>1, <1>4, <1>7 DEF InventoryTypes
<1>11. \A m \in Locks : RunFits(m)'
  <2>1. RunFits(l)'
    BY <1>1, <1>2, <1>3, <1>10 DEF RunFits
  <2>2. ASSUME NEW m \in Locks \ {l} PROVE RunFits(m)'
    BY <1>10 DEF InventoryTypes, RunFits
  <2> QED
    BY <2>1, <2>2
<1>12. DOMAIN iHuman' = IPs /\ \A j \in IPs \ {h} : iHuman'[j] = iHuman[j]
  BY <1>7 DEF InventoryTypes
<1>13. InventoryTypes'
  BY <1>7, <1>8, <1>9, <1>10, <1>11, <1>12 DEF InventoryTypes
<1>14. iCrossed \subseteq iCrossed'
  BY <1>7
<1>15. ASSUME NEW m \in Locks PROVE Stamped(m)'
  <2> SUFFICES ASSUME iRun'[m].pc # "idle", NEW y \in iRun'[m].seen
               PROVE  \/ y \in iRun'[m].todo \/ y[1] \in iCrossed'
                      \/ iHost'[y[1]].synced >= iRun'[m].at \/ iHost'[y[1]].source # m
    BY DEF Stamped
  <2>1. Stamped(m)
    OBVIOUS
  <2>2. CASE m = l
    <3>1. k.pc # "idle" /\ y \in k.seen /\ iRun'[l].todo = k.todo \ {x} /\ iRun'[l].at = k.at
      BY <1>2, <1>10, <2>2
    <3>2. y[1] \in IPs
      BY <1>1, <1>2, <1>3, <3>1 DEF RunFits
    <3>3. CASE y[1] = h
      <4>1. iHost'[y[1]].synced = k.at /\ k.at \in Int
        BY <1>4, <1>8, <3>3
      <4> QED
        BY <2>2, <3>1, <4>1
    <3>4. CASE y[1] # h
      <4>1. y # x /\ iHost'[y[1]] = iHost[y[1]]
        BY <1>5, <1>8, <3>2, <3>4
      <4>2. \/ y \in k.todo \/ y[1] \in iCrossed
            \/ iHost[y[1]].synced >= k.at \/ iHost[y[1]].source # l
        BY <1>1, <2>1, <2>2, <3>1 DEF Stamped
      <4> QED
        BY <1>14, <2>2, <3>1, <4>1, <4>2
    <3> QED
      BY <3>3, <3>4
  <2>3. CASE m # l
    <3>1. iRun'[m] = iRun[m] /\ iRun[m] # NoRound
      BY <1>10, <2>3, NoRoundFits
    <3>2. y[1] \in IPs
      BY <3>1 DEF InventoryTypes, RunFits
    <3>3. CASE y[1] = h
      BY <1>7, <2>3, <3>1, <3>3
    <3>4. CASE y[1] # h
      <4>1. iHost'[y[1]] = iHost[y[1]]
        BY <1>8, <3>2, <3>4
      <4> QED
        BY <1>14, <2>1, <3>1, <4>1 DEF Stamped
    <3> QED
      BY <3>3, <3>4
  <2> QED
    BY <2>2, <2>3
<1>16. HumanStands'
  <2> SUFFICES ASSUME NEW j \in IPs, iHuman'[j] # NoField PROVE iHost'[j].field = iHuman'[j]
    BY DEF HumanStands
  <2>1. CASE j # h
    BY <1>8, <1>12, <2>1 DEF HumanStands
  <2>2. CASE j = h
    <3>1. ~Overwrites(k.map, meta) /\ iHuman' = iHuman
      BY <1>7, <2>2 DEF InventoryTypes
    <3>2. iHost[h].field = iHuman[h] /\ iHost[h].field # NoField
      BY <2>2, <3>1 DEF HumanStands
    <3>3. f = iHost[h].field
      BY <1>6, <3>1, <3>2 DEF Written, Overwrites
    <3> QED
      BY <1>8, <2>2, <3>1, <3>2, <3>3
  <2> QED
    BY <2>1, <2>2
<1> QED
  BY <1>7, <1>13, <1>14, <1>15, <1>16 DEF SeenHostsStay, UsedHostsStay

LEMMA findMissingKeeps ==
  ASSUME InventoryIInv, NEW l \in Locks, findMissingHosts(l)
  PROVE  InventoryIInv'
<1>1. /\ iRun[l].pc = "write" /\ iRun[l].todo = {}
      /\ UNCHANGED << iHost, iListed, iClock, iHuman, iMissed, iCrossed, iDropped >>
  BY DEF findMissingHosts, world, notedInv
<1>2. CASE iRun' = [iRun EXCEPT ![l] = NoRound]
  BY <1>1, <1>2, RoundGoes
<1>3. CASE iRun' = [iRun EXCEPT ![l] = [@ EXCEPT !.pc = "delete", !.cand = {h \in IPs : Missing(l, h)}]]
  <2>1. PICK k : k = iRun[l]
    OBVIOUS
  <2>2. /\ k # NoRound /\ RunFits(l)
        /\ k = [pc |-> k.pc, seen |-> k.seen, todo |-> k.todo, at |-> k.at, group |-> k.group,
              cleans |-> k.cleans, map |-> k.map, cand |-> k.cand, waits |-> k.waits]
    BY <1>1, <2>1, NoRoundFits DEF InventoryIInv, InventoryTypes, RunFits
  <2>3. PICK cand \in SUBSET IPs : cand = {h \in IPs : Missing(l, h)}
    OBVIOUS
  <2>4. /\ DOMAIN iRun' = Locks /\ \A m \in Locks \ {l} : iRun'[m] = iRun[m]
        /\ iRun'[l] = [pc |-> "delete", seen |-> k.seen, todo |-> k.todo, at |-> k.at, group |-> k.group,
              cleans |-> k.cleans, map |-> k.map, cand |-> cand, waits |-> k.waits]
    BY <1>3, <2>1, <2>2, <2>3 DEF InventoryIInv, InventoryTypes
  <2>5. RunFits(l)'
    BY <1>1, <2>1, <2>2, <2>4 DEF RunFits
  <2>6. Stamped(l)'
    <3>1. Stamped(l)
      BY DEF InventoryIInv
    <3> QED
      BY <1>1, <2>1, <2>4, <3>1 DEF Stamped
  <2>7. iClock' \in 0 .. MaxRounds
    BY <1>1 DEF InventoryIInv, InventoryTypes
  <2> QED
    BY <1>1, <2>4, <2>5, <2>6, <2>7, RoundMoves
<1> QED
  BY <1>2, <1>3 DEF findMissingHosts

\* A round that removes passes over a host, or begins or ends to wait for one.
LEMMA RemovalMoves ==
  ASSUME InventoryIInv, NEW l \in Locks, iRun[l].pc = "delete", NEW cand \in SUBSET IPs,
         NEW waits \in IPs \cup {0},
         iRun' = [iRun EXCEPT ![l] = [@ EXCEPT !.cand = cand, !.waits = waits]]
  PROVE  /\ DOMAIN iRun' = Locks /\ \A m \in Locks \ {l} : iRun'[m] = iRun[m]
         /\ RunFits(l)' /\ iRun'[l].pc = "delete" /\ iRun'[l].seen = iRun[l].seen
         /\ iRun'[l].todo = {} /\ iRun[l].todo = {} /\ iRun'[l].at = iRun[l].at
<1>1. PICK k : k = iRun[l]
  OBVIOUS
<1>2. /\ k # NoRound /\ RunFits(l) /\ k.todo = {}
      /\ k = [pc |-> k.pc, seen |-> k.seen, todo |-> k.todo, at |-> k.at, group |-> k.group,
            cleans |-> k.cleans, map |-> k.map, cand |-> k.cand, waits |-> k.waits]
  BY <1>1, NoRoundFits DEF InventoryIInv, InventoryTypes, RunFits
<1>3. /\ DOMAIN iRun' = Locks /\ \A m \in Locks \ {l} : iRun'[m] = iRun[m]
      /\ iRun'[l] = [pc |-> k.pc, seen |-> k.seen, todo |-> k.todo, at |-> k.at, group |-> k.group,
            cleans |-> k.cleans, map |-> k.map, cand |-> cand, waits |-> waits]
  BY <1>1, <1>2 DEF InventoryIInv, InventoryTypes
<1> QED
  BY <1>1, <1>2, <1>3 DEF RunFits

\* What a removal without effect leaves.
LEMMA PassesOver ==
  ASSUME InventoryIInv, NEW l \in Locks, iRun[l].pc = "delete", NEW cand \in SUBSET IPs,
         NEW waits \in IPs \cup {0},
         iRun' = [iRun EXCEPT ![l] = [@ EXCEPT !.cand = cand, !.waits = waits]],
         UNCHANGED << iHost, iListed, iClock, iHuman, iMissed, iCrossed, iDropped >>
  PROVE  InventoryIInv'
<1>1. /\ DOMAIN iRun' = Locks /\ \A m \in Locks \ {l} : iRun'[m] = iRun[m]
      /\ RunFits(l)' /\ iRun'[l].pc = "delete" /\ iRun'[l].seen = iRun[l].seen
      /\ iRun'[l].todo = {} /\ iRun[l].todo = {} /\ iRun'[l].at = iRun[l].at
  BY RemovalMoves
<1>2. Stamped(l)'
  <2>1. Stamped(l)
    BY DEF InventoryIInv
  <2> QED
    BY <1>1, <2>1 DEF Stamped
<1>3. iClock' \in 0 .. MaxRounds
  BY DEF InventoryIInv, InventoryTypes
<1> QED
  BY <1>1, <1>2, <1>3, RoundMoves

\* A row goes only if it is the source's, older than the round and free, or
\* taken while the statement waited.
LEMMA RemovesKeeps ==
  ASSUME InventoryIInv, NEW l \in Locks, NEW h \in IPs, iRun[l].pc = "delete",
         Stale(l, h), ~iHost[h].busy \/ iRun[l].waits = h, Removes(l, h),
         UNCHANGED << iClock, iListed, iCrossed >>
  PROVE  InventoryIInv'
<1> USE DEF InventoryIInv
<1>1. /\ iHost' = [iHost EXCEPT ![h] = NoHost] /\ iHuman' = [iHuman EXCEPT ![h] = NoField]
      /\ iMissed' = (IF \E x \in iRun[l].seen : x[1] = h THEN iMissed \cup {h} ELSE iMissed)
      /\ iDropped' = iDropped \cup ({h} \X Uses(l, h))
      /\ iRun' = [iRun EXCEPT ![l].cand = @ \ {h}, ![l].waits = 0]
  BY DEF Removes
<1>2. iHost[h].source = l /\ iHost[h].synced < iRun[l].at /\ l # "agent"
  BY DEF Stale, Locks
<1>3. PICK cand \in SUBSET IPs : cand = iRun[l].cand \ {h}
  BY NoRoundFits DEF InventoryTypes, RunFits
<1>4. iRun' = [iRun EXCEPT ![l] = [@ EXCEPT !.cand = cand, !.waits = 0]]
  BY <1>1, <1>3
<1>5. /\ DOMAIN iRun' = Locks /\ \A m \in Locks \ {l} : iRun'[m] = iRun[m]
      /\ RunFits(l)' /\ iRun'[l].pc = "delete" /\ iRun'[l].seen = iRun[l].seen
      /\ iRun'[l].todo = {} /\ iRun[l].todo = {} /\ iRun'[l].at = iRun[l].at
  BY <1>3, <1>4, RemovalMoves
<1>6. /\ DOMAIN iHost' = IPs /\ iHost'[h] = NoHost /\ \A j \in IPs \ {h} : iHost'[j] = iHost[j]
      /\ DOMAIN iHuman' = IPs /\ iHuman'[h] = NoField /\ \A j \in IPs \ {h} : iHuman'[j] = iHuman[j]
  BY <1>1 DEF InventoryTypes
<1>7. \A j \in IPs : RowFits(j)'
  <2>1. RowFits(h)'
    BY <1>6, InventoryAssumption DEF RowFits, NoHost
  <2>2. ASSUME NEW j \in IPs \ {h} PROVE RowFits(j)'
    BY <1>6 DEF InventoryTypes, RowFits
  <2> QED
    BY <2>1, <2>2
<1>8. \A m \in Locks : RunFits(m)'
  BY <1>5 DEF InventoryTypes, RunFits
<1>9. InventoryTypes'
  BY <1>5, <1>6, <1>7, <1>8 DEF InventoryTypes
<1>10. ASSUME NEW m \in Locks PROVE Stamped(m)'
  <2> SUFFICES ASSUME iRun'[m].pc # "idle", NEW y \in iRun'[m].seen
               PROVE  \/ y \in iRun'[m].todo \/ y[1] \in iCrossed'
                      \/ iHost'[y[1]].synced >= iRun'[m].at \/ iHost'[y[1]].source # m
    BY DEF Stamped
  <2>1. Stamped(m) /\ m # "none" /\ NoHost.source = "none"
    BY DEF Locks, NoHost
  <2>2. /\ iRun'[m].seen = iRun[m].seen /\ iRun'[m].todo = iRun[m].todo /\ iRun'[m].at = iRun[m].at
        /\ iRun[m].pc # "idle"
    BY <1>5
  <2>3. y[1] \in IPs
    BY <2>2, NoRoundFits DEF InventoryTypes, RunFits
  <2>4. iHost'[y[1]] = iHost[y[1]] \/ iHost'[y[1]] = NoHost
    BY <1>6, <2>3
  <2> QED
    BY <2>1, <2>2, <2>4 DEF Stamped
<1>11. SeenHostsStay'
  <2>1. ASSUME NEW x \in iRun[l].seen, x[1] = h PROVE h \in iCrossed
    <3>1. iHost[h].synced \in Int /\ iRun[l].at \in Int
      BY NoRoundFits DEF InventoryTypes, RunFits, RowFits
    <3>2. Stamped(l)
      OBVIOUS
    <3> QED
      BY <1>2, <1>5, <2>1, <3>1, <3>2 DEF Stamped
  <2> QED
    BY <1>1, <2>1 DEF SeenHostsStay
<1>12. UsedHostsStay'
  <2>1. "work" \notin Uses(l, h) /\ "agent" \notin Uses(l, h)
    BY <1>2 DEF Uses
  <2> QED
    BY <1>1, <2>1 DEF UsedHostsStay
<1>13. HumanStands'
  BY <1>6 DEF HumanStands
<1> QED
  BY <1>9, <1>10, <1>11, <1>12, <1>13

LEMMA DeleteMissingKeeps ==
  ASSUME InventoryIInv, NEW l \in Locks, NEW h \in IPs, DeleteMissing(l, h)
  PROVE  InventoryIInv'
<1>1. /\ iRun[l].pc = "delete" /\ iRun[l].waits = 0 /\ UNCHANGED << iClock, iListed, iCrossed >>
  BY DEF DeleteMissing, world
<1>2. PICK k : k = iRun[l]
  OBVIOUS
<1>3. /\ k.cand \subseteq IPs /\ k.waits = 0
      /\ k = [pc |-> k.pc, seen |-> k.seen, todo |-> k.todo, at |-> k.at, group |-> k.group,
            cleans |-> k.cleans, map |-> k.map, cand |-> k.cand, waits |-> k.waits]
  BY <1>1, <1>2, NoRoundFits DEF InventoryIInv, InventoryTypes, RunFits
<1>4. CASE ~Missing(l, h)
  <2>1. iRun' = [iRun EXCEPT ![l].cand = @ \ {h}]
        /\ UNCHANGED << iHost, iHuman, iMissed, iDropped >>
    BY <1>4 DEF DeleteMissing
  <2>2. PICK cand \in SUBSET IPs : cand = k.cand \ {h}
    BY <1>3
  <2>3. iRun' = [iRun EXCEPT ![l] = [@ EXCEPT !.cand = cand, !.waits = 0]]
    BY <1>2, <1>3, <2>1, <2>2 DEF InventoryIInv, InventoryTypes
  <2> QED
    BY <1>1, <2>1, <2>3, PassesOver
<1>5. CASE Missing(l, h) /\ h \in iTask
  <2>1. iRun' = [iRun EXCEPT ![l].waits = h]
        /\ UNCHANGED << iHost, iHuman, iMissed, iDropped >>
    BY <1>5 DEF DeleteMissing
  <2>2. PICK cand \in SUBSET IPs : cand = k.cand
    BY <1>3
  <2>3. iRun' = [iRun EXCEPT ![l] = [@ EXCEPT !.cand = cand, !.waits = h]]
    BY <1>2, <1>3, <2>1, <2>2 DEF InventoryIInv, InventoryTypes
  <2> QED
    BY <1>1, <2>1, <2>3, PassesOver
<1>6. CASE Missing(l, h) /\ h \notin iTask
  <2>1. Removes(l, h) /\ Stale(l, h) /\ ~iHost[h].busy
    BY <1>6 DEF DeleteMissing, Missing
  <2> QED
    BY <1>1, <2>1, RemovesKeeps
<1> QED
  BY <1>4, <1>5, <1>6

LEMMA DeleteResumesKeeps ==
  ASSUME InventoryIInv, NEW l \in Locks, DeleteResumes(l)
  PROVE  InventoryIInv'
<1>1. /\ iRun[l].pc = "delete" /\ iRun[l].waits # 0 /\ UNCHANGED << iClock, iListed, iCrossed >>
  BY DEF DeleteResumes, world
<1>2. PICK h \in IPs : h = iRun[l].waits
  BY <1>1, NoRoundFits DEF InventoryIInv, InventoryTypes, RunFits
<1>3. CASE Stale(l, h)
  <2>1. Removes(l, h)
    BY <1>2, <1>3 DEF DeleteResumes
  <2> QED
    BY <1>1, <1>2, <1>3, <2>1, RemovesKeeps
<1>4. CASE ~Stale(l, h)
  <2>1. iRun' = [iRun EXCEPT ![l].cand = @ \ {h}, ![l].waits = 0]
        /\ UNCHANGED << iHost, iHuman, iMissed, iDropped >>
    BY <1>2, <1>4 DEF DeleteResumes
  <2>2. PICK cand \in SUBSET IPs : cand = iRun[l].cand \ {h}
    BY <1>1, NoRoundFits DEF InventoryIInv, InventoryTypes, RunFits
  <2>3. iRun' = [iRun EXCEPT ![l] = [@ EXCEPT !.cand = cand, !.waits = 0]]
    BY <2>1, <2>2
  <2> QED
    BY <1>1, <2>1, <2>3, PassesOver
<1> QED
  BY <1>3, <1>4

LEMMA ListedKeeps ==
  ASSUME InventoryIInv, NEW l \in Locks,
         \/ \E s \in SUBSET (IPs \X IF l = "consul" THEN {0} ELSE Groups) : Listed(l, s)
         \/ \E m \in MappingLists : MappingsEdited(l, m)
  PROVE  InventoryIInv'
<1>1. UNCHANGED << iClock, iRun, iMissed, iCrossed, iDropped, iHost, iHuman >>
  BY DEF Listed, MappingsEdited, notedInv
<1>2. iListed' \in [Locks -> SUBSET (IPs \X Nat)]
  <2>1. CASE \E s \in SUBSET (IPs \X IF l = "consul" THEN {0} ELSE Groups) : Listed(l, s)
    <3>1. PICK s \in SUBSET (IPs \X IF l = "consul" THEN {0} ELSE Groups) :
            iListed' = [iListed EXCEPT ![l] = s]
      BY <2>1 DEF Listed
    <3>2. s \in SUBSET (IPs \X Nat)
      BY InventoryAssumption
    <3> QED
      BY <3>1, <3>2 DEF InventoryIInv, InventoryTypes
  <2>2. CASE \E m \in MappingLists : MappingsEdited(l, m)
    BY <2>2 DEF MappingsEdited, InventoryIInv, InventoryTypes
  <2> QED
    BY <2>1, <2>2
<1> QED
  BY <1>1, <1>2, OthersKeep DEF InventoryIInv, InventoryTypes, RowFits, HumanStands

\* One column of a host's row changes.
LEMMA RowChanges ==
  ASSUME InventoryIInv, NEW h \in IPs, UNCHANGED << iClock, iListed, iRun, iMissed, iCrossed, iDropped >>,
         NEW v,
         \/ /\ iHost' = [iHost EXCEPT ![h].field = v] /\ iHuman' = [iHuman EXCEPT ![h] = v]
         \/ iHost' = [iHost EXCEPT ![h].source = "agent"] /\ iHuman' = iHuman
         \/ iHost' = [iHost EXCEPT ![h].busy = v] /\ iHuman' = iHuman
  PROVE  InventoryIInv'
<1> USE DEF InventoryIInv
<1>1. /\ DOMAIN iHost' = IPs /\ DOMAIN iHuman' = IPs
      /\ \A j \in IPs \ {h} : iHost'[j] = iHost[j] /\ iHuman'[j] = iHuman[j]
  BY DEF InventoryTypes
<1>2. PICK x : x = iHost[h]
  OBVIOUS
<1>3. /\ x = [source |-> x.source, group |-> x.group, synced |-> x.synced, field |-> x.field, busy |-> x.busy]
      /\ x.source \in {"none", "agent"} \cup Locks /\ x.synced \in 0 .. MaxRounds
  BY <1>2 DEF InventoryTypes, RowFits
<1>4. /\ RowFits(h)' /\ iHost'[h].synced = iHost[h].synced
      /\ iHost'[h].source = iHost[h].source \/ iHost'[h].source = "agent"
      /\ iHuman'[h] # NoField => iHost'[h].field = iHuman'[h]
  <2>1. CASE iHost' = [iHost EXCEPT ![h].field = v] /\ iHuman' = [iHuman EXCEPT ![h] = v]
    BY <1>2, <1>3, <2>1 DEF InventoryTypes, RowFits
  <2>2. CASE iHost' = [iHost EXCEPT ![h].source = "agent"] /\ iHuman' = iHuman
    BY <1>2, <1>3, <2>2 DEF InventoryTypes, RowFits, HumanStands
  <2>3. CASE iHost' = [iHost EXCEPT ![h].busy = v] /\ iHuman' = iHuman
    BY <1>2, <1>3, <2>3 DEF InventoryTypes, RowFits, HumanStands
  <2> QED
    BY <2>1, <2>2, <2>3
<1>5. ASSUME NEW j \in IPs
      PROVE  /\ RowFits(j)' /\ iHost'[j].synced = iHost[j].synced
             /\ iHost'[j].source = iHost[j].source \/ iHost'[j].source = "agent"
             /\ iHuman'[j] # NoField => iHost'[j].field = iHuman'[j]
  <2>1. CASE j = h
    BY <1>4, <2>1
  <2>2. CASE j # h
    BY <1>1, <2>2 DEF InventoryTypes, RowFits, HumanStands
  <2> QED
    BY <2>1, <2>2
<1>6. iListed' \in [Locks -> SUBSET (IPs \X Nat)]
  BY DEF InventoryTypes
<1> QED
  BY <1>1, <1>5, <1>6, OthersKeep

LEMMA InventoryStays ==
  ASSUME InventoryIInv, UNCHANGED << iHost, iListed, iRun, iClock, iHuman, iMissed, iCrossed, iDropped >>
  PROVE  InventoryIInv'
BY OthersKeep DEF InventoryIInv, InventoryTypes, RowFits, HumanStands

LEMMA InventoryMoves == InventoryIInv /\ InventoryNext => InventoryIInv'
<1> SUFFICES ASSUME InventoryIInv, InventoryNext PROVE InventoryIInv'
  OBVIOUS
<1>1. ASSUME NEW partial \in BOOLEAN, NEW cleanup \in BOOLEAN, SyncStarts("consul", 0, partial, cleanup)
      PROVE  InventoryIInv'
  BY <1>1, SyncStartsKeeps DEF Locks
<1>2. ASSUME NEW partial \in BOOLEAN, NEW cleanup \in BOOLEAN, NEW g \in Groups \cup {0},
             SyncStarts("consul_mgr", g, partial, cleanup)
      PROVE  InventoryIInv'
  <2>1. g \in Nat /\ "consul_mgr" \in Locks
    BY InventoryAssumption DEF Locks
  <2> QED
    BY <1>2, <2>1, SyncStartsKeeps
<1>3. ASSUME NEW l \in Locks, NEW x \in iRun[l].seen, NEW meta \in SUBSET MetaKeys, upsert(l, x, meta)
      PROVE  InventoryIInv'
  BY <1>3, upsertKeeps
<1>4. ASSUME NEW l \in Locks, findMissingHosts(l) \/ DeleteResumes(l) PROVE InventoryIInv'
  BY <1>4, findMissingKeeps, DeleteResumesKeeps
<1>5. ASSUME NEW l \in Locks, RoundEnds(l) PROVE InventoryIInv'
  BY <1>5, RoundGoes DEF RoundEnds, world, notedInv
<1>6. ASSUME NEW l \in Locks, NEW h \in IPs, DeleteMissing(l, h) PROVE InventoryIInv'
  BY <1>6, DeleteMissingKeeps
<1>7. ASSUME NEW l \in Locks,
             \/ \E s \in SUBSET (IPs \X IF l = "consul" THEN {0} ELSE Groups) : Listed(l, s)
             \/ \E m \in MappingLists : MappingsEdited(l, m)
      PROVE  InventoryIInv'
  BY <1>7, ListedKeeps
<1>8. ASSUME NEW h \in IPs, HumanEdits(h) PROVE InventoryIInv'
  BY <1>8, RowChanges DEF HumanEdits
<1>9. ASSUME NEW h \in IPs, AgentRegisters(h) PROVE InventoryIInv'
  BY <1>9, RowChanges DEF AgentRegisters, notedInv
<1>10. ASSUME NEW h \in IPs, TaskCommits(h) \/ WorkEnds(h) PROVE InventoryIInv'
  <2>1. PICK v : iHost' = [iHost EXCEPT ![h].busy = v]
    BY <1>10 DEF TaskCommits, WorkEnds
  <2>2. UNCHANGED << iClock, iListed, iRun, iHuman, iMissed, iCrossed, iDropped >>
    BY <1>10 DEF TaskCommits, WorkEnds, notedInv
  <2> QED
    BY <2>1, <2>2, RowChanges
<1>11. ASSUME NEW h \in IPs, TaskInserts(h) \/ TaskRollsBack(h) PROVE InventoryIInv'
  BY <1>11, InventoryStays DEF TaskInserts, TaskRollsBack, notedInv
<1> QED
  BY <1>1, <1>2, <1>3, <1>4, <1>5, <1>6, <1>7, <1>8, <1>9, <1>10, <1>11 DEF InventoryNext

LEMMA InventoryHolds == InventoryIInv => InventoryInv
<1> SUFFICES ASSUME InventoryIInv PROVE InventoryTypeOK
  BY DEF InventoryIInv, InventoryInv
<1> QED
  BY NoRoundFits DEF InventoryIInv, InventoryTypes, RowFits, RunFits, InventoryTypeOK

\* Hosts come and go with their sources, and not what humans wrote, what works
\* or what a round has just seen, for any hosts, groups, mappings and rounds
\* (SyncFromConsul, SyncFromConsulMgr and their cleanup).
THEOREM InventoryIsSound == PlatformSpec => []InventoryInv
<1>1. PlatformInit => InventoryIInv
  BY InventoryBegins DEF PlatformInit
<1>2. InventoryIInv /\ [PlatformNext]_platformVars => InventoryIInv'
  <2> SUFFICES ASSUME InventoryIInv, [PlatformNext]_platformVars PROVE InventoryIInv'
    OBVIOUS
  <2>1. InventoryNext \/ UNCHANGED iVars
    BY DEF PlatformNext, platformVars
  <2> QED
    BY <2>1, InventoryMoves, InventoryStays DEF iVars
<1> QED
  BY <1>1, <1>2, InventoryHolds, PTL DEF PlatformSpec
-----------------------------------------------------------------------------
(* A setting on several replicas *)

KeyValues == SetValues \cup {FileValue}
KeyRead == [has : BOOLEAN, value : SetValues \cup {NoValue}, new : BOOLEAN]

SettingsTypes ==
  /\ sKey \in Keys /\ sDb \in SetValues \cup {NoValue}
  /\ sMem \in [SetReplicas -> KeyValues] /\ sUse \in [SetReplicas -> KeyValues]
  /\ sPage \subseteq SetReplicas
  /\ sDue \in [SetReplicas -> Nat] /\ sSnap \in [SetReplicas -> Seq(KeyValues)]
  /\ sRead \in [SetReplicas -> KeyRead]
  /\ sLast \in [SetReplicas -> SetValues \cup {NoValue}]
  /\ sFresh \subseteq SetReplicas /\ sLocal \subseteq SetReplicas
  /\ sSecret \in SetReplicas \cup {NoValue}
  /\ sOwn \in [SetReplicas -> SetReplicas \cup {NoValue, OwnRandom}] /\ sKept \subseteq SetReplicas
  /\ sWord \in [SetReplicas -> SetReplicas \cup {NoValue}]

\* The limiter's reload is one at a time, and the last that began has taken
\* what the memory still holds, unless another is due.
LimiterFits(r) ==
  /\ sSnap[r] = << >> \/ \E v \in KeyValues : sSnap[r] = << v >> /\ (sDue[r] = 0 => v = sMem[r])
  /\ NoReload(r) => sUse[r] = sMem[r]

\* A value that no save has overtaken is that of the table; who is fresh has
\* read no other.
ReadsFit ==
  \A r \in SetReplicas : sRead[r].has =>
    /\ sRead[r].new => sRead[r].value = sDb
    /\ r \in sFresh => sRead[r].new

\* What is not taken for saved is the file's.
PageFits(r) == (r \notin sPage => sMem[r] = FileValue) /\ (r \in sFresh => sMem[r] = Worth)

\* What the watcher saw last is in the memory until the replica saves itself.
WatchFits(r) ==
  /\ r \notin sLocal /\ sLast[r] # NoValue => sMem[r] = sLast[r]
  /\ r \in sFresh \ sLocal /\ sDb # NoValue => sMem[r] = sDb

SettingsIInv ==
  /\ SettingsTypes /\ ReadsFit /\ SecretsAgree
  /\ sKey = "artifact" => \A r \in SetReplicas : LimiterFits(r) /\ WatchFits(r)
  /\ sKey = "ai" => \A r \in SetReplicas : PageFits(r)

LEMMA SettingsBegin == SettingsInit => SettingsIInv
<1> SUFFICES ASSUME SettingsInit PROVE SettingsIInv
  OBVIOUS
<1> USE SettingsAssumption DEF SettingsInit
<1>1. SettingsTypes
  BY DEF SettingsTypes, KeyValues, KeyRead, NoRead
<1>2. ReadsFit /\ SecretsAgree
  BY DEF ReadsFit, SecretsAgree, NoRead
<1>3. \A r \in SetReplicas : LimiterFits(r) /\ WatchFits(r) /\ PageFits(r)
  BY DEF LimiterFits, WatchFits, PageFits, NoReload
<1> QED
  BY <1>1, <1>2, <1>3 DEF SettingsIInv

\* Whatever a save does to the memory of its replica, all watchers have to
\* read again.
LEMMA SaveKeeps ==
  ASSUME SettingsIInv, NEW r \in SetReplicas, Saved(r), NEW v \in SetValues \cup {NoValue}, sDb' = v,
         \/ UNCHANGED << sMem, sPage, sDue >>
         \/ /\ sMem' = [sMem EXCEPT ![r] = IF v = NoValue THEN FileValue ELSE v]
            /\ sPage' = IF v = NoValue THEN sPage \ {r} ELSE sPage \cup {r}
            /\ ReloadDue(r)
  PROVE  SettingsIInv'
<1> USE DEF SettingsIInv
<1>1. /\ sFresh' = {} /\ sLocal' = sLocal \cup {r}
      /\ sRead' = [q \in SetReplicas |-> [sRead[q] EXCEPT !.new = FALSE]]
      /\ UNCHANGED << sKey, sUse, sSnap, sLast, sSecret, sOwn, sWord, sKept >>
  BY DEF Saved, secrets
<1>2. /\ sMem' \in [SetReplicas -> KeyValues] /\ sPage' \subseteq SetReplicas
      /\ sDue' \in [SetReplicas -> Nat]
  <2>1. sDue' \in [SetReplicas -> Nat]
    BY DEF SettingsTypes, ReloadDue
  <2>2. sMem' \in [SetReplicas -> KeyValues]
    BY DEF SettingsTypes, KeyValues
  <2>3. sPage' \subseteq SetReplicas
    BY DEF SettingsTypes
  <2> QED
    BY <2>1, <2>2, <2>3
<1>3. sRead' \in [SetReplicas -> KeyRead] /\ \A q \in SetReplicas : ~sRead'[q].new
  <2>1. \A x \in KeyRead : [x EXCEPT !.new = FALSE] \in KeyRead /\ ~[x EXCEPT !.new = FALSE].new
    BY DEF KeyRead
  <2>2. \A q \in SetReplicas : sRead[q] \in KeyRead /\ sRead'[q] = [sRead[q] EXCEPT !.new = FALSE]
    BY <1>1 DEF SettingsTypes
  <2> QED
    BY <1>1, <2>1, <2>2
<1>4. SettingsTypes' /\ SecretsAgree'
  BY <1>1, <1>2, <1>3 DEF SettingsTypes, SecretsAgree
<1>5. ReadsFit'
  BY <1>1, <1>3 DEF ReadsFit
<1>6. ASSUME NEW q \in SetReplicas, sKey = "artifact" PROVE LimiterFits(q)' /\ WatchFits(q)'
  <2>1. CASE UNCHANGED << sMem, sPage, sDue >>
    BY <1>1, <1>6, <2>1 DEF LimiterFits, WatchFits, NoReload
  <2>2. CASE /\ sMem' = [sMem EXCEPT ![r] = IF v = NoValue THEN FileValue ELSE v]
             /\ ReloadDue(r)
    <3>1. sDue' = [sDue EXCEPT ![r] = @ + 1]
      BY <1>6, <2>2 DEF ReloadDue
    <3>2. sDue'[r] # 0 /\ \A p \in SetReplicas \ {r} : sDue'[p] = sDue[p] /\ sMem'[p] = sMem[p]
      BY <2>2, <3>1 DEF SettingsTypes
    <3>3. CASE q = r
      BY <1>1, <1>6, <3>2, <3>3 DEF LimiterFits, WatchFits, NoReload
    <3>4. CASE q # r
      BY <1>1, <1>6, <3>2, <3>4 DEF LimiterFits, WatchFits, NoReload
    <3> QED
      BY <3>3, <3>4
  <2> QED
    BY <2>1, <2>2
<1>7. ASSUME NEW q \in SetReplicas, sKey = "ai" PROVE PageFits(q)'
  BY <1>1, <1>7 DEF PageFits, SettingsTypes
<1> QED
  BY <1>1, <1>4, <1>5, <1>6, <1>7

LEMMA ApplyKeeps ==
  ASSUME SettingsIInv, NEW r \in SetReplicas, NEW v \in SetValues,
         Apply(r, v) \/ CommitUnanswered(r, v) \/ Reset(r)
  PROVE  SettingsIInv'
BY SaveKeeps, SettingsAssumption DEF Apply, CommitUnanswered, Reset

LEMMA ReloadBeginsKeeps ==
  ASSUME SettingsIInv, NEW r \in SetReplicas, ReloadBegins(r)
  PROVE  SettingsIInv'
<1> USE DEF SettingsIInv
<1>1. /\ sDue[r] > 0 /\ (sKey = "artifact" => sSnap[r] = << >>)
      /\ sDue' = [sDue EXCEPT ![r] = @ - 1]
      /\ sSnap' = [sSnap EXCEPT ![r] = Append(@, sMem[r])]
      /\ UNCHANGED << sKey, sDb, sMem, sPage, sUse, sRead, sLast, sFresh, sLocal, sSecret, sOwn, sWord, sKept >>
  BY DEF ReloadBegins, settings, watch, secrets
<1>2. sDue' \in [SetReplicas -> Nat] /\ sSnap' \in [SetReplicas -> Seq(KeyValues)]
  BY <1>1 DEF SettingsTypes
<1>3. SettingsTypes' /\ SecretsAgree' /\ ReadsFit'
  BY <1>1, <1>2 DEF SettingsTypes, SecretsAgree, ReadsFit
<1>4. ASSUME NEW q \in SetReplicas, sKey = "artifact" PROVE LimiterFits(q)' /\ WatchFits(q)'
  <2>1. WatchFits(q)'
    BY <1>1, <1>4 DEF WatchFits
  <2>2. CASE q = r
    <3>1. sSnap'[r] = << sMem[r] >> /\ sMem[r] \in KeyValues
      BY <1>1, <1>4 DEF SettingsTypes
    <3>2. sSnap'[r] # << >>
      BY <3>1
    <3> QED
      BY <1>1, <2>1, <2>2, <3>1, <3>2 DEF LimiterFits, NoReload
  <2>3. CASE q # r
    BY <1>1, <1>4, <2>1, <2>3 DEF LimiterFits, NoReload, SettingsTypes
  <2> QED
    BY <2>2, <2>3
<1>5. ASSUME NEW q \in SetReplicas, sKey = "ai" PROVE PageFits(q)'
  BY <1>1, <1>5 DEF PageFits, Worth
<1> QED
  BY <1>1, <1>3, <1>4, <1>5

LEMMA ReloadEndsKeeps ==
  ASSUME SettingsIInv, NEW r \in SetReplicas, NEW i \in DOMAIN sSnap[r], ReloadEnds(r, i)
  PROVE  SettingsIInv'
<1> USE DEF SettingsIInv
<1>1. /\ sUse' = [sUse EXCEPT ![r] = sSnap[r][i]]
      /\ sSnap' = [sSnap EXCEPT ![r] = SubSeq(@, 1, i - 1) \o SubSeq(@, i + 1, Len(@))]
      /\ UNCHANGED << sKey, sDb, sMem, sPage, sDue, sRead, sLast, sFresh, sLocal, sSecret, sOwn, sWord, sKept >>
  BY DEF ReloadEnds, settings, watch, secrets
<1>2. PICK s \in Seq(KeyValues) : s = sSnap[r]
  BY DEF SettingsTypes
<1>3. i \in 1 .. Len(s) /\ s[i] \in KeyValues
  BY <1>2
<1>4. SubSeq(s, 1, i - 1) \o SubSeq(s, i + 1, Len(s)) \in Seq(KeyValues)
  <2>1. SubSeq(s, 1, i - 1) \in Seq(KeyValues) /\ SubSeq(s, i + 1, Len(s)) \in Seq(KeyValues)
    BY <1>3
  <2> QED
    BY <2>1
<1>5. sSnap' \in [SetReplicas -> Seq(KeyValues)] /\ sUse' \in [SetReplicas -> KeyValues]
  BY <1>1, <1>2, <1>3, <1>4 DEF SettingsTypes
<1>6. SettingsTypes' /\ SecretsAgree' /\ ReadsFit'
  BY <1>1, <1>5 DEF SettingsTypes, SecretsAgree, ReadsFit
<1>7. ASSUME NEW q \in SetReplicas, sKey = "artifact" PROVE LimiterFits(q)' /\ WatchFits(q)'
  <2>1. WatchFits(q)'
    BY <1>1, <1>7 DEF WatchFits
  <2>2. CASE q = r
    <3>1. LimiterFits(r)
      BY <1>7
    <3>2. s # << >>
      BY <1>3
    <3>3. PICK v \in KeyValues : s = << v >> /\ (sDue[r] = 0 => v = sMem[r])
      BY <1>2, <3>1, <3>2 DEF LimiterFits
    <3>4. i = 1 /\ s[i] = v /\ Len(s) = 1
      BY <1>3, <3>3
    <3>5. SubSeq(s, 1, i - 1) \o SubSeq(s, i + 1, Len(s)) = << >>
      BY <3>4
    <3>6. sSnap'[r] = << >> /\ sUse'[r] = v
      BY <1>1, <1>2, <3>4, <3>5 DEF SettingsTypes
    <3> QED
      BY <1>1, <2>1, <2>2, <3>3, <3>6 DEF LimiterFits, NoReload
  <2>3. CASE q # r
    BY <1>1, <1>7, <2>1, <2>3 DEF LimiterFits, NoReload, SettingsTypes
  <2> QED
    BY <2>2, <2>3
<1>8. ASSUME NEW q \in SetReplicas, sKey = "ai" PROVE PageFits(q)'
  BY <1>1, <1>8 DEF PageFits, Worth
<1> QED
  BY <1>1, <1>6, <1>7, <1>8

LEMMA ReadValuesKeeps ==
  ASSUME SettingsIInv, NEW r \in SetReplicas, ReadValues(r)
  PROVE  SettingsIInv'
<1> USE DEF SettingsIInv
<1>1. /\ sRead' = [sRead EXCEPT ![r] = [has |-> TRUE, value |-> sDb, new |-> TRUE]]
      /\ UNCHANGED << sKey, sDb, sMem, sPage, sUse, sDue, sSnap, sLast, sFresh, sLocal, sSecret, sOwn, sWord, sKept >>
  BY DEF ReadValues, settings, builds, secrets
<1>2. sRead' \in [SetReplicas -> KeyRead]
  BY <1>1 DEF SettingsTypes, KeyRead
<1>3. SettingsTypes' /\ SecretsAgree'
  BY <1>1, <1>2 DEF SettingsTypes, SecretsAgree
<1>4. ReadsFit'
  BY <1>1 DEF ReadsFit, SettingsTypes
<1>5. \A q : (LimiterFits(q)' <=> LimiterFits(q)) /\ (WatchFits(q)' <=> WatchFits(q))
             /\ (PageFits(q)' <=> PageFits(q))
  BY <1>1 DEF LimiterFits, WatchFits, PageFits, NoReload, Worth
<1> QED
  BY <1>1, <1>3, <1>4, <1>5

\* The end of a watcher's round.
LEMMA RoundDoneFits ==
  ASSUME SettingsIInv, NEW r \in SetReplicas, sRead[r].has, RoundDone(r)
  PROVE  /\ sRead' \in [SetReplicas -> KeyRead] /\ sFresh' \subseteq SetReplicas
         /\ ReadsFit' /\ sFresh' \subseteq sFresh \cup {r}
         /\ r \in sFresh' => sRead[r].value = sDb
<1> USE DEF SettingsIInv
<1>1. /\ sRead' = [sRead EXCEPT ![r] = NoRead] /\ sDb' = sDb
      /\ sFresh' = IF sRead[r].new THEN sFresh \cup {r} ELSE sFresh
  BY DEF RoundDone
<1>2. NoRead \in KeyRead
  BY DEF NoRead, KeyRead
<1>3. sRead' \in [SetReplicas -> KeyRead] /\ sFresh' \subseteq SetReplicas
  BY <1>1, <1>2 DEF SettingsTypes
<1>4. ReadsFit'
  <2> SUFFICES ASSUME NEW q \in SetReplicas, sRead'[q].has
               PROVE  (sRead'[q].new => sRead'[q].value = sDb') /\ (q \in sFresh' => sRead'[q].new)
    BY DEF ReadsFit
  <2>1. q # r
    BY <1>1 DEF SettingsTypes, NoRead
  <2>2. sRead'[q] = sRead[q] /\ (q \in sFresh' => q \in sFresh)
    BY <1>1, <2>1 DEF SettingsTypes
  <2> QED
    BY <1>1, <2>2 DEF ReadsFit
<1>5. r \in sFresh' => sRead[r].value = sDb
  BY <1>1 DEF ReadsFit
<1> QED
  BY <1>1, <1>3, <1>4, <1>5

LEMMA SyncFromDBKeeps ==
  ASSUME SettingsIInv, NEW r \in SetReplicas, SyncFromDB(r)
  PROVE  SettingsIInv'
<1> USE DEF SettingsIInv
<1>1. /\ sKey = "ai" /\ sRead[r].has /\ RoundDone(r)
      /\ UNCHANGED << sKey, sDb, sUse, sDue, sSnap, sLast, sLocal, sSecret, sOwn, sWord, sKept >>
  BY DEF SyncFromDB, RoundDone, secrets
<1>2. PICK v \in SetValues \cup {NoValue} : v = sRead[r].value
  BY DEF SettingsTypes, KeyRead
<1>3. \/ v = NoValue /\ sMem' = (IF r \in sPage THEN [sMem EXCEPT ![r] = FileValue] ELSE sMem)
         /\ sPage' = sPage \ {r}
      \/ v # NoValue /\ sMem' = [sMem EXCEPT ![r] = v] /\ sPage' = sPage \cup {r}
  BY <1>2 DEF SyncFromDB, MemoryTakes
<1>4. /\ sMem' \in [SetReplicas -> KeyValues] /\ sPage' \subseteq SetReplicas
      /\ \A q \in SetReplicas \ {r} : sMem'[q] = sMem[q] /\ (q \in sPage' <=> q \in sPage)
      /\ sMem'[r] = IF v = NoValue THEN FileValue ELSE v
      /\ r \in sPage' <=> v # NoValue
  BY <1>1, <1>3 DEF SettingsTypes, KeyValues, PageFits
<1>5. SettingsTypes' /\ ReadsFit' /\ SecretsAgree'
  BY <1>1, <1>4, RoundDoneFits DEF SettingsTypes, SecretsAgree
<1>6. ASSUME NEW q \in SetReplicas PROVE PageFits(q)'
  BY <1>1, <1>2, <1>4, RoundDoneFits DEF PageFits, Worth
<1> QED
  BY <1>1, <1>5, <1>6

LEMMA syncOnceKeeps ==
  ASSUME SettingsIInv, NEW r \in SetReplicas, syncOnce(r)
  PROVE  SettingsIInv'
<1> USE DEF SettingsIInv
<1>1. /\ sKey = "artifact" /\ sRead[r].has /\ RoundDone(r)
      /\ UNCHANGED << sKey, sDb, sPage, sUse, sSnap, sSecret, sOwn, sWord, sKept >>
  BY DEF syncOnce, RoundDone, secrets
<1>2. PICK v \in SetValues \cup {NoValue} : v = sRead[r].value
  BY DEF SettingsTypes, KeyRead
<1>3. \/ v = sLast[r] /\ UNCHANGED << sLast, sLocal, sMem, sDue >>
      \/ /\ v # sLast[r] /\ sLast' = [sLast EXCEPT ![r] = v] /\ sLocal' = sLocal \ {r}
         /\ \/ v \in {NoValue, sMem[r]} /\ UNCHANGED << sMem, sDue >>
            \/ /\ v \notin {NoValue, sMem[r]} /\ sMem' = [sMem EXCEPT ![r] = v]
               /\ sDue' = [sDue EXCEPT ![r] = @ + 1]
  BY <1>1, <1>2 DEF syncOnce, ReloadDue
<1>4. /\ sMem' \in [SetReplicas -> KeyValues] /\ sDue' \in [SetReplicas -> Nat]
      /\ sLast' \in [SetReplicas -> SetValues \cup {NoValue}] /\ sLocal' \subseteq SetReplicas
      /\ \A q \in SetReplicas \ {r} : sMem'[q] = sMem[q] /\ sDue'[q] = sDue[q]
                                      /\ sLast'[q] = sLast[q] /\ (q \in sLocal' <=> q \in sLocal)
      /\ ((sMem'[r] = sMem[r] /\ sDue'[r] = sDue[r]) \/ sDue'[r] # 0)
  <2>1. /\ sMem' \in [SetReplicas -> KeyValues] /\ sDue' \in [SetReplicas -> Nat]
        /\ \A q \in SetReplicas \ {r} : sMem'[q] = sMem[q] /\ sDue'[q] = sDue[q]
        /\ ((sMem'[r] = sMem[r] /\ sDue'[r] = sDue[r]) \/ sDue'[r] # 0)
    <3>1. CASE UNCHANGED << sMem, sDue >>
      BY <3>1 DEF SettingsTypes
    <3>2. CASE v # NoValue /\ sMem' = [sMem EXCEPT ![r] = v] /\ sDue' = [sDue EXCEPT ![r] = @ + 1]
      BY <3>2 DEF SettingsTypes, KeyValues
    <3> QED
      BY <1>3, <3>1, <3>2
  <2>2. /\ sLast' \in [SetReplicas -> SetValues \cup {NoValue}] /\ sLocal' \subseteq SetReplicas
        /\ \A q \in SetReplicas \ {r} : sLast'[q] = sLast[q] /\ (q \in sLocal' <=> q \in sLocal)
    <3>1. CASE UNCHANGED << sLast, sLocal >>
      BY <3>1 DEF SettingsTypes
    <3>2. CASE sLast' = [sLast EXCEPT ![r] = v] /\ sLocal' = sLocal \ {r}
      BY <3>2 DEF SettingsTypes
    <3> QED
      BY <1>3, <3>1, <3>2
  <2> QED
    BY <2>1, <2>2
<1>5. /\ sLast'[r] = v
      /\ r \notin sLocal' /\ v # NoValue => sMem'[r] = v
  BY <1>1, <1>3 DEF SettingsTypes, WatchFits
<1>6. SettingsTypes' /\ ReadsFit' /\ SecretsAgree'
  BY <1>1, <1>4, RoundDoneFits DEF SettingsTypes, SecretsAgree
<1>7. ASSUME NEW q \in SetReplicas PROVE LimiterFits(q)'
  <2>1. LimiterFits(q)
    BY <1>1
  <2>2. (sMem'[q] = sMem[q] /\ sDue'[q] = sDue[q]) \/ sDue'[q] # 0
    BY <1>4
  <2> QED
    BY <1>1, <2>1, <2>2 DEF LimiterFits, NoReload
<1>8. ASSUME NEW q \in SetReplicas PROVE WatchFits(q)'
  <2>1. CASE q = r
    BY <1>1, <1>2, <1>5, <2>1, RoundDoneFits DEF WatchFits
  <2>2. CASE q # r
    BY <1>1, <1>4, <2>2, RoundDoneFits DEF WatchFits
  <2> QED
    BY <2>1, <2>2
<1> QED
  BY <1>1, <1>6, <1>7, <1>8

LEMMA BootKeeps ==
  ASSUME SettingsIInv, NEW r \in SetReplicas, Boot(r)
  PROVE  SettingsIInv'
<1> USE DEF SettingsIInv
<1>1. /\ sMem' = [sMem EXCEPT ![r] = Worth] /\ sUse' = [sUse EXCEPT ![r] = Worth]
      /\ sPage' = (IF sDb = NoValue THEN sPage \ {r} ELSE sPage \cup {r})
      /\ sDue' = [sDue EXCEPT ![r] = 0] /\ sSnap' = [sSnap EXCEPT ![r] = << >>]
      /\ sRead' = [sRead EXCEPT ![r] = NoRead] /\ sLast' = [sLast EXCEPT ![r] = NoValue]
      /\ sLocal' = sLocal \ {r} /\ sFresh' = sFresh \ {r}
      /\ sOwn' = [sOwn EXCEPT ![r] = NoValue] /\ sWord' = [sWord EXCEPT ![r] = NoValue]
      /\ UNCHANGED << sKey, sDb, sSecret, sKept >>
  BY DEF Boot
<1>2. Worth \in KeyValues /\ NoRead \in KeyRead /\ << >> \in Seq(KeyValues)
  BY DEF Worth, KeyValues, NoRead, KeyRead, SettingsTypes
<1>3. SettingsTypes'
  BY <1>1, <1>2 DEF SettingsTypes
<1>4. /\ sMem'[r] = Worth /\ sUse'[r] = Worth /\ sDue'[r] = 0 /\ sSnap'[r] = << >>
      /\ ~sRead'[r].has /\ sLast'[r] = NoValue /\ sOwn'[r] = NoValue
      /\ \A q \in SetReplicas \ {r} :
           /\ sMem'[q] = sMem[q] /\ sUse'[q] = sUse[q] /\ sDue'[q] = sDue[q] /\ sSnap'[q] = sSnap[q]
           /\ sRead'[q] = sRead[q] /\ sLast'[q] = sLast[q] /\ sOwn'[q] = sOwn[q]
           /\ (q \in sPage' <=> q \in sPage) /\ (q \in sLocal' <=> q \in sLocal)
  BY <1>1 DEF SettingsTypes, NoRead
<1>5. ReadsFit' /\ SecretsAgree'
  BY <1>1, <1>4 DEF ReadsFit, SecretsAgree
<1>6. ASSUME NEW q \in SetReplicas, sKey = "artifact" PROVE LimiterFits(q)' /\ WatchFits(q)'
  <2>1. CASE q = r
    BY <1>1, <1>4, <2>1 DEF LimiterFits, WatchFits, NoReload
  <2>2. CASE q # r
    BY <1>1, <1>4, <1>6, <2>2 DEF LimiterFits, WatchFits, NoReload
  <2> QED
    BY <2>1, <2>2
<1>7. ASSUME NEW q \in SetReplicas, sKey = "ai" PROVE PageFits(q)'
  <2>1. CASE q = r
    BY <1>1, <1>4, <2>1 DEF PageFits, Worth
  <2>2. CASE q # r
    BY <1>1, <1>4, <1>7, <2>2 DEF PageFits, Worth
  <2> QED
    BY <2>1, <2>2
<1> QED
  BY <1>1, <1>3, <1>5, <1>6, <1>7

\* Steps of the secret leave the key alone.
LEMMA SecretKeeps ==
  ASSUME SettingsIInv, NEW r \in SetReplicas, SecretLooked(r) \/ SecretOffered(r) \/ SecretFails(r)
  PROVE  SettingsIInv'
<1> USE SettingsAssumption DEF SettingsIInv
<1>1. UNCHANGED << sKey, sDb, sMem, sPage, sUse, sDue, sSnap, sRead, sLast, sFresh, sLocal >>
  BY DEF SecretLooked, SecretOffered, SecretFails, settings, builds, watch
<1>2. /\ sSecret' \in SetReplicas \cup {NoValue}
      /\ sOwn' \in [SetReplicas -> SetReplicas \cup {NoValue, OwnRandom}] /\ sKept' \subseteq SetReplicas
      /\ sWord' \in [SetReplicas -> SetReplicas \cup {NoValue}]
      /\ SecretsAgree'
  <2>1. CASE SecretLooked(r)
    <3>1. CASE sSecret # NoValue /\ Takes(r, sSecret) /\ sWord' = sWord /\ sSecret' = sSecret
      BY <3>1 DEF SettingsTypes, SecretsAgree, Takes
    <3>2. CASE /\ sWord' = [sWord EXCEPT ![r] = r] /\ sOwn' = sOwn /\ sKept' = sKept
               /\ sSecret' = sSecret
      BY <3>2 DEF SettingsTypes, SecretsAgree
    <3> QED
      BY <2>1, <3>1, <3>2 DEF SecretLooked
  <2>2. CASE SecretOffered(r)
    <3>1. PICK new \in SetReplicas : new = Offered(r)
      BY <2>2 DEF SecretOffered, SettingsTypes, Offered
    <3>2. /\ sSecret' = new /\ sWord' = [sWord EXCEPT ![r] = NoValue]
          /\ sOwn' = [sOwn EXCEPT ![r] = new] /\ sKept' = sKept \cup {new}
      BY <2>2, <3>1 DEF SecretOffered, Takes
    <3>3. sKept \subseteq {new}
      BY <3>1 DEF Offered, SecretsAgree, SettingsTypes
    <3> QED
      BY <3>1, <3>2, <3>3 DEF SettingsTypes, SecretsAgree
  <2>3. CASE SecretFails(r)
    <3>1. /\ sOwn' = [sOwn EXCEPT ![r] = OwnRandom] /\ sWord' = [sWord EXCEPT ![r] = NoValue]
          /\ UNCHANGED sKept
      BY <2>3 DEF SecretFails
    <3>2. sSecret' = sSecret \/ (sSecret = NoValue /\ sSecret' \in SetReplicas)
      BY <2>3 DEF SecretFails, Offered, SettingsTypes
    <3>3. sKept \subseteq {sSecret'}
      BY <3>2 DEF SecretsAgree, SettingsTypes
    <3> QED
      BY <3>1, <3>2, <3>3 DEF SettingsTypes, SecretsAgree
  <2> QED
    BY <2>1, <2>2, <2>3
<1>3. SettingsTypes' /\ ReadsFit'
  BY <1>1, <1>2 DEF SettingsTypes, ReadsFit
<1>4. \A q : (LimiterFits(q)' <=> LimiterFits(q)) /\ (WatchFits(q)' <=> WatchFits(q))
             /\ (PageFits(q)' <=> PageFits(q))
  BY <1>1 DEF LimiterFits, WatchFits, PageFits, NoReload, Worth
<1> QED
  BY <1>1, <1>2, <1>3, <1>4

LEMMA SettingsStay == SettingsIInv /\ UNCHANGED sVars => SettingsIInv'
<1> SUFFICES ASSUME SettingsIInv, UNCHANGED sVars PROVE SettingsIInv'
  OBVIOUS
<1> USE DEF SettingsIInv, sVars, settings, builds, watch, secrets
<1>1. SettingsTypes' /\ ReadsFit' /\ SecretsAgree'
  BY DEF SettingsTypes, ReadsFit, SecretsAgree
<1>2. \A q : (LimiterFits(q)' <=> LimiterFits(q)) /\ (WatchFits(q)' <=> WatchFits(q))
             /\ (PageFits(q)' <=> PageFits(q))
  BY DEF LimiterFits, WatchFits, PageFits, NoReload, Worth
<1> QED
  BY <1>1, <1>2

LEMMA SettingsMove == SettingsIInv /\ SettingsNext => SettingsIInv'
<1> SUFFICES ASSUME SettingsIInv, SettingsNext PROVE SettingsIInv'
  OBVIOUS
<1>1. ASSUME NEW r \in SetReplicas, NEW v \in SetValues, Apply(r, v) \/ CommitUnanswered(r, v)
      PROVE  SettingsIInv'
  BY <1>1, ApplyKeeps
<1>2. ASSUME NEW r \in SetReplicas, Reset(r) PROVE SettingsIInv'
  BY <1>2, SaveKeeps DEF Reset
<1>3. ASSUME NEW r \in SetReplicas, NEW i \in DOMAIN sSnap[r], ReloadEnds(r, i) PROVE SettingsIInv'
  BY <1>3, ReloadEndsKeeps
<1>4. ASSUME NEW r \in SetReplicas,
             ReloadBegins(r) \/ ReadValues(r) \/ SyncFromDB(r) \/ syncOnce(r)
             \/ Boot(r) \/ SecretLooked(r) \/ SecretOffered(r) \/ SecretFails(r)
      PROVE  SettingsIInv'
  BY <1>4, ReloadBeginsKeeps, ReadValuesKeeps, SyncFromDBKeeps, syncOnceKeeps, BootKeeps, SecretKeeps
<1> QED
  BY <1>1, <1>2, <1>3, <1>4 DEF SettingsNext

LEMMA SettingsHold == SettingsIInv => SettingsInv
<1> SUFFICES ASSUME SettingsIInv PROVE SettingsInv
  OBVIOUS
<1>1. SettingsTypeOK
  BY DEF SettingsIInv, SettingsTypes, SettingsTypeOK, KeyValues
<1>2. LimiterFollows /\ ArtifactWithinRound
  BY DEF SettingsIInv, SettingsTypes, LimiterFits, WatchFits, LimiterFollows, ArtifactWithinRound
<1>3. AiWithinRound /\ SecretsAgree
  BY DEF SettingsIInv, SettingsTypes, PageFits, AiWithinRound
<1> QED
  BY <1>1, <1>2, <1>3 DEF SettingsInv

\* What is saved reaches memory, limiter and the other replicas, for any number
\* of replicas, values, saves and starts; replicas whose look at the table did
\* not fail share one session secret (Apply, Reset, SyncFromDB, the watchers,
\* ReloadArtifactSettings, ensureSessionSecret).
THEOREM SettingsAreSound == PlatformSpec => []SettingsInv
<1>1. PlatformInit => SettingsIInv
  BY SettingsBegin DEF PlatformInit
<1>2. SettingsIInv /\ [PlatformNext]_platformVars => SettingsIInv'
  <2> SUFFICES ASSUME SettingsIInv, [PlatformNext]_platformVars PROVE SettingsIInv'
    OBVIOUS
  <2>1. SettingsNext \/ UNCHANGED sVars
    BY DEF PlatformNext, platformVars
  <2> QED
    BY <2>1, SettingsMove, SettingsStay
<1> QED
  BY <1>1, <1>2, SettingsHold, PTL DEF PlatformSpec

-----------------------------------------------------------------------------
(* The batches of a task *)

\* A set of natural numbers has a least one.
LEMMA LeastNumber ==
  ASSUME NEW S \in SUBSET Nat, S # {}
  PROVE  \E m \in S : \A k \in S : m <= k
<1> DEFINE below == {0 .. (k - 1) : k \in S}
<1>1. below \subseteq FiniteSubsetsOf(Nat)
  <2> SUFFICES ASSUME NEW k \in S PROVE 0 .. (k - 1) \in FiniteSubsetsOf(Nat)
    OBVIOUS
  <2>1. IsFiniteSet(0 .. (k - 1))
    BY FS_Interval
  <2> QED
    BY <2>1 DEF FiniteSubsetsOf
<1>2. below # {}
  OBVIOUS
<1> HIDE DEF below
<1>3. PICK x \in below : \A y \in below : << y, x >> \notin StrictSubsetOrdering(Nat)
  BY <1>1, <1>2, FS_StrictSubsetOrderingWellFounded, WFMin
<1> USE DEF below
<1>4. PICK m \in S : x = 0 .. (m - 1)
  OBVIOUS
<1>5. ASSUME NEW k \in S, k < m PROVE FALSE
  <2>1. << 0 .. (k - 1), x >> \in StrictSubsetOrdering(Nat)
    <3> DEFINE a == 0 .. (k - 1)
    <3>1. k \in x /\ k \notin a
      BY <1>4, <1>5
    <3>2. a \subseteq x /\ x \subseteq Nat
      BY <1>4, <1>5
    <3> HIDE DEF a
    <3> QED
      BY <3>1, <3>2 DEF StrictSubsetOrdering
  <2> QED
    BY <2>1, <1>3
<1> QED
  BY <1>5

\* The places of hosts number them from 0, in order, without a gap.
LEMMA PlacesFill ==
  ASSUME NEW hs \in SUBSET Nat, IsFiniteSet(hs)
  PROVE  /\ Cardinality(hs) \in Nat
         /\ \A h \in hs : Place(hs, h) \in 0 .. (Cardinality(hs) - 1)
         /\ \A g, h \in hs : g < h => Place(hs, g) < Place(hs, h)
         /\ \A p \in 0 .. (Cardinality(hs) - 1) : \E h \in hs : Place(hs, h) = p
<1> DEFINE N == Cardinality(hs)
           less(h) == {g \in hs : g < h}
<1>1. N \in Nat
  BY FS_CardinalityType, Zenon
<1>2. \A h \in hs : IsFiniteSet(less(h)) /\ Cardinality(less(h)) \in Nat /\ Cardinality(less(h)) < N
  <2> SUFFICES ASSUME NEW h \in hs
               PROVE  IsFiniteSet(less(h)) /\ Cardinality(less(h)) \in Nat /\ Cardinality(less(h)) < N
    OBVIOUS
  <2>1. less(h) \in SUBSET hs /\ h \notin less(h)
    <3>1. h \in Nat /\ ~(h < h)
      OBVIOUS
    <3> QED
      BY <3>1
  <2> HIDE DEF less
  <2>2. IsFiniteSet(less(h)) /\ Cardinality(less(h)) <= N /\ (Cardinality(less(h)) = N => less(h) = hs)
    BY <2>1, FS_Subset, Zenon
  <2>3. Cardinality(less(h)) \in Nat
    BY <2>2, FS_CardinalityType, Zenon
  <2> HIDE DEF N
  <2> QED
    BY <2>1, <2>2, <2>3, <1>1
<1>3. \A h \in hs : Place(hs, h) = Cardinality(less(h))
  BY DEF Place
<1>4. ASSUME NEW g \in hs, NEW h \in hs, g < h PROVE Cardinality(less(g)) < Cardinality(less(h))
  <2>1. less(g) \in SUBSET less(h) /\ g \in less(h) /\ g \notin less(g)
    <3>1. g \in Nat /\ h \in Nat /\ ~(g < g) /\ \A x \in Nat : x < g => x < h
      BY <1>4
    <3>2. \A x \in hs : x \in Nat
      OBVIOUS
    <3>3. less(g) \subseteq less(h)
      BY <3>1, <3>2
    <3> QED
      BY <3>1, <3>3, <1>4
  <2>2. IsFiniteSet(less(h)) /\ Cardinality(less(h)) \in Nat /\ Cardinality(less(g)) \in Nat
    BY <1>2
  <2> HIDE DEF less
  <2>3. Cardinality(less(g)) <= Cardinality(less(h))
        /\ (Cardinality(less(g)) = Cardinality(less(h)) => less(g) = less(h))
    BY <2>1, <2>2, FS_Subset, Zenon
  <2> QED
    BY <2>1, <2>2, <2>3
<1> HIDE DEF less
<1>5. \A p \in 0 .. (N - 1) : \E h \in hs : Place(hs, h) = p
  <2> DEFINE all == 0 .. (N - 1)
             f == [h \in hs |-> Place(hs, h)]
  <2>1. \A h \in hs : Place(hs, h) \in all
    <3> HIDE DEF N
    <3> QED
      BY <1>1, <1>2, <1>3
  <2>2. \A g, h \in hs : g # h => Place(hs, g) # Place(hs, h)
    <3> SUFFICES ASSUME NEW g \in hs, NEW h \in hs, g # h PROVE Place(hs, g) # Place(hs, h)
      OBVIOUS
    <3>1. g < h \/ h < g
      OBVIOUS
    <3>2. Cardinality(less(g)) \in Nat /\ Cardinality(less(h)) \in Nat
      BY <1>2
    <3>3. Cardinality(less(g)) < Cardinality(less(h)) \/ Cardinality(less(h)) < Cardinality(less(g))
      BY <3>1, <1>4
    <3> QED
      BY <3>2, <3>3, <1>3
  <2>3. IsFiniteSet(all) /\ Cardinality(all) = N
    <3> HIDE DEF N
    <3>1. 0 \in Int /\ N - 1 \in Int
      BY <1>1
    <3>2. IsFiniteSet(all) /\ Cardinality(all) = IF 0 > N - 1 THEN 0 ELSE (N - 1) - 0 + 1
      BY <3>1, FS_Interval
    <3> QED
      BY <1>1, <3>2
  <2> HIDE DEF N, all
  <2> DEFINE image == {Place(hs, h) : h \in hs}
  <2>4. f \in Bijection(hs, image)
    <3>1. f \in [hs -> image] /\ \A y \in image : \E h \in hs : f[h] = y
      OBVIOUS
    <3>2. \A g, h \in hs : f[g] = f[h] => g = h
      BY <2>2
    <3> HIDE DEF f, image
    <3> QED
      <4>1. f \in Injection(hs, image)
        BY <3>1, <3>2, Zenon DEF Injection, IsInjective
      <4>2. f \in Surjection(hs, image)
        BY <3>1, Zenon DEF Surjection
      <4> QED
        BY <4>1, <4>2, Zenon DEF Bijection
  <2>5. ExistsBijection(hs, image)
    BY <2>4, Zenon DEF ExistsBijection
  <2>6. image \in SUBSET all
    BY <2>1
  <2> HIDE DEF image
  <2>7. Cardinality(image) = N
    BY <2>5, FS_Bijection, Zenon DEF N
  <2>8. image = all
    BY <2>3, <2>6, <2>7, FS_Subset, Zenon
  <2> QED
    BY <2>8 DEF image, all
<1>6. \A h \in hs : Place(hs, h) \in 0 .. (N - 1)
  <2> HIDE DEF N
  <2> QED
    BY <1>1, <1>2, <1>3
<1> QED
  BY <1>1, <1>3, <1>4, <1>5, <1>6

\* The recursion of Before has a solution, and Before is one.
LEMMA BeforeRule ==
  ASSUME NEW m \in Nat, NEW sizes \in [1 .. m -> Nat]
  PROVE  /\ Before(sizes) \in [1 .. m -> Nat]
         /\ \A i \in 1 .. m : Before(sizes)[i] = IF i = 1 THEN 0 ELSE Before(sizes)[i - 1] + sizes[i - 1]
<1> DEFINE rule(f, i) == f[i] = IF i = 1 THEN 0 ELSE f[i - 1] + sizes[i - 1]
           solved(n) == \E f \in [1 .. n -> Nat] : \A i \in 1 .. n : rule(f, i)
           unsolved == {n \in 0 .. m : ~solved(n)}
<1>1. unsolved = {}
  <2> SUFFICES ASSUME unsolved # {} PROVE FALSE
    OBVIOUS
  <2>1. unsolved \in SUBSET Nat
    OBVIOUS
  <2> HIDE DEF unsolved
  <2>2. PICK n \in unsolved : \A k \in unsolved : n <= k
    BY <2>1, LeastNumber
  <2> USE DEF unsolved
  <2> HIDE DEF solved
  <2>3. n \in 0 .. m /\ ~solved(n)
    OBVIOUS
  <2>4. CASE n = 0
    <3>1. [i \in 1 .. 0 |-> 0] \in [1 .. 0 -> Nat] /\ 1 .. 0 = {}
      OBVIOUS
    <3>2. solved(0)
      BY <3>1 DEF solved
    <3> QED
      BY <2>3, <2>4, <3>2
  <2>5. CASE n # 0
    <3>1. n - 1 \in 0 .. m /\ n - 1 \notin unsolved
      BY <2>2, <2>3, <2>5
    <3>2. solved(n - 1)
      BY <3>1
    <3>3. PICK f \in [1 .. (n - 1) -> Nat] : \A i \in 1 .. (n - 1) : rule(f, i)
      BY <3>2 DEF solved
    <3> DEFINE last == IF n = 1 THEN 0 ELSE f[n - 1] + sizes[n - 1]
               g == [i \in 1 .. n |-> IF i = n THEN last ELSE f[i]]
    <3>4. last \in Nat
      BY <2>3, <2>5
    <3>5. g \in [1 .. n -> Nat]
      BY <3>4
    <3>6. \A i \in 1 .. n : rule(g, i)
      BY <2>3, <3>3
    <3> HIDE DEF g
    <3>7. solved(n)
      BY <3>5, <3>6 DEF solved
    <3> QED
      BY <2>3, <3>7
  <2> QED
    BY <2>4, <2>5
<1>2. PICK f \in [1 .. m -> Nat] : \A i \in 1 .. m : rule(f, i)
  <2> HIDE DEF solved
  <2>1. solved(m)
    BY <1>1
  <2> QED
    BY <2>1 DEF solved
<1> DEFINE e == Before(sizes)
<1>3. f = [i \in DOMAIN sizes |-> IF i = 1 THEN 0 ELSE f[i - 1] + sizes[i - 1]]
  BY <1>2
<1>4. e = [i \in DOMAIN sizes |-> IF i = 1 THEN 0 ELSE e[i - 1] + sizes[i - 1]]
  BY <1>3 DEF Before
<1> HIDE DEF e
<1>5. \A i \in 1 .. m : rule(e, i)
  BY <1>4
<1> DEFINE other == {i \in 1 .. m : e[i] # f[i]}
<1>6. other = {}
  <2> SUFFICES ASSUME other # {} PROVE FALSE
    OBVIOUS
  <2>1. other \in SUBSET Nat
    OBVIOUS
  <2> HIDE DEF other
  <2>2. PICK n \in other : \A k \in other : n <= k
    BY <2>1, LeastNumber
  <2> USE DEF other
  <2>3. n \in 1 .. m /\ e[n] # f[n] /\ rule(e, n) /\ rule(f, n)
    BY <1>2, <1>5
  <2>4. n # 1
    BY <2>3
  <2>5. n - 1 \in 1 .. m /\ n - 1 \notin other
    BY <2>2, <2>3, <2>4
  <2>6. e[n - 1] = f[n - 1]
    BY <2>5
  <2> QED
    BY <2>3, <2>4, <2>6
<1>7. e = f
  <2> DEFINE fun == [i \in 1 .. m |-> f[i]]
  <2>1. \A i \in 1 .. m : e[i] = f[i]
    BY <1>6
  <2>2. e = [i \in 1 .. m |-> e[i]]
    BY <1>4
  <2>3. [i \in 1 .. m |-> e[i]] = fun
    BY <2>1
  <2>4. f = fun
    OBVIOUS
  <2> QED
    BY <2>2, <2>3, <2>4
<1> QED
  BY <1>2, <1>7 DEF e

\* Batches of these sizes, laid end to end over as many places as they add up to.
LEMMA BatchOfPlace ==
  ASSUME NEW m \in Nat, NEW sizes \in [1 .. m -> Nat \ {0}], NEW total \in Nat, total > 0 => m > 0,
         m > 0 => Before(sizes)[m] + sizes[m] = total
  PROVE  /\ \A p \in 0 .. (total - 1) : \E i \in 1 .. m :
              Before(sizes)[i] <= p /\ p < Before(sizes)[i] + sizes[i]
         /\ \A i, j \in 1 .. m : i < j => Before(sizes)[i] + sizes[i] <= Before(sizes)[j]
<1> DEFINE e == Before(sizes)
<1>1. e \in [1 .. m -> Nat] /\ \A i \in 1 .. m : e[i] = IF i = 1 THEN 0 ELSE e[i - 1] + sizes[i - 1]
  <2>1. sizes \in [1 .. m -> Nat]
    OBVIOUS
  <2> QED
    BY <2>1, BeforeRule
<1>2. m > 0 => e[m] + sizes[m] = total
  OBVIOUS
<1> HIDE DEF e
<1>3. ASSUME NEW p \in 0 .. (total - 1)
      PROVE  \E i \in 1 .. m : e[i] <= p /\ p < e[i] + sizes[i]
  <2> DEFINE past == {i \in 1 .. m : p < e[i] + sizes[i]}
  <2>1. past \in SUBSET Nat
    OBVIOUS
  <2>2. m \in past
    BY <1>1, <1>2
  <2> HIDE DEF past
  <2>3. PICK i \in past : \A k \in past : i <= k
    BY <2>1, <2>2, LeastNumber
  <2> USE DEF past
  <2>4. i \in 1 .. m /\ p < e[i] + sizes[i]
    OBVIOUS
  <2>5. e[i] <= p
    <3>1. CASE i = 1
      BY <1>1, <2>4, <3>1
    <3>2. CASE i # 1
      <4>1. i - 1 \in 1 .. m /\ i - 1 \notin past
        BY <2>3, <2>4, <3>2
      <4>2. ~(p < e[i - 1] + sizes[i - 1])
        BY <4>1
      <4>3. e[i] = e[i - 1] + sizes[i - 1] /\ e[i - 1] \in Nat /\ sizes[i - 1] \in Nat
        BY <1>1, <2>4, <3>2, <4>1
      <4> QED
        BY <4>2, <4>3
    <3> QED
      BY <3>1, <3>2
  <2> QED
    BY <2>4, <2>5
<1>4. ASSUME NEW i \in 1 .. m, NEW j \in 1 .. m, i < j
      PROVE  e[i] + sizes[i] <= e[j]
  <2> DEFINE low == {k \in 1 .. m : i < k /\ ~(e[i] + sizes[i] <= e[k])}
  <2>1. low = {}
    <3> SUFFICES ASSUME low # {} PROVE FALSE
      OBVIOUS
    <3>1. low \in SUBSET Nat
      OBVIOUS
    <3> HIDE DEF low
    <3>2. PICK k \in low : \A l \in low : k <= l
      BY <3>1, LeastNumber
    <3> USE DEF low
    <3>3. k \in 1 .. m /\ i < k /\ ~(e[i] + sizes[i] <= e[k]) /\ k - 1 \in 1 .. m
      OBVIOUS
    <3>4. e[k] = e[k - 1] + sizes[k - 1] /\ e[k - 1] \in Nat /\ sizes[k - 1] \in Nat /\ e[i] \in Nat
          /\ sizes[i] \in Nat
      BY <1>1, <3>3
    <3>5. k - 1 # i
      <4> HIDE DEF low
      <4> SUFFICES ASSUME k - 1 = i PROVE FALSE
        OBVIOUS
      <4>1. e[k] = e[i] + sizes[i]
        BY <3>4
      <4> QED
        BY <3>3, <3>4, <4>1
    <3>6. k - 1 \notin low
      BY <3>2, <3>3
    <3>7. e[i] + sizes[i] <= e[k - 1]
      BY <3>3, <3>5, <3>6
    <3> HIDE DEF low
    <3> QED
      BY <3>3, <3>4, <3>7
  <2> QED
    BY <1>4, <2>1
<1> QED
  BY <1>3, <1>4 DEF e

LEMMA Quotient ==
  ASSUME NEW a \in Nat, NEW b \in Nat \ {0}
  PROVE  /\ a \div b \in Nat
         /\ (a \div b) * b <= a /\ a < (a \div b) * b + b
OBVIOUS

LEMMA Times ==
  ASSUME NEW a \in Int, NEW b \in Int
  PROVE  (a - 1) * b \in Int /\ a * b \in Int /\ a * b = (a - 1) * b + b
OBVIOUS

\* What the two sizes are, whatever the strategy says.
LEMMA SizesPositive ==
  ASSUME NEW total \in Nat \ {0}, NEW s \in Strategies
  PROVE  /\ Canary(total, s) \in 0 .. (total - 1)
         /\ \A rest \in Nat \ {0} : RegularSize(total, rest, s) \in Nat \ {0}
<1>1. s.canary \in Int /\ s.batch \in Int
  BY AccessAssumption
<1>2. Canary(total, s) \in 0 .. (total - 1)
  BY <1>1 DEF Canary
<1>3. ASSUME NEW rest \in Nat \ {0} PROVE RegularSize(total, rest, s) \in Nat \ {0}
  <2> DEFINE product == total * s.batch
  <2>1. CASE s.mode = "percent" /\ s.batch > 0
    <3>1. product \in Nat
      BY <1>1, <2>1
    <3> HIDE DEF product
    <3>2. product \div 100 \in Nat
      BY <3>1
    <3>3. RegularSize(total, rest, s) = IF product \div 100 < 1 THEN 1 ELSE product \div 100
      BY <2>1 DEF RegularSize, product
    <3> QED
      BY <3>2, <3>3
  <2>2. CASE ~(s.mode = "percent" /\ s.batch > 0)
    BY <1>1, <2>2 DEF RegularSize
  <2> QED
    BY <2>1, <2>2
<1> QED
  BY <1>2, <1>3

\* The sizes of the batches of a task are positive and add up to its hosts.
LEMMA SizesAddUp ==
  ASSUME NEW total \in Nat \ {0}, NEW s \in Strategies
  PROVE  \E m \in Nat \ {0} :
           /\ splitBatches(total, s) \in [1 .. m -> Nat \ {0}]
           /\ Before(splitBatches(total, s))[m] + splitBatches(total, s)[m] = total
<1> DEFINE canary == Canary(total, s)
           first == IF canary > 0 THEN 1 ELSE 0
           rest == total - canary
           size == RegularSize(total, rest, s)
           q == (rest + size - 1) \div size
           n == first + q
           sizes == splitBatches(total, s)
           e == Before(sizes)
<1>1. sizes = [i \in 1 .. n |-> IF i <= first THEN canary
                               ELSE IF i < n THEN size ELSE rest - (n - first - 1) * size]
  BY DEF splitBatches
<1>2. canary \in 0 .. (total - 1) /\ first \in {0, 1} /\ (first = 1 <=> canary > 0) /\ rest \in Nat \ {0}
  BY SizesPositive
<1> HIDE DEF canary, first
<1>3. rest \in Nat \ {0} /\ rest + canary = total
  BY <1>2
<1> HIDE DEF rest
<1>4. size \in Nat \ {0}
  BY <1>3, SizesPositive
<1> HIDE DEF size, sizes
<1>5. /\ q \in Nat /\ (q - 1) * size \in Int
      /\ (q - 1) * size < rest /\ rest <= (q - 1) * size + size
  <2>1. rest + size - 1 \in Nat
    BY <1>3, <1>4
  <2>2. q \in Nat /\ q * size <= rest + size - 1 /\ rest + size - 1 < q * size + size
    BY <1>4, <2>1, Quotient
  <2> HIDE DEF q
  <2>3. (q - 1) * size \in Int /\ q * size = (q - 1) * size + size /\ q * size \in Int
    BY <1>4, <2>2, Times
  <2> QED
    BY <1>3, <1>4, <2>2, <2>3
<1> HIDE DEF q
<1>6. q # 0
  <2> SUFFICES ASSUME q = 0 PROVE FALSE
    OBVIOUS
  <2>1. (q - 1) * size = 0 - size
    BY <1>4
  <2> QED
    BY <1>3, <1>4, <1>5, <2>1
<1> DEFINE p == (q - 1) * size
<1>7. n \in Nat \ {0} /\ first < n /\ n - first - 1 = q - 1
  BY <1>2, <1>5, <1>6
<1>8. sizes = [i \in 1 .. n |-> IF i <= first THEN canary ELSE IF i < n THEN size ELSE rest - p]
  BY <1>1, <1>7
<1>9. p \in Int /\ p < rest /\ rest - p \in Nat \ {0}
  BY <1>3, <1>5
<1> HIDE DEF n, p
<1>10. sizes \in [1 .. n -> Nat \ {0}]
  <2>1. \A i \in 1 .. n : (IF i <= first THEN canary ELSE IF i < n THEN size ELSE rest - p) \in Nat \ {0}
    <3> SUFFICES ASSUME NEW i \in 1 .. n
                 PROVE  (IF i <= first THEN canary ELSE IF i < n THEN size ELSE rest - p) \in Nat \ {0}
      OBVIOUS
    <3>1. i <= first => canary \in Nat \ {0}
      BY <1>2, <1>7
    <3> QED
      BY <3>1, <1>4, <1>9
  <2> QED
    BY <1>8, <2>1
<1>11. \A i \in 1 .. n : e[i] = IF i = 1 THEN 0 ELSE e[i - 1] + sizes[i - 1]
  <2>1. sizes \in [1 .. n -> Nat] /\ n \in Nat
    BY <1>7, <1>10
  <2> QED
    BY <2>1, BeforeRule
<1> HIDE DEF e
<1> DEFINE closed(i) == IF i <= first THEN 0 ELSE canary + (i - first - 1) * size
           off == {i \in 1 .. n : e[i] # closed(i)}
<1>12. off = {}
  <2> SUFFICES ASSUME off # {} PROVE FALSE
    OBVIOUS
  <2>1. off \in SUBSET Nat
    OBVIOUS
  <2> HIDE DEF off
  <2>2. PICK i \in off : \A k \in off : i <= k
    BY <2>1, LeastNumber
  <2> USE DEF off
  <2>3. i \in 1 .. n /\ e[i] # closed(i)
    OBVIOUS
  <2>4. CASE i = 1
    <3>1. e[1] = 0
      BY <1>11, <2>3, <2>4
    <3>2. first = 1 \/ (first = 0 /\ canary = 0)
      BY <1>2
    <3>3. (1 - 0 - 1) * size = 0
      BY <1>4
    <3>4. closed(1) = 0
      BY <3>2, <3>3
    <3> QED
      BY <2>3, <2>4, <3>1, <3>4
  <2>5. CASE i # 1
    <3>1. i - 1 \in 1 .. n /\ i - 1 \notin off
      BY <1>7, <2>2, <2>3, <2>5
    <3>2. e[i - 1] = closed(i - 1) /\ e[i] = e[i - 1] + sizes[i - 1]
      BY <1>11, <2>3, <2>5, <3>1
    <3>3. CASE i - 1 <= first
      <4>1. first = 1 /\ i = 2
        BY <1>2, <3>1, <3>3
      <4>2. sizes[i - 1] = canary /\ e[i - 1] = 0
        BY <1>8, <3>1, <3>2, <3>3
      <4>3. (2 - 1 - 1) * size = 0
        BY <1>4
      <4>4. closed(i) = canary
        BY <1>2, <4>1, <4>3
      <4> QED
        BY <1>2, <2>3, <3>2, <4>2, <4>4
    <3>4. CASE ~(i - 1 <= first)
      <4>1. sizes[i - 1] = size
        BY <1>7, <1>8, <2>3, <3>1, <3>4
      <4>2. e[i - 1] = canary + (i - 1 - first - 1) * size
        BY <3>2, <3>4
      <4> DEFINE j == i - first - 1
      <4>3. j \in Int /\ i - 1 - first - 1 = j - 1
        BY <1>2, <2>3
      <4>4. closed(i) = canary + j * size
        BY <1>2, <2>3, <3>4
      <4> HIDE DEF j, closed
      <4>5. (j - 1) * size \in Int /\ j * size = (j - 1) * size + size
        BY <1>4, <4>3, Times
      <4> QED
        BY <1>2, <1>4, <2>3, <3>2, <4>1, <4>2, <4>3, <4>4, <4>5
    <3> QED
      BY <3>3, <3>4
  <2> QED
    BY <2>4, <2>5
<1>13. e[n] = canary + p /\ sizes[n] = rest - p
  <2>1. n \in 1 .. n /\ ~(n <= first)
    BY <1>2, <1>7
  <2>2. e[n] = closed(n)
    BY <1>12, <2>1
  <2>3. closed(n) = canary + (q - 1) * size
    BY <1>7, <2>1
  <2> QED
    BY <1>8, <2>1, <2>2, <2>3 DEF p
<1>14. e[n] + sizes[n] = total
  BY <1>2, <1>3, <1>9, <1>13
<1> QED
  BY <1>7, <1>10, <1>14 DEF e, sizes

\* Places laid over the batches that a task splits into.
LEMMA SplitIsPartition ==
  ASSUME NEW hs \in SUBSET Nat, IsFiniteSet(hs), hs # {}, NEW s \in Strategies,
         NEW sizes, sizes = splitBatches(Cardinality(hs), s), NEW batch, batch = BatchOfHost(hs, sizes)
  PROVE  /\ \A b \in DOMAIN sizes : sizes[b] > 0 /\ sizes[b] = Cardinality({h \in DOMAIN batch : batch[h] = b})
         /\ \A g, h \in DOMAIN batch : g < h => batch[g] <= batch[h]
<1> DEFINE total == Cardinality(hs)
           e == Before(sizes)
           place(h) == Place(hs, h)
           holds(i, h) == e[i] <= place(h) /\ place(h) < e[i] + sizes[i]
<1>1. total \in Nat \ {0}
  <2>1. total \in Nat /\ total # 0
    BY FS_CardinalityType, FS_EmptySet, Zenon
  <2> QED
    BY <2>1
<1>2. PICK m \in Nat \ {0} : sizes \in [1 .. m -> Nat \ {0}] /\ e[m] + sizes[m] = total
  BY <1>1, SizesAddUp
<1>3. e \in [1 .. m -> Nat]
  <2>1. sizes \in [1 .. m -> Nat] /\ m \in Nat
    BY <1>2
  <2> QED
    BY <2>1, BeforeRule
<1>4. /\ \A x \in 0 .. (total - 1) : \E i \in 1 .. m : e[i] <= x /\ x < e[i] + sizes[i]
      /\ \A i, j \in 1 .. m : i < j => e[i] + sizes[i] <= e[j]
  <2> HIDE DEF total
  <2>1. m \in Nat /\ total \in Nat /\ (total > 0 => m > 0) /\ (m > 0 => Before(sizes)[m] + sizes[m] = total)
    BY <1>1, <1>2
  <2>2. sizes \in [1 .. m -> Nat \ {0}]
    BY <1>2
  <2> HIDE DEF e
  <2>3. /\ \A x \in 0 .. (total - 1) : \E i \in 1 .. m :
             Before(sizes)[i] <= x /\ x < Before(sizes)[i] + sizes[i]
        /\ \A i, j \in 1 .. m : i < j => Before(sizes)[i] + sizes[i] <= Before(sizes)[j]
    BY <2>1, <2>2, BatchOfPlace
  <2> QED
    BY <2>3 DEF e
<1>5. /\ \A h \in hs : place(h) \in 0 .. (total - 1)
      /\ \A g, h \in hs : g < h => place(g) < place(h)
      /\ \A x \in 0 .. (total - 1) : \E h \in hs : place(h) = x
  BY PlacesFill
<1>6. batch = [h \in hs |-> CHOOSE i \in 1 .. m : holds(i, h)]
  BY <1>2 DEF BatchOfHost
<1> HIDE DEF total, e, place
<1>7. \A h \in hs : batch[h] \in 1 .. m /\ holds(batch[h], h)
  <2> SUFFICES ASSUME NEW h \in hs PROVE batch[h] \in 1 .. m /\ holds(batch[h], h)
    OBVIOUS
  <2>1. \E i \in 1 .. m : holds(i, h)
    BY <1>4, <1>5
  <2>2. batch[h] = CHOOSE i \in 1 .. m : holds(i, h)
    BY <1>6
  <2> HIDE DEF holds
  <2> QED
    BY <2>1, <2>2
<1>8. \A g, h \in hs : g < h => batch[g] <= batch[h]
  <2> SUFFICES ASSUME NEW g \in hs, NEW h \in hs, g < h, ~(batch[g] <= batch[h]) PROVE FALSE
    OBVIOUS
  <2>1. batch[g] \in 1 .. m /\ batch[h] \in 1 .. m /\ holds(batch[g], g) /\ holds(batch[h], h)
    BY <1>7
  <2>2. e[batch[h]] + sizes[batch[h]] <= e[batch[g]]
    BY <1>4, <2>1
  <2>3. place(g) \in Int /\ place(h) \in Int /\ place(g) < place(h)
    BY <1>1, <1>5
  <2>4. e[batch[h]] \in Nat /\ sizes[batch[h]] \in Nat /\ e[batch[g]] \in Nat
    BY <1>2, <1>3, <2>1
  <2> QED
    BY <2>1, <2>2, <2>3, <2>4
<1>9. ASSUME NEW b \in 1 .. m
      PROVE  sizes[b] = Cardinality({h \in hs : batch[h] = b})
  <2> DEFINE mine == {h \in hs : batch[h] = b}
             slots == e[b] .. (e[b] + sizes[b] - 1)
             f == [h \in mine |-> place(h)]
  <2>1. e[b] \in Nat /\ sizes[b] \in Nat \ {0}
    BY <1>2, <1>3
  <2>2. \A h \in mine : place(h) \in slots
    BY <1>1, <1>5, <1>7, <2>1
  <2>3. \A x \in slots : \E h \in mine : place(h) = x
    <3> SUFFICES ASSUME NEW x \in slots PROVE \E h \in mine : place(h) = x
      OBVIOUS
    <3>1. x \in 0 .. (total - 1)
      <4>1. b = m \/ e[b] + sizes[b] <= e[m]
        BY <1>2, <1>4
      <4>2. e[b] + sizes[b] <= total
        BY <1>1, <1>2, <1>3, <2>1, <4>1
      <4> QED
        BY <1>1, <2>1, <4>2
    <3>2. PICK h \in hs : place(h) = x
      BY <1>5, <3>1
    <3>3. batch[h] \in 1 .. m /\ holds(batch[h], h) /\ e[batch[h]] \in Nat /\ sizes[batch[h]] \in Nat
      BY <1>2, <1>3, <1>7
    <3>4. x \in Int /\ e[b] <= x /\ x < e[b] + sizes[b]
      BY <2>1
    <3>5. ~(batch[h] < b)
      <4> SUFFICES ASSUME batch[h] < b PROVE FALSE
        OBVIOUS
      <4>1. e[batch[h]] + sizes[batch[h]] <= e[b]
        BY <1>4, <3>3
      <4> QED
        BY <2>1, <3>2, <3>3, <3>4, <4>1
    <3>6. ~(b < batch[h])
      <4> SUFFICES ASSUME b < batch[h] PROVE FALSE
        OBVIOUS
      <4>1. e[b] + sizes[b] <= e[batch[h]]
        BY <1>4, <3>3
      <4> QED
        BY <2>1, <3>2, <3>3, <3>4, <4>1
    <3>7. batch[h] = b
      BY <3>3, <3>5, <3>6
    <3> QED
      BY <3>2, <3>7
  <2>4. \A g, h \in mine : place(g) = place(h) => g = h
    <3> SUFFICES ASSUME NEW g \in hs, NEW h \in hs, place(g) = place(h), g # h PROVE FALSE
      OBVIOUS
    <3>1. place(g) \in Int /\ place(h) \in Int /\ (g < h \/ h < g)
      BY <1>1, <1>5
    <3> QED
      BY <1>5, <3>1
  <2>5. IsFiniteSet(mine)
    <3>1. mine \in SUBSET hs
      OBVIOUS
    <3> QED
      BY <3>1, FS_Subset
  <2>6. Cardinality(slots) = sizes[b]
    <3>1. e[b] \in Int /\ e[b] + sizes[b] - 1 \in Int
      BY <2>1
    <3>2. Cardinality(slots) = IF e[b] > e[b] + sizes[b] - 1 THEN 0
                               ELSE (e[b] + sizes[b] - 1) - e[b] + 1
      BY <3>1, FS_Interval
    <3> QED
      BY <2>1, <3>2
  <2> HIDE DEF mine, slots
  <2>7. ExistsBijection(mine, slots)
    <3>1. f \in [mine -> slots] /\ \A x \in slots : \E h \in mine : f[h] = x
      BY <2>2, <2>3
    <3>2. \A g, h \in mine : f[g] = f[h] => g = h
      BY <2>4
    <3> HIDE DEF f
    <3>3. f \in Injection(mine, slots)
      BY <3>1, <3>2, Zenon DEF Injection, IsInjective
    <3>4. f \in Surjection(mine, slots)
      BY <3>1, Zenon DEF Surjection
    <3> QED
      BY <3>3, <3>4, Zenon DEF Bijection, ExistsBijection
  <2> QED
    BY <2>5, <2>6, <2>7, FS_Bijection, Zenon DEF mine
<1>10. DOMAIN sizes = 1 .. m /\ DOMAIN batch = hs /\ \A b \in 1 .. m : sizes[b] > 0
  BY <1>2, <1>6
<1> QED
  BY <1>8, <1>9, <1>10

-----------------------------------------------------------------------------
(* Rights and tasks *)

AccessTypes ==
  /\ aRole \in [Roles -> (SUBSET Perms) \cup {NoRole}]
  /\ aTeam \in [Teams -> TeamRow]
  /\ aGrant \in [Teams \X SvcGroups -> Grant]
  /\ aHost \in [TaskHosts -> HostRow \cup {NoHostRow}]
  /\ aEdits \in 0 .. MaxOrgEdits /\ aHostEdits \in 0 .. MaxHostEdits

\* The calls between their look and their write.
LooksFit ==
  /\ aSet = Idle \/ \E t \in Teams, g \in SvcGroups, p \in Grant :
       aSet = [pc |-> "write", team |-> t, group |-> g, grant |-> p]
  /\ aDel = Idle \/ \E r \in Roles : aDel = [pc |-> "delete", role |-> r]

HostsFit(hosts) ==
  DOMAIN hosts \in SUBSET TaskHosts /\ DOMAIN hosts # {} /\ \A h \in DOMAIN hosts : hosts[h] \in HostTags

\* A creation past its check reaches what was granted, or nothing limits it.
NewFits ==
  \/ aNew = Idle
  \/ /\ aNew = [pc |-> aNew.pc, by |-> aNew.by, comp |-> aNew.comp, want |-> aNew.want,
                target |-> aNew.target, hosts |-> aNew.hosts, bare |-> aNew.bare]
     /\ aNew.pc \in {"match", "groups", "write"}
     /\ aNew.want \subseteq TaskHosts /\ (aNew.by \in Members => aNew.comp \in Comps)
     /\ aNew.pc # "match" => HostsFit(aNew.hosts)
     /\ aNew.pc = "write" /\ aNew.by \in Members =>
          aNew.bare \/ \A h \in DOMAIN aNew.hosts : << aNew.by, aNew.comp, aNew.hosts[h] >> \in aEver

\* The history has at least what the grants cover now.
EverCovers == Covered(aTeam, aGroup, aGrant) \subseteq aEver

TaskFits == \A i \in DOMAIN aTask : OnceGranted(aTask[i]) \/ aTask[i].bare

AccessIInv ==
  /\ AccessTypes /\ LooksFit /\ NewFits /\ EverCovers /\ TaskFits
  /\ BatchesPartition /\ LostRoleNeedsRace

LEMMA NoValuesFit ==
  /\ NoRole \notin SUBSET Perms /\ NoTeam \in TeamRow /\ NoGrant \in Grant
  /\ Idle.pc = "idle"
BY DEF NoRole, Perms, NoTeam, TeamRow, Policies, NoGrant, Grant, Idle

LEMMA AccessBegins == AccessInit => AccessIInv
<1> SUFFICES ASSUME AccessInit PROVE AccessIInv
  OBVIOUS
<1> USE DEF AccessInit
<1>1. AccessTypes
  BY AccessAssumption DEF AccessTypes
<1>2. LooksFit /\ NewFits /\ TaskFits /\ BatchesPartition
  BY DEF LooksFit, NewFits, TaskFits, BatchesPartition
<1>3. EverCovers
  BY DEF EverCovers
<1>4. LostRoleNeedsRace
  <2> SUFFICES ASSUME NEW t \in Teams, NEW g \in SvcGroups, NEW r \in aGrant[<< t, g >>].roles
               PROVE  aRole[r] # NoRole
    BY DEF LostRoleNeedsRace
  <2> QED
    BY AccessAssumption
<1> QED
  BY <1>1, <1>2, <1>3, <1>4 DEF AccessIInv


\* More history hurts nobody.
LEMMA EverGrows ==
  ASSUME NewFits, TaskFits, BatchesPartition, aEver \subseteq aEver', UNCHANGED << aNew, aTask >>
  PROVE  NewFits' /\ TaskFits' /\ BatchesPartition'
<1>1. NewFits'
  BY DEF NewFits
<1>2. TaskFits'
  BY DEF TaskFits, OnceGranted
<1>3. BatchesPartition'
  BY DEF BatchesPartition
<1> QED
  BY <1>1, <1>2, <1>3

\* An administrative step that keeps the types and the looks, and notes what it
\* grants and which role it loses.
LEMMA OrgStep ==
  ASSUME AccessIInv, AccessTypes', LooksFit', LostRoleNeedsRace',
         aEver' = aEver \cup Covered(aTeam', aGroup', aGrant'), UNCHANGED << aNew, aTask >>
  PROVE  AccessIInv'
<1>1. NewFits' /\ TaskFits' /\ BatchesPartition'
  BY EverGrows DEF AccessIInv
<1>2. EverCovers'
  BY DEF EverCovers
<1> QED
  BY <1>1, <1>2 DEF AccessIInv

LEMMA RolesKeep ==
  ASSUME AccessIInv, NEW r \in Roles, NEW p \in SUBSET Perms, CreateRole(r, p) \/ UpdateRole(r, p),
         Edit, UNCHANGED aHostEdits
  PROVE  AccessIInv'
<1>1. /\ aRole' = [aRole EXCEPT ![r] = p]
      /\ UNCHANGED << aTeam, aGroup, aGrant, aSet, aDel, aRaced, aHost, aHostEdits >>
  BY DEF CreateRole, UpdateRole, Edit
<1>2. AccessTypes'
  BY <1>1, AccessAssumption DEF AccessIInv, AccessTypes, Edit
<1>3. LooksFit'
  BY <1>1 DEF AccessIInv, LooksFit
<1>4. LostRoleNeedsRace'
  <2> SUFFICES ASSUME NEW t \in Teams, NEW g \in SvcGroups, NEW q \in aGrant[<< t, g >>].roles,
                      aRole'[q] = NoRole
               PROVE  q \in aRaced
    BY <1>1 DEF LostRoleNeedsRace
  <2>1. q \in Roles
    BY DEF AccessIInv, AccessTypes, Grant
  <2>2. aRole[q] = NoRole
    BY <1>1, <2>1, NoValuesFit DEF AccessIInv, AccessTypes
  <2> QED
    BY <2>2 DEF AccessIInv, LostRoleNeedsRace
<1> QED
  BY <1>2, <1>3, <1>4, OrgStep DEF Edit

\* A step that leaves the roles alone, and the grants too except that it takes
\* some back.
LEMMA GrantsShrink ==
  ASSUME AccessIInv, UNCHANGED << aRole, aRaced >>,
         \A t \in Teams, g \in SvcGroups : aGrant'[<< t, g >>] \in {aGrant[<< t, g >>], NoGrant}
  PROVE  LostRoleNeedsRace'
<1>1. NoGrant.roles = {}
  BY DEF NoGrant
<1> QED
  BY <1>1 DEF AccessIInv, LostRoleNeedsRace

LEMMA DeleteRoleKeeps ==
  ASSUME AccessIInv, NEW r \in Roles, DeleteRole(r), Edit, UNCHANGED aHostEdits
  PROVE  AccessIInv'
<1>1. AccessTypes'
  BY AccessAssumption DEF AccessIInv, AccessTypes, DeleteRole, Edit
<1>2. LooksFit'
  BY DEF AccessIInv, LooksFit, DeleteRole
<1>3. LostRoleNeedsRace'
  BY GrantsShrink DEF DeleteRole
<1> QED
  BY <1>1, <1>2, <1>3, OrgStep DEF Edit

LEMMA DeleteRoleRowKeeps ==
  ASSUME AccessIInv, DeleteRoleRow
  PROVE  AccessIInv'
<1> USE DEF AccessIInv
<1>1. PICK r \in Roles : aDel = [pc |-> "delete", role |-> r]
  BY DEF LooksFit, DeleteRoleRow
<1>2. aRole' = [aRole EXCEPT ![r] = NoRole]
  BY <1>1 DEF DeleteRoleRow
<1>3. AccessTypes'
  <2>1. aRole' \in [Roles -> (SUBSET Perms) \cup {NoRole}]
    BY <1>2 DEF AccessTypes
  <2> QED
    BY <2>1 DEF AccessTypes, DeleteRoleRow
<1>4. LooksFit'
  BY DEF LooksFit, DeleteRoleRow
<1>5. LostRoleNeedsRace'
  <2> SUFFICES ASSUME NEW t \in Teams, NEW g \in SvcGroups, NEW q \in aGrant[<< t, g >>].roles,
                      aRole'[q] = NoRole
               PROVE  q \in aRaced'
    BY DEF LostRoleNeedsRace, DeleteRoleRow
  <2>1. q \in Roles /\ aRaced \subseteq aRaced'
    BY DEF AccessTypes, Grant, DeleteRoleRow
  <2>2. CASE q = r
    BY <2>2, <1>1 DEF DeleteRoleRow
  <2>3. CASE q # r
    <3>1. aRole[q] = NoRole
      BY <1>2, <2>1, <2>3 DEF AccessTypes
    <3> QED
      BY <2>1, <3>1 DEF LostRoleNeedsRace
  <2> QED
    BY <2>2, <2>3
<1> QED
  BY <1>3, <1>4, <1>5, OrgStep DEF DeleteRoleRow

LEMMA TeamsKeep ==
  ASSUME AccessIInv, NEW t \in Teams, NEW row \in TeamRow, aTeam' = [aTeam EXCEPT ![t] = row],
         UNCHANGED << aRole, aGrant, aSet, aDel, aRaced >>, Edit, UNCHANGED aHostEdits
  PROVE  AccessIInv'
<1>1. AccessTypes'
  BY AccessAssumption DEF AccessIInv, AccessTypes, Edit
<1>2. LooksFit'
  BY DEF AccessIInv, LooksFit
<1>3. LostRoleNeedsRace'
  BY GrantsShrink
<1> QED
  BY <1>1, <1>2, <1>3, OrgStep DEF Edit

LEMMA TeamActionsKeep ==
  ASSUME AccessIInv, NEW t \in Teams, NEW p \in Policies, NEW ms \in SUBSET Members, NEW u,
         \/ CreateTeamWithPolicy(t, p, ms) \/ UpdateTeamWithPolicy(t, p)
         \/ AddMembers(t, ms) \/ RemoveMember(t, u),
         Edit, UNCHANGED aHostEdits
  PROVE  AccessIInv'
<1>1. PICK row \in TeamRow : aTeam' = [aTeam EXCEPT ![t] = row]
  <2>1. aTeam[t] \in TeamRow /\ aTeam \in [Teams -> TeamRow]
    BY DEF AccessIInv, AccessTypes
  <2>2. \A x \in TeamRow : [x EXCEPT !.policy = p] \in TeamRow /\ [x EXCEPT !.members = @ \cup ms] \in TeamRow
                           /\ [x EXCEPT !.members = @ \ {u}] \in TeamRow
    BY DEF TeamRow
  <2>3. [policy |-> p, members |-> ms] \in TeamRow
    BY DEF TeamRow
  <2>4. CASE CreateTeamWithPolicy(t, p, ms)
    BY <2>3, <2>4 DEF CreateTeamWithPolicy
  <2>5. CASE UpdateTeamWithPolicy(t, p)
    <3>1. [aTeam[t] EXCEPT !.policy = p] \in TeamRow
      BY <2>1, <2>2
    <3>2. aTeam' = [aTeam EXCEPT ![t] = [aTeam[t] EXCEPT !.policy = p]]
      BY <2>5 DEF UpdateTeamWithPolicy
    <3> QED
      BY <3>1, <3>2
  <2>6. CASE AddMembers(t, ms)
    <3>1. [aTeam[t] EXCEPT !.members = @ \cup ms] \in TeamRow
      BY <2>1, <2>2
    <3>2. aTeam' = [aTeam EXCEPT ![t] = [aTeam[t] EXCEPT !.members = @ \cup ms]]
      BY <2>6 DEF AddMembers
    <3> QED
      BY <3>1, <3>2
  <2>7. CASE RemoveMember(t, u)
    <3>1. [aTeam[t] EXCEPT !.members = @ \ {u}] \in TeamRow
      BY <2>1, <2>2
    <3>2. aTeam' = [aTeam EXCEPT ![t] = [aTeam[t] EXCEPT !.members = @ \ {u}]]
      BY <2>7 DEF RemoveMember
    <3> QED
      BY <3>1, <3>2
  <2> QED
    BY <2>4, <2>5, <2>6, <2>7
<1>2. UNCHANGED << aRole, aGrant, aSet, aDel, aRaced >>
  BY DEF CreateTeamWithPolicy, UpdateTeamWithPolicy, AddMembers, RemoveMember
<1> QED
  BY <1>1, <1>2, TeamsKeep

\* What takes grants back, and what changes teams, groups or the server's
\* switch besides.
LEMMA GrantsGo ==
  ASSUME AccessIInv, aTeam' \in [Teams -> TeamRow], UNCHANGED << aRole, aSet, aDel, aRaced >>,
         aGrant' \in [Teams \X SvcGroups -> Grant],
         \A t \in Teams, g \in SvcGroups : aGrant'[<< t, g >>] \in {aGrant[<< t, g >>], NoGrant},
         Edit, UNCHANGED aHostEdits
  PROVE  AccessIInv'
<1>1. AccessTypes'
  BY AccessAssumption DEF AccessIInv, AccessTypes, Edit
<1>2. LooksFit'
  BY DEF AccessIInv, LooksFit
<1>3. LostRoleNeedsRace'
  BY GrantsShrink
<1> QED
  BY <1>1, <1>2, <1>3, OrgStep DEF Edit

LEMMA DeletionsKeep ==
  ASSUME AccessIInv, NEW t, NEW g,
         DeleteTeam(t) \/ DeleteGroup(g) \/ DeleteGroupPermission(t, g), Edit, UNCHANGED aHostEdits
  PROVE  AccessIInv'
<1>1. aTeam \in [Teams -> TeamRow] /\ aGrant \in [Teams \X SvcGroups -> Grant]
  BY DEF AccessIInv, AccessTypes
<1>2. aTeam' \in [Teams -> TeamRow] /\ UNCHANGED << aRole, aSet, aDel, aRaced >>
  BY <1>1, NoValuesFit DEF DeleteTeam, DeleteGroup, DeleteGroupPermission
<1>3. /\ aGrant' \in [Teams \X SvcGroups -> Grant]
      /\ \A s \in Teams, h \in SvcGroups : aGrant'[<< s, h >>] \in {aGrant[<< s, h >>], NoGrant}
  <2>1. CASE DeleteTeam(t)
    BY <1>1, <2>1, NoValuesFit DEF DeleteTeam
  <2>2. CASE DeleteGroup(g)
    BY <1>1, <2>2, NoValuesFit DEF DeleteGroup
  <2>3. CASE DeleteGroupPermission(t, g)
    BY <1>1, <2>3, NoValuesFit DEF DeleteGroupPermission
  <2> QED
    BY <2>1, <2>2, <2>3
<1> QED
  BY <1>2, <1>3, GrantsGo

LEMMA GroupsKeep ==
  ASSUME AccessIInv, NEW g, NEW cs,
         CreateGroup(g, cs) \/ UpdateGroup(g, cs) \/ SetTaskOwnerOnly, Edit, UNCHANGED aHostEdits
  PROVE  AccessIInv'
<1>1. UNCHANGED << aRole, aTeam, aGrant, aSet, aDel, aRaced >>
  BY DEF CreateGroup, UpdateGroup, SetTaskOwnerOnly
<1>2. aTeam' \in [Teams -> TeamRow] /\ aGrant' \in [Teams \X SvcGroups -> Grant]
  BY <1>1 DEF AccessIInv, AccessTypes
<1> QED
  BY <1>1, <1>2, GrantsGo

LEMMA SetGroupPermissionKeeps ==
  ASSUME AccessIInv, NEW t \in Teams, NEW g \in SvcGroups, NEW p \in GrantChoices,
         SetGroupPermission(t, g, p), Edit, UNCHANGED aHostEdits
  PROVE  AccessIInv'
<1>1. [p EXCEPT !.services = @ \cap (aGroup[g] \cup {"*"})] \in Grant
  <2>1. p \in Grant
    BY AccessAssumption
  <2> QED
    BY <2>1 DEF Grant
<1>2. AccessTypes'
  BY AccessAssumption DEF AccessIInv, AccessTypes, SetGroupPermission, Edit
<1>3. LooksFit'
  BY <1>1 DEF AccessIInv, LooksFit, SetGroupPermission
<1>4. LostRoleNeedsRace'
  BY GrantsShrink DEF SetGroupPermission
<1> QED
  BY <1>2, <1>3, <1>4, OrgStep DEF Edit

LEMMA WriteGrantKeeps ==
  ASSUME AccessIInv, WriteGrant
  PROVE  AccessIInv'
<1> USE DEF AccessIInv
<1>1. PICK t \in Teams, g \in SvcGroups, p \in Grant :
        aSet = [pc |-> "write", team |-> t, group |-> g, grant |-> p]
  BY DEF LooksFit, WriteGrant
<1>2. /\ aGrant' = aGrant \/ aGrant' = [aGrant EXCEPT ![<< t, g >>] = p]
      /\ aRaced' = aRaced \cup {r \in p.roles : aRole[r] = NoRole}
  BY <1>1 DEF WriteGrant
<1>3. AccessTypes'
  BY <1>2 DEF AccessTypes, WriteGrant
<1>4. LooksFit'
  BY DEF LooksFit, WriteGrant
<1>5. LostRoleNeedsRace'
  <2> SUFFICES ASSUME NEW s \in Teams, NEW h \in SvcGroups, NEW q \in aGrant'[<< s, h >>].roles,
                      aRole[q] = NoRole
               PROVE  q \in aRaced'
    BY DEF LostRoleNeedsRace, WriteGrant
  <2>1. aGrant'[<< s, h >>] = aGrant[<< s, h >>] \/ aGrant'[<< s, h >>] = p
    BY <1>2 DEF AccessTypes
  <2> QED
    BY <1>2, <2>1 DEF LostRoleNeedsRace
<1> QED
  BY <1>3, <1>4, <1>5, OrgStep DEF WriteGrant

\* A step outside the organisation keeps what is about the organisation.
LEMMA OtherStep ==
  ASSUME AccessIInv, UNCHANGED orgVars
  PROVE  /\ LooksFit' /\ EverCovers' /\ LostRoleNeedsRace'
         /\ UNCHANGED aHost /\ UNCHANGED aHostEdits => AccessTypes'
         /\ UNCHANGED aNew => NewFits'
         /\ UNCHANGED aTask => TaskFits' /\ BatchesPartition'
<1> USE DEF AccessIInv, orgVars
<1>1. LooksFit' /\ EverCovers' /\ LostRoleNeedsRace'
  BY DEF LooksFit, EverCovers, Covered, LostRoleNeedsRace
<1>2. UNCHANGED aHost /\ UNCHANGED aHostEdits => AccessTypes'
  BY DEF AccessTypes
<1>3. UNCHANGED aNew => NewFits'
  BY DEF NewFits
<1>4. UNCHANGED aTask => TaskFits' /\ BatchesPartition'
  <2>1. UNCHANGED aTask => TaskFits'
    BY DEF TaskFits, OnceGranted
  <2>2. UNCHANGED aTask => BatchesPartition'
    BY DEF BatchesPartition
  <2> QED
    BY <2>1, <2>2
<1> QED
  BY <1>1, <1>2, <1>3, <1>4

LEMMA AccessStays == AccessIInv /\ UNCHANGED aVars => AccessIInv'
<1> SUFFICES ASSUME AccessIInv, UNCHANGED aVars PROVE AccessIInv'
  OBVIOUS
<1>1. UNCHANGED orgVars /\ UNCHANGED << aHost, aHostEdits, aNew, aTask >>
  BY DEF aVars, orgVars
<1> QED
  BY <1>1, OtherStep DEF AccessIInv

LEMMA HostChangesKeeps ==
  ASSUME AccessIInv, NEW h \in TaskHosts, HostChanges(h)
  PROVE  AccessIInv'
<1>1. aHost' \in [TaskHosts -> HostRow \cup {NoHostRow}]
  <2>1. aHost \in [TaskHosts -> HostRow \cup {NoHostRow}] /\ aHost[h] \in HostRow
    BY DEF AccessIInv, AccessTypes, HostChanges
  <2>2. CASE \E g \in HostTags : aHost' = [aHost EXCEPT ![h].tag = g]
    <3>1. PICK g \in HostTags : aHost' = [aHost EXCEPT ![h].tag = g]
      BY <2>2
    <3>2. \A x \in HostRow : [x EXCEPT !.tag = g] \in HostRow
      BY DEF HostRow
    <3>3. [aHost[h] EXCEPT !.tag = g] \in HostRow
      BY <2>1, <3>2
    <3>4. aHost' = [aHost EXCEPT ![h] = [aHost[h] EXCEPT !.tag = g]]
      BY <3>1
    <3> QED
      BY <2>1, <3>3, <3>4
  <2>3. CASE aHost' = [aHost EXCEPT ![h] = NoHostRow]
    BY <2>1, <2>3
  <2> QED
    BY <2>2, <2>3 DEF HostChanges
<1>2. AccessTypes'
  BY <1>1, AccessAssumption DEF AccessIInv, AccessTypes, HostChanges, orgVars
<1> QED
  BY <1>2, OtherStep DEF AccessIInv, HostChanges

\* What a step of a creation has to show.
LEMMA NewStep ==
  ASSUME AccessIInv, NewFits', UNCHANGED << aHost, aTask, aHostEdits >>, UNCHANGED orgVars
  PROVE  AccessIInv'
BY OtherStep DEF AccessIInv

LEMMA CreateUpgradeKeeps ==
  ASSUME AccessIInv, NEW u, NEW want \in SUBSET TaskHosts, NEW c \in Comps, CreateUpgrade(u, c, want)
  PROVE  AccessIInv'
<1>1. NewFits'
  BY DEF CreateUpgrade, NewFits
<1> QED
  BY <1>1, NewStep DEF CreateUpgrade

LEMMA CreateCommandKeeps ==
  ASSUME AccessIInv, NEW u, NEW want \in SUBSET TaskHosts, NEW i, NEW b, CreateCommand(u, i, b, want)
  PROVE  AccessIInv'
<1>1. NewFits'
  BY DEF CreateCommand, NewFits
<1> QED
  BY <1>1, NewStep DEF CreateCommand

LEMMA MatchTaskKeeps ==
  ASSUME AccessIInv, MatchTask
  PROVE  AccessIInv'
<1> DEFINE hs == matchHosts(aNew.want, aNew.target)
<1>1. \A h \in hs : aHost[h] # NoHostRow
  BY DEF matchHosts
<1>2. CASE hs = {}
  <2>1. NewFits'
    BY <1>2 DEF MatchTask, NewFits
  <2> QED
    BY <2>1, NewStep DEF MatchTask
<1>3. CASE hs # {}
  <2> DEFINE tags == [h \in hs |-> aHost[h].tag]
  <2>1. aNew' = [aNew EXCEPT !.pc = "groups", !.hosts = tags]
    BY <1>3 DEF MatchTask
  <2>2. aNew # Idle
    BY NoValuesFit DEF MatchTask
  <2>3. ASSUME NEW h \in hs PROVE h \in TaskHosts /\ aHost[h].tag \in HostTags
    <3>1. aHost[h] # NoHostRow /\ h \in aNew.want
      BY DEF matchHosts
    <3>2. h \in TaskHosts
      BY <2>2, <3>1 DEF AccessIInv, NewFits
    <3> QED
      BY <3>1, <3>2 DEF AccessIInv, AccessTypes, HostRow
  <2> HIDE DEF hs
  <2>4. HostsFit(tags)
    BY <1>3, <2>3 DEF HostsFit
  <2> HIDE DEF tags
  <2>5. NewFits'
    BY <2>1, <2>2, <2>4 DEF AccessIInv, NewFits
  <2> QED
    BY <2>5, NewStep DEF MatchTask
<1> QED
  BY <1>2, <1>3

\* Whom no grant on the component limits, or one without host groups, or one
\* with the host's group, was granted that host.
LEMMA InGroupsWasGranted ==
  ASSUME AccessIInv, NEW u \in Members, NEW c \in Comps, NEW tag \in HostTags, InHostGroups(u, c, tag)
  PROVE  HostGroupsFor(u, c) = {} \/ << u, c, tag >> \in aEver
<1> SUFFICES ASSUME HostGroupsFor(u, c) # {} PROVE << u, c, tag >> \in aEver
  OBVIOUS
<1>1. PICK x \in HostGroupsFor(u, c) : x = "*" \/ x = tag
  BY DEF InHostGroups
<1>2. PICK p \in GrantsFor(u, c) : Allowed(p, c) /\ x \in IF p.hosts = {} THEN {"*"} ELSE p.hosts
  BY DEF HostGroupsFor
<1>3. PICK t \in Teams, g \in SvcGroups : u \in aTeam[t].members /\ c \in aGroup[g] /\ p = aGrant[<< t, g >>]
  BY <1>2 DEF GrantsFor
<1>4. p.services \cap {c, "*"} # {}
  BY <1>2 DEF Allowed
<1>5. p.hosts = {} \/ tag \in p.hosts
  <2>1. p.hosts \subseteq HostTags
    BY <1>3 DEF AccessIInv, AccessTypes, Grant
  <2> QED
    BY <2>1, <1>1, <1>2, AccessAssumption
<1>6. << u, c, tag >> \in Covered(aTeam, aGroup, aGrant)
  <2> DEFINE y == << u, c, tag >>
  <2>1. y \in Members \X Comps \X HostTags /\ y[1] = u /\ y[2] = c /\ y[3] = tag
    OBVIOUS
  <2> HIDE DEF y
  <2>2. y \in Covered(aTeam, aGroup, aGrant)
    BY <2>1, <1>3, <1>4, <1>5 DEF Covered
  <2> QED
    BY <2>2 DEF y
<1> QED
  BY <1>6 DEF AccessIInv, EverCovers

LEMMA CheckHostGroupsKeeps ==
  ASSUME AccessIInv, checkHostGroups
  PROVE  AccessIInv'
<1> DEFINE free == HostGroupsFor(aNew.by, aNew.comp) = {}
<1>1. CASE aNew' = Idle
  <2>1. NewFits'
    BY <1>1 DEF NewFits
  <2> QED
    BY <2>1, NewStep DEF checkHostGroups
<1>2. CASE aNew' # Idle
  <2>1. /\ \/ aNew.comp = "command"
           \/ \A h \in DOMAIN aNew.hosts : InHostGroups(aNew.by, aNew.comp, aNew.hosts[h])
        /\ aNew' = [aNew EXCEPT !.pc = "write", !.bare = free]
    BY <1>2 DEF checkHostGroups
  <2>2. aNew # Idle /\ aNew.pc = "groups"
    BY NoValuesFit DEF checkHostGroups
  <2>3. ASSUME aNew.by \in Members, ~free, NEW h \in DOMAIN aNew.hosts
        PROVE  << aNew.by, aNew.comp, aNew.hosts[h] >> \in aEver
    <3>1. aNew.comp \in Comps /\ aNew.comp # "command" /\ aNew.hosts[h] \in HostTags
      BY <2>2, <2>3, AccessAssumption DEF AccessIInv, NewFits, HostsFit
    <3> QED
      BY <2>1, <2>3, <3>1, InGroupsWasGranted
  <2> HIDE DEF free
  <2>4. /\ aNew' = [pc |-> "write", by |-> aNew.by, comp |-> aNew.comp, want |-> aNew.want,
                    target |-> aNew.target, hosts |-> aNew.hosts, bare |-> free]
        /\ aNew.want \subseteq TaskHosts /\ (aNew.by \in Members => aNew.comp \in Comps)
        /\ HostsFit(aNew.hosts)
    BY <2>1, <2>2 DEF AccessIInv, NewFits
  <2>5. aEver' = aEver
    BY DEF checkHostGroups, orgVars
  <2>6. NewFits'
    BY <2>3, <2>4, <2>5 DEF NewFits
  <2> QED
    BY <2>6, NewStep DEF checkHostGroups
<1> QED
  BY <1>1, <1>2

LEMMA WriteTaskKeeps ==
  ASSUME AccessIInv, NEW s \in Strategies, WriteTask(s)
  PROVE  AccessIInv'
<1> DEFINE hs == DOMAIN aNew.hosts
           sizes == splitBatches(Cardinality(hs), s)
           batch == BatchOfHost(hs, sizes)
           k == [by |-> aNew.by, comp |-> aNew.comp, tags |-> aNew.hosts,
                 batch |-> batch, total |-> sizes, bare |-> aNew.bare]
<1>1. aTask' = << >> \/ aTask' = << k >>
  BY DEF WriteTask
<1>2. UNCHANGED orgVars /\ UNCHANGED << aHost, aHostEdits >> /\ aNew' = Idle /\ aNew.pc = "write"
  BY DEF WriteTask
<1>3. /\ \A b \in DOMAIN sizes : sizes[b] > 0 /\ sizes[b] = Cardinality({h \in DOMAIN batch : batch[h] = b})
      /\ \A g, h \in DOMAIN batch : g < h => batch[g] <= batch[h]
  <2>1. HostsFit(aNew.hosts)
    BY <1>2, NoValuesFit DEF AccessIInv, NewFits
  <2>2. hs \in SUBSET TaskHosts /\ hs # {}
    BY <2>1 DEF HostsFit
  <2> HIDE DEF hs
  <2>3. hs \in SUBSET Nat /\ IsFiniteSet(hs)
    BY <2>2, AccessAssumption, FS_Subset
  <2> QED
    BY <2>2, <2>3, SplitIsPartition
<1> HIDE DEF batch, sizes
<1>4. (aNew.by \in Members =>
         aNew.bare \/ \A h \in DOMAIN aNew.hosts : << aNew.by, aNew.comp, aNew.hosts[h] >> \in aEver)
  BY <1>2, NoValuesFit DEF AccessIInv, NewFits
<1>5. OnceGranted(k) \/ k.bare
  BY <1>4 DEF OnceGranted
<1> HIDE DEF k
<1>6. aEver' = aEver
  BY <1>2 DEF orgVars
<1>7. TaskFits'
  <2>1. CASE aTask' = << >>
    BY <2>1 DEF TaskFits
  <2>2. CASE aTask' = << k >>
    <3>1. DOMAIN aTask' = {1} /\ aTask'[1] = k
      BY <2>2
    <3> QED
      BY <3>1, <1>5, <1>6 DEF TaskFits, OnceGranted
  <2> QED
    BY <1>1, <2>1, <2>2
<1>8. NewFits'
  BY <1>2 DEF NewFits
<1>9. BatchesPartition'
  <2>1. CASE aTask' = << >>
    BY <2>1 DEF BatchesPartition
  <2>2. CASE aTask' = << k >>
    <3>1. DOMAIN aTask' = {1} /\ aTask'[1] = k /\ k.total = sizes /\ k.batch = batch
      BY <2>2 DEF k
    <3> QED
      BY <3>1, <1>3 DEF BatchesPartition
  <2> QED
    BY <1>1, <2>1, <2>2
<1> QED
  BY <1>2, <1>7, <1>8, <1>9, OtherStep DEF AccessIInv

\* What an operation has met so far.  While it is in progress its histories
\* have what holds now.
OpFits ==
  /\ aOwnerOnly \in BOOLEAN
  /\ aOp.pc \in {"idle", "policy", "share", "deploy", "refused", "deployed", "done"}
  /\ aOp.pc \in {"policy", "share", "deploy"} =>
       /\ aOp = [pc |-> aOp.pc, by |-> aOp.by, owner |-> aOp.owner, switch |-> aOp.switch,
                 failed |-> aOp.failed, policies |-> aOp.policies, ownerOnly |-> aOp.ownerOnly,
                 shared |-> aOp.shared]
       /\ aOp.switch \in BOOLEAN /\ aOp.switch \in aOp.ownerOnly
       /\ PoliciesOf(aTeam, aOp.by) \in aOp.policies
       /\ aOwnerOnly \in aOp.ownerOnly
       /\ CanShareTasks(aTeam, aOp.by, aOp.owner) \in aOp.shared
  /\ aOp.pc = "share" => {"off"} \in aOp.policies
  /\ aOp.pc \in {"deploy", "deployed", "done"} /\ aOp.by # aOp.owner => WasAllowed(aOp)

\* More of the history hurts no operation.
LEMMA AllowedStays ==
  ASSUME NEW op, NEW later, WasAllowed(op), later.failed = op.failed,
         op.policies \subseteq later.policies, op.ownerOnly \subseteq later.ownerOnly,
         op.shared \subseteq later.shared
  PROVE  WasAllowed(later)
BY Zenon DEF WasAllowed

\* An administrative call notes what it leaves.
LEMMA OpNoted ==
  ASSUME OpFits, aOwnerOnly' \in BOOLEAN, aOp' = Noted(aOp, aTeam', aOwnerOnly')
  PROVE  OpFits'
<1>1. CASE aOp.pc \in {"idle", "refused", "deployed", "done"}
  <2>1. aOp' = aOp
    BY <1>1 DEF Noted
  <2>2. aOp'.pc \notin {"policy", "share", "deploy"}
    BY <1>1, <2>1
  <2>3. aOp'.pc \in {"deployed", "done"} /\ aOp'.by # aOp'.owner => WasAllowed(aOp')
    BY <2>1, Zenon DEF OpFits
  <2> QED
    BY <1>1, <2>1, <2>2, <2>3 DEF OpFits
<1>2. CASE aOp.pc \in {"policy", "share", "deploy"}
  <2>1. aOp' = [pc |-> aOp.pc, by |-> aOp.by, owner |-> aOp.owner, switch |-> aOp.switch,
                failed |-> aOp.failed,
                policies |-> aOp.policies \cup {PoliciesOf(aTeam', aOp.by)},
                ownerOnly |-> aOp.ownerOnly \cup {aOwnerOnly'},
                shared |-> aOp.shared \cup {CanShareTasks(aTeam', aOp.by, aOp.owner)}]
    BY <1>2 DEF OpFits, Noted
  <2>2. /\ aOp'.pc = aOp.pc /\ aOp'.by = aOp.by /\ aOp'.owner = aOp.owner
        /\ aOp'.switch = aOp.switch /\ aOp'.failed = aOp.failed
        /\ aOp'.policies = aOp.policies \cup {PoliciesOf(aTeam', aOp.by)}
        /\ aOp'.ownerOnly = aOp.ownerOnly \cup {aOwnerOnly'}
        /\ aOp'.shared = aOp.shared \cup {CanShareTasks(aTeam', aOp.by, aOp.owner)}
    BY <2>1
  <2>3. aOp'.pc = "deploy" /\ aOp'.by # aOp'.owner => WasAllowed(aOp')
    <3> SUFFICES ASSUME aOp.pc = "deploy", aOp.by # aOp.owner PROVE WasAllowed(aOp')
      BY <2>2
    <3>1. WasAllowed(aOp)
      BY DEF OpFits
    <3>2. /\ aOp.policies \subseteq aOp'.policies /\ aOp.ownerOnly \subseteq aOp'.ownerOnly
          /\ aOp.shared \subseteq aOp'.shared
      BY <2>2
    <3> QED
      BY <2>2, <3>1, <3>2, AllowedStays, Zenon
  <2>4. aOp' = [pc |-> aOp'.pc, by |-> aOp'.by, owner |-> aOp'.owner, switch |-> aOp'.switch,
                failed |-> aOp'.failed, policies |-> aOp'.policies,
                ownerOnly |-> aOp'.ownerOnly, shared |-> aOp'.shared]
    BY <2>1, <2>2
  <2>5. aOp.switch \in BOOLEAN /\ aOp.switch \in aOp.ownerOnly
    BY <1>2 DEF OpFits
  <2>6. aOp.pc = "share" => {"off"} \in aOp.policies
    BY DEF OpFits
  <2>7. /\ aOp'.switch \in BOOLEAN /\ aOp'.switch \in aOp'.ownerOnly
        /\ PoliciesOf(aTeam', aOp'.by) \in aOp'.policies /\ aOwnerOnly' \in aOp'.ownerOnly
        /\ CanShareTasks(aTeam', aOp'.by, aOp'.owner) \in aOp'.shared
        /\ aOp'.pc = "share" => {"off"} \in aOp'.policies
    BY <2>2, <2>5, <2>6
  <2> QED
    BY <1>2, <2>2, <2>3, <2>4, <2>7 DEF OpFits
<1> QED
  BY <1>1, <1>2 DEF OpFits

\* What the operations do not write.
LEMMA OpStays ==
  ASSUME OpFits, UNCHANGED << aOp, aTeam, aOwnerOnly >>
  PROVE  OpFits'
BY Zenon DEF OpFits, PoliciesOf, CanShareTasks, WasAllowed

\* A refused operation has nothing to answer for.
LEMMA RefusedFits ==
  ASSUME OpFits, aOp' = Refused, UNCHANGED << aTeam, aOwnerOnly >>
  PROVE  OpFits'
<1>1. aOp'.pc = "refused"
  BY DEF Refused
<1> QED
  BY <1>1 DEF OpFits

LEMMA TaskActionKeeps ==
  ASSUME OpFits, NEW u, TaskAction(u)
  PROVE  OpFits'
<1>1. aOp' = [pc |-> "policy", by |-> u, owner |-> aTask[1].by, switch |-> aOwnerOnly,
              failed |-> FALSE, policies |-> {PoliciesOf(aTeam, u)},
              ownerOnly |-> {aOwnerOnly}, shared |-> {CanShareTasks(aTeam, u, aTask[1].by)}]
  BY Zenon DEF TaskAction
<1>2. UNCHANGED << aTeam, aOwnerOnly >>
  BY DEF TaskAction, opFrame, orgVars
<1>3. /\ aOp'.pc = "policy" /\ aOp'.by = u /\ aOp'.owner = aTask[1].by /\ aOp'.switch = aOwnerOnly
      /\ aOp'.policies = {PoliciesOf(aTeam, u)} /\ aOp'.ownerOnly = {aOwnerOnly}
      /\ aOp'.shared = {CanShareTasks(aTeam, u, aTask[1].by)}
  BY <1>1
<1>4. aOp' = [pc |-> aOp'.pc, by |-> aOp'.by, owner |-> aOp'.owner, switch |-> aOp'.switch,
              failed |-> aOp'.failed, policies |-> aOp'.policies,
              ownerOnly |-> aOp'.ownerOnly, shared |-> aOp'.shared]
  BY <1>1
<1> QED
  BY <1>2, <1>3, <1>4 DEF OpFits

\* The policy of the teams decides with what the switch said; when it can be
\* read it is the policy that holds now.
LEMMA checkTaskOwnerKeeps ==
  ASSUME OpFits, checkTaskOwner
  PROVE  OpFits'
<1> DEFINE of == PoliciesOf(aTeam, aOp.by)
<1>1. aOp.pc = "policy" /\ UNCHANGED << aTeam, aOwnerOnly >>
  BY DEF checkTaskOwner, opFrame, orgVars
<1>2. /\ aOp = [pc |-> aOp.pc, by |-> aOp.by, owner |-> aOp.owner, switch |-> aOp.switch,
                failed |-> aOp.failed, policies |-> aOp.policies, ownerOnly |-> aOp.ownerOnly,
                shared |-> aOp.shared]
      /\ aOp.switch \in BOOLEAN /\ aOp.switch \in aOp.ownerOnly /\ of \in aOp.policies
      /\ aOwnerOnly \in aOp.ownerOnly /\ CanShareTasks(aTeam, aOp.by, aOp.owner) \in aOp.shared
  BY <1>1 DEF OpFits
<1>3. TeamOwnerPolicy(aOp.by) = IF "on" \in of THEN "on" ELSE IF of = {"off"} THEN "off"
                                ELSE IF of # {} THEN "inherit" ELSE "none"
  BY DEF TeamOwnerPolicy
<1> HIDE DEF of
<1>4. PICK failed \in BOOLEAN :
        \/ /\ ownerModeFor(aOp.by, aOp.switch, failed) = "inherit" \/ aOp.owner = aOp.by
           /\ aOp' = [aOp EXCEPT !.pc = "deploy", !.failed = failed]
        \/ /\ ownerModeFor(aOp.by, aOp.switch, failed) = "off"
           /\ aOp' = [aOp EXCEPT !.pc = "share", !.failed = failed]
        \/ aOp' = Refused
  BY Zenon DEF checkTaskOwner
<1>5. CASE aOp' = Refused
  BY <1>1, <1>5, RefusedFits
<1>6. ASSUME NEW pc \in {"deploy", "share"}, aOp' = [aOp EXCEPT !.pc = pc, !.failed = failed]
      PROVE  /\ aOp' = [pc |-> aOp'.pc, by |-> aOp'.by, owner |-> aOp'.owner, switch |-> aOp'.switch,
                        failed |-> aOp'.failed, policies |-> aOp'.policies,
                        ownerOnly |-> aOp'.ownerOnly, shared |-> aOp'.shared]
             /\ aOp'.pc = pc /\ aOp'.failed = failed
             /\ \A x \in {"by", "owner", "switch", "policies", "ownerOnly", "shared"} : aOp'[x] = aOp[x]
  BY <1>2, <1>6
<1>7. CASE /\ ownerModeFor(aOp.by, aOp.switch, failed) = "inherit" \/ aOp.owner = aOp.by
           /\ aOp' = [aOp EXCEPT !.pc = "deploy", !.failed = failed]
  <2>1. aOp.by # aOp.owner => WasAllowed(aOp')
    <3> SUFFICES ASSUME aOp.by # aOp.owner PROVE WasAllowed(aOp')
      OBVIOUS
    <3>1. ownerModeFor(aOp.by, aOp.switch, failed) = "inherit"
      BY <1>7
    <3>2. aOp.switch = FALSE
      BY <1>2, <3>1 DEF ownerModeFor
    <3>3. failed \/ ("on" \notin of /\ of # {"off"})
      BY <1>3, <3>1 DEF ownerModeFor
    <3>4. FALSE \in aOp'.ownerOnly /\ of \in aOp'.policies /\ aOp'.failed = failed
      BY <1>2, <1>6, <1>7, <3>2
    <3> QED
      BY <3>3, <3>4, Zenon DEF WasAllowed
  <2> QED
    BY <1>1, <1>2, <1>6, <1>7, <2>1 DEF OpFits, of
<1>8. CASE /\ ownerModeFor(aOp.by, aOp.switch, failed) = "off"
           /\ aOp' = [aOp EXCEPT !.pc = "share", !.failed = failed]
  <2>1. of = {"off"}
    BY <1>2, <1>3, <1>8 DEF ownerModeFor
  <2> QED
    BY <1>1, <1>2, <1>6, <1>8, <2>1 DEF OpFits, of
<1> QED
  BY <1>4, <1>5, <1>7, <1>8

\* Under "off" a team they share says so now.
LEMMA shareAllowedKeeps ==
  ASSUME OpFits, shareAllowed
  PROVE  OpFits'
<1>1. /\ aOp.pc = "share" /\ UNCHANGED << aTeam, aOwnerOnly >>
      /\ aOp' = [aOp EXCEPT !.pc = "deploy"]
  BY DEF shareAllowed, opFrame, orgVars
<1>2. TRUE \in aOp.shared
  <2>1. CanShareTasks(aTeam, aOp.by, aOp.owner) \in aOp.shared
    BY <1>1 DEF OpFits
  <2>2. CanShareTasks(aTeam, aOp.by, aOp.owner) = TRUE
    BY Zenon DEF shareAllowed, CanShareTasks
  <2> QED
    BY <2>1, <2>2, Zenon
<1>3. {"off"} \in aOp.policies
  BY <1>1 DEF OpFits
<1>4. aOp = [pc |-> aOp.pc, by |-> aOp.by, owner |-> aOp.owner, switch |-> aOp.switch,
             failed |-> aOp.failed, policies |-> aOp.policies, ownerOnly |-> aOp.ownerOnly,
             shared |-> aOp.shared]
  BY <1>1 DEF OpFits
<1>5. /\ aOp' = [pc |-> aOp'.pc, by |-> aOp'.by, owner |-> aOp'.owner, switch |-> aOp'.switch,
                 failed |-> aOp'.failed, policies |-> aOp'.policies,
                 ownerOnly |-> aOp'.ownerOnly, shared |-> aOp'.shared]
      /\ aOp'.pc = "deploy"
      /\ \A x \in {"by", "owner", "switch", "policies", "ownerOnly", "shared"} : aOp'[x] = aOp[x]
  BY <1>1, <1>4
<1>6. WasAllowed(aOp')
  <2>1. TRUE \in aOp'.shared /\ {"off"} \in aOp'.policies /\ "on" \notin {"off"}
    BY <1>2, <1>3, <1>5
  <2> QED
    BY <2>1, Zenon DEF WasAllowed
<1> QED
  BY <1>1, <1>5, <1>6 DEF OpFits

LEMMA checkTaskDeployKeeps ==
  ASSUME OpFits, NEW asks \in BOOLEAN, checkTaskDeploy(asks)
  PROVE  OpFits'
<1>1. PICK pc \in {"deployed", "done"} : aOp' = [aOp EXCEPT !.pc = pc]
  BY DEF checkTaskDeploy
<1>2. aOp.pc = "deploy" /\ UNCHANGED << aTeam, aOwnerOnly >>
  BY DEF checkTaskDeploy, opFrame, orgVars
<1>3. aOp = [pc |-> aOp.pc, by |-> aOp.by, owner |-> aOp.owner, switch |-> aOp.switch,
             failed |-> aOp.failed, policies |-> aOp.policies, ownerOnly |-> aOp.ownerOnly,
             shared |-> aOp.shared]
  BY <1>2 DEF OpFits
<1>4. aOp'.pc = pc /\ aOp'.failed = aOp.failed
      /\ \A x \in {"by", "owner", "policies", "ownerOnly", "shared"} : aOp'[x] = aOp[x]
  BY <1>1, <1>3
<1>5. aOp'.by # aOp'.owner => WasAllowed(aOp')
  <2> SUFFICES ASSUME aOp.by # aOp.owner PROVE WasAllowed(aOp')
    BY <1>4
  <2>1. WasAllowed(aOp)
    BY <1>2 DEF OpFits
  <2> QED
    BY <1>4, <2>1, AllowedStays
<1> QED
  BY <1>2, <1>4, <1>5 DEF OpFits

LEMMA OpBegins == AccessInit => OpFits
<1> SUFFICES ASSUME AccessInit PROVE OpFits
  OBVIOUS
<1>1. aOp.pc = "idle" /\ aOwnerOnly = FALSE
  BY DEF AccessInit, Idle
<1> QED
  BY <1>1 DEF OpFits

LEMMA OpMoves == OpFits /\ AccessNext => OpFits'
<1> SUFFICES ASSUME OpFits, AccessNext PROVE OpFits'
  OBVIOUS
<1>1. CASE OrgEdit
  <2>1. aOp' = Noted(aOp, aTeam', aOwnerOnly')
    BY <1>1 DEF OrgEdit, Edit
  <2>2. aOwnerOnly' = aOwnerOnly \/ aOwnerOnly' = ~aOwnerOnly
    BY <1>1, Zenon
    DEF OrgEdit, CreateRole, UpdateRole, DeleteRole, UpdateTeamWithPolicy, CreateTeamWithPolicy,
        DeleteTeam, AddMembers, RemoveMember, CreateGroup, UpdateGroup, DeleteGroup,
        DeleteGroupPermission, SetGroupPermission, SetTaskOwnerOnly
  <2>3. aOwnerOnly' \in BOOLEAN
    BY <2>2 DEF OpFits
  <2> QED
    BY <2>1, <2>3, OpNoted
<1>2. ASSUME NEW u, TaskAction(u) PROVE OpFits'
  BY <1>2, TaskActionKeeps
<1>3. CASE checkTaskOwner \/ shareAllowed
  BY <1>3, checkTaskOwnerKeeps, shareAllowedKeeps
<1>4. CASE OpRefused
  BY <1>4, RefusedFits DEF OpRefused, opFrame, orgVars
<1>5. ASSUME NEW asks \in BOOLEAN, checkTaskDeploy(asks) PROVE OpFits'
  BY <1>5, checkTaskDeployKeeps
<1>6. CASE DeleteRoleRow \/ WriteGrant \/ MatchTask \/ checkHostGroups
  BY <1>6, OpStays DEF DeleteRoleRow, WriteGrant, MatchTask, checkHostGroups, orgVars
<1>7. ASSUME NEW h, HostChanges(h) PROVE OpFits'
  BY <1>7, OpStays DEF HostChanges, orgVars
<1>8. ASSUME NEW u, NEW c, NEW want, CreateUpgrade(u, c, want) PROVE OpFits'
  BY <1>8, OpStays DEF CreateUpgrade, orgVars
<1>9. ASSUME NEW u, NEW i, NEW b, NEW want, CreateCommand(u, i, b, want) PROVE OpFits'
  BY <1>9, OpStays DEF CreateCommand, orgVars
<1>10. ASSUME NEW s, WriteTask(s) PROVE OpFits'
  BY <1>10, OpStays DEF WriteTask, orgVars
<1> QED
  BY <1>1, <1>2, <1>3, <1>4, <1>5, <1>6, <1>7, <1>8, <1>9, <1>10 DEF AccessNext

LEMMA OrgEditKeeps ==
  ASSUME AccessIInv, OrgEdit
  PROVE  AccessIInv'
<1>1. Edit /\ UNCHANGED aHostEdits
  BY DEF OrgEdit
<1>2. ASSUME NEW r \in Roles, NEW p \in SUBSET Perms, CreateRole(r, p) \/ UpdateRole(r, p)
      PROVE  AccessIInv'
  BY <1>1, <1>2, RolesKeep
<1>3. ASSUME NEW r \in Roles, DeleteRole(r) PROVE AccessIInv'
  BY <1>1, <1>3, DeleteRoleKeeps
<1>4. ASSUME NEW t \in Teams, NEW p \in Policies, UpdateTeamWithPolicy(t, p) PROVE AccessIInv'
  <2>1. {} \in SUBSET Members
    OBVIOUS
  <2> QED
    BY <1>1, <1>4, <2>1, TeamActionsKeep
<1>5. ASSUME NEW t \in Teams, NEW p \in Policies, NEW ms \in SUBSET Members, CreateTeamWithPolicy(t, p, ms)
      PROVE  AccessIInv'
  BY <1>1, <1>5, TeamActionsKeep
<1>6. ASSUME NEW t \in Teams, NEW u \in Members, AddMembers(t, {u}) \/ RemoveMember(t, u)
      PROVE  AccessIInv'
  <2>1. {u} \in SUBSET Members /\ "on" \in Policies
    BY DEF Policies
  <2> QED
    BY <1>1, <1>6, <2>1, TeamActionsKeep
<1>7. ASSUME NEW t, NEW g, DeleteTeam(t) \/ DeleteGroup(g) \/ DeleteGroupPermission(t, g)
      PROVE  AccessIInv'
  BY <1>1, <1>7, DeletionsKeep
<1>8. ASSUME NEW g, NEW cs, CreateGroup(g, cs) \/ UpdateGroup(g, cs) \/ SetTaskOwnerOnly
      PROVE  AccessIInv'
  BY <1>1, <1>8, GroupsKeep
<1>9. ASSUME NEW t \in Teams, NEW g \in SvcGroups, NEW p \in GrantChoices, SetGroupPermission(t, g, p)
      PROVE  AccessIInv'
  BY <1>1, <1>9, SetGroupPermissionKeeps
<1> QED
  BY <1>2, <1>3, <1>4, <1>5, <1>6, <1>7, <1>8, <1>9 DEF OrgEdit

LEMMA AccessMoves == AccessIInv /\ AccessNext => AccessIInv'
<1> SUFFICES ASSUME AccessIInv, AccessNext PROVE AccessIInv'
  OBVIOUS
<1>1. ASSUME OrgEdit \/ DeleteRoleRow \/ WriteGrant \/ MatchTask \/ checkHostGroups PROVE AccessIInv'
  BY <1>1, OrgEditKeeps, DeleteRoleRowKeeps, WriteGrantKeeps, MatchTaskKeeps, CheckHostGroupsKeeps
<1>2. ASSUME NEW h \in TaskHosts, HostChanges(h) PROVE AccessIInv'
  BY <1>2, HostChangesKeeps
<1>3. ASSUME NEW u, NEW want \in SUBSET TaskHosts, NEW c \in Comps, CreateUpgrade(u, c, want) PROVE AccessIInv'
  BY <1>3, CreateUpgradeKeeps
<1>4. ASSUME NEW u, NEW want \in SUBSET TaskHosts, NEW i, NEW b, CreateCommand(u, i, b, want) PROVE AccessIInv'
  BY <1>4, CreateCommandKeeps
<1>5. ASSUME NEW s \in Strategies, WriteTask(s) PROVE AccessIInv'
  BY <1>5, WriteTaskKeeps
<1>6. ASSUME UNCHANGED opFrame PROVE AccessIInv'
  BY <1>6, OtherStep DEF opFrame, AccessIInv
<1> QED
  BY <1>1, <1>2, <1>3, <1>4, <1>5, <1>6
  DEF AccessNext, TaskAction, checkTaskOwner, shareAllowed, OpRefused, checkTaskDeploy

LEMMA AccessHolds == AccessIInv /\ OpFits => AccessInv
<1> SUFFICES ASSUME AccessIInv, OpFits PROVE AccessInv
  OBVIOUS
<1> USE DEF AccessIInv
<1>1. AccessTypeOK
  <2>1. \A r \in Roles : aRole[r] \subseteq Perms \/ aRole[r] = NoRole
    BY DEF AccessTypes
  <2>2. \A t \in Teams : aTeam[t].members \subseteq Members
    BY DEF AccessTypes, TeamRow
  <2>3. aNew.pc \in {"idle", "match", "groups", "write"}
    BY NoValuesFit DEF NewFits
  <2> QED
    BY <2>1, <2>2, <2>3 DEF AccessTypes, AccessTypeOK, OpFits
<1>2. ReachWasGranted
  BY DEF TaskFits, ReachWasGranted
<1>3. OwnersRespected
  BY DEF OpFits, OwnersRespected
<1> QED
  BY <1>1, <1>2, <1>3 DEF AccessInv

\* A task reaches no host that no grant ever covered, unless the last grant
\* went between the two checks; its batches share out its hosts, for any
\* strategy; a lost role needs a race; who operates the task of another was let
\* by switch, teams and sharing at moments of the operation, or the policy of
\* the teams could not be read (matchHosts, splitBatches, Create, DeleteRole,
\* SetGroupPermission, checkTaskOwner), for any number of users, teams, roles,
\* groups and hosts.
THEOREM AccessIsSound == PlatformSpec => []AccessInv
<1>1. PlatformInit => AccessIInv /\ OpFits
  BY AccessBegins, OpBegins DEF PlatformInit
<1>2. AccessIInv /\ OpFits /\ [PlatformNext]_platformVars => AccessIInv' /\ OpFits'
  <2> SUFFICES ASSUME AccessIInv, OpFits, [PlatformNext]_platformVars
               PROVE  AccessIInv' /\ OpFits'
    OBVIOUS
  <2>1. AccessNext \/ UNCHANGED aVars
    BY DEF PlatformNext, platformVars
  <2>2. UNCHANGED aVars => OpFits'
    BY OpStays DEF aVars
  <2> QED
    BY <2>1, <2>2, AccessMoves, AccessStays, OpMoves
<1> QED
  BY <1>1, <1>2, AccessHolds, PTL DEF PlatformSpec
=============================================================================
