------------------------------- MODULE ConnPool -------------------------------
(***************************************************************************)
(* The limiter of concurrent artifact uploads, and the database            *)
(* connections of one replica as uploads and removals use them.            *)
(*                                                                         *)
(* The limiter has slots, waiting requests that are woken in no particular *)
(* order or give up, and a limit that the settings page changes while      *)
(* uploads run.  What is done under the mutex is one step; a woken request *)
(* has its slot before it runs again.                                      *)
(*                                                                         *)
(* An upload with a slot asks the pool for one query, then for the         *)
(* connection that carries its advisory locks, and writes its row on that  *)
(* one.  A removal of artifacts or components, like every background loop  *)
(* that takes an advisory lock, keeps the connection of the lock and asks  *)
(* for another for its queries.  Saving the settings changes the limit of  *)
(* uploads, then that of the pool.                                         *)
(***************************************************************************)
EXTENDS Integers, FiniteSets

(* The limiter of uploads *)

CONSTANTS
  Uploads,                             \* upload requests
  LimitChoices,                        \* values the settings page may hold
  defaultArtifactUploadConcurrency,    \* for a value of zero or less
  maxArtifactUploadConcurrency

ASSUME UploadsAssumption == IsFiniteSet(Uploads)
ASSUME ConcurrencyAssumption ==
  /\ LimitChoices \subseteq Int
  /\ defaultArtifactUploadConcurrency \in Nat \ {0}
  /\ maxArtifactUploadConcurrency \in Nat
  /\ defaultArtifactUploadConcurrency <= maxArtifactUploadConcurrency

VARIABLES
  lLimit, lActive, lWaiters,   \* the limiter
  lPc,                         \* out, waiting, woken (not running yet), in
  lGone                        \* requests whose client has gone away

lVars == << lLimit, lActive, lWaiters, lPc, lGone >>

\* A limit taken from the settings.
Clamped(n) ==
  IF n <= 0 THEN defaultArtifactUploadConcurrency
  ELSE IF n > maxArtifactUploadConcurrency THEN maxArtifactUploadConcurrency
  ELSE n

LimiterInit ==
  /\ lLimit \in {Clamped(n) : n \in LimitChoices}
  /\ lActive = 0 /\ lWaiters = {}
  /\ lPc = [u \in Uploads |-> "out"]
  /\ lGone = {}

\* Slots go to waiting requests, whichever the map yields, until there is no
\* slot or no request left.
wakeLocked(active, pc) ==
  \E woken \in SUBSET lWaiters :
    /\ woken # {} => active + Cardinality(woken) <= lLimit'
    /\ woken # lWaiters => active + Cardinality(woken) >= lLimit'
    /\ lWaiters' = lWaiters \ woken
    /\ lActive' = active + Cardinality(woken)
    /\ lPc' = [u \in Uploads |-> IF u \in woken THEN "woken" ELSE pc[u]]

release(u) ==
  /\ lLimit' = lLimit
  /\ wakeLocked(IF lActive > 0 THEN lActive - 1 ELSE lActive, [lPc EXCEPT ![u] = "out"])
  /\ lGone' = lGone \ {u}

\* A request comes in: it has a slot at once, or waits.
Acquire(u) ==
  /\ lPc[u] = "out"
  /\ IF lActive < lLimit
     THEN /\ lActive' = lActive + 1 /\ lPc' = [lPc EXCEPT ![u] = "in"]
          /\ UNCHANGED lWaiters
     ELSE /\ lWaiters' = lWaiters \cup {u} /\ lPc' = [lPc EXCEPT ![u] = "waiting"]
          /\ UNCHANGED lActive
  /\ UNCHANGED << lLimit, lGone >>

\* The client goes away while its request waits, or as it is woken.
ClientLeaves(u) ==
  /\ lPc[u] \in {"waiting", "woken"}
  /\ lGone' = lGone \cup {u}
  /\ UNCHANGED << lLimit, lActive, lWaiters, lPc >>

\* A woken request runs; one whose client is gone gives the slot back, by
\* whichever branch of the select it notices.
Resume(u) ==
  /\ lPc[u] = "woken"
  /\ IF u \in lGone
     THEN release(u)
     ELSE /\ lPc' = [lPc EXCEPT ![u] = "in"]
          /\ UNCHANGED << lLimit, lActive, lWaiters, lGone >>

\* The client is gone and the request still waits.
Abandon(u) ==
  /\ lPc[u] = "waiting" /\ u \in lGone
  /\ lWaiters' = lWaiters \ {u}
  /\ lPc' = [lPc EXCEPT ![u] = "out"] /\ lGone' = lGone \ {u}
  /\ UNCHANGED << lLimit, lActive >>

Finish(u) == lPc[u] = "in" /\ release(u)

setLimit(n) ==
  /\ lLimit' = Clamped(n)
  /\ wakeLocked(lActive, lPc)
  /\ UNCHANGED lGone

LimiterNext ==
  \/ \E u \in Uploads :
       Acquire(u) \/ ClientLeaves(u) \/ Resume(u) \/ Abandon(u) \/ Finish(u)
  \/ \E n \in LimitChoices : setLimit(n)

LimiterSpec == LimiterInit /\ [][LimiterNext]_lVars
-----------------------------------------------------------------------------
(* Properties of the limiter *)

LimiterTypeOK ==
  /\ lLimit \in 1..maxArtifactUploadConcurrency /\ lActive \in Nat
  /\ lWaiters \subseteq Uploads /\ lGone \subseteq Uploads
  /\ lPc \in [Uploads -> {"out", "waiting", "woken", "in"}]

\* Every slot counted belongs to one request that holds it, also when its
\* client left as it was woken, and every request that waits is known.
SlotsAccounted ==
  /\ lActive = Cardinality({u \in Uploads : lPc[u] \in {"woken", "in"}})
  /\ lWaiters = {u \in Uploads : lPc[u] = "waiting"}

\* No request waits while a slot is free: no change of the limit and no
\* abandoned request loses a wake-up.
NoIdleSlot == lWaiters # {} => lActive >= lLimit

\* The limiter's accounts: slots are neither lost nor handed out twice, and
\* none is free while a request waits (acquire, release and setLimit).
LimiterInv == LimiterTypeOK /\ SlotsAccounted /\ NoIdleSlot

\* Uploads never exceed the limit by a new one: above it, after it was
\* lowered, their number only falls.
NeverAboveLimit == [][lActive' > lActive => lActive' <= lLimit']_lVars
-----------------------------------------------------------------------------
(* The connections *)

CONSTANTS
  Removals,     \* removals and loops that are under way
  BaseConns     \* database.max_open_conns, 0 for no limit

ASSUME PoolAssumption ==
  IsFiniteSet(Removals) /\ Removals \cap Uploads = {} /\ BaseConns \in Nat

VARIABLES
  pMax,         \* the limit of open connections in force
  pHolds,       \* who holds the connection of an advisory lock
  pReload       \* a value read by ReloadArtifactSettings, its limiter done, or {}

pVars == << pMax, pHolds, pReload >>

\* Leaves the configured number as it is.
tuneDBPoolMutant(n) == IF BaseConns = 0 THEN 0 ELSE IF BaseConns < 4 THEN 4 ELSE BaseConns

\* Room for the uploads and four more.
tuneDBPool(n) ==
  LET base == IF BaseConns \in 1..3 THEN 4 ELSE BaseConns
  IN  IF base # 0 /\ base < Clamped(n) + 4 THEN Clamped(n) + 4 ELSE base

PoolInit ==
  /\ LimiterInit
  /\ pMax = tuneDBPool(lLimit)
  /\ pHolds = {} /\ pReload = {}

\* The pool opens or hands out one more connection.
ConnFree == pMax = 0 \/ Cardinality(pHolds) < pMax

\* Save's look at the component, then the locks.
SaveLocks(u) ==
  /\ lPc[u] = "in" /\ u \notin pHolds /\ ConnFree
  /\ pHolds' = pHolds \cup {u}
  /\ UNCHANGED << lVars, pMax, pReload >>

\* An upload is over, or fails before it has a connection.
UploadEnds(u) ==
  /\ Finish(u)
  /\ pHolds' = pHolds \ {u}
  /\ UNCHANGED << pMax, pReload >>

\* LockComponent, or pglock.Try of a loop.
RemovalLocks(r) ==
  /\ r \notin pHolds /\ ConnFree
  /\ pHolds' = pHolds \cup {r}
  /\ UNCHANGED << lVars, pMax, pReload >>

\* The queries of a removal under its lock, each on a connection of the pool,
\* and its end.
RemovalWorks(r) ==
  /\ r \in pHolds /\ ConnFree
  /\ pHolds' = pHolds \ {r}
  /\ UNCHANGED << lVars, pMax, pReload >>

\* The client of a removal goes away, or a loop is stopped.
RemovalLeaves(r) ==
  /\ r \in pHolds
  /\ pHolds' = pHolds \ {r}
  /\ UNCHANGED << lVars, pMax, pReload >>

\* ReloadArtifactSettings: first the limiter, then the pool.
ReloadLimiter(n) ==
  /\ pReload = {}
  /\ setLimit(n)
  /\ pReload' = {n}
  /\ UNCHANGED << pMax, pHolds >>

ReloadPool ==
  \E n \in pReload :
    /\ pMax' = tuneDBPool(n)
    /\ pReload' = {}
    /\ UNCHANGED << lVars, pHolds >>

PoolNext ==
  \/ \E u \in Uploads :
       \/ (Acquire(u) \/ ClientLeaves(u) \/ Resume(u) \/ Abandon(u)) /\ UNCHANGED pVars
       \/ SaveLocks(u) \/ UploadEnds(u)
  \/ \E r \in Removals : RemovalLocks(r) \/ RemovalWorks(r) \/ RemovalLeaves(r)
  \/ \E n \in LimitChoices : ReloadLimiter(n)
  \/ ReloadPool

PoolSpec == PoolInit /\ [][PoolNext]_<< lVars, pVars >>
-----------------------------------------------------------------------------
(* Properties of both *)

\* Four removals and loops at a time never fill the pool in such a way that
\* nobody can go on: a connection is free, or an upload, which needs no other
\* one, holds one of them (acquireArtifactDBLocks and tuneDBPool).  A fifth one
\* may fill it (see README).
PoolMoves ==
  Cardinality(pHolds \cap Removals) <= 4 => ConnFree \/ pHolds \cap Uploads # {}

\* What uploads hold leaves four connections for the rest, but while a change
\* of the limit has not reached the pool and while more uploads run than a
\* lowered limit allows (ReloadArtifactSettings, setLimit, tuneDBPool).
RoomForRest ==
  pMax # 0 /\ pReload = {} /\ lActive <= lLimit
    => Cardinality(pHolds \cap Uploads) + 4 <= pMax

\* Uploads at work: their slots are counted rightly while the limit changes
\* under them, and their connections leave room (uploadLimiter, tuneDBPool).
PoolInv == LimiterInv /\ PoolMoves /\ RoomForRest

\* Not kept by the code: the connections of locks never fill the pool
\* (acquireArtifactDBLocks); five removals do.
PoolNeverStuck == ConnFree \/ pHolds \cap Uploads # {}
=============================================================================
