------------------------------ MODULE KeyedLock ------------------------------
(***************************************************************************)
(* Mutexes by key: an entry of a map, with a mutex of its own and a count  *)
(* of those who use it, that is dropped with its last user.  Uploads of    *)
(* one artifact and downloads of one external binary take turns with it.   *)
(* The map and the counts change under one mutex; between that and the     *)
(* entry's own mutex another goroutine may run.                            *)
(***************************************************************************)
EXTENDS Integers, FiniteSets

CONSTANTS
  Threads, LockKeys,
  Entries,      \* entries the allocator may hand out; one is used again once no
                \* goroutine and no key points to it
  NoEntry

ASSUME ThreadsAssumption == IsFiniteSet(Threads)
ASSUME EntriesAssumption == NoEntry \notin Entries

VARIABLES
  kMap,     \* locks: the entry of each key, or NoEntry
  kRefs,    \* the count of each entry
  kHeld,    \* entries whose mutex is locked
  kAt,      \* of each goroutine: out, queued (counted), in, leaving (unlocked)
  kKey, kEntry   \* the key it asked for, the entry it got

kVars == << kMap, kRefs, kHeld, kAt, kKey, kEntry >>

KeyedLockInit ==
  /\ kMap = [k \in LockKeys |-> NoEntry]
  /\ kRefs = [e \in Entries |-> 0]
  /\ kHeld = {}
  /\ kAt = [t \in Threads |-> "out"]
  /\ kKey \in [Threads -> LockKeys]
  /\ kEntry = [t \in Threads |-> NoEntry]

\* An entry that nothing points to.
Fresh(e) == (\A k \in LockKeys : kMap[k] # e) /\ (\A t \in Threads : kEntry[t] # e)

\* Lock up to e.mu.Lock: finds or creates the entry and counts the user.
Lock(t, k) ==
  /\ kAt[t] = "out"
  /\ kAt' = [kAt EXCEPT ![t] = "queued"] /\ kKey' = [kKey EXCEPT ![t] = k]
  /\ \E e \in Entries :
       /\ kMap[k] = e \/ (kMap[k] = NoEntry /\ Fresh(e))
       /\ kMap' = [kMap EXCEPT ![k] = e]
       /\ kEntry' = [kEntry EXCEPT ![t] = e]
       /\ kRefs' = [kRefs EXCEPT ![e] = (IF kMap[k] = e THEN @ ELSE 0) + 1]
  /\ UNCHANGED kHeld

\* e.mu.Lock returns.
Take(t) ==
  /\ kAt[t] = "queued" /\ kEntry[t] \notin kHeld
  /\ kHeld' = kHeld \cup {kEntry[t]}
  /\ kAt' = [kAt EXCEPT ![t] = "in"]
  /\ UNCHANGED << kMap, kRefs, kKey, kEntry >>

\* The function that Lock returned: first the entry's mutex ...
Unlock(t) ==
  /\ kAt[t] = "in"
  /\ kHeld' = kHeld \ {kEntry[t]}
  /\ kAt' = [kAt EXCEPT ![t] = "leaving"]
  /\ UNCHANGED << kMap, kRefs, kKey, kEntry >>

\* Drops the entry whoever else may have counted himself in.
DropMutant(t) ==
  /\ kAt[t] = "leaving"
  /\ kRefs' = [kRefs EXCEPT ![kEntry[t]] = @ - 1]
  /\ kMap' = [kMap EXCEPT ![kKey[t]] = NoEntry]
  /\ kAt' = [kAt EXCEPT ![t] = "out"] /\ kEntry' = [kEntry EXCEPT ![t] = NoEntry]
  /\ UNCHANGED << kHeld, kKey >>

\* Looks at the count before it takes itself off.
DropLeaks(t) ==
  /\ kAt[t] = "leaving"
  /\ kRefs' = [kRefs EXCEPT ![kEntry[t]] = @ - 1]
  /\ kMap' = IF kRefs[kEntry[t]] = 0 THEN [kMap EXCEPT ![kKey[t]] = NoEntry] ELSE kMap
  /\ kAt' = [kAt EXCEPT ![t] = "out"] /\ kEntry' = [kEntry EXCEPT ![t] = NoEntry]
  /\ UNCHANGED << kHeld, kKey >>

\* ... then the count, and with the last user the entry leaves the map.
Drop(t) ==
  /\ kAt[t] = "leaving"
  /\ kRefs' = [kRefs EXCEPT ![kEntry[t]] = @ - 1]
  /\ kMap' = IF kRefs[kEntry[t]] = 1 THEN [kMap EXCEPT ![kKey[t]] = NoEntry] ELSE kMap
  /\ kAt' = [kAt EXCEPT ![t] = "out"] /\ kEntry' = [kEntry EXCEPT ![t] = NoEntry]
  /\ UNCHANGED << kHeld, kKey >>

KeyedLockNext ==
  \E t \in Threads :
    (\E k \in LockKeys : Lock(t, k)) \/ Take(t) \/ Unlock(t) \/ Drop(t)

KeyedLockSpec == KeyedLockInit /\ [][KeyedLockNext]_kVars
-----------------------------------------------------------------------------
(* Properties *)

EntryUsers(e) == {t \in Threads : kEntry[t] = e}

KeyedLockTypeOK ==
  /\ kMap \in [LockKeys -> Entries \cup {NoEntry}]
  /\ kRefs \in [Entries -> Nat] /\ kHeld \subseteq Entries
  /\ kAt \in [Threads -> {"out", "queued", "in", "leaving"}]
  /\ kKey \in [Threads -> LockKeys]
  /\ kEntry \in [Threads -> Entries \cup {NoEntry}]

\* Whoever is between Lock and the end of its unlock uses the entry that the
\* map has for its key, so nobody can get another one for it.
EntryIsShared ==
  \A t \in Threads :
    IF kAt[t] = "out" THEN kEntry[t] = NoEntry
    ELSE kEntry[t] \in Entries /\ kMap[kKey[t]] = kEntry[t]

\* The count is the number of users, and the map has no entry without one:
\* the map does not grow with the keys ever used.
CountIsUsers ==
  /\ \A t \in Threads : kEntry[t] # NoEntry => kRefs[kEntry[t]] = Cardinality(EntryUsers(kEntry[t]))
  /\ \A k \in LockKeys : kMap[k] # NoEntry => EntryUsers(kMap[k]) # {}

\* Two keys never share an entry.
KeysApart ==
  \A j, k \in LockKeys : kMap[j] # NoEntry /\ kMap[j] = kMap[k] => j = k

\* An entry's mutex is held by exactly the goroutine that is inside with it.
HolderIsInside ==
  /\ \A t \in Threads : kAt[t] = "in" => kEntry[t] \in kHeld
  /\ \A t, u \in Threads :
       kAt[t] = "in" /\ kAt[u] = "in" /\ kEntry[t] = kEntry[u] => t = u

\* Never are two goroutines inside for one key, although entries leave the
\* map and new ones come for the same key (Locker.Lock and its unlock).
MutualExclusion ==
  \A t, u \in Threads : kAt[t] = "in" /\ kAt[u] = "in" /\ kKey[t] = kKey[u] => t = u

\* The lock by key excludes, counts and cleans up.
KeyedLockInv ==
  /\ KeyedLockTypeOK /\ EntryIsShared /\ CountIsUsers /\ KeysApart
  /\ HolderIsInside /\ MutualExclusion

\* A goroutine that has released the entry's mutex is out.
Mutex == INSTANCE KeyMutex WITH
  at <- [t \in Threads |-> IF kAt[t] = "leaving" THEN "out" ELSE kAt[t]],
  key <- kKey

\* Entries that come and go do what one mutex for every key would do
\* (Locker.Lock and the function it returns).
LocksAreMutexes == Mutex!Spec
=============================================================================
