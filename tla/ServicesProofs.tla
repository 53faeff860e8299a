---------------------------- MODULE ServicesProofs ---------------------------
(***************************************************************************)
(* Proofs about what the server offers beside the rollout, for any number  *)
(* of replicas, files, lists, accounts, tokens, nodes, requests and hosts, *)
(* and any number of changes and stops.                                    *)
(***************************************************************************)
EXTENDS MCServices, FiniteSetTheorems, TLAPS

(* Numbers *)

\* Every set of numbers has a least one.
LEMMA LeastNumber ==
  ASSUME NEW S \in SUBSET Nat, S # {}
  PROVE  \E m \in S : \A k \in S : m <= k
<1> DEFINE below == {0 .. (k - 1) : k \in S}
<1>1. below \subseteq FiniteSubsetsOf(Nat)
  <2> SUFFICES ASSUME NEW k \in S PROVE 0 .. (k - 1) \in FiniteSubsetsOf(Nat)
    OBVIOUS
  <2>1. IsFiniteSet(0 .. (k - 1))
    BY FS_Interval
  <2> QED
    BY <2>1 DEF FiniteSubsetsOf
<1>2. below # {}
  OBVIOUS
<1> HIDE DEF below
<1>3. PICK x \in below : \A y \in below : << y, x >> \notin StrictSubsetOrdering(Nat)
  BY <1>1, <1>2, FS_StrictSubsetOrderingWellFounded, WFMin
<1> USE DEF below
<1>4. PICK m \in S : x = 0 .. (m - 1)
  OBVIOUS
<1>5. ASSUME NEW k \in S, k < m PROVE FALSE
  <2>1. << 0 .. (k - 1), x >> \in StrictSubsetOrdering(Nat)
    <3> DEFINE a == 0 .. (k - 1)
    <3>1. k \in x /\ k \notin a
      BY <1>4, <1>5
    <3>2. a \subseteq x /\ x \subseteq Nat
      BY <1>4, <1>5
    <3> HIDE DEF a
    <3> QED
      BY <3>1, <3>2 DEF StrictSubsetOrdering
  <2> QED
    BY <2>1, <1>3
<1> QED
  BY <1>5

LEMMA MinOfNumbers ==
  ASSUME NEW S \in SUBSET Nat, S # {}
  PROVE  Min(S) \in S /\ \A k \in S : Min(S) <= k
<1>1. PICK m \in S : \A k \in S : m <= k
  BY LeastNumber
<1> QED
  BY <1>1 DEF Min

LEMMA MaxOfNumbers ==
  ASSUME NEW S \in SUBSET Nat, NEW m \in S, \A k \in S : k <= m
  PROVE  Max(S) \in S /\ \A k \in S : k <= Max(S)
<1>1. \A k \in S : m >= k
  OBVIOUS
<1> QED
  BY <1>1 DEF Max
-----------------------------------------------------------------------------
(* Migrations of the database *)

\* What is recorded took effect once, the rest not; below what is recorded
\* everything is.
RecordsFit ==
  \A t \in Tables :
    /\ gRecorded[t] \in SUBSET AllScripts(t)
    /\ \A v \in AllScripts(t) : gDone[t][v] = IF v \in gRecorded[t] THEN 1 ELSE 0
    /\ \A v \in AllScripts(t), w \in gRecorded[t] : v < w => v \in gRecorded[t]

\* What a replica does not mean to apply any more is recorded, and a replica
\* that is past a table has all of its scripts there.
PastStore(s) == gProc[s].pc \in {"lock", "schema", "unlock", "serving"}
PastSchema(s) == gProc[s].pc \in {"unlock", "serving"}

StartFits(s) ==
  /\ \A t \in Tables : AtStep(s, t) => /\ gProc[s].todo \in SUBSET Scripts(s, t)
                                       /\ Scripts(s, t) \ gProc[s].todo \subseteq gRecorded[t]
  /\ PastStore(s) => StoreScripts \subseteq gRecorded["store"]
  /\ PastSchema(s) => Release[s] \subseteq gRecorded["schema"]

\* On PostgreSQL whoever is between lock and unlock has the lock, and what it
\* still means to apply nobody recorded.
LockFits(s) ==
  gDialect = "postgres" =>
    /\ gProc[s].pc \in {"schema", "unlock"} <=> gLock = s
    /\ AtStep(s, "schema") => gProc[s].todo \cap gRecorded["schema"] = {}

StartPcs == {"down", "store", "lock", "schema", "unlock", "serving"}

\* max is the highest recorded version: there is one, however many scripts.
HighestKnown ==
  \E m \in gRecorded["schema"] \cup {0} : \A v \in gRecorded["schema"] : v <= m

MigrationsTypes ==
  /\ gDialect \in {"postgres", "sqlite"}
  /\ DOMAIN gDone = Tables /\ DOMAIN gRecorded = Tables
  /\ \A t \in Tables : DOMAIN gDone[t] = AllScripts(t)
  /\ gLock \in Starters \cup {"nobody"}
  /\ gProc \in [Starters -> [pc : StartPcs, todo : SUBSET Nat]]

MigrationsIInv ==
  /\ MigrationsTypes /\ RecordsFit /\ HighestKnown
  /\ \A s \in Starters : StartFits(s) /\ LockFits(s)
  /\ gDialect = "postgres" => "schema" \notin gRefused

LEMMA MigrationsFromTheStart == MigrationsInit => MigrationsIInv
<1> SUFFICES ASSUME MigrationsInit PROVE MigrationsIInv
  OBVIOUS
<1>1. MigrationsTypes /\ (gDialect = "postgres" => "schema" \notin gRefused)
  BY DEF MigrationsInit, MigrationsTypes, NotStarted, StartPcs
<1>2. RecordsFit /\ HighestKnown
  BY DEF MigrationsInit, RecordsFit, HighestKnown, Tables
<1>3. \A s \in Starters : StartFits(s) /\ LockFits(s)
  BY MigrationsAssumption DEF MigrationsInit, NotStarted, StartFits, LockFits, AtStep, PastStore, PastSchema, Tables
<1> QED
  BY <1>1, <1>2, <1>3 DEF MigrationsIInv, MigrationsTypes

LEMMA ScriptsAreNumbers ==
  ASSUME NEW s \in Starters, NEW t \in Tables
  PROVE  /\ Scripts(s, t) \in SUBSET (Nat \ {0}) /\ Scripts(s, t) \subseteq AllScripts(t)
         /\ AllScripts(t) \in SUBSET (Nat \ {0})
         /\ \A w \in Scripts(s, t), v \in AllScripts(t) : v < w => v \in Scripts(s, t)
<1>1. CASE t = "store"
  BY <1>1, MigrationsAssumption DEF Scripts, AllScripts
<1>2. CASE t = "schema"
  BY <1>2, MigrationsAssumption DEF Scripts, AllScripts
<1> QED
  BY <1>1, <1>2 DEF Tables

\* A step that moves only one replica and records nothing.
LEMMA OnlyOneMoves ==
  ASSUME MigrationsIInv, NEW s \in Starters,
         UNCHANGED << gDialect, gDone, gRecorded >>,
         NEW new \in [pc : StartPcs, todo : SUBSET Nat], gProc' = [gProc EXCEPT ![s] = new],
         gLock' \in Starters \cup {"nobody"},
         gDialect = "postgres" => \A o \in Starters \ {s} : gLock' = o <=> gLock = o,
         StartFits(s)', LockFits(s)',
         gDialect = "postgres" => "schema" \notin gRefused'
  PROVE  MigrationsIInv'
<1>1. MigrationsTypes' /\ RecordsFit' /\ HighestKnown'
  BY DEF MigrationsIInv, MigrationsTypes, RecordsFit, HighestKnown
<1>2. ASSUME NEW o \in Starters \ {s} PROVE StartFits(o)' /\ LockFits(o)'
  <2>1. gProc'[o] = gProc[o]
    BY DEF MigrationsIInv, MigrationsTypes
  <2>2. StartFits(o) /\ LockFits(o)
    BY DEF MigrationsIInv
  <2> QED
    BY <2>1, <2>2 DEF StartFits, LockFits, AtStep, PastStore, PastSchema
<1> QED
  BY <1>1, <1>2 DEF MigrationsIInv

LEMMA OpenStoreKeeps ==
  ASSUME MigrationsIInv, NEW s \in Starters, OpenStore(s)
  PROVE  MigrationsIInv'
<1> DEFINE new == [pc |-> "store", todo |-> StoreScripts \ gRecorded["store"]]
<1>1. new \in [pc : StartPcs, todo : SUBSET Nat] /\ gProc' = [gProc EXCEPT ![s] = new] /\ gProc'[s] = new
  BY MigrationsAssumption DEF OpenStore, StartPcs, MigrationsIInv, MigrationsTypes
<1> HIDE DEF new
<1>2. /\ UNCHANGED << gDialect, gDone, gRecorded, gLock, gRefused >> /\ gProc[s].pc = "down"
      /\ gLock \in Starters \cup {"nobody"} /\ LockFits(s)
  BY DEF OpenStore, AtStep, MigrationsIInv, MigrationsTypes
<1>3. StartFits(s)' /\ LockFits(s)'
  BY <1>1, <1>2 DEF new, StartFits, LockFits, AtStep, PastStore, PastSchema, Scripts, Tables
<1> QED
  BY <1>1, <1>2, <1>3, OnlyOneMoves DEF MigrationsIInv

LEMMA UpKeeps ==
  ASSUME MigrationsIInv, NEW s \in Starters, Up(s)
  PROVE  MigrationsIInv'
<1> DEFINE max == Max(gRecorded["schema"] \cup {0})
           new == [pc |-> "schema", todo |-> {v \in Release[s] : v > max}]
<1>1. new \in [pc : StartPcs, todo : SUBSET Nat] /\ gProc' = [gProc EXCEPT ![s] = new] /\ gProc'[s] = new
  BY MigrationsAssumption DEF Up, StartPcs, MigrationsIInv, MigrationsTypes
<1>2. /\ UNCHANGED << gDialect, gDone, gRecorded, gRefused >> /\ gProc[s].pc = "lock"
      /\ gLock' = (IF gDialect = "postgres" THEN s ELSE gLock) /\ LockFree(s)
      /\ gLock \in Starters \cup {"nobody"} /\ StartFits(s) /\ RecordsFit
      /\ \A o \in Starters : LockFits(o)
  BY DEF Up, AtStep, MigrationsIInv, MigrationsTypes
<1>3. /\ gRecorded["schema"] \in SUBSET (Nat \ {0}) /\ Release[s] \in SUBSET (Nat \ {0})
      /\ \A v \in Release[s], w \in gRecorded["schema"] : v < w => v \in gRecorded["schema"]
  BY <1>2, ScriptsAreNumbers DEF RecordsFit, Tables, Scripts
<1>4. max \in gRecorded["schema"] \cup {0} /\ \A v \in gRecorded["schema"] : v <= max
  <2>1. PICK m \in gRecorded["schema"] \cup {0} : \A v \in gRecorded["schema"] : v <= m
    BY DEF MigrationsIInv, HighestKnown
  <2>2. gRecorded["schema"] \cup {0} \in SUBSET Nat /\ \A v \in gRecorded["schema"] \cup {0} : v <= m
    BY <1>3, <2>1
  <2> QED
    BY <2>2, MaxOfNumbers
<1> HIDE DEF max
<1>5. /\ new.todo \in SUBSET Release[s] /\ Release[s] \ new.todo \subseteq gRecorded["schema"]
      /\ new.todo \cap gRecorded["schema"] = {} /\ new.pc = "schema"
  BY <1>3, <1>4
<1> HIDE DEF new
<1>6. StartFits(s)' /\ LockFits(s)'
  BY <1>1, <1>2, <1>5 DEF StartFits, LockFits, AtStep, PastStore, PastSchema, Scripts, Tables
<1>7. gLock' \in Starters \cup {"nobody"}
  BY <1>2
<1>8. gDialect = "postgres" => \A o \in Starters \ {s} : gLock' = o <=> gLock = o
  BY <1>2, MigrationsAssumption DEF LockFree
<1> QED
  BY <1>1, <1>2, <1>6, <1>7, <1>8, OnlyOneMoves DEF MigrationsIInv

\* Letting go of the lock leaves everyone else as it was.
LEMMA LetGoKeeps ==
  ASSUME MigrationsIInv, NEW s \in Starters, LetGo(s)
  PROVE  /\ gLock' \in Starters \cup {"nobody"} /\ gLock' # s
         /\ \A o \in Starters \ {s} : gLock' = o <=> gLock = o
BY MigrationsAssumption DEF LetGo, MigrationsIInv, MigrationsTypes

LEMMA GoesDown ==
  ASSUME MigrationsIInv, NEW s \in Starters, LetGo(s), gProc' = [gProc EXCEPT ![s] = NotStarted],
         UNCHANGED << gDialect, gDone, gRecorded >>, gDialect = "postgres" => "schema" \notin gRefused'
  PROVE  MigrationsIInv'
<1>1. NotStarted \in [pc : StartPcs, todo : SUBSET Nat] /\ gProc'[s] = NotStarted /\ NotStarted.pc = "down"
  BY DEF NotStarted, StartPcs, MigrationsIInv, MigrationsTypes
<1>2. StartFits(s)' /\ LockFits(s)'
  BY <1>1, LetGoKeeps DEF StartFits, LockFits, AtStep, PastStore, PastSchema, Tables
<1> QED
  BY <1>1, <1>2, LetGoKeeps, OnlyOneMoves

LEMMA NothingLeftKeeps ==
  ASSUME MigrationsIInv, NEW s \in Starters, NEW t \in Tables, NothingLeft(s, t)
  PROVE  MigrationsIInv'
<1> DEFINE new == [gProc[s] EXCEPT !.pc = After(t)]
<1>1. /\ new \in [pc : StartPcs, todo : SUBSET Nat] /\ gProc'[s] = new
      /\ gProc' = [gProc EXCEPT ![s] = new] /\ gProc[s].pc = t /\ gProc[s].todo = {}
      /\ UNCHANGED << gDialect, gDone, gRecorded, gLock, gRefused >> /\ gLock \in Starters \cup {"nobody"}
      /\ StartFits(s) /\ LockFits(s)
  BY DEF NothingLeft, AtStep, After, StartPcs, MigrationsIInv, MigrationsTypes, Tables
<1>2. CASE t = "store"
  <2>1. new.pc = "lock" /\ new.todo = {} /\ StoreScripts \subseteq gRecorded["store"]
    BY <1>1, <1>2 DEF After, StartFits, AtStep, Scripts, Tables
  <2> HIDE DEF new
  <2>2. StartFits(s)' /\ LockFits(s)'
    BY <1>1, <1>2, <2>1 DEF StartFits, LockFits, AtStep, PastStore, PastSchema, Tables
  <2> QED
    BY <1>1, <2>2, OnlyOneMoves DEF MigrationsIInv
<1>3. CASE t = "schema"
  <2>1. /\ new.pc = "unlock" /\ new.todo = {} /\ Release[s] \subseteq gRecorded["schema"]
        /\ StoreScripts \subseteq gRecorded["store"]
    BY <1>1, <1>3 DEF After, StartFits, AtStep, Scripts, Tables, PastStore
  <2> HIDE DEF new
  <2>2. StartFits(s)' /\ LockFits(s)'
    BY <1>1, <1>3, <2>1 DEF StartFits, LockFits, AtStep, PastStore, PastSchema, Tables
  <2> QED
    BY <1>1, <2>2, OnlyOneMoves DEF MigrationsIInv
<1> QED
  BY <1>2, <1>3 DEF Tables

LEMMA UnlockKeeps ==
  ASSUME MigrationsIInv, NEW s \in Starters, Unlock(s)
  PROVE  MigrationsIInv'
<1> DEFINE new == [gProc[s] EXCEPT !.pc = "serving"]
<1>1. /\ new \in [pc : StartPcs, todo : SUBSET Nat] /\ gProc'[s] = new /\ new.pc = "serving"
      /\ gProc' = [gProc EXCEPT ![s] = new] /\ gProc[s].pc = "unlock" /\ LetGo(s)
      /\ UNCHANGED << gDialect, gDone, gRecorded, gRefused >>
      /\ StartFits(s)
  BY DEF Unlock, AtStep, StartPcs, MigrationsIInv, MigrationsTypes
<1> HIDE DEF new
<1>2. StartFits(s)' /\ LockFits(s)'
  BY <1>1, LetGoKeeps DEF StartFits, LockFits, AtStep, PastStore, PastSchema, Tables
<1> QED
  BY <1>1, <1>2, LetGoKeeps, OnlyOneMoves DEF MigrationsIInv

\* A script that is applied is the least of those that are left, so that
\* everything below it is recorded, and nobody else meant to apply it there
\* if it takes a lock to do so.
LEMMA ScriptTakesEffect ==
  ASSUME MigrationsIInv, NEW s \in Starters, NEW t \in Tables, AtStep(s, t), gProc[s].todo # {},
         NEW v, v = Min(gProc[s].todo), v \notin gRecorded[t],
         gDone' = [gDone EXCEPT ![t][v] = @ + 1],
         gRecorded' = [gRecorded EXCEPT ![t] = @ \cup {v}],
         gProc' = [gProc EXCEPT ![s].todo = @ \ {v}],
         UNCHANGED << gRefused, gLock, gDialect >>
  PROVE  MigrationsIInv'
<1> DEFINE todo == gProc[s].todo
<1>1. /\ MigrationsTypes /\ RecordsFit /\ HighestKnown /\ \A o \in Starters : StartFits(o) /\ LockFits(o)
      /\ todo \in SUBSET Scripts(s, t) /\ Scripts(s, t) \ todo \subseteq gRecorded[t]
  BY DEF MigrationsIInv, StartFits
<1>2. v \in todo /\ (\A w \in todo : v <= w) /\ v \in AllScripts(t) /\ v \in Nat \ {0}
  <2>1. todo \in SUBSET Nat /\ todo \subseteq AllScripts(t)
    BY <1>1, ScriptsAreNumbers
  <2> QED
    BY <2>1, MinOfNumbers, ScriptsAreNumbers
<1>3. \A w \in AllScripts(t) : w < v => w \in gRecorded[t]
  <2> SUFFICES ASSUME NEW w \in AllScripts(t), w < v PROVE w \in gRecorded[t]
    OBVIOUS
  <2>1. w \in Scripts(s, t) /\ w \in Nat
    BY <1>1, <1>2, ScriptsAreNumbers
  <2>2. w \notin todo
    BY <1>2, <2>1
  <2> QED
    BY <1>1, <2>1, <2>2
<1>4. /\ \A u \in Tables : gRecorded'[u] = IF u = t THEN gRecorded[u] \cup {v} ELSE gRecorded[u]
      /\ DOMAIN gRecorded' = Tables /\ DOMAIN gDone' = Tables
      /\ \A u \in Tables : DOMAIN gDone'[u] = AllScripts(u)
      /\ \A u \in Tables : \A w \in AllScripts(u) :
           gDone'[u][w] = IF u = t /\ w = v THEN gDone[u][w] + 1 ELSE gDone[u][w]
  BY <1>1, <1>2 DEF MigrationsTypes
<1>5. RecordsFit'
  <2> SUFFICES ASSUME NEW u \in Tables
               PROVE  /\ gRecorded'[u] \in SUBSET AllScripts(u)
                      /\ \A w \in AllScripts(u) : gDone'[u][w] = IF w \in gRecorded'[u] THEN 1 ELSE 0
                      /\ \A w \in AllScripts(u), x \in gRecorded'[u] : w < x => w \in gRecorded'[u]
    BY DEF RecordsFit
  <2>1. /\ gRecorded[u] \in SUBSET AllScripts(u)
        /\ \A w \in AllScripts(u) : gDone[u][w] = IF w \in gRecorded[u] THEN 1 ELSE 0
        /\ \A w \in AllScripts(u), x \in gRecorded[u] : w < x => w \in gRecorded[u]
    BY <1>1 DEF RecordsFit
  <2>2. CASE u # t
    BY <1>4, <2>1, <2>2
  <2>3. CASE u = t
    BY <1>2, <1>3, <1>4, <2>1, <2>3
  <2> QED
    BY <2>2, <2>3
<1>6. HighestKnown'
  <2>1. PICK m \in gRecorded["schema"] \cup {0} : \A w \in gRecorded["schema"] : w <= m
    BY <1>1 DEF HighestKnown
  <2>2. gRecorded["schema"] \in SUBSET Nat /\ m \in Nat
    BY <1>1, <2>1, ScriptsAreNumbers DEF RecordsFit, Tables
  <2>3. CASE t = "store"
    BY <1>4, <2>1, <2>3 DEF HighestKnown, Tables
  <2>4. CASE t = "schema"
    <3>1. gRecorded["schema"]' = gRecorded["schema"] \cup {v}
      BY <1>4, <2>4
    <3>2. CASE v <= m
      BY <2>1, <2>2, <3>1, <3>2 DEF HighestKnown
    <3>3. CASE ~(v <= m)
      BY <1>2, <2>1, <2>2, <3>1, <3>3 DEF HighestKnown
    <3> QED
      BY <3>2, <3>3
  <2> QED
    BY <2>3, <2>4 DEF Tables
<1>7. /\ gProc' \in [Starters -> [pc : StartPcs, todo : SUBSET Nat]]
      /\ \A o \in Starters : gProc'[o].pc = gProc[o].pc
      /\ \A o \in Starters \ {s} : gProc'[o] = gProc[o]
      /\ gProc'[s].todo = todo \ {v}
  BY <1>1 DEF MigrationsTypes
<1>8. ASSUME NEW o \in Starters PROVE StartFits(o)'
  <2>1. \A u \in Tables : gRecorded[u] \subseteq gRecorded'[u]
    BY <1>4
  <2>2. StartFits(o)
    BY <1>1
  <2>3. CASE o # s
    BY <1>7, <2>1, <2>2, <2>3 DEF StartFits, AtStep, PastStore, PastSchema, Tables
  <2>4. CASE o = s
    <3>1. /\ \A u \in Tables : AtStep(s, u)' => u = t
          /\ todo \ {v} \in SUBSET Scripts(s, t) /\ Scripts(s, t) \ (todo \ {v}) \subseteq gRecorded'[t]
      BY <1>1, <1>2, <1>4, <1>7 DEF AtStep
    <3>2. /\ PastStore(s)' => StoreScripts \subseteq gRecorded'["store"]
          /\ PastSchema(s)' => Release[s] \subseteq gRecorded'["schema"]
      BY <1>7, <2>1, <2>2, <2>4 DEF StartFits, PastStore, PastSchema, Tables
    <3> QED
      BY <1>7, <2>4, <3>1, <3>2 DEF StartFits
  <2> QED
    BY <2>3, <2>4
<1>9. ASSUME NEW o \in Starters PROVE LockFits(o)'
  <2>1. LockFits(o) /\ LockFits(s) /\ gProc[s].pc = t
    BY <1>1 DEF AtStep
  <2>2. CASE o = s
    BY <1>4, <1>7, <2>1, <2>2 DEF LockFits, AtStep, Tables
  <2>3. CASE o # s /\ t = "schema"
    BY <1>7, <2>1, <2>3 DEF LockFits, AtStep
  <2>4. CASE o # s /\ t = "store"
    BY <1>4, <1>7, <2>1, <2>4 DEF LockFits, AtStep, Tables
  <2> QED
    BY <2>2, <2>3, <2>4 DEF Tables
<1>10. MigrationsTypes'
  BY <1>1, <1>4, <1>7 DEF MigrationsTypes
<1> QED
  BY <1>5, <1>6, <1>8, <1>9, <1>10 DEF MigrationsIInv

LEMMA ApplyKeeps ==
  ASSUME MigrationsIInv, NEW s \in Starters, NEW t \in Tables, applyMigration(s, t)
  PROVE  MigrationsIInv'
<1> DEFINE v == Min(gProc[s].todo)
<1>1. CASE v \in gRecorded[t]
  <2>1. /\ gRefused' = gRefused \cup {t} /\ gProc' = [gProc EXCEPT ![s] = NotStarted] /\ LetGo(s)
        /\ UNCHANGED << gDialect, gDone, gRecorded >> /\ gProc[s].todo # {} /\ AtStep(s, t)
    BY <1>1 DEF applyMigration
  <2>2. v \in gProc[s].todo
    <3>1. gProc[s].todo \in SUBSET Nat
      BY DEF MigrationsIInv, MigrationsTypes
    <3> QED
      BY <2>1, <3>1, MinOfNumbers
  <2>3. gDialect = "postgres" => t # "schema"
    BY <1>1, <2>1, <2>2 DEF MigrationsIInv, LockFits
  <2>4. gDialect = "postgres" => "schema" \notin gRefused'
    BY <2>1, <2>3 DEF MigrationsIInv
  <2> QED
    BY <2>1, <2>4, GoesDown
<1>2. CASE v \notin gRecorded[t]
  <2>1. /\ gDone' = [gDone EXCEPT ![t][v] = @ + 1] /\ gRecorded' = [gRecorded EXCEPT ![t] = @ \cup {v}]
        /\ gProc' = [gProc EXCEPT ![s].todo = @ \ {v}] /\ UNCHANGED << gRefused, gLock, gDialect >>
        /\ gProc[s].todo # {} /\ AtStep(s, t)
    BY <1>2 DEF applyMigration
  <2> HIDE DEF v
  <2> QED
    BY <1>2, <2>1, ScriptTakesEffect DEF v
<1> QED
  BY <1>1, <1>2

LEMMA MigrationsKeep ==
  ASSUME MigrationsIInv, MigrationsNext
  PROVE  MigrationsIInv'
<1>1. PICK s \in Starters : \/ OpenStore(s) \/ Up(s) \/ Unlock(s) \/ Aborts(s)
                          \/ \E t \in Tables : applyMigration(s, t) \/ NothingLeft(s, t)
  BY DEF MigrationsNext
<1>2. CASE Aborts(s)
  BY <1>2, GoesDown DEF Aborts, MigrationsIInv
<1> QED
  BY <1>1, <1>2, OpenStoreKeeps, UpKeeps, UnlockKeeps, ApplyKeeps, NothingLeftKeeps

LEMMA MigrationsStay ==
  ASSUME MigrationsIInv, UNCHANGED gVars
  PROVE  MigrationsIInv'
BY DEF MigrationsIInv, gVars, MigrationsTypes, RecordsFit, HighestKnown, StartFits, LockFits, AtStep,
       PastStore, PastSchema

\* Replicas that start together: a server that serves has all of its scripts in
\* the database, each of which took effect once and in order, and on PostgreSQL
\* none fails over schema_migrations, whoever stops where
\* (Up, Migrate, applyMigration).
THEOREM MigrationsAreDone == ServicesSpec => []MigrationsInv
<1>1. ServicesInit => MigrationsIInv
  BY MigrationsFromTheStart DEF ServicesInit
<1>2. MigrationsIInv /\ [ServicesNext]_servicesVars => MigrationsIInv'
  <2> SUFFICES ASSUME MigrationsIInv, [ServicesNext]_servicesVars PROVE MigrationsIInv'
    OBVIOUS
  <2>1. MigrationsNext \/ UNCHANGED gVars
    BY DEF ServicesNext, servicesVars
  <2> QED
    BY <2>1, MigrationsKeep, MigrationsStay
<1>3. MigrationsIInv => MigrationsInv
  <2> SUFFICES ASSUME MigrationsIInv PROVE MigrationsInv
    OBVIOUS
  <2>1. ASSUME NEW t \in Tables, NEW s \in Starters, gProc[s].pc = "serving", NEW v \in Scripts(s, t)
        PROVE  gDone[t][v] = 1
    <3>1. v \in AllScripts(t) /\ v \in gRecorded[t]
      BY <2>1, ScriptsAreNumbers DEF MigrationsIInv, StartFits, PastStore, PastSchema, Scripts, Tables
    <3> QED
      BY <3>1 DEF MigrationsIInv, RecordsFit
  <2>2. ASSUME NEW t \in Tables, NEW v \in AllScripts(t), NEW w \in AllScripts(t), v < w /\ gDone[t][w] > 0
        PROVE  gDone[t][v] = 1
    BY <2>2 DEF MigrationsIInv, RecordsFit
  <2> QED
    BY <2>1, <2>2 DEF MigrationsInv, MigrationsIInv
<1> QED
  BY <1>1, <1>2, <1>3, PTL DEF ServicesSpec
-----------------------------------------------------------------------------
(* Cached answers *)

CacheEntry == [data : Int, crossed : BOOLEAN]
CachePcs == {"idle", "miss", "answer", "handler", "clear"}
CacheRequest ==
  [pc : CachePcs, at : WebReplicas \cup {""}, gen : Nat, db : DBs \cup {Disabled}, list : Lists \cup {""},
   data : Nat, seen : Nat, left : SUBSET Lists]

CacheTypes ==
  /\ hData \in 0..MaxWrites
  /\ hConn \in [WebReplicas -> [gen : Nat, db : DBs \cup {Disabled}]]
  /\ hStore \in [DBs -> [Lists -> CacheEntry]]
  /\ hDone \in [DBs -> [Lists -> Nat]]
  /\ hRead \in [Readers -> CacheRequest]
  /\ hWrite \in [Writers -> CacheRequest]

\* What was cleared was cleared for a write that is committed.
ClearedFits ==
  /\ \A d \in DBs, l \in Lists : hDone[d][l] <= hData
  /\ \A w \in Writers : hWrite[w].data <= hData

\* A read is of a list in a database; its answer is as new as what was cleared
\* before it, and more may have been cleared since.
ReadFits(p) ==
  hRead[p].pc \in {"miss", "answer"} =>
    /\ hRead[p].db \in DBs /\ hRead[p].list \in Lists
    /\ hRead[p].pc = "answer" => /\ hRead[p].data >= hRead[p].seen
                                /\ hRead[p].seen <= hDone[hRead[p].db][hRead[p].list]

CacheIInv == CacheTypes /\ ClearedFits /\ (\A p \in Readers : ReadFits(p)) /\ StaleOnlyByCrossing

LEMMA CacheFromTheStart == CacheInit => CacheIInv
<1> SUFFICES ASSUME CacheInit PROVE CacheIInv
  OBVIOUS
<1>1. AtRest \in CacheRequest /\ NoEntryYet \in CacheEntry /\ 0 \in DBs /\ MaxWrites \in Nat
  BY ResponseCacheAssumption DEF AtRest, CacheRequest, CachePcs, Disabled, NoEntryYet, CacheEntry, DBs
<1>2. CacheTypes
  BY <1>1 DEF CacheInit, CacheTypes
<1>3. ClearedFits /\ StaleOnlyByCrossing
  <2>1. /\ hData = 0 /\ \A w \in Writers : hWrite[w].data = 0
        /\ \A d \in DBs, l \in Lists : hDone[d][l] = 0 /\ hStore[d][l] = NoEntryYet
    BY DEF CacheInit, AtRest
  <2> QED
    BY <2>1 DEF ClearedFits, StaleOnlyByCrossing
<1>4. ASSUME NEW p \in Readers PROVE ReadFits(p)
  BY DEF CacheInit, ReadFits, AtRest
<1> QED
  BY <1>2, <1>3, <1>4 DEF CacheIInv

\* The database that is used is one the server has.
LEMMA NewDBExists ==
  ASSUME NEW o \in CacheOptions, NEW known \in Known(o), NEW again \in Known(o)
  PROVE  NewDB(o, known, again) \in DBs
<1>1. Databases \in Nat \ {0} /\ again \in {1, 0, Databases}
  BY ResponseCacheAssumption DEF Known
<1>2. 0 \in DBs /\ (again > 0 => again - 1 \in DBs)
  BY <1>1 DEF DBs
<1> DEFINE first == Fallback(o, known)
<1> HIDE DEF first
<1> QED
  BY <1>2 DEF NewDB, first

LEMMA ReloadKeeps ==
  ASSUME CacheIInv, NEW r \in WebReplicas, NEW o \in CacheOptions, ReloadCache(r, o)
  PROVE  CacheIInv'
<1>1. PICK known \in Known(o), again \in Known(o), up \in BOOLEAN :
        hConn' = [hConn EXCEPT ![r] = [gen |-> @.gen + 1,
                                       db |-> IF up THEN NewDB(o, known, again) ELSE Disabled]]
  BY DEF ReloadCache
<1>2. NewDB(o, known, again) \in DBs
  BY NewDBExists
<1>3. hConn' \in [WebReplicas -> [gen : Nat, db : DBs \cup {Disabled}]]
  BY <1>1, <1>2 DEF CacheIInv, CacheTypes
<1> QED
  BY <1>3 DEF ReloadCache, CacheIInv, CacheTypes, ClearedFits, ReadFits, StaleOnlyByCrossing

\* A step of a reader or a writer alone.
LEMMA ReaderMoves ==
  ASSUME CacheIInv, NEW p \in Readers, NEW new \in CacheRequest, hRead' = [hRead EXCEPT ![p] = new],
         UNCHANGED << hData, hConn, hStore, hDone, hWrite >>,
         new.pc \in {"miss", "answer"} =>
           /\ new.db \in DBs /\ new.list \in Lists
           /\ new.pc = "answer" => new.data >= new.seen /\ new.seen <= hDone[new.db][new.list]
  PROVE  CacheIInv'
<1>1. CacheTypes' /\ ClearedFits' /\ StaleOnlyByCrossing'
  BY DEF CacheIInv, CacheTypes, ClearedFits, StaleOnlyByCrossing
<1>2. ASSUME NEW q \in Readers PROVE ReadFits(q)'
  <2>1. ReadFits(q) /\ hRead'[p] = new /\ (q # p => hRead'[q] = hRead[q])
    BY DEF CacheIInv, CacheTypes
  <2> QED
    BY <2>1 DEF ReadFits
<1> QED
  BY <1>1, <1>2 DEF CacheIInv

LEMMA WriterMoves ==
  ASSUME CacheIInv, NEW w \in Writers, NEW new \in CacheRequest, hWrite' = [hWrite EXCEPT ![w] = new],
         UNCHANGED << hConn, hStore, hDone, hRead >>, hData' \in 0..MaxWrites, hData' >= hData,
         new.data <= hData'
  PROVE  CacheIInv'
<1>1. CacheTypes' /\ StaleOnlyByCrossing'
  BY DEF CacheIInv, CacheTypes, StaleOnlyByCrossing
<1>2. ClearedFits'
  <2>1. hData \in Nat /\ hData' \in Nat /\ \A d \in DBs, l \in Lists : hDone[d][l] \in Nat
    BY ResponseCacheAssumption DEF CacheIInv, CacheTypes
  <2>3. hWrite \in [Writers -> CacheRequest] /\ hWrite' \in [Writers -> CacheRequest]
    BY <1>1 DEF CacheIInv, CacheTypes
  <2>4. \A v \in Writers : hWrite'[v] = hWrite[v] \/ hWrite'[v] = new
    BY <2>3
  <2>5. \A v \in Writers : hWrite[v].data \in Nat /\ hWrite'[v].data \in Nat
    BY <2>3 DEF CacheRequest
  <2>2. /\ \A d \in DBs, l \in Lists : hDone[d][l] <= hData
        /\ \A v \in Writers : hWrite[v].data <= hData
    BY DEF CacheIInv, ClearedFits
  <2> QED
    BY <2>1, <2>2, <2>4, <2>5 DEF ClearedFits
<1>3. \A p \in Readers : ReadFits(p)'
  BY DEF CacheIInv, ReadFits
<1> QED
  BY <1>1, <1>2, <1>3 DEF CacheIInv

LEMMA RestingRequest == AtRest \in CacheRequest /\ AtRest.pc = "idle" /\ AtRest.data = 0
BY DEF AtRest, CacheRequest, CachePcs, Disabled

LEMMA HeldRequest ==
  ASSUME CacheTypes, NEW r \in WebReplicas
  PROVE  /\ Held(AtRest, r) \in CacheRequest /\ Held(AtRest, r).db = hConn[r].db
         /\ Held(AtRest, r).data = 0
BY DEF Held, AtRest, CacheRequest, CachePcs, Disabled, CacheTypes

LEMMA MissKeeps ==
  ASSUME CacheIInv, NEW r \in WebReplicas, NEW p \in Readers, NEW l \in Lists, Miss(p, r, l)
  PROVE  CacheIInv'
<1> DEFINE held == Held(AtRest, r)
           new == [held EXCEPT !.pc = "miss", !.list = l]
<1>1. held \in CacheRequest /\ held.db = hConn[r].db /\ hConn[r].db \in DBs
  BY HeldRequest DEF CacheIInv, CacheTypes, Miss
<1> HIDE DEF held
<1>2. new \in CacheRequest /\ new.pc = "miss" /\ new.db \in DBs /\ new.list \in Lists
  BY <1>1 DEF CacheRequest, CachePcs
<1>3. hRead' = [hRead EXCEPT ![p] = new] /\ UNCHANGED << hData, hConn, hStore, hDone, hWrite >>
  BY DEF Miss, held
<1> HIDE DEF new
<1> QED
  BY <1>2, <1>3, ReaderMoves

LEMMA AskKeeps ==
  ASSUME CacheIInv, NEW p \in Readers, AskDatabase(p)
  PROVE  CacheIInv'
<1> DEFINE q == hRead[p]
           new == [q EXCEPT !.pc = "answer", !.data = hData, !.seen = hDone[q.db][q.list]]
<1>1. q \in CacheRequest /\ q.db \in DBs /\ q.list \in Lists
  BY DEF AskDatabase, CacheIInv, CacheTypes, ReadFits
<1>2. hData \in Nat /\ hDone[q.db][q.list] \in Nat /\ hDone[q.db][q.list] <= hData
  BY <1>1, ResponseCacheAssumption DEF CacheIInv, CacheTypes, ClearedFits
<1>3. hRead' = [hRead EXCEPT ![p] = new] /\ UNCHANGED << hData, hConn, hStore, hDone, hWrite >>
  BY DEF AskDatabase
<1> HIDE DEF q
<1>4. /\ new \in CacheRequest /\ new.db = q.db /\ new.list = q.list
      /\ new.data = hData /\ new.seen = hDone[q.db][q.list]
  BY <1>1, <1>2 DEF CacheRequest, CachePcs
<1>5. new.data >= new.seen /\ new.seen <= hDone[new.db][new.list]
  BY <1>2, <1>4
<1> HIDE DEF new
<1> QED
  BY <1>1, <1>3, <1>4, <1>5, ReaderMoves

\* A list that is stored is at least as new as the last clearing, or a clearing
\* came between the answer and this step.
LEMMA SetJSONKeeps ==
  ASSUME CacheIInv, NEW p \in Readers, SetJSON(p)
  PROVE  CacheIInv'
<1> DEFINE q == hRead[p]
           entry == [data |-> q.data, crossed |-> hDone[q.db][q.list] # q.seen]
<1>1. /\ q \in CacheRequest /\ q.db \in DBs /\ q.list \in Lists /\ q.data >= q.seen
      /\ hStore' = [hStore EXCEPT ![q.db][q.list] = entry]
      /\ hRead' = [hRead EXCEPT ![p] = AtRest] /\ UNCHANGED << hData, hConn, hDone, hWrite >>
  BY DEF SetJSON, CacheIInv, CacheTypes, ReadFits
<1>2. entry \in CacheEntry /\ (entry.crossed \/ entry.data >= hDone[q.db][q.list])
  <2>1. q.data \in Nat
    BY <1>1 DEF CacheRequest
  <2>2. entry \in CacheEntry
    BY <2>1 DEF CacheEntry
  <2>3. hDone[q.db][q.list] = q.seen => entry.data >= hDone[q.db][q.list]
    BY <1>1
  <2>4. hDone[q.db][q.list] # q.seen => entry.crossed
    OBVIOUS
  <2> QED
    BY <2>2, <2>3, <2>4
<1> HIDE DEF entry
<1>3. /\ hStore' \in [DBs -> [Lists -> CacheEntry]]
      /\ \A d \in DBs, l \in Lists : hStore'[d][l] = IF d = q.db /\ l = q.list THEN entry ELSE hStore[d][l]
  BY <1>1, <1>2 DEF CacheIInv, CacheTypes
<1> HIDE DEF q
<1>4. StaleOnlyByCrossing'
  BY <1>1, <1>2, <1>3 DEF CacheIInv, StaleOnlyByCrossing
<1>5. CacheTypes' /\ ClearedFits'
  BY <1>1, <1>3, RestingRequest DEF CacheIInv, CacheTypes, ClearedFits
<1>6. ASSUME NEW o \in Readers PROVE ReadFits(o)'
  <2>1. ReadFits(o) /\ hRead'[p] = AtRest /\ (o # p => hRead'[o] = hRead[o])
    BY <1>1 DEF CacheIInv, CacheTypes
  <2> QED
    BY <1>1, <2>1, RestingRequest DEF ReadFits
<1> QED
  BY <1>4, <1>5, <1>6 DEF CacheIInv

LEMMA ExpiryKeeps ==
  ASSUME CacheIInv, NEW d \in DBs, NEW l \in Lists, EntryExpires(d, l)
  PROVE  CacheIInv'
<1>1. /\ hStore' \in [DBs -> [Lists -> CacheEntry]]
      /\ \A e \in DBs, m \in Lists : hStore'[e][m] \in {hStore[e][m], NoEntryYet}
  BY DEF EntryExpires, CacheIInv, CacheTypes, NoEntryYet, CacheEntry
<1>2. StaleOnlyByCrossing'
  BY <1>1 DEF EntryExpires, CacheIInv, StaleOnlyByCrossing
<1> QED
  BY <1>1, <1>2 DEF EntryExpires, CacheIInv, CacheTypes, ClearedFits, ReadFits

LEMMA WriteBeginsKeeps ==
  ASSUME CacheIInv, NEW w \in Writers, NEW r \in WebReplicas, WriteBegins(w, r)
  PROVE  CacheIInv'
<1> DEFINE held == Held(AtRest, r)
           new == [held EXCEPT !.pc = "handler"]
<1>1. held \in CacheRequest /\ held.data = 0
  BY HeldRequest DEF CacheIInv
<1> HIDE DEF held
<1>2. new \in CacheRequest /\ new.data = 0
  BY <1>1 DEF CacheRequest, CachePcs
<1>3. hWrite' = [hWrite EXCEPT ![w] = new] /\ UNCHANGED << hData, hConn, hStore, hDone, hRead >>
  BY DEF WriteBegins, held
<1> HIDE DEF new
<1>4. hData \in 0..MaxWrites /\ hData >= hData /\ 0 <= hData
  BY ResponseCacheAssumption DEF CacheIInv, CacheTypes
<1> QED
  BY <1>2, <1>3, <1>4, WriterMoves

LEMMA CommitKeeps ==
  ASSUME CacheIInv, NEW w \in Writers, Commit(w)
  PROVE  CacheIInv'
<1> DEFINE new == [hWrite[w] EXCEPT !.pc = "clear", !.data = hData + 1, !.left = Lists]
<1>1. hData \in Nat /\ hData' = hData + 1 /\ hData' \in 0..MaxWrites
  BY ResponseCacheAssumption DEF Commit, CacheIInv, CacheTypes
<1>2. new \in CacheRequest /\ new.data = hData + 1
  <2>1. hWrite[w] \in CacheRequest /\ hData + 1 \in Nat /\ "clear" \in CachePcs
    BY <1>1 DEF CacheIInv, CacheTypes, CachePcs
  <2> DEFINE q == hWrite[w]
             k == hData + 1
  <2> HIDE DEF q, k
  <2>2. [q EXCEPT !.pc = "clear", !.data = k, !.left = Lists] \in CacheRequest
    BY <2>1 DEF CacheRequest, q, k
  <2>3. [q EXCEPT !.pc = "clear", !.data = k, !.left = Lists].data = k
    BY <2>1 DEF CacheRequest, q
  <2> QED
    BY <2>2, <2>3 DEF q, k
<1>3. hWrite' = [hWrite EXCEPT ![w] = new] /\ UNCHANGED << hConn, hStore, hDone, hRead >>
  BY DEF Commit
<1> HIDE DEF new
<1>4. hData' >= hData /\ new.data <= hData'
  BY <1>1, <1>2
<1> QED
  BY <1>1, <1>2, <1>3, <1>4, WriterMoves

LEMMA DelPrefixKeeps ==
  ASSUME CacheIInv, NEW w \in Writers, NEW l \in Lists, DelPrefix(w, l)
  PROVE  CacheIInv'
<1> DEFINE q == hWrite[w]
<1>1. /\ q \in CacheRequest /\ q.db \in DBs /\ q.data \in Nat /\ q.data <= hData
      /\ hStore' = [hStore EXCEPT ![q.db][l] = NoEntryYet]
      /\ hDone' = [hDone EXCEPT ![q.db][l] = IF @ > q.data THEN @ ELSE q.data]
      /\ hWrite' = [hWrite EXCEPT ![w] = [q EXCEPT !.left = @ \ {l}]]
      /\ UNCHANGED << hData, hConn, hRead >>
  BY DEF DelPrefix, Enabled, CacheIInv, CacheTypes, ClearedFits, CacheRequest
<1>2. /\ hStore' \in [DBs -> [Lists -> CacheEntry]] /\ hDone' \in [DBs -> [Lists -> Nat]]
      /\ \A d \in DBs, m \in Lists :
           IF d = q.db /\ m = l
           THEN /\ hStore'[d][m] = NoEntryYet
                /\ hDone'[d][m] = IF hDone[d][m] > q.data THEN hDone[d][m] ELSE q.data
           ELSE hStore'[d][m] = hStore[d][m] /\ hDone'[d][m] = hDone[d][m]
  BY <1>1 DEF CacheIInv, CacheTypes, NoEntryYet, CacheEntry
<1>3. [q EXCEPT !.left = @ \ {l}] \in CacheRequest /\ [q EXCEPT !.left = @ \ {l}].data = q.data
  BY <1>1 DEF CacheRequest
<1>4. hWrite' \in [Writers -> CacheRequest] /\ \A v \in Writers : hWrite'[v].data = hWrite[v].data
  BY <1>1, <1>3 DEF CacheIInv, CacheTypes
<1> HIDE DEF q
<1>5. \A d \in DBs, m \in Lists : hDone[d][m] \in Nat /\ hDone[d][m] <= hData
  BY DEF CacheIInv, CacheTypes, ClearedFits
<1>6. \A d \in DBs, m \in Lists : hDone'[d][m] >= hDone[d][m] /\ hDone'[d][m] <= hData
  BY <1>1, <1>2, <1>5
<1>7. StaleOnlyByCrossing'
  BY <1>2 DEF CacheIInv, StaleOnlyByCrossing
<1>8. CacheTypes' /\ ClearedFits'
  BY <1>1, <1>2, <1>4, <1>6 DEF CacheIInv, CacheTypes, ClearedFits
<1>9. ASSUME NEW p \in Readers PROVE ReadFits(p)'
  <2>1. ReadFits(p) /\ hRead'[p] = hRead[p] /\ hRead[p] \in CacheRequest
    BY <1>1 DEF CacheIInv, CacheTypes
  <2>2. \A d \in DBs, m \in Lists : hDone'[d][m] \in Nat
    BY <1>2
  <2>3. CASE hRead[p].pc \in {"miss", "answer"}
    <3> DEFINE d == hRead[p].db
               m == hRead[p].list
    <3>1. /\ d \in DBs /\ m \in Lists /\ hRead[p].seen \in Nat
          /\ hRead[p].pc = "answer" => hRead[p].data >= hRead[p].seen /\ hRead[p].seen <= hDone[d][m]
      BY <2>1, <2>3 DEF ReadFits, CacheRequest
    <3>2. hRead[p].seen <= hDone[d][m] => hRead[p].seen <= hDone'[d][m]
      <4> HIDE DEF d, m
      <4> QED
        BY <1>5, <1>6, <2>2, <3>1
    <3> QED
      BY <2>1, <3>1, <3>2 DEF ReadFits
  <2> QED
    BY <2>1, <2>3 DEF ReadFits
<1> QED
  BY <1>7, <1>8, <1>9 DEF CacheIInv

LEMMA CacheKeeps ==
  ASSUME CacheIInv, CacheNext
  PROVE  CacheIInv'
<1>1. ASSUME NEW p \in Readers, NotKept(p) PROVE CacheIInv'
  BY <1>1, ReaderMoves, RestingRequest DEF NotKept
<1>2. ASSUME NEW w \in Writers, WriteEnds(w) PROVE CacheIInv'
  <2>1. hData \in 0..MaxWrites /\ hData >= hData /\ 0 <= hData
    BY ResponseCacheAssumption DEF CacheIInv, CacheTypes
  <2> QED
    BY <1>2, <2>1, WriterMoves, RestingRequest DEF WriteEnds
<1> QED
  BY <1>1, <1>2, ReloadKeeps, MissKeeps, WriteBeginsKeeps, AskKeeps, SetJSONKeeps, ExpiryKeeps,
     CommitKeeps, DelPrefixKeeps DEF CacheNext

LEMMA CacheStays ==
  ASSUME CacheIInv, UNCHANGED hVars
  PROVE  CacheIInv'
BY DEF CacheIInv, hVars, CacheTypes, ClearedFits, ReadFits, StaleOnlyByCrossing

LEMMA CacheSound == CacheIInv => CacheInv
BY DEF CacheIInv, CacheTypes, ReadFits, CacheInv, CacheTypeOK, AnswersAreNew
-----------------------------------------------------------------------------
(* External files *)

Confs == [ExtKeys -> Values \cup {NotListed}]
Contents == [kind : {"none", "bin", "script", "page"}, by : Urls \cup {"none", "server", "upload"}, fresh : BOOLEAN]

\* The steps at which an asker is about one file of one entry.
FilePcs == {"lock", "fetch", "failed", "seed", "open", "served", "put"}
AskPcs == FilePcs \cup {"idle", "next", "apply", "saved"}
AskRecord ==
  [op : {"none", "get", "refresh", "all", "prewarm", "put", "save"}, pc : AskPcs,
   entry : Values \cup {NotListed}, file : (Names \cup {""}) \X BOOLEAN, local : BOOLEAN,
   todo : SUBSET (DOMAIN KeyOrder), got : Contents, conf : Confs \cup {<< >>}, late : BOOLEAN]

ExternalTypes ==
  /\ xConf \in Confs
  /\ xCache \in [Files -> Contents] /\ xLocal \in [Files -> Contents]
  /\ xLock \in [Files -> Askers \cup {""}]
  /\ xAsk \in [Askers -> AskRecord]
  /\ xFetched \in [Files -> {0, 1}]

\* What may lie under the name of a file: of a name with linux in it anything
\* but a page, else a binary if the file ends in .exe, and no page if not.
FileValid(f, c) ==
  c # NoContent => IF f[1] \in LinuxNames THEN c.kind # "page"
                   ELSE IF f[2] THEN c.kind = "bin" ELSE c.kind # "page"

\* No file is fetched twice while it is there and not old.
FileFits(f) ==
  /\ FileValid(f, xCache[f]) /\ FileValid(f, xLocal[f])
  /\ ~xCache[f].fresh => xFetched[f] = 0

\* No configured value repeats a built-in one of its name.
Stripped(c) == \A k \in ExtKeys : c[k] \notin builtinValue(Fold[k])

\* Which of the lists agree on every name but one.
AgreeBut(n, c, d) == \A k \in ExtKeys : Fold[k] # n => c[k] = d[k]

\* What an asker has found out is still true when it acts on it.
AskFits(p, a) ==
  /\ a.pc \in FilePcs => a.entry \in Values /\ \E n \in Names : a.file = FileName(n, a.entry)
  /\ a.pc = "fetch" => xLock[a.file] = p /\ ~xCache[a.file].fresh
  /\ a.pc = "next" => a.op \in {"all", "prewarm"}
  /\ a.op \in {"all", "prewarm"} => a.conf \in Confs /\ a.todo \subseteq Parse(a.conf)
  /\ a.pc \in {"lock", "fetch"} => a.op \in {"get", "refresh", "all", "prewarm"}
  /\ a.pc = "seed" => a.entry.script
  /\ a.pc = "served" => a.got # NoContent
  /\ a.pc \in {"served", "put"} => FileValid(a.file, a.got)
  /\ a.pc \in {"apply", "saved"} => a.op = "save" /\ a.conf \in Confs
  /\ a.pc = "apply" => Stripped(a.conf)
  /\ a.pc = "apply" /\ ~a.late => AgreeBut(a.file[1], Effective(a.conf), Effective(xConf))
  /\ a.pc = "saved" /\ ~a.late => AgreeBut(a.file[1], Effective(xConf), a.conf)

ExternalIInv ==
  /\ ExternalTypes
  /\ \A f \in Files : FileFits(f)
  /\ \A p \in Askers : AskFits(p, xAsk[p])
  /\ Stripped(xConf) /\ xDowngraded = FALSE

LEMMA Constants ==
  /\ NotListed \notin Values /\ NoContent \in Contents
  /\ \A k \in ExtKeys : Fold[k] \in Names
  /\ \A i \in DOMAIN KeyOrder : KeyOrder[i] \in ExtKeys
  /\ DOMAIN KeyOrder \in SUBSET Nat
  /\ \A n \in Names : builtinValue(n) \subseteq Values
  /\ Files = Names \X BOOLEAN
<1>1. NotListed.url = "" /\ \A v \in Values : v.url \in Urls
  BY DEF NotListed, Values
<1>2. NotListed \notin Values
  BY <1>1, ExternalFilesAssumption
<1>3. \A k \in ExtKeys : Fold[k] \in Names
  BY DEF Names
<1>4. /\ \A i \in DOMAIN KeyOrder : KeyOrder[i] \in ExtKeys
      /\ DOMAIN KeyOrder \in SUBSET Nat
  <2>1. KeyOrder \in Seq(ExtKeys)
    BY ExternalFilesAssumption
  <2>2. Len(KeyOrder) \in Nat /\ DOMAIN KeyOrder = 1..Len(KeyOrder)
    BY <2>1
  <2> QED
    BY <2>2 DEF ExtKeys, Range
<1>5. \A n \in Names : builtinValue(n) \subseteq Values
  BY ExternalFilesAssumption DEF builtinValue
<1> QED
  BY <1>2, <1>3, <1>4, <1>5 DEF Files, NoContent, Contents

LEMMA ListsAreLists ==
  ASSUME NEW c \in Confs
  PROVE  Effective(c) \in Confs /\ StripBuiltinDefaults(c) \in Confs
BY ExternalFilesAssumption DEF Effective, StripBuiltinDefaults, Confs

\* Nothing built in is ever missing.
LEMMA BuiltinsAreListed ==
  ASSUME NEW c \in Confs, NEW k \in DOMAIN Builtins
  PROVE  Lookup(Effective(c), Fold[k]) # {}
<1>1. k \in ExtKeys /\ Builtins[k] \in Values
  BY ExternalFilesAssumption
<1>2. PICK e \in ExtKeys : Fold[e] = Fold[k] /\ Effective(c)[e] # NotListed
  <2>1. CASE hasNameFold(c, Fold[k])
    BY <2>1 DEF hasNameFold, Effective
  <2>2. CASE ~hasNameFold(c, Fold[k])
    BY <1>1, <2>2, Constants DEF Effective
  <2> QED
    BY <2>1, <2>2
<1>3. PICK i \in DOMAIN KeyOrder : KeyOrder[i] = e
  BY DEF ExtKeys, Range
<1> QED
  BY <1>2, <1>3 DEF Lookup, Parse

\* A save that changes the keys of one name leaves every other name as it was,
\* although it writes down what is in effect and strips what is built in.
LEMMA StrippingKeeps ==
  ASSUME NEW c \in Confs, NEW d \in Confs, NEW n, Stripped(c), AgreeBut(n, d, Effective(c))
  PROVE  /\ Stripped(StripBuiltinDefaults(d))
         /\ AgreeBut(n, Effective(StripBuiltinDefaults(d)), Effective(c))
<1> DEFINE b == Effective(c)
           e == StripBuiltinDefaults(d)
<1>1. b \in Confs /\ e \in Confs
  BY ListsAreLists
<1>2. \A k \in ExtKeys : e[k] = IF d[k] \in builtinValue(Fold[k]) THEN NotListed ELSE d[k]
  BY DEF StripBuiltinDefaults
<1>3. \A k \in ExtKeys :
        b[k] = IF k \in DOMAIN Builtins /\ ~hasNameFold(c, Fold[k]) THEN Builtins[k] ELSE c[k]
  BY DEF Effective
<1>4. \A k \in ExtKeys :
        Effective(e)[k] = IF k \in DOMAIN Builtins /\ ~hasNameFold(e, Fold[k]) THEN Builtins[k] ELSE e[k]
  BY DEF Effective
<1> HIDE DEF b, e
<1>5. Stripped(e)
  BY <1>2, Constants DEF Stripped
<1>6. ASSUME NEW k \in ExtKeys, Fold[k] # n PROVE Effective(e)[k] = b[k]
  <2>1. \A j \in ExtKeys : Fold[j] = Fold[k] =>
          /\ d[j] = b[j] /\ c[j] \notin builtinValue(Fold[k])
          /\ j \in DOMAIN Builtins => Builtins[j] \in builtinValue(Fold[k])
    BY <1>6 DEF AgreeBut, Stripped, builtinValue, b
  <2>2. CASE hasNameFold(c, Fold[k])
    <3>1. \A j \in ExtKeys : Fold[j] = Fold[k] => b[j] = c[j] /\ e[j] = c[j]
      BY <1>2, <1>3, <2>1, <2>2
    <3>2. hasNameFold(e, Fold[k])
      BY <2>2, <3>1 DEF hasNameFold
    <3> QED
      BY <1>4, <3>1, <3>2
  <2>3. CASE ~hasNameFold(c, Fold[k])
    <3>1. \A j \in ExtKeys : Fold[j] = Fold[k] =>
            /\ c[j] = NotListed
            /\ b[j] = IF j \in DOMAIN Builtins THEN Builtins[j] ELSE NotListed
      BY <1>3, <2>3 DEF hasNameFold
    <3>2. \A j \in ExtKeys : Fold[j] = Fold[k] => e[j] = NotListed
      BY <1>2, <2>1, <3>1
    <3>3. ~hasNameFold(e, Fold[k])
      BY <3>2 DEF hasNameFold
    <3> QED
      BY <1>4, <3>1, <3>2, <3>3
  <2> QED
    BY <2>2, <2>3
<1> QED
  BY <1>5, <1>6 DEF AgreeBut, b, e

LEMMA ExternalFromTheStart == ExternalInit => ExternalIInv
<1> SUFFICES ASSUME ExternalInit PROVE ExternalIInv
  OBVIOUS
<1>1. Idle \in AskRecord /\ Idle.pc = "idle" /\ Idle.op = "none"
  BY Constants DEF Idle, AskRecord, AskPcs, FilePcs
<1>2. ExternalTypes
  BY <1>1, Constants DEF ExternalInit, ExternalTypes, Confs
<1>3. \A f \in Files : FileFits(f)
  BY DEF ExternalInit, FileFits, FileValid, NoContent
<1>4. \A p \in Askers : AskFits(p, xAsk[p])
  BY <1>1 DEF ExternalInit, AskFits, FilePcs
<1>5. Stripped(xConf) /\ xDowngraded = FALSE
  BY Constants DEF ExternalInit, Stripped
<1> QED
  BY <1>2, <1>3, <1>4, <1>5 DEF ExternalIInv

\* A step that changes what one asker is at.
LEMMA AskMoves ==
  ASSUME ExternalIInv, NEW p \in Askers, NEW new \in AskRecord, xAsk' = [xAsk EXCEPT ![p] = new],
         UNCHANGED << xConf, xCache, xLocal, xLock, xFetched, xDowngraded >>, AskFits(p, new)
  PROVE  ExternalIInv'
<1>1. ExternalTypes' /\ (\A f \in Files : FileFits(f)') /\ Stripped(xConf)' /\ (xDowngraded = FALSE)'
  BY DEF ExternalIInv, ExternalTypes, FileFits, Stripped
<1>2. ASSUME NEW q \in Askers PROVE AskFits(q, xAsk[q])'
  <2>1. AskFits(q, xAsk[q]) /\ xAsk'[q] = IF q = p THEN new ELSE xAsk[q]
    BY DEF ExternalIInv, ExternalTypes
  <2>2. AskFits(q, xAsk'[q])
    BY <2>1
  <2> QED
    BY <2>2 DEF AskFits
<1> QED
  BY <1>1, <1>2 DEF ExternalIInv

\* What a request begins with.
LEMMA EntryOfAFile ==
  ASSUME NEW n \in Names, NEW v \in Values
  PROVE  /\ Entry(n, v) \in AskRecord /\ Entry(n, v).entry = v /\ Entry(n, v).file = FileName(n, v)
         /\ FileName(n, v) \in Files /\ Entry(n, v).op = "none"
BY Constants DEF Entry, Idle, AskRecord, AskPcs, FilePcs, FileName

\* A step that changes the files of one name, or one lock: nobody who fetches
\* loses the lock or finds a file that is not old.
LEMMA FilesMove ==
  ASSUME ExternalIInv, UNCHANGED << xConf, xDowngraded >>, ExternalTypes',
         \A f \in Files : FileFits(f)',
         NEW P \in SUBSET Askers,
         \A q \in Askers \ P : xAsk'[q] = xAsk[q],
         \A q \in Askers \ P : \A f \in Files : xLock[f] = q /\ ~xCache[f].fresh =>
             xLock'[f] = q /\ ~xCache'[f].fresh,
         \A p \in P : AskFits(p, xAsk[p])'
  PROVE  ExternalIInv'
<1>1. ASSUME NEW q \in Askers \ P PROVE AskFits(q, xAsk[q])'
  <2>1. AskFits(q, xAsk[q]) /\ xAsk'[q] = xAsk[q]
    BY DEF ExternalIInv
  <2>2. xAsk[q].pc = "fetch" => xAsk[q].file \in Files
    <3> SUFFICES ASSUME xAsk[q].pc = "fetch" PROVE xAsk[q].file \in Files
      OBVIOUS
    <3>1. PICK n \in Names : xAsk[q].file = FileName(n, xAsk[q].entry) /\ xAsk[q].entry \in Values
      BY <2>1 DEF AskFits, FilePcs
    <3> QED
      BY <3>1, EntryOfAFile
  <2>3. xAsk'[q].pc = "fetch" => xLock'[xAsk'[q].file] = q /\ ~xCache'[xAsk'[q].file].fresh
    BY <2>1, <2>2 DEF AskFits
  <2> QED
    BY <2>1, <2>3 DEF AskFits
<1>2. \A q \in Askers : AskFits(q, xAsk[q])'
  BY <1>1
<1> QED
  BY <1>2 DEF ExternalIInv, Stripped

LEMMA FileMoves ==
  ASSUME ExternalIInv, UNCHANGED << xConf, xDowngraded >>, ExternalTypes',
         \A f \in Files : FileFits(f)',
         NEW p \in Askers,
         \A q \in Askers \ {p} : xAsk'[q] = xAsk[q],
         \A q \in Askers \ {p} : \A f \in Files : xLock[f] = q /\ ~xCache[f].fresh =>
             xLock'[f] = q /\ ~xCache'[f].fresh,
         AskFits(p, xAsk[p])'
  PROVE  ExternalIInv'
<1> DEFINE P == {p}
<1>1. P \in SUBSET Askers /\ \A q \in P : AskFits(q, xAsk[q])'
  OBVIOUS
<1> QED
  BY <1>1, FilesMove

LEMMA FilesMoveAlone ==
  ASSUME ExternalIInv, UNCHANGED << xConf, xLock, xAsk, xDowngraded >>, ExternalTypes',
         \A f \in Files : FileFits(f)',
         \A f \in Files : ~xCache[f].fresh => ~xCache'[f].fresh
  PROVE  ExternalIInv'
<1> DEFINE P == {}
<1>1. P \in SUBSET Askers /\ \A q \in P : AskFits(q, xAsk[q])'
  OBVIOUS
<1> QED
  BY <1>1, FilesMove

LEMMA IdleFits == Idle \in AskRecord /\ \A p \in Askers : AskFits(p, Idle)
BY Constants DEF Idle, AskRecord, AskPcs, FilePcs, AskFits

LEMMA DownloadKeeps ==
  ASSUME ExternalIInv, NEW p \in Askers, NEW n \in Names, NEW v \in Values, NEW localOnly \in BOOLEAN,
         ExternalBinaryDownload(p, n, v, localOnly)
  PROVE  ExternalIInv'
<1> DEFINE e == [Entry(n, v) EXCEPT !.op = "get"]
<1>1. e \in AskRecord /\ e.entry = v /\ e.file = FileName(n, v) /\ e.op = "get"
  <2> DEFINE b == Entry(n, v)
  <2>1. b \in AskRecord /\ b.entry = v /\ b.file = FileName(n, v)
    BY EntryOfAFile
  <2> HIDE DEF b
  <2>2. [b EXCEPT !.op = "get"] \in AskRecord
    BY <2>1 DEF AskRecord
  <2>3. LET c == [b EXCEPT !.op = "get"] IN c.entry = v /\ c.file = FileName(n, v) /\ c.op = "get"
    BY <2>1 DEF AskRecord
  <2> QED
    BY <2>2, <2>3 DEF b
<1>2. UNCHANGED << xConf, xCache, xLocal, xLock, xFetched, xDowngraded >>
  BY DEF ExternalBinaryDownload
<1>3. \/ xAsk' = [xAsk EXCEPT ![p] = [e EXCEPT !.pc = "open", !.local = TRUE]]
      \/ \E pc \in {"open", "lock", "seed"} :
           /\ xAsk' = [xAsk EXCEPT ![p] = [e EXCEPT !.pc = pc]]
           /\ pc = "seed" => ~Exists(e.file) /\ (Exists(e.file) \/ isDefaultEntry(n, v))
  BY DEF ExternalBinaryDownload, Now
<1> HIDE DEF e
<1>4. CASE xAsk' = [xAsk EXCEPT ![p] = [e EXCEPT !.pc = "open", !.local = TRUE]]
  <2> DEFINE new == [e EXCEPT !.pc = "open", !.local = TRUE]
  <2>1. new \in AskRecord /\ new.pc = "open" /\ new.op = "get" /\ new.entry = v /\ new.file = FileName(n, v)
    BY <1>1 DEF AskRecord, AskPcs, FilePcs
  <2> HIDE DEF new
  <2>2. AskFits(p, new)
    BY <2>1 DEF AskFits, FilePcs
  <2> QED
    BY <1>2, <1>4, <2>1, <2>2, AskMoves DEF new
<1>5. ASSUME NEW pc \in {"open", "lock", "seed"}, xAsk' = [xAsk EXCEPT ![p] = [e EXCEPT !.pc = pc]],
             pc = "seed" => ~Exists(e.file) /\ (Exists(e.file) \/ isDefaultEntry(n, v))
      PROVE  ExternalIInv'
  <2> DEFINE new == [e EXCEPT !.pc = pc]
  <2>1. new \in AskRecord /\ new.pc = pc /\ new.op = "get" /\ new.entry = v /\ new.file = FileName(n, v)
    BY <1>1 DEF AskRecord, AskPcs, FilePcs
  <2> HIDE DEF new
  <2>2. pc = "seed" => v.script
    BY <1>5 DEF isDefaultEntry
  <2>3. AskFits(p, new)
    BY <2>1, <2>2 DEF AskFits, FilePcs
  <2> QED
    BY <1>2, <1>5, <2>1, <2>3, AskMoves DEF new
<1> QED
  BY <1>3, <1>4, <1>5

LEMMA RefreshKeeps ==
  ASSUME ExternalIInv, NEW p \in Askers, NEW n \in Names, NEW v \in Values, RefreshExternalBinary(p, n, v)
  PROVE  ExternalIInv'
<1> DEFINE new == [Entry(n, v) EXCEPT !.op = "refresh", !.pc = "lock"]
<1>1. new \in AskRecord /\ new.pc = "lock" /\ new.op = "refresh" /\ new.entry = v /\ new.file = FileName(n, v)
  <2> DEFINE b == Entry(n, v)
  <2>1. b \in AskRecord /\ b.entry = v /\ b.file = FileName(n, v)
    BY EntryOfAFile
  <2> HIDE DEF b
  <2>2. [b EXCEPT !.op = "refresh", !.pc = "lock"] \in AskRecord
    BY <2>1 DEF AskRecord, AskPcs, FilePcs
  <2>3. LET c == [b EXCEPT !.op = "refresh", !.pc = "lock"]
        IN  c.entry = v /\ c.file = FileName(n, v) /\ c.op = "refresh" /\ c.pc = "lock"
    BY <2>1 DEF AskRecord
  <2> QED
    BY <2>2, <2>3 DEF b
<1>2. /\ xAsk' = [xAsk EXCEPT ![p] = new]
      /\ UNCHANGED << xConf, xCache, xLocal, xLock, xFetched, xDowngraded >>
  BY DEF RefreshExternalBinary, Now
<1> HIDE DEF new
<1>3. AskFits(p, new)
  BY <1>1 DEF AskFits, FilePcs
<1> QED
  BY <1>1, <1>2, <1>3, AskMoves

LEMMA TakesListKeeps ==
  ASSUME ExternalIInv, NEW p \in Askers, NEW op \in {"all", "prewarm"}, TakesList(p, op)
  PROVE  ExternalIInv'
<1> DEFINE new == [Idle EXCEPT !.op = op, !.pc = "next", !.conf = Effective(xConf),
                               !.todo = Parse(Effective(xConf))]
<1>1. Effective(xConf) \in Confs /\ Parse(Effective(xConf)) \in SUBSET (DOMAIN KeyOrder)
  BY ListsAreLists DEF ExternalIInv, ExternalTypes, Parse
<1>2. /\ new \in AskRecord /\ new.pc = "next" /\ new.op = op /\ new.conf \in Confs
      /\ new.todo \subseteq Parse(new.conf)
  BY <1>1, IdleFits DEF AskRecord, AskPcs
<1>3. /\ xAsk' = [xAsk EXCEPT ![p] = new]
      /\ UNCHANGED << xConf, xCache, xLocal, xLock, xFetched, xDowngraded >>
  BY DEF TakesList, Now
<1> HIDE DEF new
<1>4. AskFits(p, new)
  BY <1>2 DEF AskFits, FilePcs
<1> QED
  BY <1>2, <1>3, <1>4, AskMoves

LEMMA NextOfListKeeps ==
  ASSUME ExternalIInv, NEW p \in Askers, NextOfList(p)
  PROVE  ExternalIInv'
<1> DEFINE r == xAsk[p]
           i == Min(r.todo)
           k == KeyOrder[i]
           f == FileName(Fold[k], r.conf[k])
<1>1. /\ r \in AskRecord /\ r.pc = "next" /\ r.op \in {"all", "prewarm"} /\ r.conf \in Confs
      /\ r.todo \subseteq Parse(r.conf) /\ AskFits(p, r)
      /\ UNCHANGED << xConf, xCache, xLocal, xLock, xFetched, xDowngraded >>
  BY DEF NextOfList, ExternalIInv, ExternalTypes, AskFits
<1>2. CASE r.todo = {}
  BY <1>1, <1>2, IdleFits, AskMoves DEF NextOfList, Now
<1>3. CASE r.todo # {}
  <2>1. r.todo \in SUBSET Nat
    BY <1>1, Constants DEF AskRecord
  <2>2. i \in r.todo
    BY <1>3, <2>1, MinOfNumbers
  <2>3. k \in ExtKeys /\ r.conf[k] \in Values /\ Fold[k] \in Names
    BY <1>1, <2>2, Constants DEF Parse, Confs
  <2>4. PICK pc \in {"next", "lock"} :
          xAsk' = [xAsk EXCEPT ![p] = [r EXCEPT !.todo = r.todo \ {i}, !.entry = r.conf[k], !.file = f,
                                                !.pc = pc]]
    BY <1>3 DEF NextOfList, Now
  <2> DEFINE new == [r EXCEPT !.todo = r.todo \ {i}, !.entry = r.conf[k], !.file = f, !.pc = pc]
  <2>5. f \in (Names \cup {""}) \X BOOLEAN
    BY <2>3, Constants DEF FileName
  <2>6. new \in AskRecord
    BY <1>1, <2>3, <2>5 DEF AskRecord, AskPcs, FilePcs
  <2>7. /\ new.pc = pc /\ new.op = r.op /\ new.entry = r.conf[k] /\ new.file = FileName(Fold[k], r.conf[k])
        /\ new.conf = r.conf /\ new.todo \subseteq r.todo
    BY <1>1 DEF AskRecord
  <2> HIDE DEF new
  <2>8. AskFits(p, new)
    BY <1>1, <2>3, <2>7 DEF AskFits, FilePcs
  <2> QED
    BY <1>1, <2>4, <2>6, <2>8, AskMoves DEF new
<1> QED
  BY <1>2, <1>3

LEMMA AtRecord ==
  ASSUME NEW p, xAsk[p] \in AskRecord, NEW pc \in AskPcs
  PROVE  /\ At(p, pc) \in AskRecord /\ At(p, pc).pc = pc
         /\ LET a == At(p, pc)
            IN  /\ a.op = xAsk[p].op /\ a.entry = xAsk[p].entry /\ a.file = xAsk[p].file
                /\ a.todo = xAsk[p].todo /\ a.got = xAsk[p].got /\ a.conf = xAsk[p].conf /\ a.late = xAsk[p].late
BY DEF At, AskRecord

\* Whoever is about a file goes on with it at another step.
LEMMA AtFits ==
  ASSUME ExternalIInv, NEW p \in Askers, xAsk[p].pc \in FilePcs,
         NEW pc \in {"failed", "seed", "open", "next"},
         pc = "seed" => xAsk[p].entry.script,
         pc = "next" => xAsk[p].op \in {"all", "prewarm"}
  PROVE  At(p, pc) \in AskRecord /\ AskFits(p, At(p, pc)) /\ At(p, pc).pc # "fetch"
<1>1. xAsk[p] \in AskRecord /\ AskFits(p, xAsk[p]) /\ pc \in AskPcs
  BY DEF ExternalIInv, ExternalTypes, AskPcs, FilePcs
<1> DEFINE a == At(p, pc)
<1>2. /\ a \in AskRecord /\ a.pc = pc /\ a.op = xAsk[p].op /\ a.entry = xAsk[p].entry /\ a.file = xAsk[p].file
      /\ a.todo = xAsk[p].todo /\ a.conf = xAsk[p].conf
  BY <1>1, AtRecord
<1> HIDE DEF a
<1>3. AskFits(p, a)
  BY <1>1, <1>2 DEF AskFits, FilePcs
<1> QED
  BY <1>2, <1>3 DEF a

LEMMA OnwardFits ==
  ASSUME ExternalIInv, NEW p \in Askers, xAsk[p].pc \in {"lock", "fetch"}
  PROVE  Onward(p) \in AskRecord /\ AskFits(p, Onward(p)) /\ Onward(p).pc # "fetch"
<1>1. xAsk[p].op \in {"get", "refresh", "all", "prewarm"} /\ xAsk[p].pc \in FilePcs
  BY DEF ExternalIInv, AskFits, FilePcs
<1>2. Idle.pc = "idle"
  BY DEF Idle
<1> QED
  BY <1>1, <1>2, AtFits, IdleFits DEF Onward

\* The file an asker is about, and that what it has to say of it is right.
LEMMA FileOfAsker ==
  ASSUME ExternalIInv, NEW p \in Askers, xAsk[p].pc \in FilePcs
  PROVE  /\ xAsk[p].file \in Files /\ xAsk[p].entry \in Values /\ xAsk[p] \in AskRecord
         /\ xAsk[p].file[1] \in Names /\ xAsk[p].file[2] \in BOOLEAN
         /\ xAsk[p].file[2] = (~xAsk[p].entry.script /\ xAsk[p].file[1] \notin LinuxNames)
<1>1. AskFits(p, xAsk[p]) /\ xAsk[p] \in AskRecord
  BY DEF ExternalIInv, ExternalTypes
<1>2. PICK n \in Names : xAsk[p].file = FileName(n, xAsk[p].entry) /\ xAsk[p].entry \in Values
  BY <1>1 DEF AskFits
<1>3. xAsk[p].entry.script \in BOOLEAN
  BY <1>2 DEF Values
<1>4. xAsk[p].file[1] = n /\ xAsk[p].file[2] = (~xAsk[p].entry.script /\ n \notin LinuxNames)
  BY <1>2 DEF FileName
<1>5. xAsk[p].file \in Files
  BY <1>2, EntryOfAFile
<1> QED
  BY <1>1, <1>2, <1>3, <1>4, <1>5, Zenon

LEMMA ContentIsValid ==
  ASSUME NEW v, NEW f, v.script \in BOOLEAN, f[2] = (~v.script /\ f[1] \notin LinuxNames),
         NEW c, validateExternalContent(v, c.kind)
  PROVE  FileValid(f, c)
BY DEF FileValid, validateExternalContent

LEMMA ServedIsValid ==
  ASSUME NEW v, NEW f, v.script \in BOOLEAN, f[2] = (~v.script /\ f[1] \notin LinuxNames),
         NEW c, c # NoContent, FileValid(f, c), f[1] \notin LinuxNames
  PROVE  validateExternalContent(v, c.kind)
BY DEF FileValid, validateExternalContent

\* A step that puts something under the name of one file.
LEMMA FilePut ==
  ASSUME ExternalIInv, NEW f \in Files, NEW c \in Contents, NEW k \in {0, 1}, FileValid(f, c),
         ~c.fresh => k = 0, UNCHANGED xLocal,
         xCache' = [xCache EXCEPT ![f] = c], xFetched' = [xFetched EXCEPT ![f] = k]
  PROVE  /\ xCache' \in [Files -> Contents] /\ xFetched' \in [Files -> {0, 1}]
         /\ xCache'[f] = c /\ \A g \in Files \ {f} : xCache'[g] = xCache[g]
         /\ \A g \in Files : FileFits(g)'
<1>1. /\ xCache' \in [Files -> Contents] /\ xCache'[f] = c
      /\ \A g \in Files \ {f} : xCache'[g] = xCache[g]
  BY DEF ExternalIInv, ExternalTypes
<1>2. /\ xFetched' \in [Files -> {0, 1}] /\ xFetched'[f] = k
      /\ \A g \in Files \ {f} : xFetched'[g] = xFetched[g]
  BY DEF ExternalIInv, ExternalTypes
<1>3. ASSUME NEW g \in Files PROVE FileFits(g)'
  <2>1. FileFits(g)
    BY DEF ExternalIInv
  <2> QED
    BY <1>1, <1>2, <2>1 DEF FileFits, FileValid
<1> QED
  BY <1>1, <1>2, <1>3

LEMMA FileRemoved ==
  ASSUME ExternalIInv, NEW f \in Files, Removed(f), UNCHANGED xLocal
  PROVE  /\ xCache' \in [Files -> Contents] /\ xFetched' \in [Files -> {0, 1}]
         /\ ~xCache'[f].fresh /\ \A g \in Files \ {f} : xCache'[g] = xCache[g]
         /\ \A g \in Files : FileFits(g)'
<1>1. NoContent \in Contents /\ ~NoContent.fresh /\ FileValid(f, NoContent)
  BY Constants DEF NoContent, FileValid
<1>2. xCache' = [xCache EXCEPT ![f] = NoContent] /\ xFetched' = [xFetched EXCEPT ![f] = 0]
  BY DEF Removed, Cached
<1>3. /\ xCache' \in [Files -> Contents] /\ xFetched' \in [Files -> {0, 1}]
      /\ xCache'[f] = NoContent /\ \A g \in Files \ {f} : xCache'[g] = xCache[g]
      /\ \A g \in Files : FileFits(g)'
  BY <1>1, <1>2, FilePut
<1> QED
  BY <1>1, <1>3, Zenon

LEMMA LockFileKeeps ==
  ASSUME ExternalIInv, NEW p \in Askers, LockFile(p)
  PROVE  ExternalIInv'
<1>1. PICK f \in Files : f = xAsk[p].file
  BY FileOfAsker DEF LockFile, FilePcs
<1>2. /\ xAsk[p].pc = "lock" /\ xAsk[p] \in AskRecord /\ AskFits(p, xAsk[p])
      /\ xLock[f] = "" /\ UNCHANGED << xConf, xLocal, xDowngraded >>
  BY <1>1 DEF LockFile, ExternalIInv, ExternalTypes
<1>3. CASE Now(p, Onward(p)) /\ UNCHANGED << xCache, xFetched, xLock >>
  BY <1>2, <1>3, OnwardFits, AskMoves DEF Now
<1>4. CASE /\ xLock' = [xLock EXCEPT ![f] = p] /\ Now(p, At(p, "fetch"))
           /\ \/ Removed(f)
              \/ ~xCache[f].fresh /\ UNCHANGED << xCache, xFetched >>
  <2> DEFINE a == At(p, "fetch")
  <2>1. /\ a \in AskRecord /\ a.pc = "fetch" /\ a.op = xAsk[p].op /\ a.entry = xAsk[p].entry /\ a.file = f
        /\ a.todo = xAsk[p].todo /\ a.conf = xAsk[p].conf
    <3>1. "fetch" \in AskPcs
      BY DEF AskPcs, FilePcs
    <3> QED
      BY <1>1, <1>2, <3>1, AtRecord
  <2>2. xAsk' = [xAsk EXCEPT ![p] = a]
    BY <1>4 DEF Now
  <2> HIDE DEF a
  <2>3. /\ xCache' \in [Files -> Contents] /\ xFetched' \in [Files -> {0, 1}] /\ ~xCache'[f].fresh
        /\ \A g \in Files \ {f} : xCache'[g] = xCache[g]
        /\ \A g \in Files : FileFits(g)'
    <3>1. CASE Removed(f)
      BY <1>2, <3>1, FileRemoved
    <3>2. CASE ~xCache[f].fresh /\ UNCHANGED << xCache, xFetched >>
      BY <1>2, <3>2 DEF ExternalIInv, ExternalTypes, FileFits
    <3> QED
      BY <1>4, <3>1, <3>2
  <2>4. /\ xLock' \in [Files -> Askers \cup {""}] /\ xLock'[f] = p
        /\ \A g \in Files \ {f} : xLock'[g] = xLock[g]
        /\ xAsk' \in [Askers -> AskRecord] /\ xAsk'[p] = a /\ \A q \in Askers \ {p} : xAsk'[q] = xAsk[q]
    BY <1>4, <2>1, <2>2 DEF ExternalIInv, ExternalTypes
  <2>5. ExternalTypes'
    BY <1>2, <2>3, <2>4 DEF ExternalIInv, ExternalTypes
  <2>6. AskFits(p, xAsk[p])'
    <3>1. a.pc = "fetch" => xLock'[a.file] = p /\ ~xCache'[a.file].fresh
      BY <2>1, <2>3, <2>4
    <3>2. /\ xAsk[p].entry \in Values /\ \E n \in Names : xAsk[p].file = FileName(n, xAsk[p].entry)
          /\ xAsk[p].op \in {"get", "refresh", "all", "prewarm"}
          /\ xAsk[p].op \in {"all", "prewarm"} => xAsk[p].conf \in Confs /\ xAsk[p].todo \subseteq Parse(xAsk[p].conf)
      BY <1>2 DEF AskFits, FilePcs
    <3>3. /\ a.entry \in Values /\ \E n \in Names : a.file = FileName(n, a.entry)
          /\ a.op \in {"get", "refresh", "all", "prewarm"}
          /\ a.op \in {"all", "prewarm"} => a.conf \in Confs /\ a.todo \subseteq Parse(a.conf)
      BY <1>1, <2>1, <3>2
    <3> QED
      BY <2>1, <2>4, <3>1, <3>3 DEF AskFits
  <2>7. \A q \in Askers \ {p} : \A g \in Files : xLock[g] = q /\ ~xCache[g].fresh =>
             xLock'[g] = q /\ ~xCache'[g].fresh
    BY <1>2, <2>3, <2>4, ExternalFilesAssumption
  <2> QED
    BY <1>2, <2>3, <2>4, <2>5, <2>6, <2>7, FileMoves
<1> QED
  BY <1>1, <1>3, <1>4 DEF LockFile

LEMMA FetchKeeps ==
  ASSUME ExternalIInv, NEW p \in Askers, Fetch(p)
  PROVE  ExternalIInv'
<1>1. PICK f \in Files, v \in Values : f = xAsk[p].file /\ v = xAsk[p].entry
  BY FileOfAsker DEF Fetch, FilePcs
<1>2. f[2] = (~v.script /\ f[1] \notin LinuxNames)
  BY <1>1, FileOfAsker DEF Fetch, FilePcs
<1>3. /\ xAsk[p].pc = "fetch" /\ AskFits(p, xAsk[p])
      /\ UNCHANGED << xConf, xLocal, xDowngraded >> /\ xLock' = [xLock EXCEPT ![f] = ""]
  BY <1>1 DEF Fetch, FreeLock, ExternalIInv
<1>4. xLock[f] = p /\ ~xCache[f].fresh /\ xFetched[f] = 0
  <2>1. xLock[f] = p /\ ~xCache[f].fresh
    BY <1>1, <1>3 DEF AskFits
  <2> QED
    BY <2>1 DEF ExternalIInv, FileFits
<1>5. PICK new \in AskRecord : xAsk' = [xAsk EXCEPT ![p] = new] /\ AskFits(p, new) /\ new.pc # "fetch"
  BY <1>3, OnwardFits, AtFits DEF Fetch, Now, FilePcs
<1>6. /\ xCache' \in [Files -> Contents] /\ xFetched' \in [Files -> {0, 1}]
      /\ \A g \in Files \ {f} : xCache'[g] = xCache[g]
      /\ \A g \in Files : FileFits(g)'
  <2>1. CASE UNCHANGED << xCache, xFetched >>
    BY <1>3, <2>1 DEF ExternalIInv, ExternalTypes, FileFits
  <2>2. ASSUME NEW kind \in {"bin", "script", "page"}, validateExternalContent(v, kind),
               Cached(f, [kind |-> kind, by |-> v.url, fresh |-> TRUE]),
               xFetched' = [xFetched EXCEPT ![f] = @ + 1]
        PROVE  /\ xCache' \in [Files -> Contents] /\ xFetched' \in [Files -> {0, 1}]
               /\ \A g \in Files \ {f} : xCache'[g] = xCache[g]
               /\ \A g \in Files : FileFits(g)'
    <3> DEFINE c == [kind |-> kind, by |-> v.url, fresh |-> TRUE]
    <3>1. c \in Contents /\ c.fresh /\ c.kind = kind
      BY DEF Values, Contents
    <3>2. xCache' = [xCache EXCEPT ![f] = c]
      BY <2>2 DEF Cached
    <3>3. v.script \in BOOLEAN
      BY DEF Values
    <3>4. xFetched' = [xFetched EXCEPT ![f] = 1]
      BY <1>4, <2>2
    <3> HIDE DEF c
    <3>5. validateExternalContent(v, c.kind)
      BY <2>2, <3>1
    <3>6. FileValid(f, c)
      BY <1>2, <3>3, <3>5, ContentIsValid
    <3> QED
      BY <1>3, <3>1, <3>2, <3>4, <3>6, FilePut
  <2> QED
    BY <1>1, <2>1, <2>2 DEF Fetch
<1>7. /\ xLock' \in [Files -> Askers \cup {""}] /\ \A g \in Files \ {f} : xLock'[g] = xLock[g]
      /\ xAsk' \in [Askers -> AskRecord] /\ xAsk'[p] = new /\ \A q \in Askers \ {p} : xAsk'[q] = xAsk[q]
  BY <1>3, <1>5 DEF ExternalIInv, ExternalTypes
<1>8. ExternalTypes'
  BY <1>3, <1>6, <1>7 DEF ExternalIInv, ExternalTypes
<1>9. AskFits(p, xAsk[p])'
  BY <1>3, <1>5, <1>7 DEF AskFits
<1>10. \A q \in Askers \ {p} : \A g \in Files : xLock[g] = q /\ ~xCache[g].fresh =>
           xLock'[g] = q /\ ~xCache'[g].fresh
  BY <1>4, <1>6, <1>7
<1> QED
  BY <1>3, <1>6, <1>7, <1>8, <1>9, <1>10, FileMoves

LEMMA FallBackKeeps ==
  ASSUME ExternalIInv, NEW p \in Askers, FallBack(p)
  PROVE  ExternalIInv'
<1>1. /\ xAsk[p].pc = "failed" /\ xAsk[p].pc \in FilePcs
      /\ UNCHANGED << xConf, xCache, xLocal, xLock, xFetched, xDowngraded >>
  BY DEF FallBack, FilePcs
<1>2. PICK new \in AskRecord : xAsk' = [xAsk EXCEPT ![p] = new] /\ AskFits(p, new)
  BY <1>1, AtFits, IdleFits DEF FallBack, Now, isDefaultEntry
<1> QED
  BY <1>1, <1>2, AskMoves

LEMMA OpenKeeps ==
  ASSUME ExternalIInv, NEW p \in Askers, Open(p)
  PROVE  ExternalIInv'
<1> DEFINE r == xAsk[p]
           c == IF r.local THEN xLocal[r.file] ELSE xCache[r.file]
<1>1. /\ r.pc = "open" /\ r.pc \in FilePcs /\ r.file \in Files /\ r \in AskRecord /\ AskFits(p, r)
      /\ UNCHANGED << xConf, xCache, xLocal, xLock, xFetched, xDowngraded >>
      /\ Now(p, IF c = NoContent THEN Idle ELSE [At(p, "served") EXCEPT !.got = c])
  BY FileOfAsker DEF Open, FilePcs, ExternalIInv
<1>2. c \in Contents /\ FileValid(r.file, c)
  BY <1>1 DEF ExternalIInv, ExternalTypes, FileFits
<1> HIDE DEF c
<1>3. CASE c = NoContent
  BY <1>1, <1>3, IdleFits, AskMoves DEF Now
<1>4. CASE c # NoContent
  <2> DEFINE a == At(p, "served")
             new == [a EXCEPT !.got = c]
  <2>1. a \in AskRecord /\ a.pc = "served" /\ a.op = r.op /\ a.entry = r.entry /\ a.file = r.file
        /\ a.todo = r.todo /\ a.conf = r.conf
    BY <1>1, AtRecord DEF AskPcs, FilePcs
  <2> HIDE DEF a
  <2>2. /\ new \in AskRecord /\ new.pc = "served" /\ new.op = r.op /\ new.entry = r.entry /\ new.file = r.file
        /\ new.todo = r.todo /\ new.conf = r.conf /\ new.got = c
    BY <1>2, <2>1 DEF AskRecord
  <2>3. xAsk' = [xAsk EXCEPT ![p] = new]
    BY <1>1, <1>4 DEF Now, a
  <2> HIDE DEF new
  <2>4. AskFits(p, new)
    BY <1>1, <1>2, <1>4, <2>2 DEF AskFits, FilePcs
  <2> QED
    BY <1>1, <2>2, <2>3, <2>4, AskMoves
<1> QED
  BY <1>3, <1>4

LEMMA SeedKeeps ==
  ASSUME ExternalIInv, NEW p \in Askers, seedEmbeddedScript(p)
  PROVE  ExternalIInv'
<1>1. PICK f \in Files : f = xAsk[p].file
  BY FileOfAsker DEF seedEmbeddedScript, FilePcs
<1>2. /\ xAsk[p].pc = "seed" /\ xAsk[p].pc \in FilePcs /\ AskFits(p, xAsk[p])
      /\ UNCHANGED << xConf, xLocal, xLock, xFetched >>
  BY DEF seedEmbeddedScript, ExternalIInv, FilePcs
<1>3. /\ xAsk' = [xAsk EXCEPT ![p] = At(p, "open")] /\ At(p, "open") \in AskRecord
      /\ AskFits(p, At(p, "open")) /\ At(p, "open").pc # "fetch"
  BY <1>2, AtFits DEF seedEmbeddedScript, Now
<1>4. CASE Exists(f)
  <2>1. xCache' = xCache
    BY <1>1, <1>4 DEF seedEmbeddedScript
  <2>2. ~(xCache[f].by = "server" /\ xCache[f].by \in Urls)
    BY ExternalFilesAssumption
  <2>3. xDowngraded' = xDowngraded
    <3>1. xDowngraded' = (xDowngraded \/ (xCache'[f].by = "server" /\ xCache[f].by \in Urls))
      BY <1>1 DEF seedEmbeddedScript
    <3>2. xDowngraded = FALSE
      BY DEF ExternalIInv
    <3> QED
      BY <2>1, <2>2, <3>1, <3>2
  <2> QED
    BY <1>2, <1>3, <2>1, <2>3, AskMoves
<1>5. CASE ~Exists(f)
  <2> DEFINE c == [kind |-> "script", by |-> "server", fresh |-> FALSE]
  <2>1. c \in Contents /\ ~c.fresh /\ c.kind = "script"
    BY DEF Contents
  <2>2. xCache' = [xCache EXCEPT ![f] = c]
    BY <1>1, <1>5 DEF seedEmbeddedScript, Cached
  <2> HIDE DEF c
  <2>3. xCache[f] = NoContent
    BY <1>5 DEF Exists
  <2>4. ~xCache[f].fresh /\ xCache[f].by = "none"
    BY <2>3 DEF NoContent
  <2>5. xFetched \in [Files -> {0, 1}] /\ xFetched[f] = 0
    BY <2>4 DEF ExternalIInv, ExternalTypes, FileFits
  <2>6. xFetched' = [xFetched EXCEPT ![f] = 0]
    BY <1>2, <2>5
  <2>7. FileValid(f, c)
    <3>1. xAsk[p].entry.script /\ ~f[2]
      BY <1>1, <1>2, FileOfAsker DEF AskFits
    <3> QED
      BY <2>1, <3>1 DEF FileValid
  <2>8. /\ xCache' \in [Files -> Contents] /\ xFetched' \in [Files -> {0, 1}]
        /\ xCache'[f] = c /\ \A g \in Files \ {f} : xCache'[g] = xCache[g]
        /\ \A g \in Files : FileFits(g)'
    BY <1>2, <2>1, <2>2, <2>6, <2>7, FilePut
  <2>9. UNCHANGED xDowngraded
    <3>1. xDowngraded' = (xDowngraded \/ (xCache'[f].by = "server" /\ xCache[f].by \in Urls))
      BY <1>1 DEF seedEmbeddedScript
    <3>2. xCache[f].by \notin Urls
      BY <2>4, ExternalFilesAssumption
    <3>3. xDowngraded = FALSE
      BY DEF ExternalIInv
    <3> QED
      BY <3>1, <3>2, <3>3
  <2>10. /\ xAsk' \in [Askers -> AskRecord] /\ xAsk'[p] = At(p, "open")
         /\ \A q \in Askers \ {p} : xAsk'[q] = xAsk[q]
    BY <1>3 DEF ExternalIInv, ExternalTypes
  <2>11. ExternalTypes'
    BY <1>2, <2>8, <2>10 DEF ExternalIInv, ExternalTypes
  <2>12. AskFits(p, xAsk[p])'
    BY <1>2, <1>3, <2>10 DEF AskFits
  <2>13. \A q \in Askers \ {p} : \A g \in Files : xLock[g] = q /\ ~xCache[g].fresh =>
             xLock'[g] = q /\ ~xCache'[g].fresh
    BY <1>2, <2>1, <2>8
  <2> QED
    BY <1>2, <2>8, <2>9, <2>10, <2>11, <2>12, <2>13, FileMoves
<1> QED
  BY <1>4, <1>5

LEMMA TestKeeps ==
  ASSUME ExternalIInv, NEW n \in Names, NEW v \in Values, TestExternalBinary(n, v)
  PROVE  ExternalIInv'
<1>1. FileName(n, v) \in Files /\ Removed(FileName(n, v)) /\ UNCHANGED << xConf, xLocal, xLock, xAsk, xDowngraded >>
  BY EntryOfAFile DEF TestExternalBinary
<1>2. PICK f \in Files : Removed(f)
  BY <1>1
<1>3. /\ xCache' \in [Files -> Contents] /\ xFetched' \in [Files -> {0, 1}]
      /\ ~xCache'[f].fresh /\ \A g \in Files \ {f} : xCache'[g] = xCache[g]
      /\ \A g \in Files : FileFits(g)'
  BY <1>1, <1>2, FileRemoved
<1>4. ExternalTypes'
  BY <1>1, <1>3 DEF ExternalIInv, ExternalTypes
<1>5. \A g \in Files : ~xCache[g].fresh => ~xCache'[g].fresh
  BY <1>3
<1> QED
  BY <1>1, <1>3, <1>4, <1>5, FilesMoveAlone

LEMMA AgeKeeps ==
  ASSUME ExternalIInv, NEW f \in Files, Age(f)
  PROVE  ExternalIInv'
<1> DEFINE c == [xCache[f] EXCEPT !.fresh = FALSE]
<1>1. /\ xCache' = [xCache EXCEPT ![f] = c] /\ xFetched' = [xFetched EXCEPT ![f] = 0]
      /\ UNCHANGED << xConf, xLocal, xLock, xAsk, xDowngraded >> /\ xCache[f].fresh
  BY DEF Age, Cached
<1>2. xCache[f] \in Contents /\ FileValid(f, xCache[f])
  BY DEF ExternalIInv, ExternalTypes, FileFits
<1>3. c \in Contents /\ ~c.fresh /\ c.kind = xCache[f].kind
  BY <1>2 DEF Contents
<1> HIDE DEF c
<1>4. FileValid(f, c)
  <2>1. xCache[f] # NoContent
    BY <1>1 DEF NoContent
  <2> QED
    BY <1>2, <1>3, <2>1 DEF FileValid
<1>5. /\ xCache' \in [Files -> Contents] /\ xFetched' \in [Files -> {0, 1}]
      /\ xCache'[f] = c /\ \A g \in Files \ {f} : xCache'[g] = xCache[g]
      /\ \A g \in Files : FileFits(g)'
  BY <1>1, <1>3, <1>4, FilePut
<1>6. ExternalTypes'
  BY <1>1, <1>5 DEF ExternalIInv, ExternalTypes
<1>7. \A g \in Files : ~xCache[g].fresh => ~xCache'[g].fresh
  BY <1>3, <1>5
<1> QED
  BY <1>1, <1>5, <1>6, <1>7, FilesMoveAlone

\* An upload, taken away or put in its place.
LEMMA LocalPut ==
  ASSUME ExternalIInv, NEW f \in Files, NEW c \in Contents, FileValid(f, c),
         xLocal' = [xLocal EXCEPT ![f] = c], UNCHANGED << xCache, xFetched >>
  PROVE  xLocal' \in [Files -> Contents] /\ \A g \in Files : FileFits(g)'
<1>1. /\ xLocal' \in [Files -> Contents] /\ xLocal'[f] = c
      /\ \A g \in Files \ {f} : xLocal'[g] = xLocal[g]
  BY DEF ExternalIInv, ExternalTypes
<1>2. ASSUME NEW g \in Files PROVE FileFits(g)'
  <2>1. FileFits(g)
    BY DEF ExternalIInv
  <2> QED
    BY <1>1, <2>1 DEF FileFits, FileValid
<1> QED
  BY <1>1, <1>2

LEMMA NothingIsValid ==
  ASSUME NEW f
  PROVE  NoContent \in Contents /\ FileValid(f, NoContent)
BY Constants DEF FileValid

LEMMA UploadKeeps ==
  ASSUME ExternalIInv, NEW p \in Askers, NEW n \in Names, NEW v \in Values, NEW kind \in {"bin", "script"},
         UploadExternalBinary(p, n, v, kind)
  PROVE  ExternalIInv'
<1> DEFINE got == [kind |-> kind, by |-> "upload", fresh |-> TRUE]
           new == [Entry(n, v) EXCEPT !.op = "put", !.pc = "put", !.got = got]
<1>1. got \in Contents /\ got.kind = kind
  BY DEF Contents
<1>2. /\ UNCHANGED << xConf, xCache, xLock, xFetched, xDowngraded >> /\ validateExternalContent(v, kind)
      /\ xAsk' = [xAsk EXCEPT ![p] = new] /\ xLocal' = [xLocal EXCEPT ![FileName(n, v)] = NoContent]
  BY DEF UploadExternalBinary, Now
<1>3. FileName(n, v) \in Files
  BY EntryOfAFile
<1> HIDE DEF got
<1>4. /\ new \in AskRecord /\ new.op = "put" /\ new.pc = "put" /\ new.got = got
      /\ new.entry = v /\ new.file = FileName(n, v)
  <2> DEFINE b == Entry(n, v)
  <2>1. b \in AskRecord /\ b.entry = v /\ b.file = FileName(n, v)
    BY EntryOfAFile
  <2> HIDE DEF b
  <2>2. [b EXCEPT !.op = "put", !.pc = "put", !.got = got] \in AskRecord
    BY <1>1, <2>1 DEF AskRecord, AskPcs, FilePcs
  <2>3. LET c == [b EXCEPT !.op = "put", !.pc = "put", !.got = got]
        IN  c.entry = v /\ c.file = FileName(n, v) /\ c.op = "put" /\ c.pc = "put" /\ c.got = got
    BY <2>1 DEF AskRecord
  <2> QED
    BY <2>2, <2>3 DEF b
<1> HIDE DEF new
<1>5. PICK f \in Files : f = FileName(n, v)
  BY <1>3
<1>6. FileValid(f, got)
  <2>1. v.script \in BOOLEAN
    BY DEF Values
  <2>2. f[1] = n /\ f[2] = (~v.script /\ n \notin LinuxNames)
    BY <1>5 DEF FileName
  <2>3. f[2] = (~v.script /\ f[1] \notin LinuxNames) /\ validateExternalContent(v, got.kind)
    BY <1>1, <1>2, <2>2
  <2> QED
    BY <2>1, <2>3, ContentIsValid
<1>7. xLocal' \in [Files -> Contents] /\ \A g \in Files : FileFits(g)'
  BY <1>2, <1>5, NothingIsValid, LocalPut
<1>8. /\ xAsk' \in [Askers -> AskRecord] /\ xAsk'[p] = new /\ \A q \in Askers \ {p} : xAsk'[q] = xAsk[q]
  BY <1>2, <1>4 DEF ExternalIInv, ExternalTypes
<1>9. ExternalTypes'
  BY <1>2, <1>7, <1>8 DEF ExternalIInv, ExternalTypes
<1>10. AskFits(p, xAsk[p])'
  <2>1. /\ new.entry \in Values /\ \E m \in Names : new.file = FileName(m, new.entry)
        /\ FileValid(new.file, new.got)
    BY <1>4, <1>5, <1>6
  <2> QED
    BY <1>4, <1>8, <2>1 DEF AskFits
<1> QED
  BY <1>2, <1>7, <1>8, <1>9, <1>10, FileMoves

LEMMA UploadRenamedKeeps ==
  ASSUME ExternalIInv, NEW p \in Askers, UploadRenamed(p)
  PROVE  ExternalIInv'
<1>1. PICK f \in Files : f = xAsk[p].file
  BY FileOfAsker DEF UploadRenamed, FilePcs
<1>2. /\ xAsk[p].got \in Contents /\ FileValid(f, xAsk[p].got)
      /\ UNCHANGED << xConf, xCache, xLock, xFetched, xDowngraded >>
      /\ xLocal' = [xLocal EXCEPT ![f] = xAsk[p].got] /\ xAsk' = [xAsk EXCEPT ![p] = Idle]
  <2>1. xAsk[p] \in AskRecord /\ AskFits(p, xAsk[p])
    BY DEF ExternalIInv, ExternalTypes
  <2> QED
    BY <1>1, <2>1 DEF UploadRenamed, Now, AskFits, AskRecord
<1>3. xLocal' \in [Files -> Contents] /\ \A g \in Files : FileFits(g)'
  BY <1>2, LocalPut
<1>4. /\ xAsk' \in [Askers -> AskRecord] /\ xAsk'[p] = Idle /\ \A q \in Askers \ {p} : xAsk'[q] = xAsk[q]
  BY <1>2, IdleFits DEF ExternalIInv, ExternalTypes
<1>5. ExternalTypes'
  BY <1>2, <1>3, <1>4 DEF ExternalIInv, ExternalTypes
<1>6. AskFits(p, xAsk[p])'
  <2>1. Idle.pc = "idle" /\ Idle.op = "none"
    BY DEF Idle
  <2> QED
    BY <1>4, <2>1 DEF AskFits, FilePcs
<1> QED
  BY <1>2, <1>3, <1>4, <1>5, <1>6, FileMoves

LEMMA DeleteUploadKeeps ==
  ASSUME ExternalIInv, NEW n \in Names, NEW v \in Values, DeleteExternalBinaryUpload(n, v)
  PROVE  ExternalIInv'
<1>1. PICK f \in Files : f = FileName(n, v)
  BY EntryOfAFile
<1>2. /\ UNCHANGED << xConf, xCache, xLock, xAsk, xFetched, xDowngraded >>
      /\ xLocal' = [xLocal EXCEPT ![f] = NoContent]
  BY <1>1 DEF DeleteExternalBinaryUpload
<1>3. xLocal' \in [Files -> Contents] /\ \A g \in Files : FileFits(g)'
  BY <1>2, NothingIsValid, LocalPut
<1>4. ExternalTypes'
  BY <1>2, <1>3 DEF ExternalIInv, ExternalTypes
<1> QED
  BY <1>2, <1>3, <1>4, FilesMoveAlone

\* A save strips what is built in from the list it has read, so that a later
\* reader finds the same values in effect.
LEMMA SaveReadsKeeps ==
  ASSUME ExternalIInv, NEW p \in Askers, NEW item \in SaveItems, NEW delete \in BOOLEAN,
         SaveReads(p, item, delete)
  PROVE  ExternalIInv'
<1> DEFINE base == Effective(xConf)
           d == [k \in ExtKeys |->
                  IF delete /\ Fold[k] = Fold[item.key] THEN NotListed
                  ELSE IF ~delete /\ k = item.key THEN item.value ELSE base[k]]
           n == Fold[item.key]
           new == [Idle EXCEPT !.op = "save", !.pc = "apply", !.entry = item.value,
                               !.file = << n, delete >>, !.conf = StripBuiltinDefaults(d)]
<1>1. /\ xAsk' = [xAsk EXCEPT ![p] = new]
      /\ UNCHANGED << xConf, xCache, xLocal, xLock, xFetched, xDowngraded >>
  BY DEF SaveReads, Now
<1>2. item.key \in ExtKeys /\ item.value \in Values /\ n \in Names /\ xConf \in Confs /\ Stripped(xConf)
  BY Constants, ExternalFilesAssumption DEF ExternalIInv, ExternalTypes
<1>3. base \in Confs
  BY <1>2, ListsAreLists
<1>4. d \in Confs /\ AgreeBut(n, d, base)
  BY <1>2, <1>3 DEF Confs, AgreeBut
<1> HIDE DEF d
<1>5. /\ StripBuiltinDefaults(d) \in Confs /\ Stripped(StripBuiltinDefaults(d))
      /\ AgreeBut(n, Effective(StripBuiltinDefaults(d)), base)
  BY <1>2, <1>4, ListsAreLists, StrippingKeeps
<1> HIDE DEF n, base
<1> DEFINE e == StripBuiltinDefaults(d)
<1>6. e \in Confs /\ << n, delete >> \in (Names \cup {""}) \X BOOLEAN /\ "apply" \in AskPcs
  BY <1>2, <1>5 DEF AskPcs
<1> HIDE DEF e
<1>7. /\ new \in AskRecord /\ new.op = "save" /\ new.pc = "apply" /\ new.conf = e /\ new.file = << n, delete >>
  BY <1>2, <1>6, IdleFits DEF AskRecord, e
<1> HIDE DEF new
<1>8. new.file[1] = n
  BY <1>7
<1>9. AskFits(p, new)
  BY <1>5, <1>6, <1>7, <1>8 DEF AskFits, FilePcs, e, base
<1> QED
  BY <1>1, <1>7, <1>9, AskMoves

LEMMA SaveAppliesKeeps ==
  ASSUME ExternalIInv, NEW p \in Askers, SaveApplies(p)
  PROVE  ExternalIInv'
<1>1. /\ xAsk[p].pc = "apply" /\ xConf' = xAsk[p].conf
      /\ UNCHANGED << xCache, xLocal, xLock, xFetched, xDowngraded >>
  BY DEF SaveApplies
<1>2. /\ xAsk[p] \in AskRecord /\ xAsk[p].conf \in Confs /\ Stripped(xAsk[p].conf)
      /\ ~xAsk[p].late => AgreeBut(xAsk[p].file[1], Effective(xAsk[p].conf), Effective(xConf))
      /\ Effective(xConf) \in Confs
  BY <1>1, ListsAreLists DEF ExternalIInv, ExternalTypes, AskFits
<1> DEFINE new == [xAsk[p] EXCEPT !.pc = "saved", !.conf = Effective(xConf)]
<1>3. /\ new \in AskRecord /\ new.pc = "saved" /\ new.conf = Effective(xConf)
      /\ new.late = xAsk[p].late /\ new.file = xAsk[p].file
      /\ new.op = xAsk[p].op /\ new.entry = xAsk[p].entry /\ new.todo = xAsk[p].todo
  BY <1>2 DEF AskRecord, AskPcs
<1>4. xAsk'[p] = new
  BY DEF SaveApplies
<1>5. ASSUME NEW q \in Askers \ {p}
      PROVE  /\ xAsk'[q] \in AskRecord /\ xAsk'[q].pc = xAsk[q].pc /\ xAsk'[q].op = xAsk[q].op
             /\ xAsk'[q].entry = xAsk[q].entry /\ xAsk'[q].file = xAsk[q].file
             /\ xAsk'[q].todo = xAsk[q].todo /\ xAsk'[q].got = xAsk[q].got /\ xAsk'[q].conf = xAsk[q].conf
             /\ xAsk[q].pc \in {"apply", "saved"} => xAsk'[q].late
  <2>1. xAsk[q] \in AskRecord
    BY DEF ExternalIInv, ExternalTypes
  <2>2. xAsk'[q] = IF xAsk[q].pc \in {"apply", "saved"} THEN [xAsk[q] EXCEPT !.late = TRUE] ELSE xAsk[q]
    BY DEF SaveApplies
  <2> QED
    BY <2>1, <2>2 DEF AskRecord
<1> HIDE DEF new
<1>6. ExternalTypes'
  <2>1. DOMAIN xAsk' = Askers /\ xAsk' = [q \in Askers |-> xAsk'[q]]
    BY DEF SaveApplies
  <2>2. xAsk' \in [Askers -> AskRecord]
    BY <1>3, <1>4, <1>5, <2>1
  <2> QED
    BY <1>1, <1>2, <2>2 DEF ExternalIInv, ExternalTypes
<1>7. \A f \in Files : FileFits(f)'
  BY <1>1 DEF ExternalIInv, FileFits
<1>8. AskFits(p, xAsk[p])'
  <2>1. new.op = "save"
    BY <1>1, <1>3 DEF ExternalIInv, AskFits
  <2>2. /\ new.conf \in Confs
        /\ ~new.late => AgreeBut(new.file[1], Effective(xConf'), new.conf)
    BY <1>1, <1>2, <1>3
  <2> QED
    BY <1>1, <1>2, <1>3, <1>4, <2>1, <2>2 DEF AskFits, FilePcs
<1>9. ASSUME NEW q \in Askers \ {p} PROVE AskFits(q, xAsk[q])'
  <2>1. AskFits(q, xAsk[q])
    BY DEF ExternalIInv
  <2> QED
    BY <1>1, <1>5, <2>1 DEF AskFits, FilePcs
<1>10. (\A q \in Askers : AskFits(q, xAsk[q])') /\ Stripped(xConf)'
  BY <1>1, <1>2, <1>8, <1>9 DEF Stripped
<1> QED
  BY <1>1, <1>6, <1>7, <1>10 DEF ExternalIInv

LEMMA SaveAnsweredKeeps ==
  ASSUME ExternalIInv, NEW p \in Askers, SaveAnswered(p)
  PROVE  ExternalIInv'
BY IdleFits, AskMoves DEF SaveAnswered, Now

LEMMA ExternalKeeps ==
  ASSUME ExternalIInv, ExternalNext
  PROVE  ExternalIInv'
<1>1. ASSUME NEW k \in ExtKeys, NEW v \in {Effective(xConf)[k]} \ {NotListed}
      PROVE  Fold[k] \in Names /\ v \in Values
  <2>1. Effective(xConf) \in Confs
    BY ListsAreLists DEF ExternalIInv, ExternalTypes
  <2> QED
    BY <2>1, Constants DEF Confs
<1>2. ASSUME NEW p \in Askers, NEW k \in ExtKeys, NEW v \in {Effective(xConf)[k]} \ {NotListed},
             \/ \E localOnly \in BOOLEAN : ExternalBinaryDownload(p, Fold[k], v, localOnly)
             \/ RefreshExternalBinary(p, Fold[k], v)
             \/ \E kind \in {"bin", "script"} : UploadExternalBinary(p, Fold[k], v, kind)
      PROVE  ExternalIInv'
  BY <1>1, <1>2, DownloadKeeps, RefreshKeeps, UploadKeeps
<1>3. ASSUME NEW k \in ExtKeys, NEW v \in {Effective(xConf)[k]} \ {NotListed},
             TestExternalBinary(Fold[k], v) \/ DeleteExternalBinaryUpload(Fold[k], v)
      PROVE  ExternalIInv'
  BY <1>1, <1>3, TestKeeps, DeleteUploadKeeps
<1>4. ASSUME NEW p \in Askers,
             \/ \E op \in {"all", "prewarm"} : TakesList(p, op)
             \/ NextOfList(p) \/ LockFile(p) \/ Fetch(p) \/ FallBack(p) \/ seedEmbeddedScript(p)
             \/ Open(p) \/ UploadRenamed(p)
             \/ \E item \in SaveItems, delete \in BOOLEAN : SaveReads(p, item, delete)
             \/ SaveApplies(p) \/ SaveAnswered(p)
      PROVE  ExternalIInv'
  BY <1>4, TakesListKeeps, NextOfListKeeps, LockFileKeeps, FetchKeeps, FallBackKeeps, SeedKeeps, OpenKeeps,
     UploadRenamedKeeps, SaveReadsKeeps, SaveAppliesKeeps, SaveAnsweredKeeps
<1> QED
  BY <1>2, <1>3, <1>4, AgeKeeps DEF ExternalNext

LEMMA ExternalStays ==
  ASSUME ExternalIInv, UNCHANGED xVars
  PROVE  ExternalIInv'
BY DEF ExternalIInv, xVars, ExternalTypes, FileFits, AskFits, Stripped

LEMMA ExternalSound == ExternalIInv => ExternalInv
<1> SUFFICES ASSUME ExternalIInv PROVE ExternalInv
  OBVIOUS
<1>1. ExternalTypeOK /\ NoNeedlessFetch /\ ~xDowngraded
  <2>1. \A f \in Files : xFetched[f] \in {0, 1}
    BY DEF ExternalIInv, ExternalTypes
  <2>2. NoNeedlessFetch
    BY <2>1 DEF NoNeedlessFetch
  <2> QED
    BY <2>2 DEF ExternalIInv, ExternalTypes, ExternalTypeOK, Confs
<1>2. OneFetchPerFile
  BY DEF ExternalIInv, AskFits, OneFetchPerFile
<1>3. ServedOfItsKind
  <2> SUFFICES ASSUME NEW p \in Askers, xAsk[p].pc = "served"
               PROVE  IF xAsk[p].file[1] \in LinuxNames THEN xAsk[p].got.kind # "page"
                      ELSE validateExternalContent(xAsk[p].entry, xAsk[p].got.kind)
    BY DEF ServedOfItsKind
  <2>1. xAsk[p].got # NoContent /\ FileValid(xAsk[p].file, xAsk[p].got) /\ xAsk[p].pc \in FilePcs
    BY DEF ExternalIInv, AskFits, FilePcs
  <2>2. CASE xAsk[p].file[1] \in LinuxNames
    BY <2>1, <2>2 DEF FileValid
  <2>3. CASE xAsk[p].file[1] \notin LinuxNames
    <3>1. PICK f \in Files, v \in Values, c \in Contents :
            f = xAsk[p].file /\ v = xAsk[p].entry /\ c = xAsk[p].got
      BY <2>1, FileOfAsker DEF AskRecord
    <3>2. v.script \in BOOLEAN /\ f[2] = (~v.script /\ f[1] \notin LinuxNames)
      BY <2>1, <3>1, FileOfAsker DEF Values
    <3>3. c # NoContent /\ FileValid(f, c) /\ f[1] \notin LinuxNames
      BY <2>1, <2>3, <3>1
    <3>4. validateExternalContent(v, c.kind)
      BY <3>2, <3>3, ServedIsValid
    <3> QED
      BY <2>3, <3>1, <3>4
  <2> QED
    BY <2>2, <2>3
<1>4. SavesKeepOthers
  <2>1. ASSUME NEW k \in DOMAIN Builtins PROVE Lookup(Effective(xConf), Fold[k]) # {}
    BY BuiltinsAreListed DEF ExternalIInv, ExternalTypes
  <2>2. ASSUME NEW p \in Askers, xAsk[p].pc = "saved", ~xAsk[p].late, NEW k \in ExtKeys,
               Fold[k] # xAsk[p].file[1]
        PROVE  Effective(xConf)[k] = xAsk[p].conf[k]
    BY <2>2 DEF ExternalIInv, AskFits, AgreeBut
  <2> QED
    BY <2>1, <2>2 DEF SavesKeepOthers
<1> QED
  BY <1>1, <1>2, <1>3, <1>4 DEF ExternalInv

\* Whatever interleaves: nobody fetches a file twice, what is served is of the
\* kind of its entry, the server's own script never replaces a file of a site,
\* a save keeps the names it is not about; and a cached list is older than a
\* write it was cleared for only if it was read before the clearing and stored
\* after it (ExternalBinaryDownload, downloadWithLock, Save, Cache, DelPrefix).
THEOREM ServedIsSound == ServicesSpec => []ServedInv
<1>1. ServicesInit => ExternalIInv /\ CacheIInv
  BY ExternalFromTheStart, CacheFromTheStart DEF ServicesInit
<1>2. ExternalIInv /\ CacheIInv /\ [ServicesNext]_servicesVars => ExternalIInv' /\ CacheIInv'
  <2> SUFFICES ASSUME ExternalIInv, CacheIInv, [ServicesNext]_servicesVars PROVE ExternalIInv' /\ CacheIInv'
    OBVIOUS
  <2>1. (ExternalNext \/ UNCHANGED xVars) /\ (CacheNext \/ UNCHANGED hVars)
    BY DEF ServicesNext, servicesVars
  <2> QED
    BY <2>1, ExternalKeeps, ExternalStays, CacheKeeps, CacheStays
<1>3. ExternalIInv /\ CacheIInv => ServedInv
  BY ExternalSound, CacheSound DEF ServedInv
<1> QED
  BY <1>1, <1>2, <1>3, PTL DEF ServicesSpec
-----------------------------------------------------------------------------
(* Accounts and sessions *)

AccountRoleSet == {"user"} \cup {StartRow[u].role : u \in Accounts} \cup {w.role : w \in RoleChoices}
AccountTenants == {0} \cup {StartRow[u].tenant : u \in Accounts} \cup {w.tenant : w \in RoleChoices}
AccountNames == Accounts \cup {""}
UserRow ==
  [there : BOOLEAN, role : AccountRoleSet, tenant : AccountTenants, off : BOOLEAN, pw : Nat, at : Nat,
   changed : Nat]
LookupRow == [kind : {"none", "lookup", "login"}, user : AccountNames, row : UserRow]
SignedRow == [iat : Int, when : Nat]
AdminDeeds == {"roles", "disable", "delete", "reset"}
OpRow ==
  [op : {"none", "change"} \cup AdminDeeds, user : AccountNames, super : BOOLEAN,
   tenant : AccountTenants, role : AccountRoleSet, to : AccountTenants, off : BOOLEAN, pw : Nat]

AccountTypes ==
  /\ uRow \in [Accounts -> UserRow] /\ uClock \in Nat /\ uChanges \in 0 .. MaxChanges
  /\ uCache \in [AccReplicas -> [Accounts -> UserRow]]
  /\ uLook \in [AccReplicas -> LookupRow] /\ uOp \in [AccReplicas -> OpRow]
  /\ uSession \in [Accounts -> SUBSET SignedRow] /\ uOwn \in [Accounts -> Nat]
  /\ uUsed \subseteq Accounts \X Nat \X Nat
  /\ uTouched = FALSE

\* A session says when it was made, but for the clock of its replica.
SignedFits(s, now) == s.when <= now /\ s.iat <= s.when + MaxSkew

\* updated_at is the tick of the last change.
RowFits(u) ==
  /\ uRow[u].at <= uClock /\ uRow[u].changed = uRow[u].at /\ uRow[u].pw <= uChanges
  /\ \A x \in uSession[u] : SignedFits(x, uClock)

\* What a replica knows of an account, or is about to, is not newer than the account.
Older(row, u) == row.at <= uClock /\ (uRow[u].there => row.at <= uRow[u].at)
ReplicaFits(r) ==
  /\ \A u \in Accounts : Older(uCache[r][u], u)
  /\ uLook[r] # NoLookup => uLook[r].user \in Accounts /\ Older(uLook[r].row, uLook[r].user)
  /\ uOp[r].op # "none" => uOp[r].user \in Accounts

\* The password that was changed is older than the one of today.
UsedFits(x) ==
  x[2] < x[3] /\ x[3] <= uChanges /\ (uRow[x[1]].there => x[3] <= uRow[x[1]].pw)

AccountsIInv ==
  /\ AccountTypes /\ OneChangeWins
  /\ \A u \in Accounts : RowFits(u)
  /\ \A r \in AccReplicas : ReplicaFits(r)
  /\ \A x \in uUsed : UsedFits(x)

LEMMA NoRowFits == NoRow \in UserRow /\ NoRow.there = FALSE /\ NoRow.at = 0 /\ NoRow.pw = 0 /\ NoRow.changed = 0
BY DEF NoRow, UserRow, AccountRoleSet, AccountTenants

LEMMA NoLookupFits == NoLookup \in LookupRow
BY NoRowFits, Zenon DEF NoLookup, LookupRow, AccountNames

LEMMA NoOpFits == NoOp \in OpRow /\ NoOp.op = "none"
<1>1. "" \in AccountNames /\ 0 \in AccountTenants /\ "user" \in AccountRoleSet
  BY Zenon DEF AccountNames, AccountTenants, AccountRoleSet
<1>2. 0 \in Nat
  OBVIOUS
<1> QED
  BY <1>1, <1>2, Zenon DEF NoOp, OpRow

LEMMA SomeAccounts == Visitors \subseteq Accounts /\ Newcomers \subseteq Accounts /\ MaxChanges \in Nat /\ MaxSkew \in Nat
BY AccountsAssumption, Zenon

LEMMA ClocksDiffer == ASSUME NEW r \in AccReplicas PROVE Skew[r] \in Int /\ Skew[r] <= MaxSkew
BY AccountsAssumption

\* What is right now stays right when the clock goes on.
LEMMA SessionsFitOn ==
  ASSUME NEW x \in SignedRow, NEW now \in Nat, NEW later \in Nat, now <= later, SignedFits(x, now)
  PROVE  SignedFits(x, later)
BY DEF SignedFits, SignedRow

LEMMA AccountsFromTheStart == AccountsInit => AccountsIInv
<1> SUFFICES ASSUME AccountsInit PROVE AccountsIInv
  OBVIOUS
<1>1. ASSUME NEW u \in Accounts PROVE uRow[u] \in UserRow /\ uRow[u].at = 0 /\ uRow[u].pw = 0 /\ uRow[u].changed = 0
  <2>1. CASE u \in Newcomers
    BY <2>1, NoRowFits DEF AccountsInit
  <2>2. CASE u \notin Newcomers
    <3>1. uRow[u] = [NoRow EXCEPT !.there = TRUE, !.role = StartRow[u].role, !.tenant = StartRow[u].tenant]
      BY <2>2 DEF AccountsInit
    <3>2. StartRow[u].role \in AccountRoleSet /\ StartRow[u].tenant \in AccountTenants
      BY DEF AccountRoleSet, AccountTenants
    <3> QED
      BY <3>1, <3>2, NoRowFits DEF UserRow
  <2> QED
    BY <2>1, <2>2
<1>2. uRow \in [Accounts -> UserRow]
  BY <1>1 DEF AccountsInit
<1>3. uClock = 0 /\ uChanges = 0 /\ uUsed = {} /\ uTouched = FALSE /\ uCache = [r \in AccReplicas |-> uRow]
      /\ uOwn \in [Accounts -> Nat]
  BY DEF AccountsInit
<1>s. uSession \in [Accounts -> SUBSET SignedRow] /\ \A u \in Accounts : \A x \in uSession[u] : SignedFits(x, uClock)
  <2>1. SessionMade(0, 0) \in SignedRow /\ SessionMade(0, 0).iat = 0 /\ SessionMade(0, 0).when = 0
    BY DEF SessionMade, SignedRow
  <2>2. uSession \in [Accounts -> SUBSET {SessionMade(0, 0)}]
    BY DEF AccountsInit
  <2>3. SignedFits(SessionMade(0, 0), uClock)
    BY <1>3, <2>1, SomeAccounts DEF SignedFits
  <2> QED
    BY <2>1, <2>2, <2>3
<1>4. uLook \in [AccReplicas -> LookupRow] /\ uOp \in [AccReplicas -> OpRow]
      /\ \A r \in AccReplicas : uLook[r] = NoLookup /\ uOp[r].op = "none"
  BY NoLookupFits, NoOpFits, Zenon DEF AccountsInit
<1>5. AccountTypes
  BY <1>2, <1>3, <1>s, <1>4, SomeAccounts DEF AccountTypes
<1>6. \A u \in Accounts : RowFits(u)
  BY <1>1, <1>3, <1>s DEF RowFits
<1>7. \A r \in AccReplicas : ReplicaFits(r)
  BY <1>1, <1>3, <1>4 DEF ReplicaFits, Older
<1> QED
  BY <1>3, <1>5, <1>6, <1>7 DEF AccountsIInv, OneChangeWins

\* A step of one replica that changes no account.
LEMMA ReplicaMoves ==
  ASSUME AccountsIInv, NEW r \in AccReplicas,
         NEW cache \in [Accounts -> UserRow], NEW look \in LookupRow, NEW o \in OpRow,
         uCache' = [uCache EXCEPT ![r] = cache], uLook' = [uLook EXCEPT ![r] = look],
         uOp' = [uOp EXCEPT ![r] = o], \A u \in Accounts : Older(cache[u], u),
         look # NoLookup => look.user \in Accounts /\ Older(look.row, look.user),
         o.op # "none" => o.user \in Accounts,
         uClock' \in Nat, uClock <= uClock', uSession' \in [Accounts -> SUBSET SignedRow],
         \A u \in Accounts : \A x \in uSession'[u] : SignedFits(x, uClock'),
         UNCHANGED << uRow, uChanges, uOwn, uUsed, uTouched >>
  PROVE  AccountsIInv'
<1>1. AccountTypes'
  BY DEF AccountsIInv, AccountTypes
<1>2. uCache'[r] = cache /\ uLook'[r] = look /\ uOp'[r] = o
      /\ \A q \in AccReplicas : q # r => uCache'[q] = uCache[q] /\ uLook'[q] = uLook[q] /\ uOp'[q] = uOp[q]
  BY DEF AccountsIInv, AccountTypes
<1>a. ASSUME NEW row \in UserRow, NEW u \in Accounts, Older(row, u) PROVE Older(row, u)'
  <2>1. row.at \in Nat /\ uClock \in Nat
    BY DEF UserRow, AccountsIInv, AccountTypes
  <2> QED
    BY <1>a, <2>1 DEF Older
<1>3. ASSUME NEW q \in AccReplicas PROVE ReplicaFits(q)'
  <2>1. CASE q = r
    BY <2>1, <1>2, <1>a DEF ReplicaFits, LookupRow
  <2>2. CASE q # r
    <3>1. /\ \A u \in Accounts : Older(uCache[q][u], u) /\ uCache[q][u] \in UserRow
          /\ uLook[q] # NoLookup => uLook[q].user \in Accounts /\ Older(uLook[q].row, uLook[q].user)
          /\ uLook[q].row \in UserRow /\ (uOp[q].op # "none" => uOp[q].user \in Accounts)
      BY DEF ReplicaFits, AccountsIInv, AccountTypes, LookupRow
    <3> QED
      BY <2>2, <3>1, <1>2, <1>a DEF ReplicaFits
  <2> QED
    BY <2>1, <2>2
<1>4. (\A x \in uUsed' : UsedFits(x)') /\ OneChangeWins'
  BY DEF AccountsIInv, UsedFits, OneChangeWins
<1>5. ASSUME NEW u \in Accounts PROVE RowFits(u)'
  <2>1. uRow[u].at \in Nat /\ uClock \in Nat /\ RowFits(u)
    BY DEF UserRow, AccountsIInv, AccountTypes
  <2>2. uRow'[u].at <= uClock'
    BY <2>1 DEF RowFits
  <2> QED
    BY <2>1, <2>2 DEF RowFits
<1> QED
  BY <1>1, <1>3, <1>4, <1>5 DEF AccountsIInv

LEMMA ReplicaKnows ==
  ASSUME AccountsIInv, NEW r \in AccReplicas
  PROVE  /\ uCache[r] \in [Accounts -> UserRow] /\ uLook[r] \in LookupRow /\ uOp[r] \in OpRow
         /\ \A u \in Accounts : Older(uCache[r][u], u)
         /\ uLook[r] # NoLookup => uLook[r].user \in Accounts /\ Older(uLook[r].row, uLook[r].user)
         /\ uOp[r].op # "none" => uOp[r].user \in Accounts
         /\ uSession \in [Accounts -> SUBSET SignedRow] /\ \A u \in Accounts : \A x \in uSession[u] : SignedFits(x, uClock)
         /\ uClock \in Nat
         /\ uCache = [uCache EXCEPT ![r] = uCache[r]] /\ uLook = [uLook EXCEPT ![r] = uLook[r]]
         /\ uOp = [uOp EXCEPT ![r] = uOp[r]]
BY DEF AccountsIInv, AccountTypes, ReplicaFits, RowFits

\* The operation under way begins or ends.
LEMMA OpMoves ==
  ASSUME AccountsIInv, NEW r \in AccReplicas, NEW o \in OpRow, uOp' = [uOp EXCEPT ![r] = o],
         o.op # "none" => o.user \in Accounts,
         UNCHANGED << uRow, uClock, uChanges, uCache, uLook, uSession, uOwn, uUsed, uTouched >>
  PROVE  AccountsIInv'
<1>1. uClock' \in Nat /\ uClock <= uClock' /\ uSession' \in [Accounts -> SUBSET SignedRow]
      /\ \A u \in Accounts : \A x \in uSession'[u] : SignedFits(x, uClock')
  BY ReplicaKnows DEF SignedFits
<1> QED
  BY <1>1, ReplicaKnows, ReplicaMoves

LEMMA RowsAreOlder ==
  ASSUME AccountsIInv, NEW u \in Accounts
  PROVE  Older(NoRow, u) /\ Older(uRow[u], u) /\ uRow[u] \in UserRow
BY NoRowFits DEF Older, AccountsIInv, AccountTypes, RowFits, UserRow

LEMMA LookupReadsKeeps ==
  ASSUME AccountsIInv, NEW r \in AccReplicas, NEW u \in Accounts, LookupReads(r, u) PROVE AccountsIInv'
<1> DEFINE cache == [uCache[r] EXCEPT ![u] = NoRow]
           look == IF uRow[u].there THEN [kind |-> "lookup", user |-> u, row |-> uRow[u]] ELSE uLook[r]
<1>1. cache \in [Accounts -> UserRow] /\ \A v \in Accounts : Older(cache[v], v)
  BY ReplicaKnows, NoRowFits, RowsAreOlder
<1>2. look \in LookupRow /\ (look # NoLookup => look.user \in Accounts /\ Older(look.row, look.user))
  BY ReplicaKnows, RowsAreOlder DEF LookupRow, AccountNames
<1>3. uCache' = [uCache EXCEPT ![r] = cache] /\ uLook' = [uLook EXCEPT ![r] = look]
      /\ UNCHANGED << uRow, uClock, uChanges, uOp, uSession, uOwn, uUsed, uTouched >>
  BY ReplicaKnows DEF LookupReads, Remember
<1>4. uClock' \in Nat /\ uClock <= uClock' /\ uSession' \in [Accounts -> SUBSET SignedRow]
      /\ \A v \in Accounts : \A x \in uSession'[v] : SignedFits(x, uClock')
  BY <1>3, ReplicaKnows DEF SignedFits
<1> HIDE DEF cache, look
<1> QED
  BY <1>1, <1>2, <1>3, <1>4, ReplicaKnows, ReplicaMoves

LEMMA LoginReadsKeeps ==
  ASSUME AccountsIInv, NEW r \in AccReplicas, NEW u \in Accounts, LoginReads(r, u) PROVE AccountsIInv'
<1> DEFINE look == [kind |-> "login", user |-> u, row |-> uRow[u]]
<1>1. look \in LookupRow /\ look.user \in Accounts /\ Older(look.row, look.user)
  BY RowsAreOlder DEF LookupRow, AccountNames
<1>2. uLook' = [uLook EXCEPT ![r] = look] /\ UNCHANGED << uRow, uClock, uChanges, uCache, uOp, uSession, uOwn, uUsed, uTouched >>
  BY DEF LoginReads
<1>3. uClock' \in Nat /\ uClock <= uClock' /\ uSession' \in [Accounts -> SUBSET SignedRow]
      /\ \A v \in Accounts : \A x \in uSession'[v] : SignedFits(x, uClock')
  BY <1>2, ReplicaKnows DEF SignedFits
<1> HIDE DEF look
<1> QED
  BY <1>1, <1>2, <1>3, ReplicaKnows, ReplicaMoves

LEMMA LookupDoneKeeps ==
  ASSUME AccountsIInv, NEW r \in AccReplicas, LookupDone(r) PROVE AccountsIInv'
<1> DEFINE u == uLook[r].user
           cache == [uCache[r] EXCEPT ![u] = uLook[r].row]
<1>1. u \in Accounts /\ uLook[r].row \in UserRow /\ Older(uLook[r].row, u)
  <2>1. uLook[r] # NoLookup
    BY DEF LookupDone
  <2>2. uLook[r].row \in UserRow
    BY ReplicaKnows DEF LookupRow
  <2> QED
    BY <2>1, <2>2, ReplicaKnows
<1>2. cache \in [Accounts -> UserRow] /\ \A v \in Accounts : Older(cache[v], v)
  BY <1>1, ReplicaKnows
<1>3. uCache' = [uCache EXCEPT ![r] = cache] /\ uLook' = [uLook EXCEPT ![r] = NoLookup]
      /\ UNCHANGED << uRow, uChanges, uOp, uOwn, uUsed, uTouched >>
  BY ReplicaKnows DEF LookupDone, Remember
<1>c. uClock \in Nat /\ uClock' \in Nat /\ uClock <= uClock'
  BY ReplicaKnows DEF LookupDone, Passes
<1> DEFINE made == SessionMade(uClock' + Skew[r], uClock')
<1>m. made \in SignedRow /\ SignedFits(made, uClock')
  BY <1>c, ClocksDiffer, SomeAccounts DEF SessionMade, SignedRow, SignedFits
<1>4. uSession' = uSession \/ uSession' = [uSession EXCEPT ![u] = @ \cup {made}]
  BY DEF LookupDone
<1> HIDE DEF made
<1>5. uSession' \in [Accounts -> SUBSET SignedRow] /\ \A v \in Accounts : \A x \in uSession'[v] : SignedFits(x, uClock')
  <2>1. uSession \in [Accounts -> SUBSET SignedRow] /\ \A v \in Accounts : \A x \in uSession[v] : SignedFits(x, uClock)
    BY ReplicaKnows
  <2> HIDE DEF u
  <2>2. uSession' \in [Accounts -> SUBSET SignedRow]
        /\ \A v \in Accounts : \A x \in uSession'[v] : x \in uSession[v] \/ x = made
    BY <1>1, <1>4, <1>m, <2>1
  <2>3. ASSUME NEW v \in Accounts, NEW x, x \in uSession'[v] PROVE SignedFits(x, uClock')
    <3>1. CASE x \in uSession[v]
      <4>1. x \in SignedRow /\ SignedFits(x, uClock)
        BY <2>1, <3>1
      <4> QED
        BY <1>c, <4>1, SessionsFitOn
    <3>2. CASE x = made
      BY <1>m, <3>2
    <3> QED
      BY <2>2, <2>3, <3>1, <3>2
  <2> QED
    BY <2>2, <2>3
<1> HIDE DEF cache
<1> QED
  BY <1>2, <1>3, <1>5, <1>c, ReplicaKnows, ReplicaMoves, NoLookupFits

LEMMA ChangeReadsKeeps ==
  ASSUME AccountsIInv, NEW r \in AccReplicas, NEW u \in Accounts, ChangeReads(r, u) PROVE AccountsIInv'
<1> DEFINE o == [NoOp EXCEPT !.op = "change", !.user = u, !.pw = uRow[u].pw]
<1>1. o \in OpRow /\ o.user = u
  BY NoOpFits, RowsAreOlder DEF OpRow, AccountNames, UserRow
<1>2. uOp' = [uOp EXCEPT ![r] = o] /\ UNCHANGED << uRow, uClock, uChanges, uCache, uLook, uSession, uOwn, uUsed, uTouched >>
  BY DEF ChangeReads
<1> HIDE DEF o
<1> QED
  BY <1>1, <1>2, OpMoves

LEMMA RefusedKeeps ==
  ASSUME AccountsIInv, NEW r \in AccReplicas, ChangeRefused(r) \/ AdminRefused(r) PROVE AccountsIInv'
<1>1. uOp' = [uOp EXCEPT ![r] = NoOp] /\ UNCHANGED << uRow, uClock, uChanges, uCache, uLook, uSession, uOwn, uUsed, uTouched >>
  BY DEF ChangeRefused, AdminRefused
<1> QED
  BY <1>1, OpMoves, NoOpFits

LEMMA AdminReadsKeeps ==
  ASSUME AccountsIInv, NEW r \in AccReplicas, NEW a \in Accounts, NEW u \in Accounts, NEW op \in AdminDeeds,
         NEW want \in RoleChoices, NEW off \in BOOLEAN, AdminReads(r, a, u, op, want, off)
  PROVE  AccountsIInv'
<1> DEFINE o == [op |-> op, user |-> u, super |-> Super(r, a), tenant |-> uCache[r][a].tenant,
                 role |-> want.role, to |-> want.tenant, off |-> off, pw |-> 0]
<1>1. Super(r, a) \in BOOLEAN /\ uCache[r][a].tenant \in AccountTenants
  BY ReplicaKnows DEF Super, UserRow
<1>2. want.role \in AccountRoleSet /\ want.tenant \in AccountTenants
  BY DEF AccountRoleSet, AccountTenants
<1>3. o \in OpRow /\ o.user = u
  BY <1>1, <1>2 DEF OpRow, AccountNames
<1>4. uOp' = [uOp EXCEPT ![r] = o] /\ UNCHANGED << uRow, uClock, uChanges, uCache, uLook, uSession, uOwn, uUsed, uTouched >>
  BY DEF AdminReads
<1> HIDE DEF o
<1> QED
  BY <1>3, <1>4, OpMoves

\* An account changes.
LEMMA RowChanges ==
  ASSUME AccountsIInv, Change, NEW u \in Accounts, NEW new \in UserRow, uRow' = [uRow EXCEPT ![u] = new],
         new.at <= uClock', new.changed = new.at, new.pw <= uChanges + 1,
         new.there => /\ new.at = uClock'
                      /\ new.pw = uChanges + 1 \/ (uRow[u].there /\ new.pw = uRow[u].pw),
         uCache' \in [AccReplicas -> [Accounts -> UserRow]],
         \A r \in AccReplicas : \A v \in Accounts : uCache'[r][v] = uCache[r][v] \/ uCache'[r][v] = NoRow,
         uSession' \in [Accounts -> SUBSET SignedRow],
         \A v \in Accounts : \A x \in uSession'[v] : x \in uSession[v] \/ x = SessionMade(uClock', uClock'),
         uOp' \in [AccReplicas -> OpRow],
         \A r \in AccReplicas : uOp'[r] = uOp[r] \/ uOp'[r].op = "none",
         uLook' = uLook
  PROVE  /\ uRow' \in [Accounts -> UserRow] /\ uClock' \in Nat /\ uChanges' \in 0 .. MaxChanges
         /\ \A v \in Accounts : RowFits(v)'
         /\ \A r \in AccReplicas : ReplicaFits(r)'
         /\ \A x \in uUsed : UsedFits(x)'
<1>1. uRow' \in [Accounts -> UserRow] /\ uRow'[u] = new /\ \A v \in Accounts : v # u => uRow'[v] = uRow[v]
  BY DEF AccountsIInv, AccountTypes
<1>2. /\ uChanges' = uChanges + 1 /\ uChanges \in Nat /\ uChanges' \in 0 .. MaxChanges
      /\ uClock \in Nat /\ uClock' \in Nat /\ uClock <= uClock'
  BY SomeAccounts DEF Change, Passes, AccountsIInv, AccountTypes
<1>3. \A v \in Accounts : uRow[v].at \in Nat /\ uRow[v].pw \in Nat /\ uRow'[v].at \in Nat /\ uRow'[v].pw \in Nat
  BY <1>1 DEF AccountsIInv, AccountTypes, UserRow
<1>4. ASSUME NEW v \in Accounts PROVE RowFits(v)'
  <2>1. uRow'[v].at <= uClock' /\ uRow'[v].pw <= uChanges' /\ uRow'[v].changed = uRow'[v].at
    <3>1. CASE v = u
      BY <3>1, <1>1, <1>2
    <3>2. CASE v # u
      BY <3>2, <1>1, <1>2, <1>3 DEF AccountsIInv, RowFits
    <3> QED
      BY <3>1, <3>2
  <2>2. ASSUME NEW x, x \in uSession'[v] PROVE SignedFits(x, uClock')
    <3>1. CASE x \in uSession[v]
      <4>1. x \in SignedRow /\ SignedFits(x, uClock)
        BY <3>1 DEF AccountsIInv, AccountTypes, RowFits
      <4> QED
        BY <4>1, <1>2, SessionsFitOn
    <3>2. CASE x = SessionMade(uClock', uClock')
      <4>1. x.iat = uClock' /\ x.when = uClock'
        BY <3>2 DEF SessionMade
      <4>2. x.when <= uClock' /\ x.iat <= x.when + MaxSkew
        BY <4>1, <1>2, SomeAccounts
      <4> QED
        BY <4>2 DEF SignedFits
    <3> QED
      BY <2>2, <3>1, <3>2
  <2> QED
    BY <2>1, <2>2 DEF RowFits
<1>5. ASSUME NEW v \in Accounts, NEW row \in UserRow, Older(row, v) PROVE Older(row, v)'
  <2>1. row.at \in Nat /\ row.at <= uClock
    BY <1>5 DEF Older, UserRow
  <2>2. CASE v = u
    BY <2>1, <2>2, <1>1, <1>2 DEF Older
  <2>3. CASE v # u
    BY <2>1, <2>3, <1>1, <1>2, <1>5 DEF Older
  <2> QED
    BY <2>2, <2>3
<1>6. ASSUME NEW r \in AccReplicas PROVE ReplicaFits(r)'
  <2>1. ASSUME NEW v \in Accounts PROVE Older(uCache[r][v], v)' /\ Older(NoRow, v)'
    BY <1>5, ReplicaKnows, RowsAreOlder, NoRowFits
  <2> QED
    BY <2>1, <1>5, ReplicaKnows DEF ReplicaFits, LookupRow
<1>7. ASSUME NEW x \in uUsed PROVE UsedFits(x)'
  <2>1. x[1] \in Accounts /\ x[2] \in Nat /\ x[3] \in Nat
    BY DEF AccountsIInv, AccountTypes
  <2>2. x[2] < x[3] /\ x[3] <= uChanges /\ (uRow[x[1]].there => x[3] <= uRow[x[1]].pw)
    BY DEF AccountsIInv, UsedFits
  <2>3. CASE x[1] = u
    BY <2>1, <2>2, <2>3, <1>1, <1>2, <1>3 DEF UsedFits
  <2>4. CASE x[1] # u
    BY <2>1, <2>2, <2>4, <1>1, <1>2 DEF UsedFits
  <2> QED
    BY <2>3, <2>4
<1> QED
  BY <1>1, <1>2, <1>4, <1>6, <1>7

LEMMA OpEnds ==
  ASSUME AccountsIInv, NEW r \in AccReplicas, uOp' = [uOp EXCEPT ![r] = NoOp]
  PROVE  uOp' \in [AccReplicas -> OpRow] /\ \A q \in AccReplicas : uOp'[q] = uOp[q] \/ uOp'[q].op = "none"
BY NoOpFits DEF AccountsIInv, AccountTypes

\* An administrator's write.
LEMMA WrittenKeeps ==
  ASSUME AccountsIInv, NEW r \in AccReplicas, NEW u \in Accounts, NEW row \in UserRow, Written(r, u, row),
         row.there => row.pw = uChanges + 1 \/ (uRow[u].there /\ row.pw = uRow[u].pw),
         row.there \/ row = NoRow, row.pw <= uChanges + 1, uTouched' = FALSE
  PROVE  AccountsIInv'
<1> DEFINE new == IF row.there THEN [row EXCEPT !.at = uClock', !.changed = uClock'] ELSE row
<1>1. uClock' \in Nat /\ uClock \in Nat
  BY DEF Written, Change, Passes, AccountsIInv, AccountTypes
<1>2. new \in UserRow /\ new.there = row.there /\ new.pw = row.pw /\ new.changed = new.at
      /\ new.at <= uClock' /\ (new.there => new.at = uClock')
  <2>1. CASE row.there
    <3>1. new = [row EXCEPT !.at = uClock', !.changed = uClock']
      BY <2>1
    <3> HIDE DEF new
    <3>2. new \in UserRow /\ new.there = row.there /\ new.pw = row.pw
      BY <1>1, <3>1 DEF UserRow
    <3>3. new.at = uClock' /\ new.changed = uClock'
      BY <3>1 DEF UserRow
    <3> QED
      BY <1>1, <3>2, <3>3
  <2>2. CASE ~row.there
    <3>1. new = NoRow /\ row = NoRow
      BY <2>2
    <3> HIDE DEF new
    <3> QED
      BY <1>1, <2>2, <3>1, NoRowFits
  <2> QED
    BY <2>1, <2>2
<1>3. Change /\ uRow' = [uRow EXCEPT ![u] = new] /\ uOp' = [uOp EXCEPT ![r] = NoOp]
      /\ UNCHANGED << uCache, uLook, uSession, uOwn, uUsed >>
  BY DEF Written
<1> HIDE DEF new
<1>4. /\ uRow' \in [Accounts -> UserRow] /\ uClock' \in Nat /\ uChanges' \in 0 .. MaxChanges
      /\ \A v \in Accounts : RowFits(v)'
      /\ \A q \in AccReplicas : ReplicaFits(q)'
      /\ \A x \in uUsed : UsedFits(x)'
  <2>1. new.pw <= uChanges + 1 /\ (new.there => new.pw = uChanges + 1 \/ (uRow[u].there /\ new.pw = uRow[u].pw))
    BY <1>2
  <2>2. uCache' \in [AccReplicas -> [Accounts -> UserRow]] /\ uSession' \in [Accounts -> SUBSET SignedRow]
        /\ uCache' = uCache /\ uSession' = uSession /\ uLook' = uLook
    BY <1>3 DEF AccountsIInv, AccountTypes
  <2> QED
    BY <1>2, <1>3, <2>1, <2>2, OpEnds, RowChanges
<1>5. AccountTypes'
  BY <1>3, <1>4, OpEnds DEF AccountsIInv, AccountTypes
<1>6. OneChangeWins' /\ \A x \in uUsed' : UsedFits(x)'
  BY <1>3, <1>4 DEF AccountsIInv, OneChangeWins
<1> QED
  BY <1>4, <1>5, <1>6 DEF AccountsIInv

LEMMA RowOfOp ==
  ASSUME AccountsIInv, NEW r \in AccReplicas, uOp[r].op # "none"
  PROVE  /\ uOp[r].user \in Accounts /\ uRow[uOp[r].user] \in UserRow /\ uRow[uOp[r].user].pw <= uChanges
         /\ uRow[uOp[r].user].pw \in Nat /\ uChanges \in Nat /\ uClock \in Nat /\ uOp[r] \in OpRow /\ uTouched = FALSE
<1>1. uOp[r].user \in Accounts /\ uOp[r] \in OpRow
  BY ReplicaKnows
<1>2. uRow[uOp[r].user] \in UserRow
  BY <1>1, RowsAreOlder
<1>3. uChanges \in Nat /\ uClock \in Nat /\ uTouched = FALSE /\ RowFits(uOp[r].user)
  BY <1>1, SomeAccounts DEF AccountsIInv, AccountTypes
<1> QED
  BY <1>1, <1>2, <1>3 DEF RowFits, UserRow

LEMMA NobodyTouched ==
  ASSUME NEW o, NEW row, notAdminCond(o, row) PROVE ~(~o.super /\ hasAdminRole(row)) /\ row.there
BY DEF notAdminCond, MayTouch

LEMMA SetTenantRolesKeeps == ASSUME AccountsIInv, NEW r \in AccReplicas, SetTenantRoles(r) PROVE AccountsIInv'
<1>1. PICK u \in Accounts : u = uOp[r].user
  BY RowOfOp DEF SetTenantRoles
<1>2. uRow[u] \in UserRow /\ uRow[u].pw <= uChanges /\ uRow[u].pw \in Nat /\ uChanges \in Nat /\ uOp[r] \in OpRow
  BY <1>1, RowOfOp DEF SetTenantRoles
<1> DEFINE row == [uRow[u] EXCEPT !.role = uOp[r].role, !.tenant = uOp[r].to]
<1>3. row \in UserRow /\ row.pw = uRow[u].pw /\ row.there = uRow[u].there
  BY <1>2 DEF UserRow, OpRow
<1>4. Written(r, u, row)
  BY <1>1 DEF SetTenantRoles
<1>5. uTouched' = FALSE
  BY <1>1, NobodyTouched, RowOfOp DEF SetTenantRoles
<1> HIDE DEF row
<1>6. row.pw <= uChanges + 1 /\ row.there /\ uRow[u].there
  BY <1>1, <1>2, <1>3, NobodyTouched DEF SetTenantRoles
<1> QED
  BY <1>3, <1>4, <1>5, <1>6, WrittenKeeps

LEMMA SetDisabledKeeps == ASSUME AccountsIInv, NEW r \in AccReplicas, SetDisabled(r) PROVE AccountsIInv'
<1>1. PICK u \in Accounts : u = uOp[r].user
  BY RowOfOp DEF SetDisabled
<1>2. uRow[u] \in UserRow /\ uRow[u].pw <= uChanges /\ uRow[u].pw \in Nat /\ uChanges \in Nat /\ uOp[r] \in OpRow
  BY <1>1, RowOfOp DEF SetDisabled
<1> DEFINE row == [uRow[u] EXCEPT !.off = uOp[r].off]
<1>3. row \in UserRow /\ row.pw = uRow[u].pw /\ row.there = uRow[u].there
  BY <1>2 DEF UserRow, OpRow
<1>4. Written(r, u, row)
  BY <1>1 DEF SetDisabled
<1>5. uTouched' = FALSE
  BY <1>1, NobodyTouched, RowOfOp DEF SetDisabled
<1> HIDE DEF row
<1>6. row.pw <= uChanges + 1 /\ row.there /\ uRow[u].there
  BY <1>1, <1>2, <1>3, NobodyTouched DEF SetDisabled
<1> QED
  BY <1>3, <1>4, <1>5, <1>6, WrittenKeeps

LEMMA DeleteKeeps == ASSUME AccountsIInv, NEW r \in AccReplicas, Delete(r) PROVE AccountsIInv'
<1>1. uOp[r].user \in Accounts /\ uChanges \in Nat /\ uTouched' = FALSE
  BY RowOfOp DEF Delete
<1>2. Written(r, uOp[r].user, NoRow)
  BY DEF Delete
<1>3. NoRow \in UserRow /\ NoRow.there = FALSE /\ NoRow.pw <= uChanges + 1
  BY <1>1, NoRowFits
<1> QED
  BY <1>1, <1>2, <1>3, WrittenKeeps

LEMMA ResetPasswordKeeps == ASSUME AccountsIInv, NEW r \in AccReplicas, ResetPassword(r) PROVE AccountsIInv'
<1>1. PICK u \in Accounts : u = uOp[r].user
  BY RowOfOp DEF ResetPassword
<1>2. uRow[u] \in UserRow /\ uChanges \in Nat /\ uTouched' = FALSE /\ uRow[u].there
  BY <1>1, RowOfOp DEF ResetPassword
<1> DEFINE row == [uRow[u] EXCEPT !.pw = uChanges + 1]
<1>3. row \in UserRow /\ row.pw = uChanges + 1 /\ row.there
  BY <1>2 DEF UserRow
<1>4. Written(r, u, row)
  BY <1>1 DEF ResetPassword
<1> HIDE DEF row
<1>5. row.pw <= uChanges + 1
  BY <1>2, <1>3
<1> QED
  BY <1>2, <1>3, <1>4, <1>5, WrittenKeeps

LEMMA CreateKeeps ==
  ASSUME AccountsIInv, NEW r \in AccReplicas, NEW a \in Accounts, NEW u \in Accounts, NEW want \in RoleChoices,
         Create(r, a, u, want)
  PROVE  AccountsIInv'
<1> DEFINE new == [there |-> TRUE, role |-> want.role, tenant |-> want.tenant,
                   off |-> FALSE, pw |-> uChanges', at |-> uClock', changed |-> uClock']
<1>1. uClock' \in Nat /\ uChanges' = uChanges + 1 /\ uChanges \in Nat
  BY DEF Create, Change, Passes, AccountsIInv, AccountTypes
<1>2. want.role \in AccountRoleSet /\ want.tenant \in AccountTenants
  BY DEF AccountRoleSet, AccountTenants
<1>3. new \in UserRow /\ new.pw = uChanges + 1 /\ new.at = uClock' /\ new.changed = uClock'
  BY <1>1, <1>2 DEF UserRow
<1>4. Change /\ uRow' = [uRow EXCEPT ![u] = new]
      /\ UNCHANGED << uCache, uLook, uOp, uSession, uOwn, uUsed, uTouched >>
  BY DEF Create
<1> HIDE DEF new
<1>5. /\ uRow' \in [Accounts -> UserRow] /\ uClock' \in Nat /\ uChanges' \in 0 .. MaxChanges
      /\ \A v \in Accounts : RowFits(v)'
      /\ \A q \in AccReplicas : ReplicaFits(q)'
      /\ \A x \in uUsed : UsedFits(x)'
  <2>1. new.at <= uClock' /\ new.pw <= uChanges + 1 /\ new.changed = new.at
    BY <1>1, <1>3
  <2>2. uCache' \in [AccReplicas -> [Accounts -> UserRow]] /\ uSession' \in [Accounts -> SUBSET SignedRow]
        /\ uOp' \in [AccReplicas -> OpRow]
        /\ uCache' = uCache /\ uSession' = uSession /\ uLook' = uLook /\ uOp' = uOp
    BY <1>4 DEF AccountsIInv, AccountTypes
  <2> QED
    BY <1>3, <1>4, <2>1, <2>2, RowChanges
<1>6. AccountTypes'
  BY <1>4, <1>5 DEF AccountsIInv, AccountTypes
<1>7. OneChangeWins' /\ \A x \in uUsed' : UsedFits(x)'
  BY <1>4, <1>5 DEF AccountsIInv, OneChangeWins
<1> QED
  BY <1>5, <1>6, <1>7 DEF AccountsIInv

\* Whoever compared the same old password before has not changed it since.
LEMMA ChangePasswordKeeps == ASSUME AccountsIInv, NEW r \in AccReplicas, ChangePassword(r) PROVE AccountsIInv'
<1>1. PICK u \in Accounts : u = uOp[r].user
  BY RowOfOp DEF ChangePassword
<1>2. uRow[u] \in UserRow /\ uRow[u].pw <= uChanges /\ uRow[u].pw \in Nat /\ uChanges \in Nat /\ uClock \in Nat
      /\ uTouched' = FALSE /\ uRow[u].there /\ uOp[r].pw = uRow[u].pw
  BY <1>1, RowOfOp DEF ChangePassword
<1>3. uClock' \in Nat /\ uChanges' = uChanges + 1 /\ uChanges' \in Nat
  BY <1>2 DEF ChangePassword, Change, Passes
<1> DEFINE new == [uRow[u] EXCEPT !.pw = uChanges', !.at = uClock', !.changed = uClock']
           made == SessionMade(uClock', uClock')
           cache == [uCache[r] EXCEPT ![u] = NoRow]
<1>4. new \in UserRow /\ new.pw = uChanges + 1 /\ new.at = uClock' /\ new.changed = uClock'
  BY <1>2, <1>3 DEF UserRow
<1>5. /\ Change /\ uRow' = [uRow EXCEPT ![u] = new] /\ uCache' = [uCache EXCEPT ![r] = cache]
      /\ uSession' = [uSession EXCEPT ![u] = @ \cup {made}] /\ uOwn' = [uOwn EXCEPT ![u] = uClock']
      /\ uUsed' = uUsed \cup { << u, uRow[u].pw, uChanges' >> }
      /\ uOp' = [uOp EXCEPT ![r] = NoOp] /\ uLook' = uLook
  BY <1>1, <1>2, ReplicaKnows DEF ChangePassword, Remember
<1>6. cache \in [Accounts -> UserRow] /\ \A v \in Accounts : cache[v] = uCache[r][v] \/ cache[v] = NoRow
  BY ReplicaKnows, NoRowFits
<1>m. made \in SignedRow
  BY <1>3 DEF SessionMade, SignedRow
<1> HIDE DEF new, cache
<1>7. uCache' \in [AccReplicas -> [Accounts -> UserRow]]
      /\ \A q \in AccReplicas : \A v \in Accounts : uCache'[q][v] = uCache[q][v] \/ uCache'[q][v] = NoRow
  BY <1>5, <1>6 DEF AccountsIInv, AccountTypes
<1>8. uSession' \in [Accounts -> SUBSET SignedRow] /\ uOwn' \in [Accounts -> Nat]
      /\ \A v \in Accounts : \A x \in uSession'[v] : x \in uSession[v] \/ x = made
  <2> HIDE DEF made
  <2> QED
    BY <1>2, <1>3, <1>5, <1>m DEF AccountsIInv, AccountTypes
<1>9. /\ uRow' \in [Accounts -> UserRow] /\ uClock' \in Nat /\ uChanges' \in 0 .. MaxChanges
      /\ \A v \in Accounts : RowFits(v)'
      /\ \A q \in AccReplicas : ReplicaFits(q)'
      /\ \A x \in uUsed : UsedFits(x)'
  <2>1. new.at <= uClock' /\ new.pw <= uChanges + 1 /\ new.changed = new.at
    BY <1>2, <1>3, <1>4
  <2> QED
    BY <1>4, <1>5, <1>7, <1>8, <2>1, OpEnds, RowChanges
<1>10. AccountTypes'
  <2>1. << u, uRow[u].pw, uChanges' >> \in Accounts \X Nat \X Nat
    BY <1>2, <1>3
  <2>2. uUsed' \subseteq Accounts \X Nat \X Nat
    BY <1>5, <2>1 DEF AccountsIInv, AccountTypes
  <2>3. uOp' \in [AccReplicas -> OpRow] /\ uLook' \in [AccReplicas -> LookupRow]
    BY <1>5, OpEnds DEF AccountsIInv, AccountTypes
  <2> QED
    BY <1>2, <1>7, <1>8, <1>9, <2>2, <2>3 DEF AccountTypes
<1>11. uRow'[u].pw = uChanges + 1
  BY <1>4, <1>5 DEF AccountsIInv, AccountTypes
<1>12. ASSUME NEW x \in uUsed' PROVE UsedFits(x)'
  BY <1>2, <1>3, <1>5, <1>9, <1>11 DEF UsedFits
<1>13. ASSUME NEW x \in uUsed, x[1] = u PROVE x[2] # uRow[u].pw
  <2>1. x[2] \in Nat /\ x[3] \in Nat /\ x[2] < x[3] /\ x[3] <= uRow[u].pw
    BY <1>2, <1>13 DEF AccountsIInv, AccountTypes, UsedFits
  <2> QED
    BY <2>1, <1>2
<1>14. OneChangeWins'
  BY <1>5, <1>13 DEF AccountsIInv, OneChangeWins
<1> QED
  BY <1>9, <1>10, <1>12, <1>14 DEF AccountsIInv

LEMMA AccountsKeep == ASSUME AccountsIInv, AccountsNext PROVE AccountsIInv'
<1>1. PICK r \in AccReplicas :
        \/ \E u \in Visitors : LookupReads(r, u) \/ LoginReads(r, u) \/ ChangeReads(r, u)
        \/ LookupDone(r) \/ ChangePassword(r) \/ ChangeRefused(r)
        \/ \E d \in Deeds :
             \E want \in IF d[1] = "roles" THEN RoleChoices ELSE {CHOOSE x \in RoleChoices : TRUE},
                off \in IF d[1] = "disable" THEN BOOLEAN ELSE {FALSE} :
                  AdminReads(r, d[2], d[3], d[1], want, off)
        \/ \E a \in Accounts, u \in Newcomers, want \in RoleChoices : Create(r, a, u, want)
        \/ SetTenantRoles(r) \/ SetDisabled(r) \/ Delete(r) \/ ResetPassword(r) \/ AdminRefused(r)
  BY Zenon DEF AccountsNext
<1>2. CASE \E u \in Visitors : LookupReads(r, u) \/ LoginReads(r, u) \/ ChangeReads(r, u)
  BY <1>2, SomeAccounts, LookupReadsKeeps, LoginReadsKeeps, ChangeReadsKeeps
<1>3. CASE LookupDone(r) \/ ChangePassword(r) \/ ChangeRefused(r) \/ AdminRefused(r)
  BY <1>3, LookupDoneKeeps, ChangePasswordKeeps, RefusedKeeps
<1>4. ASSUME NEW d \in Deeds,
             NEW want \in IF d[1] = "roles" THEN RoleChoices ELSE {CHOOSE x \in RoleChoices : TRUE},
             NEW off \in IF d[1] = "disable" THEN BOOLEAN ELSE {FALSE},
             AdminReads(r, d[2], d[3], d[1], want, off)
      PROVE  AccountsIInv'
  <2>1. d[1] \in AdminDeeds /\ d[2] \in Accounts /\ d[3] \in Accounts /\ RoleChoices # {}
    BY AccountsAssumption DEF AdminDeeds
  <2>2. want \in RoleChoices /\ off \in BOOLEAN
    BY <2>1
  <2> QED
    BY <1>4, <2>1, <2>2, AdminReadsKeeps
<1>5. CASE \E a \in Accounts, u \in Newcomers, want \in RoleChoices : Create(r, a, u, want)
  BY <1>5, SomeAccounts, CreateKeeps
<1>6. CASE SetTenantRoles(r) \/ SetDisabled(r) \/ Delete(r) \/ ResetPassword(r)
  BY <1>6, SetTenantRolesKeeps, SetDisabledKeeps, DeleteKeeps, ResetPasswordKeeps
<1> QED
  BY <1>1, <1>2, <1>3, <1>4, <1>5, <1>6, Zenon

LEMMA AccountsStay == ASSUME AccountsIInv, UNCHANGED uVars PROVE AccountsIInv'
BY DEF uVars, AccountsIInv, AccountTypes, OneChangeWins, RowFits, SignedFits, ReplicaFits, Older, UsedFits

LEMMA AccountsSound == AccountsIInv => AccountsInv
<1> SUFFICES ASSUME AccountsIInv PROVE AccountsInv
  OBVIOUS
<1>1. ASSUME NEW u \in Accounts PROVE uRow[u].at \in 0..uClock /\ \A x \in uSession[u] : x.when \in 0..uClock
  BY DEF AccountsIInv, AccountTypes, RowFits, UserRow, SignedRow, SignedFits
<1>2. AccountsTypeOK
  BY <1>1, SomeAccounts DEF AccountsTypeOK, AccountsIInv, AccountTypes
<1>3. ASSUME NEW u \in Accounts, NEW r \in AccReplicas, uRow[u].there, uOwn[u] = uRow[u].at,
             uCache[r][u].there, ~uCache[r][u].off
      PROVE  Authenticate(r, u, uOwn[u])
  <2>1. uCache[r][u].at <= uRow[u].at /\ uCache[r][u] \in UserRow /\ uRow[u] \in UserRow
    BY <1>3 DEF AccountsIInv, AccountTypes, ReplicaFits, Older
  <2> QED
    BY <1>3, <2>1 DEF Authenticate, UserRow
<1>4. OwnSessionGood
  BY <1>3 DEF OwnSessionGood
<1>5. OldSessionsGo
  <2> SUFFICES ASSUME NEW u \in Accounts, NEW r \in AccReplicas, uCache[r][u] = uRow[u],
                      NEW x \in uSession[u], Authenticate(r, u, x.iat)
               PROVE  x.when + MaxSkew >= uRow[u].changed
    BY DEF OldSessionsGo
  <2>1. x.iat \in Int /\ x.when \in Nat /\ x.iat <= x.when + MaxSkew
    BY DEF AccountsIInv, AccountTypes, RowFits, SignedRow, SignedFits
  <2>2. uRow[u].at \in Nat /\ uRow[u].changed = uRow[u].at /\ x.iat >= uRow[u].at
    BY DEF AccountsIInv, AccountTypes, RowFits, UserRow, Authenticate
  <2> QED
    BY <2>1, <2>2, SomeAccounts
<1> QED
  BY <1>2, <1>4, <1>5 DEF AccountsIInv, AccountTypes, AccountsInv

-----------------------------------------------------------------------------
(* Access tokens *)

TokenStates == {"none", "active", "revoked", "expired"}
TokenRow == [user : TokenUsers \cup {""}, status : TokenStates, by : Providers \cup {"builtin"}]
MakeRow == [user : TokenUsers \cup {""}, pc : {"idle", "lock", "count", "insert"}]

TokensTypes ==
  /\ tToken \in [TokenIds -> TokenRow] /\ tNext \in Nat
  /\ tLock \in [TokenUsers -> Makers \cup {""}]
  /\ tMake \in [Makers -> MakeRow]

\* A token has an owner and an old number.
TokenFits(i) ==
  tToken[i].status # "none" =>
    tToken[i].user \in TokenUsers /\ i < tNext

MakeFits(p) ==
  /\ tMake[p].pc # "idle" => tMake[p].user \in TokenUsers
  /\ tMake[p].pc = "idle" => tMake[p] = NoMake

\* How many tokens of each user work.
TokensHeld == [u \in TokenUsers |-> Cardinality(Active(u))]

\* There is still room when the token that was counted for is inserted.
Room(p) ==
  tMake[p].pc = "insert" /\ MaxPerUser > 0 => TokensHeld[tMake[p].user] < MaxPerUser

TokensIInv ==
  /\ TokensTypes /\ CountedUnderLock
  /\ \A u \in TokenUsers : MaxPerUser > 0 => TokensHeld[u] <= MaxPerUser
  /\ \A i \in TokenIds : TokenFits(i)
  /\ \A p \in Makers : MakeFits(p) /\ Room(p)

LEMMA ActiveAreFew ==
  ASSUME TokensTypes, \A i \in TokenIds : TokenFits(i), NEW u \in TokenUsers
  PROVE  IsFiniteSet(Active(u)) /\ Cardinality(Active(u)) \in Nat /\ tNext \notin Active(u)
<1>0. tNext \in Nat /\ TokenIds \subseteq Nat
  BY AiTokensAssumption DEF TokensTypes
<1>a. ASSUME NEW i \in Active(u) PROVE i \in Nat /\ i < tNext
  <2>1. i \in TokenIds /\ tToken[i].status # "none"
    BY DEF Active
  <2> QED
    BY <1>0, <2>1 DEF TokenFits
<1>1. Active(u) \subseteq 0..tNext
  BY <1>0, <1>a
<1>2. tNext \notin Active(u)
  BY <1>0, <1>a
<1>3. IsFiniteSet(0..tNext)
  <2>1. 0 \in Int /\ tNext \in Int
    BY <1>0
  <2> QED
    BY <2>1, FS_Interval, Zenon
<1>4. IsFiniteSet(Active(u))
  BY <1>1, <1>3, FS_Subset, Zenon
<1> QED
  BY <1>2, <1>4, FS_CardinalityType, Zenon

LEMMA TokenLimits == MaxPerUser \in Nat /\ TokenIds \subseteq Nat
BY AiTokensAssumption, Zenon

LEMMA NoMakeIsIdle == NoMake \in MakeRow /\ NoMake.pc = "idle"
BY Zenon DEF NoMake, MakeRow

\* Nobody else holds the lock that a request takes.
LEMMA FreeTokenLock ==
  ASSUME NEW p \in Makers, NEW q \in Makers, TakeLock(p)
  PROVE  tLock[tMake[p].user] # q
<1>1. tLock[tMake[p].user] = ""
  BY Zenon DEF TakeLock
<1> QED
  BY <1>1, AiTokensAssumption, Zenon

LEMMA TokensAreCounted ==
  ASSUME TokensTypes, \A i \in TokenIds : TokenFits(i)
  PROVE  TokensHeld \in [TokenUsers -> Nat]
<1>1. \A u \in TokenUsers : Cardinality(Active(u)) \in Nat
  BY ActiveAreFew, Zenon
<1> QED
  BY <1>1, Zenon DEF TokensHeld

LEMMA TokensFromTheStart == TokensInit => TokensIInv
<1> SUFFICES ASSUME TokensInit PROVE TokensIInv
  OBVIOUS
<1>1. TokensTypes /\ CountedUnderLock /\ \A i \in TokenIds : TokenFits(i)
  BY DEF TokensInit, TokensTypes, TokenRow, MakeRow, TokenStates, NoToken, NoMake, CountedUnderLock, TokenFits
<1>2. \A p \in Makers : MakeFits(p) /\ Room(p)
  BY DEF TokensInit, MakeFits, Room, NoMake
<1>3. ASSUME NEW u \in TokenUsers PROVE Active(u) = {}
  BY DEF Active, TokensInit, NoToken
<1>4. \A u \in TokenUsers : TokensHeld[u] = 0
  BY <1>3, FS_EmptySet, Zenon DEF TokensHeld
<1> QED
  BY <1>1, <1>2, <1>4, TokenLimits DEF TokensIInv

\* A step that makes no token and gives no room.
LEMMA TokensMove ==
  ASSUME TokensIInv, TokensTypes', CountedUnderLock',
         \A i \in TokenIds : tToken'[i].status # "none" => tToken'[i].user = tToken[i].user /\ tToken[i].status # "none",
         \A i \in TokenIds : tToken'[i].status = "active" => tToken[i].status = "active",
         tNext' = tNext,
         \A p \in Makers : MakeFits(p)',
         \A p \in Makers : tMake'[p].pc = "insert" => tMake'[p] = tMake[p]
  PROVE  TokensIInv'
<1>1. \A i \in TokenIds : TokenFits(i)'
  BY DEF TokensIInv, TokenFits
<1>2. ASSUME NEW u \in TokenUsers
      PROVE  Cardinality(Active(u)') <= Cardinality(Active(u)) /\ Cardinality(Active(u)') \in Nat
  <2>1. Active(u)' \subseteq Active(u)
    BY DEF Active
  <2>2. IsFiniteSet(Active(u))
    BY ActiveAreFew, Zenon DEF TokensIInv
  <2>3. IsFiniteSet(Active(u)') /\ Cardinality(Active(u)') <= Cardinality(Active(u))
    BY <2>1, <2>2, FS_Subset, Zenon
  <2> QED
    BY <2>3, FS_CardinalityType, Zenon
<1>3. \A u \in TokenUsers : TokensHeld'[u] <= TokensHeld[u]
  BY <1>2, Zenon DEF TokensHeld
<1>4. TokensHeld \in [TokenUsers -> Nat] /\ TokensHeld' \in [TokenUsers -> Nat]
  <2>1. TokensHeld \in [TokenUsers -> Nat]
    BY TokensAreCounted, Zenon DEF TokensIInv
  <2>2. TokensHeld' \in [TokenUsers -> Nat]
    BY <1>2, Zenon DEF TokensHeld
  <2> QED
    BY <2>1, <2>2
<1>5. \A u \in TokenUsers : MaxPerUser > 0 => TokensHeld'[u] <= MaxPerUser
  BY <1>3, <1>4, TokenLimits DEF TokensIInv
<1>6. ASSUME NEW p \in Makers PROVE Room(p)'
  BY <1>3, <1>4, TokenLimits DEF TokensIInv, MakeFits, Room
<1> QED
  BY <1>1, <1>5, <1>6 DEF TokensIInv

LEMMA UnlockedLocks ==
  ASSUME TokensIInv, NEW p \in Makers, Unlocked(p), tMake' = [tMake EXCEPT ![p] = NoMake]
  PROVE  /\ tLock' \in [TokenUsers -> Makers \cup {""}] /\ tMake' \in [Makers -> MakeRow]
         /\ CountedUnderLock' /\ \A q \in Makers : MakeFits(q)'
         /\ \A q \in Makers : q # p => tMake'[q] = tMake[q]
         /\ tMake'[p] = NoMake
<1>1. tLock' \in [TokenUsers -> Makers \cup {""}] /\ tMake' \in [Makers -> MakeRow]
  BY DEF Unlocked, TokensIInv, TokensTypes, NoMake, MakeRow
<1>2. tMake'[p] = NoMake /\ \A q \in Makers : q # p => tMake'[q] = tMake[q]
  BY DEF TokensIInv, TokensTypes
<1>3. ASSUME NEW q \in Makers PROVE MakeFits(q)'
  <2>1. CASE q = p
    BY <2>1, <1>2, NoMakeIsIdle DEF MakeFits
  <2>2. CASE q # p
    BY <2>2, <1>2 DEF MakeFits, TokensIInv
  <2> QED
    BY <2>1, <2>2
<1>4. ASSUME NEW q \in Makers, tMake'[q].pc \in {"count", "insert"} PROVE tLock'[tMake'[q].user] = q
  <2>1. q # p /\ tMake'[q] = tMake[q]
    <3>1. NoMake.pc = "idle"
      BY DEF NoMake
    <3> QED
      BY <3>1, <1>2, <1>4
  <2>2. tMake[q].user \in TokenUsers /\ tLock[tMake[q].user] = q
    BY <2>1, <1>4 DEF TokensIInv, MakeFits, CountedUnderLock
  <2> QED
    BY <2>1, <2>2 DEF Unlocked
<1> QED
  BY <1>1, <1>2, <1>3, <1>4 DEF CountedUnderLock

LEMMA CreateBeginsKeeps ==
  ASSUME TokensIInv, NEW p \in Makers, NEW u \in TokenUsers, CreateBegins(p, u) PROVE TokensIInv'
<1> DEFINE new == [user |-> u, pc |-> "lock"]
<1>1. new \in MakeRow /\ new.user = u /\ new.pc = "lock"
  BY DEF MakeRow
<1>2. tMake' = [tMake EXCEPT ![p] = new] /\ tMake[p] = NoMake
      /\ UNCHANGED << tToken, tNext, tLock >>
  BY DEF CreateBegins
<1> HIDE DEF new
<1>3. tMake' \in [Makers -> MakeRow] /\ tMake'[p] = new /\ \A q \in Makers : q # p => tMake'[q] = tMake[q]
  BY <1>1, <1>2 DEF TokensIInv, TokensTypes
<1>4. TokensTypes' /\ CountedUnderLock'
  BY <1>1, <1>2, <1>3 DEF TokensIInv, TokensTypes, CountedUnderLock
<1>5. \A q \in Makers : MakeFits(q)'
  BY <1>1, <1>2, <1>3 DEF TokensIInv, MakeFits
<1> QED
  BY <1>1, <1>2, <1>3, <1>4, <1>5, TokensMove

LEMMA TakeLockKeeps == ASSUME TokensIInv, NEW p \in Makers, TakeLock(p) PROVE TokensIInv'
<1> DEFINE new == [tMake[p] EXCEPT !.pc = "count"]
<1>1. new \in MakeRow /\ new.user = tMake[p].user /\ new.pc = "count" /\ tMake[p].pc = "lock"
  BY DEF MakeRow, TokensIInv, TokensTypes, TakeLock
<1>2. tMake' = [tMake EXCEPT ![p] = new] /\ tMake[p].user \in TokenUsers
      /\ tLock' = [tLock EXCEPT ![tMake[p].user] = p] /\ UNCHANGED << tToken, tNext >>
  BY DEF TakeLock, TokensIInv, MakeFits
<1> HIDE DEF new
<1>3. tMake' \in [Makers -> MakeRow] /\ tMake'[p] = new /\ \A q \in Makers : q # p => tMake'[q] = tMake[q]
  BY <1>1, <1>2 DEF TokensIInv, TokensTypes
<1>4. TokensTypes'
  BY <1>2, <1>3 DEF TokensIInv, TokensTypes
<1>5. CountedUnderLock'
  <2> SUFFICES ASSUME NEW q \in Makers, tMake'[q].pc \in {"count", "insert"} PROVE tLock'[tMake'[q].user] = q
    BY DEF CountedUnderLock
  <2>1. CASE q = p
    BY <2>1, <1>1, <1>2, <1>3 DEF TokensIInv, TokensTypes
  <2>2. CASE q # p
    <3>1. tLock[tMake[q].user] = q /\ tMake[q].user \in TokenUsers
      BY <2>2, <1>3 DEF TokensIInv, CountedUnderLock, MakeFits
    <3>2. tMake[q].user # tMake[p].user
      BY <3>1, FreeTokenLock
    <3> QED
      BY <3>1, <3>2, <2>2, <1>2, <1>3 DEF TokensIInv, TokensTypes
  <2> QED
    BY <2>1, <2>2
<1>6. \A q \in Makers : MakeFits(q)'
  BY <1>1, <1>2, <1>3 DEF TokensIInv, MakeFits
<1> QED
  BY <1>1, <1>2, <1>3, <1>4, <1>5, <1>6, TokensMove

LEMMA CountTokensKeeps == ASSUME TokensIInv, NEW p \in Makers, CountTokens(p) PROVE TokensIInv'
<1>1. tMake[p].pc = "count" /\ UNCHANGED << tToken, tNext >> /\ tMake[p].user \in TokenUsers
  BY DEF CountTokens, TokensIInv, MakeFits
<1>2. CASE tMake' = [tMake EXCEPT ![p] = NoMake] /\ Unlocked(p)
  <2>1. TokensTypes' /\ CountedUnderLock' /\ \A q \in Makers : MakeFits(q)'
    BY <1>1, <1>2, UnlockedLocks DEF TokensTypes, TokensIInv
  <2>2. \A q \in Makers : tMake'[q].pc = "insert" => tMake'[q] = tMake[q]
    BY <1>1, <1>2, UnlockedLocks DEF NoMake
  <2> QED
    BY <1>1, <2>1, <2>2, TokensMove
<1>3. CASE /\ MaxPerUser = 0 \/ Cardinality(Active(tMake[p].user)) < MaxPerUser
           /\ tMake' = [tMake EXCEPT ![p].pc = "insert"] /\ UNCHANGED tLock
  <2> DEFINE new == [tMake[p] EXCEPT !.pc = "insert"]
  <2>1. new \in MakeRow /\ new.user = tMake[p].user /\ new.pc = "insert"
    BY DEF MakeRow, TokensIInv, TokensTypes
  <2>2. tMake' = [tMake EXCEPT ![p] = new] /\ tLock' = tLock
    BY <1>3
  <2> HIDE DEF new
  <2>3. tMake' \in [Makers -> MakeRow] /\ tMake'[p] = new /\ \A q \in Makers : q # p => tMake'[q] = tMake[q]
    BY <2>1, <2>2 DEF TokensIInv, TokensTypes
  <2>4. TokensTypes' /\ \A i \in TokenIds : TokenFits(i)'
    BY <1>1, <2>2, <2>3 DEF TokensIInv, TokensTypes, TokenFits
  <2>5. CountedUnderLock' /\ \A q \in Makers : MakeFits(q)'
    BY <1>1, <2>1, <2>2, <2>3 DEF TokensIInv, CountedUnderLock, MakeFits
  <2>6. TokensHeld' = TokensHeld
    BY <1>1 DEF TokensHeld, Active
  <2>7. ASSUME NEW q \in Makers PROVE Room(q)'
    <3>1. CASE q = p
      <4>1. MaxPerUser > 0 => TokensHeld[tMake[p].user] < MaxPerUser
        BY <1>1, <1>3, TokenLimits DEF TokensHeld
      <4> QED
        BY <3>1, <4>1, <2>1, <2>3, <2>6 DEF Room
    <3>2. CASE q # p
      BY <3>2, <2>3, <2>6 DEF Room, TokensIInv
    <3> QED
      BY <3>1, <3>2
  <2> QED
    BY <2>4, <2>5, <2>6, <2>7 DEF TokensIInv
<1> QED
  BY <1>2, <1>3 DEF CountTokens

LEMMA InsertTokenKeeps ==
  ASSUME TokensIInv, NEW p \in Makers, NEW by \in Providers, InsertToken(p, by) PROVE TokensIInv'
<1>0. PICK u \in TokenUsers : u = tMake[p].user
  BY DEF InsertToken, TokensIInv, MakeFits
<1> DEFINE new == [user |-> u, status |-> "active", by |-> by]
<1>1. tMake[p].pc = "insert" /\ u \in TokenUsers /\ tLock[u] = p /\ tNext \in TokenIds /\ tNext \in Nat
  BY <1>0 DEF InsertToken, TokensIInv, MakeFits, CountedUnderLock, TokensTypes
<1>2. new \in TokenRow /\ new.user = u /\ new.status = "active"
  BY <1>1 DEF TokenRow, TokenStates
<1>3. tToken' = [tToken EXCEPT ![tNext] = new] /\ tNext' = tNext + 1
      /\ tMake' = [tMake EXCEPT ![p] = NoMake] /\ Unlocked(p)
  BY <1>0 DEF InsertToken
<1> HIDE DEF new
<1>4. tToken' \in [TokenIds -> TokenRow] /\ tToken'[tNext] = new /\ \A i \in TokenIds : i # tNext => tToken'[i] = tToken[i]
  BY <1>1, <1>2, <1>3 DEF TokensIInv, TokensTypes
<1>5. TokensTypes' /\ CountedUnderLock' /\ \A q \in Makers : MakeFits(q)'
  <2>1. /\ tLock' \in [TokenUsers -> Makers \cup {""}] /\ tMake' \in [Makers -> MakeRow]
        /\ CountedUnderLock' /\ \A q \in Makers : MakeFits(q)'
    BY <1>3, UnlockedLocks
  <2>2. tNext' \in Nat
    BY <1>1, <1>3
  <2> QED
    BY <1>3, <1>4, <2>1, <2>2 DEF TokensIInv, TokensTypes
<1>6. ASSUME NEW i \in TokenIds PROVE TokenFits(i)'
  BY <1>1, <1>2, <1>3, <1>4, TokenLimits DEF TokensIInv, TokenFits
<1>7. ASSUME NEW v \in TokenUsers, v # u PROVE TokensHeld'[v] = TokensHeld[v]
  <2>1. \A i \in TokenIds : i = tNext => tToken[i].status = "none"
    BY <1>1 DEF TokensIInv, TokenFits
  <2>2. Active(v)' = Active(v)
    BY <2>1, <1>2, <1>4, <1>7 DEF Active
  <2> QED
    BY <2>2, Zenon DEF TokensHeld
<1>8. TokensHeld'[u] = TokensHeld[u] + 1 /\ TokensHeld \in [TokenUsers -> Nat]
  <2>1. Active(u)' = Active(u) \cup {tNext}
    BY <1>1, <1>2, <1>4 DEF Active
  <2>2. IsFiniteSet(Active(u)) /\ tNext \notin Active(u)
    BY <1>1, ActiveAreFew, Zenon DEF TokensIInv
  <2>3. Cardinality(Active(u)') = Cardinality(Active(u)) + 1
    BY <2>1, <2>2, FS_AddElement, Zenon
  <2>4. TokensHeld'[u] = Cardinality(Active(u)') /\ TokensHeld[u] = Cardinality(Active(u))
    BY <1>1, Zenon DEF TokensHeld
  <2>5. TokensHeld \in [TokenUsers -> Nat]
    BY TokensAreCounted, Zenon DEF TokensIInv
  <2> QED
    BY <2>3, <2>4, <2>5, Zenon
<1>9. ASSUME NEW v \in TokenUsers, MaxPerUser > 0 PROVE TokensHeld'[v] <= MaxPerUser
  BY <1>0, <1>1, <1>7, <1>8, <1>9, TokenLimits DEF TokensIInv, Room
<1>10. ASSUME NEW q \in Makers PROVE Room(q)'
  <2> SUFFICES ASSUME tMake'[q].pc = "insert", MaxPerUser > 0
               PROVE  TokensHeld'[tMake'[q].user] < MaxPerUser
    BY DEF Room
  <2>1. q # p /\ tMake'[q] = tMake[q]
    <3>1. NoMake.pc = "idle"
      BY DEF NoMake
    <3> QED
      BY <3>1, <1>3, UnlockedLocks
  <2>2. tMake[q].user \in TokenUsers /\ tLock[tMake[q].user] = q
    BY <2>1 DEF TokensIInv, MakeFits, CountedUnderLock
  <2>3. TokensHeld'[tMake[q].user] = TokensHeld[tMake[q].user]
    BY <2>1, <2>2, <1>0, <1>1, <1>7
  <2> QED
    BY <2>1, <2>3 DEF TokensIInv, Room
<1> QED
  BY <1>5, <1>6, <1>9, <1>10 DEF TokensIInv

LEMMA CreateFailsKeeps == ASSUME TokensIInv, NEW p \in Makers, CreateFails(p) PROVE TokensIInv'
<1>1. tMake' = [tMake EXCEPT ![p] = NoMake] /\ Unlocked(p) /\ UNCHANGED << tToken, tNext >>
  BY DEF CreateFails
<1>2. TokensTypes' /\ CountedUnderLock' /\ \A q \in Makers : MakeFits(q)'
  BY <1>1, UnlockedLocks DEF TokensTypes, TokensIInv
<1>3. \A q \in Makers : tMake'[q].pc = "insert" => tMake'[q] = tMake[q]
  BY <1>1, UnlockedLocks DEF NoMake
<1> QED
  BY <1>1, <1>2, <1>3, TokensMove

\* A token is revoked, grows old or is deleted.
LEMMA TokenChangeKeeps ==
  ASSUME TokensIInv, NEW i \in TokenIds, NEW new \in TokenRow, tToken' = [tToken EXCEPT ![i] = new],
         new.status # "active", new.status # "none" => new.user = tToken[i].user /\ tToken[i].status # "none",
         UNCHANGED << tNext, tLock, tMake >>
  PROVE  TokensIInv'
<1>1. TokensTypes' /\ CountedUnderLock' /\ \A q \in Makers : MakeFits(q)'
  BY DEF TokensTypes, TokensIInv, CountedUnderLock, MakeFits
<1>2. tToken'[i] = new /\ \A j \in TokenIds : j # i => tToken'[j] = tToken[j]
  BY DEF TokensTypes, TokensIInv
<1> QED
  BY <1>1, <1>2, TokensMove

LEMMA StatusKeeps ==
  ASSUME TokensIInv, NEW i \in TokenIds, NEW s \in {"revoked", "expired"}, Status(i, s), tToken[i].status # "none"
  PROVE  TokensIInv'
<1> DEFINE new == [tToken[i] EXCEPT !.status = s]
<1>1. new \in TokenRow /\ new.user = tToken[i].user /\ new.status = s
  BY DEF TokensIInv, TokensTypes, TokenRow, TokenStates
<1>2. tToken' = [tToken EXCEPT ![i] = new] /\ UNCHANGED << tNext, tLock, tMake >>
  BY DEF Status
<1> QED
  BY <1>1, <1>2, TokenChangeKeeps

LEMMA DeleteTokenKeeps ==
  ASSUME TokensIInv, NEW a \in TokenUsers, NEW i \in TokenIds, DeleteToken(a, i) PROVE TokensIInv'
<1>1. NoToken \in TokenRow /\ NoToken.status = "none"
  BY DEF NoToken, TokenRow, TokenStates
<1> QED
  BY <1>1, TokenChangeKeeps DEF DeleteToken

LEMMA AccountChangeKeeps ==
  ASSUME TokensIInv, UNCHANGED << tToken, tNext, tLock, tMake >> PROVE TokensIInv'
<1>1. TokensTypes' /\ CountedUnderLock' /\ \A q \in Makers : MakeFits(q)'
  BY DEF TokensTypes, TokensIInv, CountedUnderLock, MakeFits
<1> QED
  BY <1>1, TokensMove

LEMMA TokensKeep == ASSUME TokensIInv, TokensNext PROVE TokensIInv'
<1>1. CASE \E p \in Makers :
             \/ \E u \in TokenUsers : CreateBegins(p, u)
             \/ TakeLock(p) \/ CountTokens(p) \/ (\E by \in Providers : InsertToken(p, by)) \/ CreateFails(p)
  BY <1>1, CreateBeginsKeeps, TakeLockKeeps, CountTokensKeeps, InsertTokenKeeps, CreateFailsKeeps, Zenon
<1>2. CASE \E a \in TokenUsers, i \in TokenIds : Revoke(a, i) \/ DeleteToken(a, i)
  BY <1>2, StatusKeeps, DeleteTokenKeeps DEF Revoke, Visible
<1>3. CASE \E i \in TokenIds : ExpireToken(i)
  BY <1>3, StatusKeeps DEF ExpireToken
<1>4. CASE \E u \in ChangedUsers :
             (\E s \in {"on", "off", "gone"} : UserChanges(u, s)) \/ (\E k \in RankChoices : RoleChanges(u, k))
  <2>1. UNCHANGED << tToken, tNext, tLock, tMake >>
    BY <1>4 DEF UserChanges, RoleChanges
  <2> QED
    BY <2>1, AccountChangeKeeps
<1> QED
  BY <1>1, <1>2, <1>3, <1>4, Zenon DEF TokensNext

LEMMA TokensStay == ASSUME TokensIInv, UNCHANGED tVars PROVE TokensIInv'
BY DEF tVars, TokensIInv, TokensTypes, CountedUnderLock, TokensHeld, Active, TokenFits, MakeFits, Room

LEMMA TokensSound == TokensIInv => TokensInv
<1> SUFFICES ASSUME TokensIInv PROVE TokensInv
  OBVIOUS
<1>1. TokensTypeOK
  BY DEF TokensIInv, TokensTypes, TokensTypeOK, TokenRow, TokenStates
<1>2. TokensWithinLimit
  <2>1. ASSUME NEW u \in TokenUsers PROVE TokensHeld[u] = Cardinality(Active(u))
    BY Zenon DEF TokensHeld
  <2> QED
    BY <2>1 DEF TokensIInv, TokensWithinLimit
<1> QED
  BY <1>1, <1>2 DEF TokensIInv, TokensInv

-----------------------------------------------------------------------------
(* The assistant and the clients of MCP: the limit of their requests *)

\* The requests a process let in, oldest first, and the window it counts: those
\* of the window come last and lie within a minute of its start; what is a full
\* window older than them lies a minute before it.
EntryFits(at, i, n, b) ==
  /\ i > n - b.count => b.start <= at /\ at < b.start + Minute
  /\ i <= n - b.count => at <= b.start
  /\ i <= n - b.count - RateMax => at + Minute <= b.start

RateFits(a, b, now) ==
  /\ a \in Seq(Nat) /\ b \in [count : Nat, start : Nat] /\ b.count <= RateMax /\ b.count <= Len(a)
  /\ \A i \in 1 .. Len(a) : a[i] <= now
  /\ b.count = 0 => \A i \in 1 .. Len(a) : a[i] + Minute <= now
  /\ b.count > 0 => b.start <= now /\ \A i \in 1 .. Len(a) : EntryFits(a[i], i, Len(a), b)
  /\ \A i, j \in 1 .. Len(a) : j >= i + 2 * RateMax => a[i] + Minute <= a[j]

RateIInv ==
  /\ kNow \in Nat /\ DOMAIN kAllowed = Buckets /\ DOMAIN kBucket = Buckets
  /\ \A k \in Buckets : RateFits(kAllowed[k], kBucket[k], kNow)

LEMMA RateConstants == RateMax \in Nat /\ RateMax > 0 /\ Minute \in Nat /\ Minute > 0
BY AiAssumption

LEMMA OneMoreLetIn ==
  ASSUME NEW a \in Seq(Nat), NEW now \in Nat
  PROVE  /\ Append(a, now) \in Seq(Nat) /\ Len(Append(a, now)) = Len(a) + 1 /\ Len(a) \in Nat
         /\ Append(a, now)[Len(a) + 1] = now /\ \A i \in 1 .. Len(a) : Append(a, now)[i] = a[i]
OBVIOUS

LEMMA RateTypes ==
  ASSUME NEW a, NEW b, NEW now, RateFits(a, b, now)
  PROVE  /\ a \in Seq(Nat) /\ Len(a) \in Nat /\ b \in [count : Nat, start : Nat] /\ b.count \in Nat /\ b.start \in Nat
         /\ b.count <= RateMax /\ b.count <= Len(a) /\ \A i \in 1 .. Len(a) : a[i] \in Nat /\ a[i] <= now
BY DEF RateFits

\* What is kept of the requests once another is let in.
LEMMA OneMoreFits ==
  ASSUME NEW a, NEW b, NEW now \in Nat, RateFits(a, b, now), NEW c \in [count : Nat, start : Nat],
         c.count > 0, c.count <= RateMax, c.count <= Len(a) + 1, c.start <= now, now < c.start + Minute,
         \A i \in 1 .. Len(a) : EntryFits(a[i], i, Len(a) + 1, c)
  PROVE  RateFits(Append(a, now), c, now)
<1> DEFINE x == Append(a, now)
           n == Len(a)
<1>1. n \in Nat /\ \A i \in 1 .. n : a[i] \in Nat /\ a[i] <= now
  BY RateTypes
<1>2. x \in Seq(Nat) /\ Len(x) = n + 1 /\ x[n + 1] = now /\ \A i \in 1 .. n : x[i] = a[i]
  BY RateTypes, OneMoreLetIn
<1>3. \A i \in 1 .. n : EntryFits(a[i], i, n + 1, c)
  OBVIOUS
<1>4. \A i, j \in 1 .. n : j >= i + 2 * RateMax => a[i] + Minute <= a[j]
  BY DEF RateFits
<1>5. c.count \in Nat /\ c.start \in Nat /\ c.count <= n + 1
  OBVIOUS
<1> HIDE DEF x, n
<1>6. \A i \in 1 .. Len(x) : i = n + 1 \/ i \in 1 .. n
  BY <1>1, <1>2
<1>7. EntryFits(now, n + 1, n + 1, c)
  BY <1>1, <1>5, RateConstants DEF EntryFits
<1>8. \A i \in 1 .. Len(x) : x[i] <= now /\ EntryFits(x[i], i, Len(x), c)
  BY <1>1, <1>2, <1>3, <1>6, <1>7
<1>9. ASSUME NEW i \in 1 .. Len(x), NEW j \in 1 .. Len(x), j >= i + 2 * RateMax PROVE x[i] + Minute <= x[j]
  <2>1. i \in 1 .. n
    BY <1>1, <1>2, <1>9, RateConstants
  <2>2. CASE j = n + 1
    <3>1. i <= (n + 1) - c.count - RateMax
      BY <2>1, <2>2, <1>1, <1>5, <1>9, RateConstants
    <3>2. a[i] + Minute <= c.start
      BY <1>3, <2>1, <3>1 DEF EntryFits
    <3> QED
      BY <2>1, <2>2, <3>2, <1>1, <1>2, <1>5, RateConstants
  <2> QED
    BY <2>1, <2>2, <1>2, <1>4, <1>6, <1>9
<1>10. c.count <= Len(x)
  BY <1>2, <1>5
<1>11. RateFits(x, c, now)
  BY <1>2, <1>5, <1>8, <1>9, <1>10 DEF RateFits
<1> QED
  BY <1>11 DEF x

\* A request counted in the window that is open.
LEMMA WindowFills ==
  ASSUME NEW a, NEW b, NEW now \in Nat, RateFits(a, b, now), b.count # 0, b.count < RateMax, ~(now - b.start >= Minute)
  PROVE  RateFits(Append(a, now), [b EXCEPT !.count = @ + 1], now)
<1> DEFINE c == [b EXCEPT !.count = @ + 1]
<1>1. Len(a) \in Nat /\ b.count \in Nat /\ b.start \in Nat /\ b.count <= Len(a) /\ \A i \in 1 .. Len(a) : a[i] \in Nat
  BY RateTypes
<1>2. c \in [count : Nat, start : Nat] /\ c.count = b.count + 1 /\ c.start = b.start
  BY RateTypes
<1> HIDE DEF c
<1>3. ASSUME NEW i \in 1 .. Len(a) PROVE EntryFits(a[i], i, Len(a) + 1, c)
  <2>1. EntryFits(a[i], i, Len(a), b)
    BY <1>1 DEF RateFits
  <2>2. (Len(a) + 1) - c.count = Len(a) - b.count
    BY <1>1, <1>2
  <2> QED
    BY <2>1, <2>2, <1>2 DEF EntryFits
<1>4. b.start <= now
  BY <1>1 DEF RateFits
<1>5. c.count > 0 /\ c.count <= RateMax /\ c.count <= Len(a) + 1 /\ c.start <= now /\ now < c.start + Minute
  BY <1>1, <1>2, <1>4, RateConstants
<1> QED
  BY <1>2, <1>3, <1>5, OneMoreFits DEF c

\* A request that opens a window.
LEMMA WindowOpens ==
  ASSUME NEW a, NEW b, NEW now \in Nat, RateFits(a, b, now), b.count = 0 \/ now - b.start >= Minute
  PROVE  RateFits(Append(a, now), [count |-> 1, start |-> now], now)
<1> DEFINE c == [count |-> 1, start |-> now]
<1>1. Len(a) \in Nat /\ b.count \in Nat /\ b.start \in Nat /\ b.count <= Len(a) /\ b.count <= RateMax
      /\ \A i \in 1 .. Len(a) : a[i] \in Nat /\ a[i] <= now
  BY RateTypes
<1>2. c \in [count : Nat, start : Nat] /\ c.count = 1 /\ c.start = now
  OBVIOUS
<1> HIDE DEF c
<1>3. ASSUME NEW i \in 1 .. Len(a) PROVE EntryFits(a[i], i, Len(a) + 1, c)
  <2>1. ASSUME i <= Len(a) - RateMax PROVE a[i] + Minute <= now
    <3>1. CASE b.count = 0
      BY <3>1 DEF RateFits
    <3>2. CASE b.count > 0
      <4>1. EntryFits(a[i], i, Len(a), b) /\ i <= Len(a) - b.count /\ now - b.start >= Minute
        BY <1>1, <2>1, <3>2, RateConstants DEF RateFits
      <4>2. a[i] <= b.start
        BY <4>1 DEF EntryFits
      <4> QED
        BY <4>1, <4>2, <1>1, RateConstants
    <3> QED
      BY <1>1, <3>1, <3>2
  <2>2. ~(i > (Len(a) + 1) - c.count) /\ ((i <= (Len(a) + 1) - c.count - RateMax) => i <= Len(a) - RateMax)
    BY <1>1, <1>2, RateConstants
  <2> QED
    BY <2>1, <2>2, <1>1, <1>2 DEF EntryFits
<1>4. c.count > 0 /\ c.count <= RateMax /\ c.count <= Len(a) + 1 /\ c.start <= now /\ now < c.start + Minute
  BY <1>1, <1>2, RateConstants
<1> QED
  BY <1>2, <1>3, <1>4, OneMoreFits DEF c

\* Time goes by.
LEMMA WindowAges ==
  ASSUME NEW a, NEW b, NEW now \in Nat, NEW later \in Nat, now <= later, RateFits(a, b, now)
  PROVE  RateFits(a, b, later)
<1>1. \A i \in 1 .. Len(a) : a[i] \in Nat /\ a[i] <= now
  BY RateTypes
<1> QED
  BY <1>1, RateConstants DEF RateFits

\* A window two minutes old is forgotten.
LEMMA WindowGoes ==
  ASSUME NEW a, NEW b, NEW now \in Nat, RateFits(a, b, now), now - b.start > 2 * Minute
  PROVE  RateFits(a, NoBucket, now)
<1>1. a \in Seq(Nat) /\ b.count \in Nat /\ b.start \in Nat /\ Len(a) \in Nat /\ \A i \in 1 .. Len(a) : a[i] \in Nat /\ a[i] <= now
  BY RateTypes
<1>2. ASSUME NEW i \in 1 .. Len(a) PROVE a[i] + Minute <= now
  <2>1. CASE b.count = 0
    BY <2>1 DEF RateFits
  <2>2. CASE b.count > 0
    <3>1. EntryFits(a[i], i, Len(a), b)
      BY <2>2 DEF RateFits
    <3>2. a[i] < b.start + Minute \/ a[i] <= b.start
      <4>1. i > Len(a) - b.count \/ i <= Len(a) - b.count
        BY <1>1
      <4> QED
        BY <3>1, <4>1, Zenon DEF EntryFits
    <3>3. a[i] \in Nat /\ b.start \in Nat
      BY <1>1
    <3> QED
      BY <3>2, <3>3, RateConstants
  <2> QED
    BY <1>1, <2>1, <2>2
<1>3. NoBucket \in [count : Nat, start : Nat] /\ NoBucket.count = 0
  BY DEF NoBucket
<1>4. \A i, j \in 1 .. Len(a) : j >= i + 2 * RateMax => a[i] + Minute <= a[j]
  BY DEF RateFits
<1> QED
  BY <1>1, <1>2, <1>3, <1>4, RateConstants DEF RateFits

LEMMA EmptyRate == ASSUME NEW now \in Nat PROVE RateFits(<< >>, NoBucket, now)
BY RateConstants DEF RateFits, NoBucket

LEMMA CountedKeeps == ASSUME RateIInv, NEW k \in Buckets, allow(k), Counted(k), kNow' = kNow PROVE RateIInv'
<1>1. kNow \in Nat /\ kAllowed' = [kAllowed EXCEPT ![k] = Append(@, kNow)] /\ DOMAIN kAllowed = Buckets /\ DOMAIN kBucket = Buckets
  BY DEF RateIInv, Counted
<1>2. DOMAIN kAllowed' = Buckets /\ kAllowed'[k] = Append(kAllowed[k], kNow) /\ \A j \in Buckets : j # k => kAllowed'[j] = kAllowed[j]
  BY <1>1
<1>3. RateFits(kAllowed[k], kBucket[k], kNow)
  BY DEF RateIInv
<1>4. CASE WindowOver(k)
  <2>1. kBucket' = [j \in Buckets |-> IF j = k THEN [count |-> 1, start |-> kNow]
                                      ELSE IF k[1] = "chat" /\ j[1] = "chat" /\ kNow - kBucket[j].start > 2 * Minute
                                      THEN NoBucket ELSE kBucket[j]]
    BY <1>4 DEF Counted
  <2>2. RateFits(kAllowed'[k], kBucket'[k], kNow)
    BY <1>1, <1>2, <1>3, <1>4, <2>1, WindowOpens DEF WindowOver
  <2>3. ASSUME NEW j \in Buckets, j # k PROVE RateFits(kAllowed'[j], kBucket'[j], kNow)
    <3>1. RateFits(kAllowed[j], kBucket[j], kNow)
      BY DEF RateIInv
    <3>2. kBucket'[j] = kBucket[j] \/ (kBucket'[j] = NoBucket /\ kNow - kBucket[j].start > 2 * Minute)
      BY <2>1, <2>3
    <3> QED
      BY <3>1, <3>2, <1>1, <1>2, <2>3, WindowGoes
  <2> QED
    BY <1>1, <1>2, <2>1, <2>2, <2>3 DEF RateIInv
<1>5. CASE ~WindowOver(k)
  <2>1. kBucket' = [kBucket EXCEPT ![k].count = @ + 1] /\ kBucket[k].count < RateMax /\ kBucket[k].count # 0
        /\ ~(kNow - kBucket[k].start >= Minute)
    BY <1>5 DEF Counted, allow, WindowOver
  <2>2. DOMAIN kBucket' = Buckets /\ kBucket'[k] = [kBucket[k] EXCEPT !.count = @ + 1] /\ \A j \in Buckets : j # k => kBucket'[j] = kBucket[j]
    BY <1>1, <2>1
  <2>3. RateFits(kAllowed'[k], kBucket'[k], kNow)
    BY <1>1, <1>2, <1>3, <2>1, <2>2, WindowFills
  <2> QED
    BY <1>1, <1>2, <2>2, <2>3 DEF RateIInv
<1> QED
  BY <1>4, <1>5

LEMMA RateSound == ASSUME RateIInv PROVE RateIsLimited
<1> SUFFICES ASSUME NEW k \in Buckets, NEW n \in DOMAIN kAllowed[k]
             PROVE  Cardinality({m \in DOMAIN kAllowed[k] : m >= n /\ kAllowed[k][m] - kAllowed[k][n] < Minute}) <= 2 * RateMax
  BY DEF RateIsLimited
<1> DEFINE a == kAllowed[k]
           near == {m \in DOMAIN a : m >= n /\ a[m] - a[n] < Minute}
<1>1. RateFits(a, kBucket[k], kNow)
  BY DEF RateIInv
<1>2. a \in Seq(Nat) /\ Len(a) \in Nat /\ DOMAIN a = 1 .. Len(a) /\ \A i \in 1 .. Len(a) : a[i] \in Nat
  BY <1>1, RateTypes
<1>3. \A i, j \in 1 .. Len(a) : j >= i + 2 * RateMax => a[i] + Minute <= a[j]
  BY <1>1 DEF RateFits
<1> HIDE DEF a
<1>4. n \in Nat /\ n \in 1 .. Len(a)
  BY <1>2 DEF a
<1>5. near \subseteq n .. n + 2 * RateMax - 1
  <2> SUFFICES ASSUME NEW m \in near PROVE m \in n .. n + 2 * RateMax - 1
    OBVIOUS
  <2>1. m \in 1 .. Len(a) /\ m >= n /\ a[m] - a[n] < Minute
    BY <1>2
  <2>2. ~(a[n] + Minute <= a[m])
    BY <1>2, <1>4, <2>1, RateConstants
  <2>3. ~(m >= n + 2 * RateMax)
    BY <1>3, <1>4, <2>1, <2>2
  <2> QED
    BY <1>4, <2>1, <2>3, RateConstants
<1> HIDE DEF near
<1>6. n \in Int /\ n + 2 * RateMax - 1 \in Int /\ (n + 2 * RateMax - 1) - n + 1 = 2 * RateMax /\ ~(n > n + 2 * RateMax - 1)
  BY <1>4, RateConstants
<1>7. IsFiniteSet(n .. n + 2 * RateMax - 1) /\ Cardinality(n .. n + 2 * RateMax - 1) = 2 * RateMax
  BY <1>6, FS_Interval
<1>8. Cardinality(near) <= 2 * RateMax
  BY <1>5, <1>7, FS_Subset
<1> QED
  BY <1>8 DEF near, a

LEMMA RateStays ==
  ASSUME RateIInv, UNCHANGED << kBucket, kAllowed >>, kNow' = kNow \/ kNow' = kNow + 1
  PROVE  RateIInv'
<1>1. kNow' \in Nat /\ kNow <= kNow' /\ kNow \in Nat
  BY DEF RateIInv
<1> QED
  BY <1>1, WindowAges DEF RateIInv

LEMMA RateFromTheStart == AiInit => RateIInv
BY EmptyRate DEF AiInit, RateIInv

LEMMA RateKeeps == ASSUME RateIInv, AiNext PROVE RateIInv'
<1>1. CASE AiCrash
  BY <1>1, EmptyRate DEF AiCrash, RateIInv
<1>2. CASE AiTick
  BY <1>2, RateStays DEF AiTick
<1>3. ASSUME NEW r, NEW u \in AiUsers, AIChat(r, u) PROVE RateIInv'
  BY <1>3, CountedKeeps DEF AIChat, Buckets
<1>4. ASSUME NEW r, NEW u \in AiUsers, NEW body, MCPServer(r, u, body) PROVE RateIInv'
  <2>1. << "mcp", u >> \in Buckets /\ allow(<< "mcp", u >>) /\ Counted(<< "mcp", u >>) /\ kNow' = kNow
    BY <1>4, Zenon DEF MCPServer, Buckets
  <2> QED
    BY <2>1, CountedKeeps
<1>5. ASSUME NEW r, NEW u, NEW i, AIExecuteAction(r, u, i) \/ AICancelAction(r, u, i) PROVE RateIInv'
  BY <1>5, RateStays DEF AIExecuteAction, AICancelAction
<1>6. ASSUME NEW r, ModelAnswers(r) \/ runAssistant(r) \/ ClaimAction(r) \/ RunAction(r) \/ NoteOutcome(r) \/ CancelAction(r)
      PROVE  RateIInv'
  BY <1>6, RateStays DEF ModelAnswers, runAssistant, ClaimAction, RunAction, NoteOutcome, CancelAction
<1>7. ASSUME NEW r, ServeHTTP(r) PROVE RateIInv'
  BY <1>7, RateStays DEF ServeHTTP
<1>8. ASSUME NEW fields, SwitchAi(fields) PROVE RateIInv'
  BY <1>8, RateStays DEF SwitchAi
<1>9. CASE CleanupAIActions
  BY <1>9, RateStays DEF CleanupAIActions
<1> QED
  BY <1>1, <1>2, <1>3, <1>4, <1>5, <1>6, <1>7, <1>8, <1>9, Zenon DEF AiNext, AssistantNext, McpNext
-----------------------------------------------------------------------------
(* Actions that wait for their user *)

ActionRow ==
  [state : {"open", "taken", "canceled", "gone"}, user : AiUsers, tool : Tools, expires : Nat, at : Nat,
   by : AiUsers, noted : BOOLEAN]

\* What a request carries from one of its steps to the next.
RequestCarries(q) ==
  /\ "pc" \in DOMAIN q
  /\ q.pc \in {"asked", "calls"} => "user" \in DOMAIN q /\ q.user \in AiUsers
  /\ q.pc \in {"claim", "run"} => q \in [pc : {"claim", "run"}, user : AiUsers, id : AiIds, tool : Tools]
  /\ q.pc \in {"note", "cancel"} => q.id \in AiIds

\* A request about an action is one of its owner or of a superadmin; the one
\* that runs it is alone, and nobody ran it before.
RequestFits(q) ==
  /\ q.pc \in {"claim", "run", "note", "cancel"} => kAction[q.id].state # "unused"
  /\ q.pc \in {"claim", "run"} => q.user = kAction[q.id].user \/ q.user \in AiRoots
  /\ q.pc = "run" =>
       /\ kAction[q.id].state = "taken" /\ kAction[q.id].by = q.user /\ kRuns[q.id] = << >>
       /\ kAction[q.id].at < kAction[q.id].expires

ActionFits(i) ==
  /\ kAction[i].state \in {"unused", "open"} => kRuns[i] = << >>
  /\ kRuns[i] # << >> =>
       /\ Len(kRuns[i]) = 1 /\ kAction[i].state \in {"taken", "gone"} /\ kAction[i].at < kAction[i].expires
       /\ kRuns[i][1] = kAction[i].by /\ (kAction[i].by = kAction[i].user \/ kAction[i].by \in AiRoots)
  /\ i \in kAnswered => kAction[i].state \notin {"unused", "open"}

ActionTypes ==
  /\ kNow \in Nat /\ kAction \in [AiIds -> {Unused} \cup ActionRow] /\ kRuns \in [AiIds -> Seq(AiUsers)]
  /\ DOMAIN kReq = AiRequests

ActionIInv ==
  /\ ActionTypes
  /\ \A r \in AiRequests : RequestCarries(kReq[r]) /\ RequestFits(kReq[r])
  /\ \A r, q \in AiRequests : kReq[r].pc = "run" /\ kReq[q].pc = "run" /\ kReq[r].id = kReq[q].id => r = q
  /\ \A i \in AiIds : ActionFits(i)

actionVars == << kAction, kRuns, kAnswered >>

LEMMA IdleCarries == RequestCarries(AiIdle) /\ RequestFits(AiIdle) /\ AiIdle.pc = "idle"
BY DEF RequestCarries, RequestFits, AiIdle

LEMMA UnusedIsNoRow == Unused.state = "unused" /\ Unused \notin ActionRow /\ \A row \in ActionRow : row.state # "unused"
BY DEF Unused, ActionRow

LEMMA ActionsFromTheStart == AiInit => ActionIInv
<1> SUFFICES ASSUME AiInit PROVE ActionIInv
  OBVIOUS
<1>1. ActionTypes
  BY DEF AiInit, ActionTypes
<1>2. \A r \in AiRequests : kReq[r] = AiIdle
  BY DEF AiInit
<1>3. \A i \in AiIds : kAction[i] = Unused /\ kRuns[i] = << >>
  BY DEF AiInit
<1>4. \A i \in AiIds : ActionFits(i)
  BY <1>3, UnusedIsNoRow DEF ActionFits, AiInit
<1>5. \A r \in AiRequests : RequestCarries(kReq[r]) /\ RequestFits(kReq[r]) /\ kReq[r].pc # "run"
  BY <1>2, IdleCarries
<1> QED
  BY <1>1, <1>4, <1>5 DEF ActionIInv

\* A request moves on, and no action with it.
LEMMA AiRequestMoves ==
  ASSUME ActionIInv, NEW r \in AiRequests, NEW q, kReq' = [kReq EXCEPT ![r] = q], UNCHANGED actionVars, kNow' = kNow,
         RequestCarries(q), q.pc # "run", q.pc \in {"claim", "note", "cancel"} => kAction[q.id].state # "unused",
         q.pc = "claim" => q.user = kAction[q.id].user \/ q.user \in AiRoots
  PROVE  ActionIInv'
<1>1. DOMAIN kReq' = AiRequests /\ kReq'[r] = q /\ \A o \in AiRequests : o # r => kReq'[o] = kReq[o]
  BY DEF ActionIInv, ActionTypes
<1>2. ActionTypes'
  BY <1>1 DEF ActionIInv, ActionTypes, actionVars
<1>3. ASSUME NEW o \in AiRequests PROVE RequestCarries(kReq[o])' /\ RequestFits(kReq[o])'
  BY <1>1 DEF ActionIInv, RequestCarries, RequestFits, actionVars
<1>4. \A o, p \in AiRequests : kReq'[o].pc = "run" /\ kReq'[p].pc = "run" /\ kReq'[o].id = kReq'[p].id => o = p
  BY <1>1 DEF ActionIInv
<1>5. \A i \in AiIds : ActionFits(i)'
  BY DEF ActionIInv, ActionFits, actionVars
<1> QED
  BY <1>2, <1>3, <1>4, <1>5 DEF ActionIInv

LEMMA RequestEnds ==
  ASSUME ActionIInv, NEW r \in AiRequests, NEW q, kReq' = [kReq EXCEPT ![r] = q], UNCHANGED actionVars, kNow' = kNow,
         RequestCarries(q), q.pc \notin {"claim", "run", "note", "cancel"}
  PROVE  ActionIInv'
BY AiRequestMoves

LEMMA NextCallCarries ==
  ASSUME ActionIInv, NEW r \in AiRequests, kReq[r].pc = "calls", NextCall(r)
  PROVE  \E q : kReq' = [kReq EXCEPT ![r] = q] /\ RequestCarries(q) /\ q.pc \in {"calls", "asked", "idle"}
<1> DEFINE c == kReq[r]
           more == [c EXCEPT !.left = @ - 1]
           again == [pc |-> "asked", user |-> c.user, set |-> c.set, step |-> c.step]
           q == IF c.left > 1 THEN more ELSE IF c.step < AssistantMaxSteps THEN again ELSE AiIdle
<1>1. "pc" \in DOMAIN c /\ "user" \in DOMAIN c /\ c.user \in AiUsers /\ c.pc = "calls"
  BY DEF ActionIInv, RequestCarries
<1>2. kReq' = [kReq EXCEPT ![r] = q]
  BY DEF NextCall
<1> HIDE DEF c
<1>3. more.pc = "calls" /\ RequestCarries(more)
  <2>1. DOMAIN more = DOMAIN c /\ more.pc = c.pc /\ more.user = c.user
    BY <1>1
  <2> HIDE DEF more
  <2> QED
    BY <1>1, <2>1 DEF RequestCarries
<1>4. again.pc = "asked" /\ RequestCarries(again)
  BY <1>1 DEF RequestCarries
<1> HIDE DEF more, again
<1>5. RequestCarries(q) /\ q.pc \in {"calls", "asked", "idle"}
  BY <1>3, <1>4, IdleCarries
<1> HIDE DEF q
<1> QED
  BY <1>2, <1>5

LEMMA ConversationsKeepActions ==
  ASSUME ActionIInv, NEW r \in AiRequests,
         (\E u \in AiUsers : AIChat(r, u)) \/ ModelAnswers(r) \/ (\E u \in AiUsers, body \in McpBodies : MCPServer(r, u, body)) \/ ServeHTTP(r)
  PROVE  ActionIInv'
<1>1. ASSUME NEW u \in AiUsers, AIChat(r, u) PROVE ActionIInv'
  <2> DEFINE q == [pc |-> "asked", user |-> u, set |-> kSet, step |-> 0]
  <2>1. kReq' = [kReq EXCEPT ![r] = q] /\ UNCHANGED actionVars /\ kNow' = kNow
    BY <1>1, Zenon DEF AIChat, actionVars
  <2>2. RequestCarries(q) /\ q.pc = "asked"
    BY DEF RequestCarries
  <2> HIDE DEF q
  <2> QED
    BY <2>1, <2>2, RequestEnds
<1>2. CASE ModelAnswers(r)
  <2>1. UNCHANGED actionVars /\ kNow' = kNow
    BY <1>2 DEF ModelAnswers, actionVars
  <2>2. CASE kReq' = [kReq EXCEPT ![r] = AiIdle]
    BY <2>1, <2>2, IdleCarries, RequestEnds
  <2>3. ASSUME NEW n, kReq' = [kReq EXCEPT ![r] = [pc |-> "calls", user |-> kReq[r].user, set |-> kReq[r].set,
                                                   step |-> kReq[r].step + 1, left |-> n]]
        PROVE  ActionIInv'
    <3> DEFINE q == [pc |-> "calls", user |-> kReq[r].user, set |-> kReq[r].set, step |-> kReq[r].step + 1, left |-> n]
    <3>1. kReq[r].user \in AiUsers
      BY <1>2 DEF ModelAnswers, ActionIInv, RequestCarries
    <3>2. RequestCarries(q) /\ q.pc = "calls"
      BY <3>1 DEF RequestCarries
    <3>3. kReq' = [kReq EXCEPT ![r] = q]
      BY <2>3
    <3> HIDE DEF q
    <3> QED
      BY <2>1, <3>2, <3>3, RequestEnds
  <2> QED
    BY <1>2, <2>2, <2>3 DEF ModelAnswers
<1>3. ASSUME NEW u \in AiUsers, NEW body \in McpBodies, MCPServer(r, u, body) PROVE ActionIInv'
  <2> DEFINE hdr == IF body.batch THEN NoHeader ELSE body.hdr
             serve == [pc |-> "serve", user |-> u, set |-> kSet, batch |-> body.batch, hdr |-> hdr, calls |-> body.calls]
             q == IF body.batch /\ body.hdr.ver = "modern" THEN AiIdle ELSE serve
  <2>1. kReq' = [kReq EXCEPT ![r] = q] /\ UNCHANGED actionVars /\ kNow' = kNow
    BY <1>3, Zenon DEF MCPServer, actionVars
  <2> HIDE DEF hdr
  <2>2. RequestCarries(serve) /\ serve.pc = "serve"
    BY DEF RequestCarries
  <2> HIDE DEF serve
  <2>3. RequestCarries(q) /\ q.pc \in {"idle", "serve"}
    BY <2>2, IdleCarries
  <2> HIDE DEF q
  <2> QED
    BY <2>1, <2>3, RequestEnds
<1>4. CASE ServeHTTP(r)
  <2> DEFINE next == [kReq[r] EXCEPT !.calls = Tail(@)]
             q == IF Len(kReq[r].calls) > 1 THEN next ELSE AiIdle
  <2>1. kReq' = [kReq EXCEPT ![r] = q] /\ UNCHANGED actionVars /\ kNow' = kNow /\ kReq[r].pc = "serve"
    BY <1>4, Zenon DEF ServeHTTP, actionVars
  <2>2. DOMAIN next = DOMAIN kReq[r] /\ "pc" \in DOMAIN kReq[r]
    BY DEF ActionIInv, RequestCarries
  <2>3. next.pc = "serve"
    BY <2>1, <2>2
  <2> HIDE DEF next
  <2>4. RequestCarries(q) /\ q.pc \in {"idle", "serve"}
    BY <2>2, <2>3, IdleCarries DEF RequestCarries
  <2> HIDE DEF q
  <2> QED
    BY <2>1, <2>4, RequestEnds
<1> QED
  BY <1>1, <1>2, <1>3, <1>4

\* A call of a tool that writes becomes an action that waits.
LEMMA CallsKeepActions == ASSUME ActionIInv, NEW r \in AiRequests, runAssistant(r) PROVE ActionIInv'
<1>1. kReq[r].pc = "calls" /\ NextCall(r) /\ UNCHANGED << kRuns, kAnswered >> /\ kNow' = kNow
  BY DEF runAssistant
<1>2. PICK q : kReq' = [kReq EXCEPT ![r] = q] /\ RequestCarries(q) /\ q.pc \in {"calls", "asked", "idle"}
  BY <1>1, NextCallCarries
<1>3. kReq[r].user \in AiUsers
  BY <1>1 DEF ActionIInv, RequestCarries
<1>4. CASE UNCHANGED kAction
  BY <1>1, <1>2, <1>4, RequestEnds DEF actionVars
<1>5. ASSUME NEW t \in Tools, NEW i \in AiIds, kAction[i] = Unused,
             kAction' = [kAction EXCEPT ![i] = [state |-> "open", user |-> kReq[r].user, tool |-> t,
                            expires |-> kNow + ActionTTL, at |-> 0, by |-> kReq[r].user, noted |-> FALSE]]
      PROVE  ActionIInv'
  <2> DEFINE row == [state |-> "open", user |-> kReq[r].user, tool |-> t, expires |-> kNow + ActionTTL, at |-> 0,
                     by |-> kReq[r].user, noted |-> FALSE]
  <2>1. row \in ActionRow /\ row.state = "open"
    <3>1. kNow + ActionTTL \in Nat
      BY AiAssumption DEF ActionIInv, ActionTypes
    <3> QED
      BY <1>3, <3>1 DEF ActionRow
  <2>2. kAction' = [kAction EXCEPT ![i] = row]
    BY <1>5
  <2> HIDE DEF row
  <2>3. ActionTypes' /\ kAction'[i] = row /\ \A j \in AiIds : j # i => kAction'[j] = kAction[j]
    BY <1>1, <1>2, <2>1, <2>2 DEF ActionIInv, ActionTypes
  <2>4. kReq'[r] = q /\ \A o \in AiRequests : o # r => kReq'[o] = kReq[o]
    BY <1>2 DEF ActionIInv, ActionTypes
  <2>5. kAction[i].state = "unused"
    BY <1>5, UnusedIsNoRow
  <2>6. ASSUME NEW o \in AiRequests PROVE RequestCarries(kReq[o])' /\ RequestFits(kReq[o])'
    <3>1. CASE o = r
      BY <3>1, <1>2, <2>4 DEF RequestCarries, RequestFits
    <3>2. CASE o # r
      <4>1. RequestCarries(kReq[o]) /\ RequestFits(kReq[o]) /\ kReq'[o] = kReq[o]
        BY <2>4, <3>2 DEF ActionIInv
      <4>2. kReq[o].pc \in {"claim", "run", "note", "cancel"} => kReq[o].id \in AiIds /\ kReq[o].id # i
        BY <4>1, <2>5 DEF RequestCarries, RequestFits
      <4> QED
        BY <4>1, <4>2, <1>1, <2>3 DEF RequestCarries, RequestFits
    <3> QED
      BY <3>1, <3>2
  <2>7. \A o, p \in AiRequests : kReq'[o].pc = "run" /\ kReq'[p].pc = "run" /\ kReq'[o].id = kReq'[p].id => o = p
    BY <1>2, <2>4 DEF ActionIInv
  <2>8. ASSUME NEW j \in AiIds PROVE ActionFits(j)'
    BY <1>1, <2>1, <2>3, <2>5 DEF ActionIInv, ActionFits
  <2> QED
    BY <2>3, <2>6, <2>7, <2>8 DEF ActionIInv
<1>6. UNCHANGED kAction \/ \E t \in Tools : savePendingAction(kReq[r].user, t)
  BY DEF runAssistant
<1> QED
  BY <1>4, <1>5, <1>6, Zenon DEF savePendingAction

LEMMA AskingKeepsActions ==
  ASSUME ActionIInv, NEW r \in AiRequests, NEW u \in AiUsers, NEW i \in AiIds,
         AIExecuteAction(r, u, i) \/ AICancelAction(r, u, i)
  PROVE  ActionIInv'
<1>1. loadOwnAction(i, u) /\ UNCHANGED actionVars /\ kNow' = kNow
  BY DEF AIExecuteAction, AICancelAction, actionVars
<1>2. kAction[i].state = "open" /\ (kAction[i].user = u \/ u \in AiRoots)
  BY <1>1 DEF loadOwnAction
<1>3. kAction[i].tool \in Tools
  BY <1>2, UnusedIsNoRow DEF ActionIInv, ActionTypes, ActionRow
<1>4. CASE AIExecuteAction(r, u, i)
  <2> DEFINE q == [pc |-> "claim", user |-> u, id |-> i, tool |-> kAction[i].tool]
  <2>1. kReq' = [kReq EXCEPT ![r] = q]
    BY <1>4 DEF AIExecuteAction
  <2>2. RequestCarries(q) /\ q.pc = "claim" /\ q.id = i /\ q.user = u
    BY <1>3 DEF RequestCarries
  <2> HIDE DEF q
  <2> QED
    BY <1>1, <1>2, <2>1, <2>2, AiRequestMoves
<1>5. CASE AICancelAction(r, u, i)
  <2> DEFINE q == [pc |-> "cancel", id |-> i]
  <2>1. kReq' = [kReq EXCEPT ![r] = q]
    BY <1>5 DEF AICancelAction
  <2>2. RequestCarries(q) /\ q.pc = "cancel" /\ q.id = i
    BY DEF RequestCarries
  <2> HIDE DEF q
  <2> QED
    BY <1>1, <1>2, <2>1, <2>2, AiRequestMoves
<1> QED
  BY <1>4, <1>5

\* A row changes while it stays the action of the user who asked for it, and
\* neither opens again nor leaves what a request that runs it found.
LEMMA RowMoves ==
  ASSUME ActionIInv, NEW r \in AiRequests, NEW i \in AiIds, NEW row \in ActionRow,
         kAction' = [kAction EXCEPT ![i] = row], kAction[i] \in ActionRow, kReq' = [kReq EXCEPT ![r] = AiIdle],
         kNow' = kNow, kRuns' = kRuns, kAnswered' \subseteq kAnswered \cup {i},
         row.user = kAction[i].user, row.by = kAction[i].by, row.at = kAction[i].at, row.expires = kAction[i].expires,
         row.state = kAction[i].state \/ (kAction[i].state = "open" /\ row.state = "canceled"),
         i \in kAnswered' => row.state # "open"
  PROVE  ActionIInv'
<1>1. ActionTypes' /\ kAction'[i] = row /\ \A j \in AiIds : j # i => kAction'[j] = kAction[j]
  BY DEF ActionIInv, ActionTypes
<1>2. kReq'[r] = AiIdle /\ \A o \in AiRequests : o # r => kReq'[o] = kReq[o]
  BY DEF ActionIInv, ActionTypes
<1>3. row.state # "unused" /\ kAction[i].state # "unused"
  BY UnusedIsNoRow
<1>4. ASSUME NEW o \in AiRequests PROVE RequestCarries(kReq[o])' /\ RequestFits(kReq[o])'
  <2>1. CASE o = r
    BY <2>1, <1>2, IdleCarries DEF RequestCarries, RequestFits
  <2>2. CASE o # r
    <3>1. RequestCarries(kReq[o]) /\ RequestFits(kReq[o]) /\ kReq'[o] = kReq[o]
      BY <1>2, <2>2 DEF ActionIInv
    <3>2. kReq[o].pc \in {"claim", "run", "note", "cancel"} => kReq[o].id \in AiIds
      BY <3>1 DEF RequestCarries
    <3> QED
      BY <3>1, <3>2, <1>1, <1>3 DEF RequestCarries, RequestFits
  <2> QED
    BY <2>1, <2>2
<1>5. \A o, p \in AiRequests : kReq'[o].pc = "run" /\ kReq'[p].pc = "run" /\ kReq'[o].id = kReq'[p].id => o = p
  BY <1>2, IdleCarries DEF ActionIInv
<1>6. ASSUME NEW j \in AiIds PROVE ActionFits(j)'
  <2>1. CASE j = i
    BY <2>1, <1>1, <1>3 DEF ActionIInv, ActionFits
  <2>2. CASE j # i
    BY <2>2, <1>1 DEF ActionIInv, ActionFits
  <2> QED
    BY <2>1, <2>2
<1> QED
  BY <1>1, <1>4, <1>5, <1>6 DEF ActionIInv

LEMMA ClaimKeeps == ASSUME ActionIInv, NEW r \in AiRequests, ClaimAction(r) PROVE ActionIInv'
<1>1. kReq[r].pc = "claim" /\ UNCHANGED << kRuns, kAnswered >> /\ kNow' = kNow
  BY DEF ClaimAction
<1>2. kReq[r] \in [pc : {"claim", "run"}, user : AiUsers, id : AiIds, tool : Tools] /\ RequestFits(kReq[r])
  BY <1>1 DEF ActionIInv, RequestCarries
<1>3. PICK i \in AiIds, u \in AiUsers : i = kReq[r].id /\ u = kReq[r].user
  BY <1>2
<1>4. CASE ~Claimable(i) /\ kReq' = [kReq EXCEPT ![r] = AiIdle] /\ UNCHANGED kAction
  BY <1>1, <1>4, IdleCarries, RequestEnds DEF actionVars
<1>5. CASE Claimable(i) /\ kAction' = [kAction EXCEPT ![i].state = "taken", ![i].at = kNow, ![i].by = u]
           /\ kReq' = [kReq EXCEPT ![r].pc = "run"]
  <2> DEFINE q == [kReq[r] EXCEPT !.pc = "run"]
             row == [kAction[i] EXCEPT !.state = "taken", !.at = kNow, !.by = u]
  <2>1. kAction[i] \in ActionRow /\ kAction[i].state = "open" /\ kNow < kAction[i].expires /\ kNow \in Nat
    BY <1>5, UnusedIsNoRow DEF Claimable, ActionIInv, ActionTypes, ActionRow
  <2>2. row \in ActionRow /\ row.state = "taken" /\ row.at = kNow /\ row.by = u /\ row.user = kAction[i].user
        /\ row.expires = kAction[i].expires
    BY <2>1 DEF ActionRow
  <2>3. kAction'[i] = row /\ (\A j \in AiIds : j # i => kAction'[j] = kAction[j]) /\ DOMAIN kAction' = AiIds
    BY <1>5 DEF ActionIInv, ActionTypes
  <2>4. kAction' = [j \in AiIds |-> kAction'[j]]
    BY <1>5 DEF ActionIInv, ActionTypes
  <2>5. q \in [pc : {"claim", "run"}, user : AiUsers, id : AiIds, tool : Tools] /\ q.pc = "run" /\ q.user = u /\ q.id = i
    BY <1>2, <1>3
  <2>6. kReq'[r] = q /\ (\A o \in AiRequests : o # r => kReq'[o] = kReq[o]) /\ DOMAIN kReq' = AiRequests
    BY <1>5 DEF ActionIInv, ActionTypes
  <2> HIDE DEF q, row
  <2>7. ActionTypes'
    <3>1. kAction' \in [AiIds -> {Unused} \cup ActionRow]
      <4>1. \A j \in AiIds : kAction'[j] \in {Unused} \cup ActionRow
        BY <2>2, <2>3 DEF ActionIInv, ActionTypes
      <4> QED
        BY <2>4, <4>1
    <3> QED
      BY <1>1, <2>6, <3>1 DEF ActionIInv, ActionTypes
  <2>8. kRuns[i] = << >> /\ i \notin kAnswered
    BY <2>1 DEF ActionIInv, ActionFits
  <2>9. u = row.user \/ u \in AiRoots
    BY <1>1, <1>2, <1>3, <2>2 DEF RequestFits
  <2>10. ASSUME NEW o \in AiRequests, o # r
         PROVE  /\ RequestCarries(kReq[o])' /\ RequestFits(kReq[o])' /\ ~(kReq'[o].pc = "run" /\ kReq'[o].id = i)
    <3>1. RequestCarries(kReq[o]) /\ RequestFits(kReq[o]) /\ kReq'[o] = kReq[o]
      BY <2>6, <2>10 DEF ActionIInv
    <3>2. kReq[o].pc \in {"claim", "run", "note", "cancel"} => kReq[o].id \in AiIds
      BY <3>1 DEF RequestCarries
    <3>3. ~(kReq[o].pc = "run" /\ kReq[o].id = i)
      BY <3>1, <2>1 DEF RequestFits
    <3>4. RequestFits(kReq[o])'
      BY <3>1, <3>2, <3>3, <1>1, <2>2, <2>3 DEF RequestFits
    <3> QED
      BY <3>1, <3>3, <3>4 DEF RequestCarries
  <2>11. RequestCarries(kReq[r])' /\ RequestFits(kReq[r])'
    BY <1>1, <2>1, <2>2, <2>3, <2>5, <2>6, <2>8, <2>9 DEF RequestCarries, RequestFits
  <2>12. \A o, p \in AiRequests : kReq'[o].pc = "run" /\ kReq'[p].pc = "run" /\ kReq'[o].id = kReq'[p].id => o = p
    BY <2>5, <2>6, <2>10 DEF ActionIInv
  <2>13. ASSUME NEW j \in AiIds PROVE ActionFits(j)'
    BY <1>1, <2>2, <2>3, <2>8 DEF ActionIInv, ActionFits
  <2>14. \A o \in AiRequests : RequestCarries(kReq[o])' /\ RequestFits(kReq[o])'
    BY <2>10, <2>11
  <2> QED
    BY <2>7, <2>12, <2>13, <2>14 DEF ActionIInv
<1> QED
  BY <1>3, <1>4, <1>5 DEF ClaimAction

LEMMA RunKeeps == ASSUME ActionIInv, NEW r \in AiRequests, RunAction(r) PROVE ActionIInv'
<1>1. kReq[r].pc = "run" /\ UNCHANGED << kAction, kAnswered >> /\ kNow' = kNow
  BY DEF RunAction
<1>2. kReq[r] \in [pc : {"claim", "run"}, user : AiUsers, id : AiIds, tool : Tools] /\ RequestFits(kReq[r])
  BY <1>1 DEF ActionIInv, RequestCarries
<1>3. PICK i \in AiIds, u \in AiUsers : i = kReq[r].id /\ u = kReq[r].user
  BY <1>2
<1> DEFINE q == [pc |-> "note", id |-> i]
<1>4. kReq' = [kReq EXCEPT ![r] = q]
  BY <1>3 DEF RunAction
<1>5. RequestCarries(q) /\ q.pc = "note" /\ q.id = i
  BY DEF RequestCarries
<1>6. kAction[i].state = "taken" /\ kAction[i].by = u /\ kRuns[i] = << >> /\ kAction[i].at < kAction[i].expires
      /\ (u = kAction[i].user \/ u \in AiRoots)
  BY <1>1, <1>2, <1>3 DEF RequestFits
<1> HIDE DEF q
<1>7. CASE UNCHANGED kRuns
  BY <1>1, <1>4, <1>5, <1>6, <1>7, AiRequestMoves DEF actionVars
<1>8. CASE kRuns' = [kRuns EXCEPT ![i] = Append(@, u)]
  <2>1. kRuns' \in [AiIds -> Seq(AiUsers)] /\ Len(kRuns'[i]) = 1 /\ kRuns'[i][1] = u /\ \A j \in AiIds : j # i => kRuns'[j] = kRuns[j]
    <3>1. Append(kRuns[i], u) \in Seq(AiUsers) /\ Len(Append(kRuns[i], u)) = 1 /\ Append(kRuns[i], u)[1] = u
      BY <1>6
    <3> QED
      BY <1>8, <3>1 DEF ActionIInv, ActionTypes
  <2>2. kReq'[r] = q /\ (\A o \in AiRequests : o # r => kReq'[o] = kReq[o]) /\ DOMAIN kReq' = AiRequests
    BY <1>4 DEF ActionIInv, ActionTypes
  <2>3. ASSUME NEW o \in AiRequests PROVE RequestCarries(kReq[o])' /\ RequestFits(kReq[o])'
    <3>1. CASE o = r
      BY <3>1, <1>1, <1>5, <1>6, <2>2 DEF RequestCarries, RequestFits
    <3>2. CASE o # r
      <4>1. RequestCarries(kReq[o]) /\ RequestFits(kReq[o]) /\ kReq'[o] = kReq[o]
        BY <2>2, <3>2 DEF ActionIInv
      <4>2. kReq[o].pc \in {"claim", "run", "note", "cancel"} => kReq[o].id \in AiIds
        BY <4>1 DEF RequestCarries
      <4>3. ~(kReq[o].pc = "run" /\ kReq[o].id = i)
        BY <1>1, <1>3, <3>2 DEF ActionIInv
      <4> QED
        BY <1>1, <2>1, <4>1, <4>2, <4>3 DEF RequestCarries, RequestFits
    <3> QED
      BY <3>1, <3>2
  <2>4. \A o, p \in AiRequests : kReq'[o].pc = "run" /\ kReq'[p].pc = "run" /\ kReq'[o].id = kReq'[p].id => o = p
    BY <1>5, <2>2 DEF ActionIInv
  <2>5. ASSUME NEW j \in AiIds PROVE ActionFits(j)'
    <3>1. CASE j = i
      BY <3>1, <1>1, <1>6, <2>1 DEF ActionIInv, ActionFits
    <3>2. CASE j # i
      BY <3>2, <1>1, <2>1 DEF ActionIInv, ActionFits
    <3> QED
      BY <3>1, <3>2
  <2>6. ActionTypes'
    BY <1>1, <2>1, <2>2 DEF ActionIInv, ActionTypes
  <2> QED
    BY <2>3, <2>4, <2>5, <2>6 DEF ActionIInv
<1> QED
  BY <1>3, <1>7, <1>8 DEF RunAction

LEMMA NoteKeeps == ASSUME ActionIInv, NEW r \in AiRequests, NoteOutcome(r) \/ CancelAction(r) PROVE ActionIInv'
<1>1. kReq[r].pc \in {"note", "cancel"} /\ kReq' = [kReq EXCEPT ![r] = AiIdle] /\ UNCHANGED << kRuns, kNow >>
  BY DEF NoteOutcome, CancelAction
<1>2. PICK i \in AiIds : i = kReq[r].id
  BY <1>1 DEF ActionIInv, RequestCarries
<1>3. kAction[i] \in ActionRow
  BY <1>1, <1>2, UnusedIsNoRow DEF ActionIInv, ActionTypes, RequestFits
<1>4. CASE NoteOutcome(r)
  <2> DEFINE row == [kAction[i] EXCEPT !.noted = TRUE]
  <2>1. row \in ActionRow /\ row.state = kAction[i].state /\ row.user = kAction[i].user /\ row.by = kAction[i].by
        /\ row.at = kAction[i].at /\ row.expires = kAction[i].expires
    BY <1>3 DEF ActionRow
  <2>2. kAction' = [kAction EXCEPT ![i] = row] /\ kAnswered' = kAnswered
    BY <1>2, <1>4 DEF NoteOutcome
  <2>3. i \in kAnswered => kAction[i].state # "open"
    BY DEF ActionIInv, ActionFits
  <2> HIDE DEF row
  <2> QED
    BY <1>1, <1>3, <2>1, <2>2, <2>3, RowMoves
<1>5. CASE CancelAction(r)
  <2> DEFINE canceled == [kAction[i] EXCEPT !.state = "canceled"]
             row == IF kAction[i].state = "open" THEN canceled ELSE kAction[i]
  <2>1. kAction' = [kAction EXCEPT ![i] = row] /\ kAnswered' = kAnswered \cup {i}
    BY <1>2, <1>5 DEF CancelAction
  <2>2. canceled \in ActionRow /\ canceled.state = "canceled" /\ canceled.user = kAction[i].user /\ canceled.by = kAction[i].by
        /\ canceled.at = kAction[i].at /\ canceled.expires = kAction[i].expires
    BY <1>3 DEF ActionRow
  <2> HIDE DEF canceled
  <2>3. row \in ActionRow /\ row.user = kAction[i].user /\ row.by = kAction[i].by /\ row.at = kAction[i].at
        /\ row.expires = kAction[i].expires /\ row.state # "open"
        /\ (row.state = kAction[i].state \/ (kAction[i].state = "open" /\ row.state = "canceled"))
    BY <1>3, <2>2
  <2> HIDE DEF row
  <2> QED
    BY <1>1, <1>3, <2>1, <2>3, RowMoves
<1> QED
  BY <1>4, <1>5

\* What a night deletes: actions nobody answered, and answered ones only while
\* no request is under way.
LEMMA CleanupKeeps == ASSUME ActionIInv, CleanupAIActions PROVE ActionIInv'
<1>1. UNCHANGED << kReq, kNow, kRuns, kAnswered >>
  BY DEF CleanupAIActions
<1>2. PICK gone \in SUBSET AiIds :
        /\ kAction' = [i \in AiIds |-> IF i \in gone THEN [kAction[i] EXCEPT !.state = "gone"] ELSE kAction[i]]
        /\ \A i \in gone : \/ kAction[i].state = "open"
                           \/ kAction[i].state \in {"taken", "canceled"} /\ \A r \in AiRequests : kReq[r] = AiIdle
  <2> DEFINE Old(old) == {i \in AiIds : \/ kAction[i].state = "open" /\ kAction[i].expires < kNow
                                       \/ /\ old /\ kAction[i].state \in {"taken", "canceled"}
                                          /\ \A r \in AiRequests : kReq[r] = AiIdle}
  <2>1. PICK old \in BOOLEAN :
          kAction' = [i \in AiIds |-> IF i \in Old(old) THEN [kAction[i] EXCEPT !.state = "gone"] ELSE kAction[i]]
    BY Zenon DEF CleanupAIActions
  <2> DEFINE out == Old(old)
  <2>2. out \in SUBSET AiIds
        /\ \A i \in out : \/ kAction[i].state = "open"
                          \/ kAction[i].state \in {"taken", "canceled"} /\ \A r \in AiRequests : kReq[r] = AiIdle
    OBVIOUS
  <2>3. kAction' = [i \in AiIds |-> IF i \in out THEN [kAction[i] EXCEPT !.state = "gone"] ELSE kAction[i]]
    BY <2>1, Zenon
  <2> HIDE DEF out
  <2> QED
    BY <2>2, <2>3, Zenon
<1>3. ASSUME NEW i \in AiIds
      PROVE  \/ kAction'[i] = kAction[i]
             \/ /\ kAction[i] \in ActionRow /\ kAction'[i] \in ActionRow /\ kAction'[i].state = "gone"
                /\ kAction'[i].user = kAction[i].user /\ kAction'[i].by = kAction[i].by /\ kAction'[i].at = kAction[i].at
                /\ kAction'[i].expires = kAction[i].expires
                /\ kAction[i].state = "taken" => \A r \in AiRequests : kReq[r] = AiIdle
  <2>1. CASE i \notin gone
    BY <1>2, <2>1
  <2>2. CASE i \in gone
    <3> DEFINE row == [kAction[i] EXCEPT !.state = "gone"]
    <3>1. kAction'[i] = row
      BY <1>2, <2>2
    <3>2. kAction[i] \in ActionRow
      BY <1>2, <2>2, UnusedIsNoRow DEF ActionIInv, ActionTypes
    <3>3. row \in ActionRow /\ row.state = "gone" /\ row.user = kAction[i].user /\ row.by = kAction[i].by
          /\ row.at = kAction[i].at /\ row.expires = kAction[i].expires
      BY <3>2 DEF ActionRow
    <3>4. kAction[i].state = "taken" => \A r \in AiRequests : kReq[r] = AiIdle
      BY <1>2, <2>2
    <3> HIDE DEF row
    <3> QED
      BY <3>1, <3>2, <3>3, <3>4
  <2> QED
    BY <2>1, <2>2
<1>4. ActionTypes'
  <2>1. \A i \in AiIds : kAction'[i] \in {Unused} \cup ActionRow
    BY <1>3 DEF ActionIInv, ActionTypes
  <2>2. kAction' = [i \in AiIds |-> kAction'[i]]
    BY <1>2
  <2>3. kAction' \in [AiIds -> {Unused} \cup ActionRow]
    BY <2>1, <2>2
  <2> QED
    BY <1>1, <2>3 DEF ActionIInv, ActionTypes
<1>5. ASSUME NEW r \in AiRequests PROVE RequestCarries(kReq[r])' /\ RequestFits(kReq[r])'
  <2>1. RequestCarries(kReq[r]) /\ RequestFits(kReq[r]) /\ kReq'[r] = kReq[r]
    BY <1>1 DEF ActionIInv
  <2>2. kReq[r].pc \in {"claim", "run", "note", "cancel"} => kReq[r].id \in AiIds /\ kReq[r] # AiIdle
    BY <2>1, IdleCarries DEF RequestCarries
  <2> QED
    BY <1>1, <1>3, <2>1, <2>2 DEF RequestCarries, RequestFits
<1>6. ASSUME NEW i \in AiIds PROVE ActionFits(i)'
  BY <1>1, <1>3, UnusedIsNoRow DEF ActionIInv, ActionFits
<1>7. \A o, p \in AiRequests : kReq'[o].pc = "run" /\ kReq'[p].pc = "run" /\ kReq'[o].id = kReq'[p].id => o = p
  BY <1>1 DEF ActionIInv
<1> QED
  BY <1>4, <1>5, <1>6, <1>7 DEF ActionIInv

LEMMA ActionsStay ==
  ASSUME ActionIInv, UNCHANGED actionVars, kReq' = kReq, kNow' \in Nat
  PROVE  ActionIInv'
<1>1. ActionTypes' /\ (\A i \in AiIds : ActionFits(i)')
  BY DEF ActionIInv, ActionTypes, ActionFits, actionVars
<1>2. \A r \in AiRequests : RequestCarries(kReq[r])' /\ RequestFits(kReq[r])'
  BY DEF ActionIInv, RequestCarries, RequestFits, actionVars
<1> QED
  BY <1>1, <1>2 DEF ActionIInv

LEMMA CrashKeepsActions == ASSUME ActionIInv, AiCrash PROVE ActionIInv'
<1>1. (\A r \in AiRequests : kReq'[r] = AiIdle) /\ DOMAIN kReq' = AiRequests /\ UNCHANGED actionVars /\ kNow' = kNow
  BY DEF AiCrash, actionVars
<1>2. ActionTypes' /\ (\A i \in AiIds : ActionFits(i)')
  BY <1>1 DEF ActionIInv, ActionTypes, ActionFits, actionVars
<1>3. \A r \in AiRequests : RequestCarries(kReq[r])' /\ RequestFits(kReq[r])' /\ kReq'[r].pc # "run"
  BY <1>1, IdleCarries DEF RequestCarries, RequestFits
<1> QED
  BY <1>2, <1>3 DEF ActionIInv

LEMMA ActionsKeep == ASSUME ActionIInv, AiNext PROVE ActionIInv'
<1>1. ASSUME NEW r \in AiRequests,
             \E u \in AiUsers : AIChat(r, u) \/ \E i \in AiIds : AIExecuteAction(r, u, i) \/ AICancelAction(r, u, i)
      PROVE  ActionIInv'
  BY <1>1, ConversationsKeepActions, AskingKeepsActions, Zenon
<1>2. ASSUME NEW r \in AiRequests,
             ModelAnswers(r) \/ runAssistant(r) \/ ClaimAction(r) \/ RunAction(r) \/ NoteOutcome(r) \/ CancelAction(r)
      PROVE  ActionIInv'
  BY <1>2, ConversationsKeepActions, CallsKeepActions, ClaimKeeps, RunKeeps, NoteKeeps, Zenon
<1>3. ASSUME NEW r \in AiRequests, (\E u \in AiUsers, body \in McpBodies : MCPServer(r, u, body)) \/ ServeHTTP(r)
      PROVE  ActionIInv'
  BY <1>3, ConversationsKeepActions, Zenon
<1>4. ASSUME NEW fields, SwitchAi(fields) PROVE ActionIInv'
  BY <1>4, ActionsStay DEF SwitchAi, actionVars, ActionIInv, ActionTypes
<1>5. CASE AiTick
  BY <1>5, ActionsStay DEF AiTick, actionVars, ActionIInv, ActionTypes
<1> QED
  BY <1>1, <1>2, <1>3, <1>4, <1>5, CrashKeepsActions, CleanupKeeps, Zenon DEF AiNext, AssistantNext, McpNext

LEMMA ActionsSound == ASSUME ActionIInv PROVE ActionRunsOnce
<1> SUFFICES ASSUME NEW i \in AiIds
             PROVE  /\ Len(kRuns[i]) <= 1
                    /\ kRuns[i] # << >> =>
                         /\ kAction[i].state \in {"taken", "gone"} /\ kAction[i].at < kAction[i].expires
                         /\ kRuns[i][1] = kAction[i].by /\ kAction[i].by \in {kAction[i].user} \cup AiRoots
                    /\ i \in kAnswered => kAction[i].state # "open"
  BY DEF ActionRunsOnce
<1>1. ActionFits(i)
  BY DEF ActionIInv
<1>2. Len(<< >>) = 0
  OBVIOUS
<1>3. CASE kRuns[i] = << >>
  BY <1>1, <1>2, <1>3 DEF ActionFits
<1>4. CASE kRuns[i] # << >>
  <2>1. Len(kRuns[i]) = 1 /\ kAction[i].state \in {"taken", "gone"} /\ kAction[i].at < kAction[i].expires
        /\ kRuns[i][1] = kAction[i].by /\ (kAction[i].by = kAction[i].user \/ kAction[i].by \in AiRoots)
    BY <1>1, <1>4, Zenon DEF ActionFits
  <2> QED
    BY <2>1
<1> QED
  BY <1>3, <1>4
-----------------------------------------------------------------------------
(* The messages of MCP clients *)

\* A message alone is served with the headers it came with.
PostFits(q) ==
  /\ "pc" \in DOMAIN q
  /\ q.pc = "serve" => {"batch", "hdr"} \subseteq DOMAIN q /\ (~q.batch => q.hdr \in [ver : STRING, same : BOOLEAN])

PostIInv == DOMAIN kReq = AiRequests /\ HeadersAgree /\ \A r \in AiRequests : PostFits(kReq[r])

LEMMA IdlePostFits == PostFits(AiIdle)
BY DEF PostFits, AiIdle

\* A modern message that gets to its method says what its headers say.
LEMMA HandledAgrees ==
  ASSUME NEW msg, NEW hdr \in [ver : STRING, same : BOOLEAN], handle(msg, hdr, FALSE), VersionOf(msg, hdr) = "modern"
  PROVE  hdr = [ver |-> msg.meta, same |-> TRUE]
<1>1. hdr.ver = msg.meta /\ hdr.same
  BY Zenon DEF handle, validateHeaders
<1> QED
  BY <1>1

LEMMA PostsMove ==
  ASSUME PostIInv, NEW r \in AiRequests, NEW q, kReq' = [kReq EXCEPT ![r] = q], PostFits(q), kPosts' = kPosts
  PROVE  PostIInv'
<1>1. DOMAIN kReq' = AiRequests /\ \A o \in AiRequests : PostFits(kReq'[o])
  BY DEF PostIInv
<1>2. HeadersAgree'
  BY Zenon DEF PostIInv, HeadersAgree
<1> QED
  BY <1>1, <1>2 DEF PostIInv, PostFits

LEMMA PostsFromTheStart == AiInit => PostIInv
<1> SUFFICES ASSUME AiInit PROVE PostIInv
  OBVIOUS
<1>1. kPosts = {} /\ DOMAIN kReq = AiRequests /\ \A r \in AiRequests : kReq[r] = AiIdle
  BY DEF AiInit
<1>2. HeadersAgree
  BY <1>1, Zenon DEF HeadersAgree
<1> QED
  BY <1>1, <1>2, IdlePostFits DEF PostIInv

LEMMA MCPServerKeepsPosts ==
  ASSUME PostIInv, NEW r \in AiRequests, NEW u, NEW body \in McpBodies, MCPServer(r, u, body) PROVE PostIInv'
<1> DEFINE hdr == IF body.batch THEN NoHeader ELSE body.hdr
           serve == [pc |-> "serve", user |-> u, set |-> kSet, batch |-> body.batch, hdr |-> hdr, calls |-> body.calls]
           q == IF body.batch /\ body.hdr.ver = "modern" THEN AiIdle ELSE serve
<1>1. kReq' = [kReq EXCEPT ![r] = q] /\ kPosts' = kPosts
  BY Zenon DEF MCPServer
<1>2. ~body.batch => hdr \in [ver : STRING, same : BOOLEAN]
  BY AiAssumption
<1> HIDE DEF hdr
<1>3. PostFits(serve)
  BY <1>2 DEF PostFits
<1> HIDE DEF serve
<1>4. PostFits(q)
  BY <1>3, IdlePostFits
<1> HIDE DEF q
<1> QED
  BY <1>1, <1>4, PostsMove

LEMMA ServeKeepsPosts == ASSUME PostIInv, NEW r \in AiRequests, ServeHTTP(r) PROVE PostIInv'
<1> DEFINE c == kReq[r]
           msg == Head(c.calls)
           next == [c EXCEPT !.calls = Tail(@)]
           q == IF Len(c.calls) > 1 THEN next ELSE AiIdle
           post == [msg |-> msg, hdr |-> c.hdr, batch |-> c.batch]
<1>1. PostFits(c) /\ c.pc = "serve"
  BY DEF PostIInv, ServeHTTP
<1>2. kReq' = [kReq EXCEPT ![r] = q]
  BY Zenon DEF ServeHTTP
<1>3. kPosts' = kPosts \/ (kPosts' = kPosts \cup {post} /\ handle(msg, c.hdr, c.batch))
  BY Zenon DEF ServeHTTP
<1>4. post.msg = msg /\ post.hdr = c.hdr /\ post.batch = c.batch
  OBVIOUS
<1> HIDE DEF c, msg, post
<1>5. PostFits(next)
  <2>1. DOMAIN next = DOMAIN c /\ next.pc = c.pc /\ next.batch = c.batch /\ next.hdr = c.hdr
    BY <1>1 DEF PostFits
  <2> HIDE DEF next
  <2> QED
    BY <1>1, <2>1 DEF PostFits
<1> HIDE DEF next
<1>6. PostFits(q)
  BY <1>5, IdlePostFits
<1> HIDE DEF q
<1>7. handle(msg, c.hdr, c.batch) /\ ~c.batch /\ VersionOf(msg, c.hdr) = "modern" => c.hdr = [ver |-> msg.meta, same |-> TRUE]
  <2> SUFFICES ASSUME handle(msg, c.hdr, c.batch), ~c.batch, VersionOf(msg, c.hdr) = "modern"
               PROVE  c.hdr = [ver |-> msg.meta, same |-> TRUE]
    BY Zenon
  <2>1. c.hdr \in [ver : STRING, same : BOOLEAN]
    BY <1>1 DEF PostFits
  <2>2. handle(msg, c.hdr, FALSE)
    BY Zenon DEF handle
  <2> QED
    BY <2>1, <2>2, HandledAgrees
<1>8. HeadersAgree'
  <2> SUFFICES ASSUME NEW p \in kPosts', ~p.batch, VersionOf(p.msg, p.hdr) = "modern"
               PROVE  p.hdr = [ver |-> p.msg.meta, same |-> TRUE]
    BY Zenon DEF HeadersAgree
  <2>1. CASE p \in kPosts
    BY <2>1, Zenon DEF PostIInv, HeadersAgree
  <2>2. CASE p = post /\ handle(msg, c.hdr, c.batch)
    BY <1>4, <1>7, <2>2, Zenon
  <2> QED
    BY <1>3, <2>1, <2>2, Zenon
<1>9. DOMAIN kReq' = AiRequests /\ \A o \in AiRequests : PostFits(kReq'[o])
  BY <1>2, <1>6 DEF PostIInv
<1> QED
  BY <1>8, <1>9 DEF PostIInv, PostFits

\* A step of a request that carries no message.
LEMMA OtherRequestsMove ==
  ASSUME PostIInv, NEW r \in AiRequests, NEW q, kReq' = [kReq EXCEPT ![r] = q], kPosts' = kPosts,
         "pc" \in DOMAIN q, q.pc # "serve"
  PROVE  PostIInv'
BY PostsMove DEF PostFits

LEMMA AssistantKeepsPosts ==
  ASSUME PostIInv, ActionIInv, NEW r \in AiRequests,
         \/ \E u \in AiUsers : AIChat(r, u) \/ \E i \in AiIds : AIExecuteAction(r, u, i) \/ AICancelAction(r, u, i)
         \/ ModelAnswers(r) \/ runAssistant(r) \/ ClaimAction(r) \/ RunAction(r) \/ NoteOutcome(r) \/ CancelAction(r)
  PROVE  PostIInv'
<1>1. ASSUME NEW u, AIChat(r, u) PROVE PostIInv'
  <2> DEFINE q == [pc |-> "asked", user |-> u, set |-> kSet, step |-> 0]
  <2>1. kReq' = [kReq EXCEPT ![r] = q] /\ kPosts' = kPosts
    BY <1>1, Zenon DEF AIChat
  <2>2. "pc" \in DOMAIN q /\ q.pc # "serve"
    OBVIOUS
  <2> HIDE DEF q
  <2> QED
    BY <2>1, <2>2, OtherRequestsMove
<1>2. ASSUME NEW u, NEW i, AIExecuteAction(r, u, i) \/ AICancelAction(r, u, i) PROVE PostIInv'
  <2> DEFINE claim == [pc |-> "claim", user |-> u, id |-> i, tool |-> kAction[i].tool]
             cancel == [pc |-> "cancel", id |-> i]
  <2>1. (kReq' = [kReq EXCEPT ![r] = claim] \/ kReq' = [kReq EXCEPT ![r] = cancel]) /\ kPosts' = kPosts
    BY <1>2, Zenon DEF AIExecuteAction, AICancelAction
  <2>2. "pc" \in DOMAIN claim /\ claim.pc # "serve" /\ "pc" \in DOMAIN cancel /\ cancel.pc # "serve"
    OBVIOUS
  <2> HIDE DEF claim, cancel
  <2> QED
    BY <2>1, <2>2, OtherRequestsMove
<1>3. CASE ModelAnswers(r)
  <2>1. kReq' = [kReq EXCEPT ![r] = AiIdle]
        \/ \E n : kReq' = [kReq EXCEPT ![r] = [pc |-> "calls", user |-> kReq[r].user, set |-> kReq[r].set,
                                              step |-> kReq[r].step + 1, left |-> n]]
    BY <1>3 DEF ModelAnswers
  <2>2. kPosts' = kPosts
    BY <1>3 DEF ModelAnswers
  <2> QED
    BY <2>1, <2>2, OtherRequestsMove, PostsMove, IdlePostFits
<1>4. CASE runAssistant(r)
  <2>1. kReq[r].pc = "calls" /\ NextCall(r) /\ kPosts' = kPosts
    BY <1>4 DEF runAssistant
  <2>2. PICK q : kReq' = [kReq EXCEPT ![r] = q] /\ RequestCarries(q) /\ q.pc \in {"calls", "asked", "idle"}
    BY <2>1, NextCallCarries
  <2> QED
    BY <2>1, <2>2, OtherRequestsMove DEF RequestCarries
<1>5. CASE ClaimAction(r)
  <2>1. kPosts' = kPosts /\ (kReq' = [kReq EXCEPT ![r].pc = "run"] \/ kReq' = [kReq EXCEPT ![r] = AiIdle]) /\ kReq[r].pc = "claim"
    BY <1>5 DEF ClaimAction
  <2> DEFINE q == [kReq[r] EXCEPT !.pc = "run"]
  <2>2. "pc" \in DOMAIN q /\ q.pc = "run"
    BY DEF PostIInv, PostFits
  <2>3. kReq' = [kReq EXCEPT ![r] = q] \/ kReq' = [kReq EXCEPT ![r] = AiIdle]
    BY <2>1
  <2> HIDE DEF q
  <2> QED
    BY <2>1, <2>2, <2>3, OtherRequestsMove, PostsMove, IdlePostFits
<1>6. CASE RunAction(r)
  <2> DEFINE q == [pc |-> "note", id |-> kReq[r].id]
  <2>1. kReq' = [kReq EXCEPT ![r] = q] /\ kPosts' = kPosts
    BY <1>6, Zenon DEF RunAction
  <2>2. "pc" \in DOMAIN q /\ q.pc # "serve"
    OBVIOUS
  <2> HIDE DEF q
  <2> QED
    BY <2>1, <2>2, OtherRequestsMove
<1>7. CASE NoteOutcome(r) \/ CancelAction(r)
  BY <1>7, PostsMove, IdlePostFits DEF NoteOutcome, CancelAction
<1> QED
  BY <1>1, <1>2, <1>3, <1>4, <1>5, <1>6, <1>7, Zenon

LEMMA PostsStay == ASSUME PostIInv, UNCHANGED << kReq, kPosts >> PROVE PostIInv'
<1>1. HeadersAgree'
  BY Zenon DEF PostIInv, HeadersAgree
<1> QED
  BY <1>1 DEF PostIInv, PostFits

LEMMA PostsKeep == ASSUME PostIInv, ActionIInv, AiNext PROVE PostIInv'
<1>1. ASSUME NEW r \in AiRequests, (\E u \in AiUsers, body \in McpBodies : MCPServer(r, u, body)) \/ ServeHTTP(r)
      PROVE  PostIInv'
  BY <1>1, MCPServerKeepsPosts, ServeKeepsPosts, Zenon
<1>2. ASSUME NEW fields, SwitchAi(fields) \/ AiTick \/ CleanupAIActions PROVE PostIInv'
  BY <1>2, PostsStay DEF SwitchAi, AiTick, CleanupAIActions
<1>3. CASE AiCrash
  <2>1. DOMAIN kReq' = AiRequests /\ kPosts' = kPosts /\ \A r \in AiRequests : kReq'[r] = AiIdle
    BY <1>3 DEF AiCrash
  <2>2. HeadersAgree'
    BY <2>1, Zenon DEF PostIInv, HeadersAgree
  <2> QED
    BY <2>1, <2>2, IdlePostFits DEF PostIInv, PostFits
<1> QED
  BY <1>1, <1>2, <1>3, AssistantKeepsPosts, Zenon DEF AiNext, AssistantNext, McpNext

AssistantIInv == RateIInv /\ ActionIInv /\ PostIInv

LEMMA AssistantFromTheStart == AiInit => AssistantIInv
BY RateFromTheStart, ActionsFromTheStart, PostsFromTheStart DEF AssistantIInv

LEMMA AssistantKeeps == ASSUME AssistantIInv, AiNext PROVE AssistantIInv'
BY RateKeeps, ActionsKeep, PostsKeep DEF AssistantIInv

LEMMA AssistantStays == ASSUME AssistantIInv, UNCHANGED kVars PROVE AssistantIInv'
<1>1. UNCHANGED << kBucket, kAllowed, kNow >> /\ UNCHANGED actionVars /\ UNCHANGED << kReq, kPosts >> /\ kNow \in Nat
  BY DEF kVars, actionVars, AssistantIInv, RateIInv
<1> QED
  BY <1>1, RateStays, ActionsStay, PostsStay DEF AssistantIInv

LEMMA AssistantSound == ASSUME AssistantIInv PROVE AssistantInv
BY RateSound, ActionsSound DEF AssistantIInv, PostIInv, AssistantInv

-----------------------------------------------------------------------------
(* Remote management *)

PolicyMemory == [lines : [Policies -> Nat], known : SUBSET Policies]
PolicyCall ==
  [pc : {"idle"}] \cup [pc : {"insert", "keep", "erase", "forget"}, at : LServers, p : Policies]

PolicyTypes ==
  /\ lRows \in [Policies -> Nat] /\ lMem \in [LServers -> PolicyMemory]
  /\ lBoot \in [LServers -> {"down", "load", "defaults", "up"}]
  /\ lCalls \in [PolicyAdmins -> PolicyCall]
  /\ lGiven \subseteq LServers \X Policies /\ lAsked \subseteq Policies

\* What the index knows is in memory, and what is in memory is in the table
\* unless somebody asked to remove it.
MemoryFits(s) ==
  /\ \A p \in lMem[s].known : lMem[s].lines[p] > 0
  /\ \A p \in Policies : lMem[s].lines[p] > 0 => lRows[p] > 0 \/ p \in lAsked

CallFits(a) ==
  /\ lCalls[a].pc = "keep" => lRows[lCalls[a].p] > 0 \/ lCalls[a].p \in lAsked
  /\ lCalls[a].pc \in {"erase", "forget"} => lCalls[a].p \in lAsked

GivenFits(s, p) ==
  /\ p \notin lAsked /\ lRows[p] > 0
  /\ lBoot[s] \in {"defaults", "up"} => lMem[s].lines[p] > 0

PolicyIInv ==
  /\ PolicyTypes
  /\ \A s \in LServers : MemoryFits(s)
  /\ \A a \in PolicyAdmins : CallFits(a)
  /\ \A s \in LServers, p \in Policies : << s, p >> \in lGiven => GivenFits(s, p)

HandlerStates == {"none", "greet", "dial", "handshake", "ready", "wait", "read", "write", "input", "returned"}
SessionRow ==
  [kind : {"none", "ssh", "vnc", "rdp"}, at : LServers \cup {"none"}, main : HandlerStates,
   ws : {"open", "stalled", "closed"}, remote : {"none", "open", "gone", "closed"}, stop : BOOLEAN,
   pump : [Pumps -> {"none", "read", "write", "done"}], pipe : [Pumps -> Nat], inp : {"none", "read", "done"},
   back : {"none", "login", "idle", "write", "close"}, asked : BOOLEAN, sync : BOOLEAN, sent : Nat,
   pressed : SUBSET {"left"}, held : SUBSET {"left"}]

\* The goroutines of a session are those of its kind.
SessionFits(t) ==
  /\ t.main = "none" => t.remote = "none" /\ t.back = "none" /\ \A u \in Pumps : t.pump[u] = "none"
  /\ t.main = "input" => t.kind = "rdp"
  /\ t.back # "none" => t.kind = "rdp"
  /\ \A u \in Pumps : t.pump[u] # "none" => t.kind = "ssh"
  /\ t.main = "returned" => t.ws = "closed" /\ (t.kind # "rdp" => t.remote # "open")

SessionIInv == lSess \in SessionRow /\ SessionFits(lSess)

ConnectionRow == [id : Nat, dsn : DSNs]
ConnectionIInv ==
  /\ lConns \subseteq ConnectionRow /\ lLastId \in Nat /\ lPools \in [LServers -> SUBSET ConnectionRow]
  /\ \A c \in lConns : c.id <= lLastId /\ \A d \in lConns : c.id = d.id => c = d
  /\ \A s \in LServers : \A c \in lPools[s] : c.id <= lLastId /\ \A d \in lConns : c.id = d.id => c = d

LiaisonIInv == PolicyIInv /\ SessionIInv /\ ConnectionIInv

CallGoes == [pc : {"insert", "keep", "erase", "forget"}, at : LServers, p : Policies]

LEMMA CallUnderWay ==
  ASSUME PolicyIInv, NEW a \in PolicyAdmins, lCalls[a].pc # "idle"
  PROVE  lCalls[a] \in CallGoes /\ lCalls[a].at \in LServers /\ lCalls[a].p \in Policies
BY DEF PolicyIInv, PolicyTypes, PolicyCall, CallGoes

LEMMA NoCallIdles == NoCall \in PolicyCall /\ NoCall.pc = "idle" /\ NoLines \in PolicyMemory
      /\ NoLines.known = {} /\ \A p \in Policies : NoLines.lines[p] = 0
BY DEF NoCall, PolicyCall, NoLines, PolicyMemory

LEMMA LineIsAdded ==
  ASSUME NEW mem \in PolicyMemory, NEW p \in Policies
  PROVE  /\ WithLine(mem, p) \in PolicyMemory /\ WithLine(mem, p).known = mem.known \cup {p}
         /\ WithLine(mem, p).lines[p] = mem.lines[p] + 1 /\ mem.lines[p] \in Nat
         /\ \A q \in Policies : q # p => WithLine(mem, p).lines[q] = mem.lines[q]
<1>1. mem.lines \in [Policies -> Nat] /\ mem.known \in SUBSET Policies
  BY DEF PolicyMemory
<1> DEFINE left == [mem.lines EXCEPT ![p] = @ + 1]
<1>2. left \in [Policies -> Nat] /\ left[p] = mem.lines[p] + 1 /\ \A q \in Policies : q # p => left[q] = mem.lines[q]
  BY <1>1
<1>3. WithLine(mem, p) = [lines |-> left, known |-> mem.known \cup {p}]
  BY DEF WithLine
<1> HIDE DEF left
<1> QED
  BY <1>1, <1>2, <1>3 DEF PolicyMemory

LEMMA LiaisonFromTheStart == LiaisonInit => LiaisonIInv
<1> SUFFICES ASSUME LiaisonInit PROVE LiaisonIInv
  OBVIOUS
<1>1. PolicyTypes /\ \A a \in PolicyAdmins : lCalls[a].pc = "idle"
  BY NoCallIdles DEF LiaisonInit, PolicyTypes
<1>2. \A s \in LServers : MemoryFits(s)
  BY NoCallIdles DEF LiaisonInit, MemoryFits
<1>3. PolicyIInv
  BY <1>1, <1>2 DEF PolicyIInv, CallFits, LiaisonInit
<1>4. SessionIInv
  BY DEF LiaisonInit, SessionIInv, NoSession, SessionRow, SessionFits, HandlerStates, Pumps
<1>5. ConnectionIInv
  BY DEF LiaisonInit, ConnectionIInv
<1> QED
  BY <1>3, <1>4, <1>5 DEF LiaisonIInv

\* A call begins, or goes on with what is in the table and in memory as it was.
LEMMA CallMoves ==
  ASSUME PolicyIInv, NEW a \in PolicyAdmins, NEW c \in PolicyCall, lCalls' = [lCalls EXCEPT ![a] = c],
         c.pc = "keep" => lRows[c.p] > 0 \/ c.p \in lAsked,
         c.pc \in {"erase", "forget"} => c.p \in lAsked,
         UNCHANGED << lRows, lMem, lBoot, lGiven, lAsked >>
  PROVE  PolicyIInv'
<1>1. PolicyTypes' /\ lCalls'[a] = c /\ \A b \in PolicyAdmins : b # a => lCalls'[b] = lCalls[b]
  BY DEF PolicyIInv, PolicyTypes
<1>2. ASSUME NEW b \in PolicyAdmins PROVE CallFits(b)'
  <2>1. CASE b = a
    BY <2>1, <1>1 DEF CallFits
  <2>2. CASE b # a
    BY <2>2, <1>1 DEF CallFits, PolicyIInv
  <2> QED
    BY <2>1, <2>2
<1>3. (\A s \in LServers : MemoryFits(s)') /\ \A s \in LServers, p \in Policies : << s, p >> \in lGiven' => GivenFits(s, p)'
  BY DEF PolicyIInv, MemoryFits, GivenFits
<1> QED
  BY <1>1, <1>2, <1>3 DEF PolicyIInv

\* What is in the table and asked for stays so.
LEMMA CallsStay ==
  ASSUME PolicyIInv, lAsked \subseteq lAsked',
         \A p \in Policies : lRows[p] > 0 => lRows'[p] > 0 \/ p \in lAsked',
         \A a \in PolicyAdmins : lCalls'[a] = lCalls[a] \/ lCalls'[a].pc = "idle"
  PROVE  \A a \in PolicyAdmins : CallFits(a)'
<1> SUFFICES ASSUME NEW a \in PolicyAdmins PROVE CallFits(a)'
  OBVIOUS
<1>1. CASE lCalls'[a].pc = "idle"
  BY <1>1 DEF CallFits
<1>2. CASE lCalls'[a].pc # "idle"
  BY <1>2, CallUnderWay DEF CallFits, PolicyIInv
<1> QED
  BY <1>1, <1>2

LEMMA RestartKeeps == ASSUME PolicyIInv, NEW s \in LServers, Restart(s) PROVE PolicyIInv'
<1>1. lMem' = [lMem EXCEPT ![s] = NoLines] /\ lBoot' = [lBoot EXCEPT ![s] = "load"]
      /\ lCalls' = [a \in PolicyAdmins |-> IF lCalls[a] # NoCall /\ lCalls[a].at = s THEN NoCall ELSE lCalls[a]]
      /\ UNCHANGED << lRows, lGiven, lAsked >>
  BY DEF Restart
<1>2. lCalls' \in [PolicyAdmins -> PolicyCall] /\ \A a \in PolicyAdmins : lCalls'[a] = lCalls[a] \/ lCalls'[a].pc = "idle"
  BY <1>1, NoCallIdles DEF PolicyIInv, PolicyTypes
<1>3. PolicyTypes'
  BY <1>1, <1>2, NoCallIdles DEF PolicyIInv, PolicyTypes
<1>4. \A a \in PolicyAdmins : CallFits(a)'
  BY <1>1, <1>2, CallsStay
<1>5. ASSUME NEW q \in LServers PROVE MemoryFits(q)'
  BY <1>1, NoCallIdles DEF PolicyIInv, PolicyTypes, MemoryFits
<1>6. ASSUME NEW q \in LServers, NEW p \in Policies, << q, p >> \in lGiven' PROVE GivenFits(q, p)'
  BY <1>1, <1>6 DEF PolicyIInv, PolicyTypes, GivenFits
<1> QED
  BY <1>3, <1>4, <1>5, <1>6 DEF PolicyIInv

LEMMA LoadPolicyKeeps == ASSUME PolicyIInv, NEW s \in LServers, LoadPolicy(s) PROVE PolicyIInv'
<1>1. lMem' = [lMem EXCEPT ![s] = Loaded] /\ lGiven' = lGiven \cup ({s} \X {g[2] : g \in lGiven})
      /\ UNCHANGED << lRows, lCalls, lAsked >>
      /\ lBoot' = [lBoot EXCEPT ![s] = IF \A p \in Policies : lRows[p] = 0 THEN "defaults" ELSE "up"]
  BY DEF LoadPolicy
<1>2. Loaded \in PolicyMemory /\ Loaded.lines = lRows /\ Loaded.known = {}
  BY DEF Loaded, PolicyMemory, PolicyIInv, PolicyTypes
<1>3. \A q \in LServers, p \in Policies : << q, p >> \in lGiven' =>
        << q, p >> \in lGiven \/ (q = s /\ \E r \in LServers : << r, p >> \in lGiven)
  <2> SUFFICES ASSUME NEW q \in LServers, NEW p \in Policies, << q, p >> \in {s} \X {g[2] : g \in lGiven}
               PROVE  q = s /\ \E r \in LServers : << r, p >> \in lGiven
    BY <1>1
  <2>1. PICK g \in lGiven : p = g[2]
    OBVIOUS
  <2>2. g[1] \in LServers /\ g = << g[1], g[2] >>
    BY DEF PolicyIInv, PolicyTypes
  <2> QED
    BY <2>1, <2>2
<1>4. PolicyTypes'
  <2>1. lGiven' \subseteq LServers \X Policies
    BY <1>1 DEF PolicyIInv, PolicyTypes
  <2>2. lBoot' \in [LServers -> {"down", "load", "defaults", "up"}]
    BY <1>1 DEF PolicyIInv, PolicyTypes
  <2> QED
    BY <1>1, <1>2, <2>1, <2>2 DEF PolicyIInv, PolicyTypes
<1>5. \A a \in PolicyAdmins : CallFits(a)'
  BY <1>1, CallsStay
<1>6. ASSUME NEW q \in LServers PROVE MemoryFits(q)'
  BY <1>1, <1>2 DEF PolicyIInv, PolicyTypes, MemoryFits
<1>7. ASSUME NEW q \in LServers, NEW p \in Policies, << q, p >> \in lGiven' PROVE GivenFits(q, p)'
  <2>1. p \notin lAsked /\ lRows[p] > 0
    BY <1>3, <1>7 DEF PolicyIInv, GivenFits
  <2>2. CASE q = s
    BY <2>1, <2>2, <1>1, <1>2 DEF GivenFits, PolicyIInv, PolicyTypes
  <2>3. CASE q # s
    BY <2>1, <2>3, <1>1, <1>3, <1>7 DEF GivenFits, PolicyIInv, PolicyTypes
  <2> QED
    BY <2>2, <2>3
<1> QED
  BY <1>4, <1>5, <1>6, <1>7 DEF PolicyIInv

LEMMA DefaultsKeep == ASSUME PolicyIInv, NEW s \in LServers, ensureDefaults(s) PROVE PolicyIInv'
<1>1. CASE lBoot' = [lBoot EXCEPT ![s] = "up"] /\ lBoot[s] = "defaults" /\ UNCHANGED << lRows, lMem, lCalls, lGiven, lAsked >>
  <2>1. PolicyTypes' /\ \A a \in PolicyAdmins : CallFits(a)'
    BY <1>1 DEF PolicyIInv, PolicyTypes, CallFits
  <2>2. (\A q \in LServers : MemoryFits(q)') /\ \A q \in LServers, p \in Policies : << q, p >> \in lGiven' => GivenFits(q, p)'
    BY <1>1 DEF PolicyIInv, PolicyTypes, MemoryFits, GivenFits
  <2> QED
    BY <2>1, <2>2 DEF PolicyIInv
<1>2. ASSUME NEW p \in Policies, lRows' = [lRows EXCEPT ![p] = @ + 1], lMem' = [lMem EXCEPT ![s] = WithLine(lMem[s], p)],
             UNCHANGED << lBoot, lCalls, lGiven, lAsked >>
      PROVE  PolicyIInv'
  <2>1. lMem[s] \in PolicyMemory /\ lRows[p] \in Nat
    BY DEF PolicyIInv, PolicyTypes
  <2>2. PolicyTypes' /\ lMem'[s] = WithLine(lMem[s], p) /\ \A q \in LServers : q # s => lMem'[q] = lMem[q]
    BY <1>2, <2>1, LineIsAdded DEF PolicyIInv, PolicyTypes
  <2>3. lRows'[p] > 0 /\ \A q \in Policies : q # p => lRows'[q] = lRows[q]
    BY <1>2, <2>1 DEF PolicyIInv, PolicyTypes
  <2>4. \A a \in PolicyAdmins : CallFits(a)'
    BY <1>2, <2>3, CallsStay
  <2>5. ASSUME NEW q \in LServers PROVE MemoryFits(q)'
    BY <1>2, <2>1, <2>2, <2>3, LineIsAdded DEF PolicyIInv, MemoryFits, PolicyMemory
  <2>6. ASSUME NEW q \in LServers, NEW o \in Policies, << q, o >> \in lGiven' PROVE GivenFits(q, o)'
    BY <1>2, <2>1, <2>2, <2>3, <2>6, LineIsAdded DEF PolicyIInv, GivenFits
  <2> QED
    BY <2>2, <2>4, <2>5, <2>6 DEF PolicyIInv
<1>3. UNCHANGED << lCalls, lGiven, lAsked >> /\ lBoot[s] = "defaults"
      /\ \/ lBoot' = [lBoot EXCEPT ![s] = "up"] /\ UNCHANGED << lRows, lMem >>
         \/ \E p \in DefaultPolicies : lRows' = [lRows EXCEPT ![p] = @ + 1]
              /\ lMem' = [lMem EXCEPT ![s] = WithLine(lMem[s], p)] /\ UNCHANGED lBoot
  BY DEF ensureDefaults
<1>4. DefaultPolicies \subseteq Policies
  BY LiaisonAssumption, Zenon
<1> QED
  BY <1>1, <1>2, <1>3, <1>4, Zenon

LEMMA FailsKeeps == ASSUME PolicyIInv, NEW s \in LServers, NewRBACFails(s) PROVE PolicyIInv'
<1>1. PolicyTypes' /\ \A a \in PolicyAdmins : CallFits(a)'
  BY DEF NewRBACFails, PolicyIInv, PolicyTypes, CallFits
<1>2. (\A q \in LServers : MemoryFits(q)') /\ \A q \in LServers, p \in Policies : << q, p >> \in lGiven' => GivenFits(q, p)'
  BY DEF NewRBACFails, PolicyIInv, PolicyTypes, MemoryFits, GivenFits
<1> QED
  BY <1>1, <1>2 DEF PolicyIInv

\* A policy becomes one that was given.
LEMMA AnsweredKeeps ==
  ASSUME PolicyIInv, NEW s \in LServers, NEW p \in Policies, Answered(s, p),
         lMem[s].lines[p] > 0, UNCHANGED << lRows, lMem, lBoot, lCalls, lAsked >>
  PROVE  PolicyIInv'
<1>1. lGiven' = lGiven \/ (p \notin lAsked /\ lGiven' = lGiven \cup {<< s, p >>})
  BY DEF Answered
<1>2. PolicyTypes' /\ (\A q \in LServers : MemoryFits(q)') /\ \A a \in PolicyAdmins : CallFits(a)'
  BY <1>1 DEF PolicyIInv, PolicyTypes, CallFits, MemoryFits
<1>3. ASSUME NEW q \in LServers, NEW o \in Policies, << q, o >> \in lGiven' PROVE GivenFits(q, o)'
  BY <1>1, <1>3 DEF PolicyIInv, GivenFits, MemoryFits
<1> QED
  BY <1>2, <1>3 DEF PolicyIInv

LEMMA PolicyAddKeeps ==
  ASSUME PolicyIInv, NEW a \in PolicyAdmins, NEW s \in LServers, NEW p \in Policies, handlePolicyAdd(a, s, p)
  PROVE  PolicyIInv'
<1>1. UNCHANGED << lRows, lMem, lBoot, lAsked >>
  BY DEF handlePolicyAdd
<1>2. CASE p \in lMem[s].known /\ Answered(s, p) /\ UNCHANGED lCalls
  BY <1>1, <1>2, AnsweredKeeps DEF PolicyIInv, MemoryFits
<1>3. CASE lCalls' = [lCalls EXCEPT ![a] = [pc |-> "insert", at |-> s, p |-> p]] /\ UNCHANGED lGiven
  <2> DEFINE c == [pc |-> "insert", at |-> s, p |-> p]
  <2>1. c \in PolicyCall /\ c.pc = "insert"
    BY DEF PolicyCall
  <2> HIDE DEF c
  <2>2. lCalls' = [lCalls EXCEPT ![a] = c]
    BY <1>3 DEF c
  <2> QED
    BY <1>1, <1>3, <2>1, <2>2, CallMoves
<1> QED
  BY <1>2, <1>3 DEF handlePolicyAdd

LEMMA AddPolicyKeeps == ASSUME PolicyIInv, NEW a \in PolicyAdmins, AddPolicy(a) PROVE PolicyIInv'
<1> DEFINE c == [lCalls[a] EXCEPT !.pc = "keep"]
<1>1. lCalls[a] \in CallGoes /\ lCalls[a].p \in Policies
  BY CallUnderWay DEF AddPolicy
<1>2. c \in PolicyCall /\ c.pc = "keep" /\ c.p = lCalls[a].p
  BY <1>1 DEF PolicyCall, CallGoes
<1>3. lRows' = [lRows EXCEPT ![lCalls[a].p] = @ + 1] /\ lCalls' = [lCalls EXCEPT ![a] = c]
      /\ UNCHANGED << lMem, lBoot, lGiven, lAsked >>
  BY DEF AddPolicy
<1> HIDE DEF c
<1>4. lRows' \in [Policies -> Nat] /\ lRows'[c.p] > 0 /\ \A p \in Policies : lRows[p] > 0 => lRows'[p] > 0
  BY <1>1, <1>2, <1>3 DEF PolicyIInv, PolicyTypes
<1>5. PolicyTypes' /\ lCalls'[a] = c /\ \A b \in PolicyAdmins : b # a => lCalls'[b] = lCalls[b]
  BY <1>2, <1>3, <1>4 DEF PolicyIInv, PolicyTypes
<1>6. ASSUME NEW b \in PolicyAdmins PROVE CallFits(b)'
  <2>1. CASE b = a
    BY <2>1, <1>2, <1>4, <1>5 DEF CallFits
  <2>2. CASE b # a
    BY <2>2, <1>3, <1>4, <1>5, CallUnderWay DEF CallFits, PolicyIInv
  <2> QED
    BY <2>1, <2>2
<1>7. ASSUME NEW s \in LServers PROVE MemoryFits(s)'
  BY <1>3, <1>4 DEF MemoryFits, PolicyIInv
<1>8. ASSUME NEW s \in LServers, NEW p \in Policies, << s, p >> \in lGiven' PROVE GivenFits(s, p)'
  BY <1>3, <1>4, <1>8 DEF GivenFits, PolicyIInv
<1> QED
  BY <1>5, <1>6, <1>7, <1>8 DEF PolicyIInv

LEMMA KeepPolicyKeeps == ASSUME PolicyIInv, NEW a \in PolicyAdmins, KeepPolicy(a) PROVE PolicyIInv'
<1>1. PICK s \in LServers, p \in Policies : s = lCalls[a].at /\ p = lCalls[a].p
  BY CallUnderWay DEF KeepPolicy
<1>2. /\ lMem' = [lMem EXCEPT ![s] = WithLine(lMem[s], p)] /\ Answered(s, p)
      /\ lCalls' = [lCalls EXCEPT ![a] = NoCall] /\ UNCHANGED << lRows, lBoot, lAsked >>
  BY <1>1 DEF KeepPolicy
<1>3. lRows[p] > 0 \/ p \in lAsked
  BY <1>1 DEF KeepPolicy, PolicyIInv, CallFits
<1>4. lMem[s] \in PolicyMemory /\ lGiven' \subseteq lGiven \cup {<< s, p >>} /\ (<< s, p >> \in lGiven' => << s, p >> \in lGiven \/ p \notin lAsked)
  BY <1>2 DEF PolicyIInv, PolicyTypes, Answered
<1>5. lMem' \in [LServers -> PolicyMemory] /\ lMem'[s] = WithLine(lMem[s], p)
      /\ \A q \in LServers : q # s => lMem'[q] = lMem[q]
  BY <1>2, <1>4, LineIsAdded DEF PolicyIInv, PolicyTypes
<1>12. /\ lMem'[s].known = lMem[s].known \cup {p}
       /\ lMem'[s].lines[p] > 0
       /\ \A o \in Policies : o # p => lMem'[s].lines[o] = lMem[s].lines[o]
  BY <1>4, <1>5, LineIsAdded
<1>6. lCalls' \in [PolicyAdmins -> PolicyCall] /\ \A b \in PolicyAdmins : lCalls'[b] = lCalls[b] \/ lCalls'[b].pc = "idle"
  BY <1>2, NoCallIdles DEF PolicyIInv, PolicyTypes
<1>7. PolicyTypes'
  BY <1>2, <1>4, <1>5, <1>6 DEF PolicyIInv, PolicyTypes
<1>8. \A b \in PolicyAdmins : CallFits(b)'
  BY <1>2, <1>6, CallsStay
<1>9. ASSUME NEW q \in LServers PROVE MemoryFits(q)'
  <2>1. CASE q = s
    <3>1. \A o \in lMem'[s].known : o = p \/ o \in lMem[s].known
      BY <1>12
    <3>2. \A o \in lMem'[s].known : lMem'[s].lines[o] > 0
      BY <3>1, <1>4, <1>12 DEF PolicyIInv, MemoryFits, PolicyMemory
    <3>3. \A o \in Policies : lMem'[s].lines[o] > 0 => lRows[o] > 0 \/ o \in lAsked
      BY <1>3, <1>12 DEF PolicyIInv, MemoryFits
    <3> QED
      BY <1>2, <2>1, <3>2, <3>3 DEF MemoryFits
  <2>2. CASE q # s
    BY <2>2, <1>2, <1>5 DEF PolicyIInv, MemoryFits
  <2> QED
    BY <2>1, <2>2
<1>10. ASSUME NEW q \in LServers, NEW o \in Policies, << q, o >> \in lGiven' PROVE GivenFits(q, o)'
  <2>1. o \notin lAsked /\ lRows[o] > 0
    BY <1>3, <1>4, <1>10 DEF PolicyIInv, GivenFits
  <2>2. lBoot[q] \in {"defaults", "up"} => lMem'[q].lines[o] > 0
    <3>1. CASE q = s
      BY <3>1, <1>4, <1>10, <1>12 DEF PolicyIInv, GivenFits
    <3>2. CASE q # s
      BY <3>2, <1>4, <1>5, <1>10 DEF PolicyIInv, GivenFits
    <3> QED
      BY <3>1, <3>2
  <2> QED
    BY <1>2, <2>1, <2>2 DEF GivenFits
<1> QED
  BY <1>7, <1>8, <1>9, <1>10 DEF PolicyIInv

LEMMA PolicyRemoveKeeps ==
  ASSUME PolicyIInv, NEW a \in PolicyAdmins, NEW s \in LServers, NEW p \in Policies, handlePolicyRemove(a, s, p)
  PROVE  PolicyIInv'
<1> DEFINE c == [pc |-> "erase", at |-> s, p |-> p]
<1>1. c \in PolicyCall /\ c.pc = "erase" /\ c.p = p
  BY DEF PolicyCall
<1>2. lCalls' = [lCalls EXCEPT ![a] = c] /\ lAsked' = lAsked \cup {p} /\ lGiven' = {g \in lGiven : g[2] # p}
      /\ UNCHANGED << lRows, lMem, lBoot >>
  BY DEF handlePolicyRemove
<1> HIDE DEF c
<1>3. PolicyTypes' /\ lCalls'[a] = c /\ \A b \in PolicyAdmins : b # a => lCalls'[b] = lCalls[b]
  BY <1>1, <1>2 DEF PolicyIInv, PolicyTypes
<1>4. ASSUME NEW b \in PolicyAdmins PROVE CallFits(b)'
  <2>1. CASE b = a
    BY <2>1, <1>1, <1>2, <1>3 DEF CallFits
  <2>2. CASE b # a
    BY <2>2, <1>2, <1>3 DEF CallFits, PolicyIInv
  <2> QED
    BY <2>1, <2>2
<1>5. ASSUME NEW q \in LServers PROVE MemoryFits(q)'
  BY <1>2 DEF MemoryFits, PolicyIInv
<1>6. ASSUME NEW q \in LServers, NEW o \in Policies, << q, o >> \in lGiven' PROVE GivenFits(q, o)'
  BY <1>2, <1>6 DEF GivenFits, PolicyIInv
<1> QED
  BY <1>3, <1>4, <1>5, <1>6 DEF PolicyIInv

LEMMA RemovePolicyKeeps == ASSUME PolicyIInv, NEW a \in PolicyAdmins, RemovePolicy(a) PROVE PolicyIInv'
<1> DEFINE c == [lCalls[a] EXCEPT !.pc = "forget"]
<1>1. lCalls[a] \in CallGoes /\ lCalls[a].p \in Policies /\ lCalls[a].p \in lAsked
  BY CallUnderWay DEF RemovePolicy, PolicyIInv, CallFits
<1>2. c \in PolicyCall /\ c.pc = "forget" /\ c.p = lCalls[a].p
  BY <1>1 DEF PolicyCall, CallGoes
<1>3. lRows' = [lRows EXCEPT ![lCalls[a].p] = 0] /\ lCalls' = [lCalls EXCEPT ![a] = c]
      /\ UNCHANGED << lMem, lBoot, lGiven, lAsked >>
  BY DEF RemovePolicy
<1> HIDE DEF c
<1>4. lRows' \in [Policies -> Nat] /\ \A p \in Policies : p \notin lAsked => lRows'[p] = lRows[p]
  BY <1>1, <1>2, <1>3 DEF PolicyIInv, PolicyTypes
<1>5. PolicyTypes' /\ lCalls'[a] = c /\ \A b \in PolicyAdmins : b # a => lCalls'[b] = lCalls[b]
  BY <1>2, <1>3, <1>4 DEF PolicyIInv, PolicyTypes
<1>6. ASSUME NEW b \in PolicyAdmins PROVE CallFits(b)'
  <2>1. CASE b = a
    BY <2>1, <1>1, <1>2, <1>3, <1>5 DEF CallFits
  <2>2. CASE b # a
    BY <2>2, <1>3, <1>4, <1>5, CallUnderWay DEF CallFits, PolicyIInv
  <2> QED
    BY <2>1, <2>2
<1>7. ASSUME NEW s \in LServers PROVE MemoryFits(s)'
  BY <1>3, <1>4 DEF MemoryFits, PolicyIInv
<1>8. ASSUME NEW s \in LServers, NEW p \in Policies, << s, p >> \in lGiven' PROVE GivenFits(s, p)'
  BY <1>3, <1>4, <1>8 DEF GivenFits, PolicyIInv
<1> QED
  BY <1>5, <1>6, <1>7, <1>8 DEF PolicyIInv

LEMMA ForgetPolicyKeeps == ASSUME PolicyIInv, NEW a \in PolicyAdmins, ForgetPolicy(a) PROVE PolicyIInv'
<1>1. PICK s \in LServers, p \in Policies : s = lCalls[a].at /\ p = lCalls[a].p
  BY CallUnderWay DEF ForgetPolicy
<1>2. p \in lAsked /\ lCalls' = [lCalls EXCEPT ![a] = NoCall] /\ UNCHANGED << lRows, lBoot, lGiven, lAsked >>
  BY <1>1 DEF ForgetPolicy, PolicyIInv, CallFits
<1>3. \/ lMem' = lMem
      \/ /\ p \in lMem[s].known
         /\ \E q \in SUBSET Policies :
              /\ \A o \in q : [lMem[s].lines EXCEPT ![p] = @ - 1][o] > 0
              /\ lMem' = [lMem EXCEPT ![s] = [lines |-> [lMem[s].lines EXCEPT ![p] = @ - 1], known |-> (lMem[s].known \ {p}) \cup q]]
  <2> DEFINE left == [lMem[s].lines EXCEPT ![p] = @ - 1]
             others == lMem[s].known \ {p}
  <2>1. \/ lMem' = lMem
        \/ /\ p \in lMem[s].known
           /\ \E moved \in SUBSET {q \in Policies : left[q] > 0} :
                lMem' = [lMem EXCEPT ![s] = [lines |-> left, known |-> others \cup moved]]
    BY <1>1 DEF ForgetPolicy
  <2> HIDE DEF left, others
  <2>2. ASSUME NEW moved \in SUBSET {q \in Policies : left[q] > 0}
        PROVE  moved \in SUBSET Policies /\ \A o \in moved : left[o] > 0
    OBVIOUS
  <2> QED
    BY <2>1, <2>2 DEF left, others
<1>4. lCalls' \in [PolicyAdmins -> PolicyCall] /\ \A b \in PolicyAdmins : lCalls'[b] = lCalls[b] \/ lCalls'[b].pc = "idle"
  BY <1>2, NoCallIdles DEF PolicyIInv, PolicyTypes
<1>5. \A b \in PolicyAdmins : CallFits(b)'
  BY <1>2, <1>4, CallsStay
<1>6. CASE lMem' = lMem
  BY <1>2, <1>4, <1>5, <1>6 DEF PolicyIInv, PolicyTypes, MemoryFits, GivenFits
<1>7. CASE lMem' # lMem
  <2>0. p \in lMem[s].known
    BY <1>3, <1>7
  <2> DEFINE left == [lMem[s].lines EXCEPT ![p] = @ - 1]
  <2>1. p \in lMem[s].known /\ lMem[s].lines[p] > 0 /\ lMem[s] \in PolicyMemory
    BY <2>0 DEF PolicyIInv, PolicyTypes, MemoryFits
  <2>2. left \in [Policies -> Nat] /\ \A o \in Policies : o # p => left[o] = lMem[s].lines[o]
    BY <2>1 DEF PolicyMemory
  <2> HIDE DEF left
  <2>3. PICK q \in SUBSET Policies :
          /\ \A o \in q : left[o] > 0
          /\ lMem' = [lMem EXCEPT ![s] = [lines |-> left, known |-> (lMem[s].known \ {p}) \cup q]]
    BY <1>3, <1>7 DEF left
  <2> DEFINE new == [lines |-> left, known |-> (lMem[s].known \ {p}) \cup q]
  <2>4. new \in PolicyMemory /\ new.lines = left /\ new.known = (lMem[s].known \ {p}) \cup q
    BY <2>1, <2>2, <2>3 DEF PolicyMemory
  <2>5. lMem' = [lMem EXCEPT ![s] = new]
    BY <2>3
  <2> HIDE DEF new
  <2>6. PolicyTypes' /\ lMem'[s] = new /\ \A r \in LServers : r # s => lMem'[r] = lMem[r]
    BY <1>2, <1>4, <2>4, <2>5 DEF PolicyIInv, PolicyTypes
  <2>7. ASSUME NEW r \in LServers PROVE MemoryFits(r)'
    <3>1. CASE r = s
      BY <3>1, <1>2, <2>1, <2>2, <2>3, <2>4, <2>6 DEF PolicyIInv, MemoryFits, PolicyMemory
    <3>2. CASE r # s
      BY <3>2, <1>2, <2>6 DEF PolicyIInv, MemoryFits
    <3> QED
      BY <3>1, <3>2
  <2>8. ASSUME NEW r \in LServers, NEW o \in Policies, << r, o >> \in lGiven' PROVE GivenFits(r, o)'
    BY <1>2, <2>2, <2>4, <2>6, <2>8 DEF PolicyIInv, GivenFits
  <2> QED
    BY <1>5, <2>6, <2>7, <2>8 DEF PolicyIInv
<1> QED
  BY <1>6, <1>7

LEMMA PolicyFailsKeeps == ASSUME PolicyIInv, NEW a \in PolicyAdmins, PolicyFails(a) PROVE PolicyIInv'
BY NoCallIdles, CallMoves DEF PolicyFails

LEMMA NewRBACKeepsPolicies == ASSUME PolicyIInv, NewRBAC PROVE PolicyIInv'
BY RestartKeeps, LoadPolicyKeeps, DefaultsKeep, FailsKeeps DEF NewRBAC

LEMMA PoliciesStay == ASSUME PolicyIInv, UNCHANGED policyVars PROVE PolicyIInv'
BY DEF policyVars, PolicyIInv, PolicyTypes, MemoryFits, CallFits, GivenFits

LEMMA PoliciesKeep == ASSUME PolicyIInv, PolicyNext PROVE PolicyIInv'
<1>1. CASE NewRBAC
  BY <1>1, NewRBACKeepsPolicies
<1>2. CASE \E a \in PolicyAdmins, s \in LServers, p \in Policies : handlePolicyAdd(a, s, p) \/ handlePolicyRemove(a, s, p)
  BY <1>2, PolicyAddKeeps, PolicyRemoveKeeps
<1>3. CASE \E a \in PolicyAdmins : AddPolicy(a) \/ KeepPolicy(a) \/ RemovePolicy(a) \/ ForgetPolicy(a) \/ PolicyFails(a)
  BY <1>3, AddPolicyKeeps, KeepPolicyKeeps, RemovePolicyKeeps, ForgetPolicyKeeps, PolicyFailsKeeps, Zenon
<1> QED
  BY <1>1, <1>2, <1>3 DEF PolicyNext
-----------------------------------------------------------------------------
(* Sessions of remote management *)

LEMMA ClosedSession ==
  LET t == [NoSession EXCEPT !.main = "returned", !.ws = "closed"] IN t \in SessionRow /\ SessionFits(t)
BY DEF NoSession, SessionRow, SessionFits, HandlerStates, Pumps

LEMMA NewRBACKeepsSession == ASSUME SessionIInv, NewRBAC PROVE SessionIInv'
<1>1. ASSUME NEW s \in LServers, Restart(s) PROVE SessionIInv'
  <2>1. CASE lSess' = lSess
    BY <2>1 DEF SessionIInv, SessionFits
  <2>2. CASE lSess' = [NoSession EXCEPT !.main = "returned", !.ws = "closed"]
    BY <2>2, ClosedSession DEF SessionIInv
  <2> QED
    BY <1>1, <2>1, <2>2 DEF Restart
<1>2. ASSUME NEW s \in LServers, LoadPolicy(s) \/ ensureDefaults(s) \/ NewRBACFails(s) PROVE SessionIInv'
  BY <1>2 DEF LoadPolicy, ensureDefaults, NewRBACFails, SessionIInv
<1> QED
  BY <1>1, <1>2 DEF NewRBAC

LEMMA ReturnedFits == ASSUME NEW t \in SessionRow, SessionFits(t) PROVE Returned(t) \in SessionRow /\ SessionFits(Returned(t))
<1> DEFINE new == Returned(t)
<1>1. new \in SessionRow
  <2> DEFINE remote == IF t.remote = "open" /\ t.kind # "rdp" THEN "closed" ELSE t.remote
  <2>1. remote \in {"none", "open", "gone", "closed"}
    BY DEF SessionRow
  <2>2. new = [t EXCEPT !.main = "returned", !.ws = "closed", !.stop = TRUE, !.remote = remote]
    BY DEF Returned, SessionRow
  <2> HIDE DEF remote, new
  <2> QED
    BY <2>1, <2>2 DEF SessionRow, HandlerStates
<1>2. new.main = "returned" /\ new.ws = "closed" /\ new.kind = t.kind /\ new.back = t.back /\ new.pump = t.pump
  BY DEF Returned, SessionRow
<1>3. t.kind # "rdp" => new.remote # "open"
  BY DEF Returned, SessionRow
<1> HIDE DEF new
<1>4. SessionFits(new)
  BY <1>2, <1>3 DEF SessionFits
<1> QED
  BY <1>1, <1>4 DEF new

\* The new session is one, and its goroutines those of its kind.
LEMMA Goes == ASSUME NEW new \in SessionRow, SessionFits(new), Session(new) PROVE SessionIInv'
BY DEF Session, SessionIInv

LEMMA HandlerKeeps ==
  ASSUME SessionIInv,
         \/ \E s \in LServers, kind \in SessionKinds : handleWS(s, kind)
         \/ \E roles \in {{PolicyRole[p]} : p \in Policies} : Greeting(roles)
         \/ GreetingTimesOut \/ Dial \/ vncHandshake \/ Ready
  PROVE  SessionIInv'
<1>0. lSess \in SessionRow /\ SessionFits(lSess)
  BY DEF SessionIInv
<1>1. ASSUME NEW s \in LServers, NEW kind \in SessionKinds, handleWS(s, kind) PROVE SessionIInv'
  <2> DEFINE new == [lSess EXCEPT !.kind = kind, !.at = s, !.main = "greet"]
  <2>1. kind \in {"ssh", "vnc", "rdp"} /\ lSess.main = "none" /\ Session(new)
    BY <1>1, LiaisonAssumption DEF handleWS
  <2>2. new \in SessionRow
    BY <1>0, <2>1 DEF SessionRow, HandlerStates
  <2>3. new.main = "greet" /\ new.back = lSess.back /\ new.pump = lSess.pump /\ new.kind = kind
    BY <1>0 DEF SessionRow
  <2>4. lSess.back = "none" /\ \A u \in Pumps : lSess.pump[u] = "none"
    BY <1>0, <2>1 DEF SessionFits
  <2> HIDE DEF new
  <2>5. SessionFits(new)
    BY <2>3, <2>4 DEF SessionFits
  <2> QED
    BY <2>1, <2>2, <2>5, Goes
<1>2. ASSUME NEW roles, Greeting(roles) PROVE SessionIInv'
  <2> DEFINE new == [lSess EXCEPT !.main = IF lSess.kind = "rdp" THEN "input" ELSE "dial",
                                  !.back = IF lSess.kind = "rdp" THEN "login" ELSE "none"]
  <2>1. CASE Session(new)
    <3>1. lSess.main = "greet"
      BY <1>2 DEF Greeting
    <3> DEFINE main == IF lSess.kind = "rdp" THEN "input" ELSE "dial"
               back == IF lSess.kind = "rdp" THEN "login" ELSE "none"
    <3>2. main \in HandlerStates \ {"none", "returned"} /\ back \in {"login", "none"} /\ (main = "input" => lSess.kind = "rdp")
          /\ (back # "none" => lSess.kind = "rdp")
      BY DEF HandlerStates
    <3>3. Session([lSess EXCEPT !.main = main, !.back = back])
      BY <2>1
    <3> HIDE DEF main, back
    <3>4. [lSess EXCEPT !.main = main, !.back = back] \in SessionRow
      BY <1>0, <3>2 DEF SessionRow
    <3> DEFINE now == [lSess EXCEPT !.main = main, !.back = back]
    <3>5. now.main = main /\ now.back = back /\ now.pump = lSess.pump /\ now.kind = lSess.kind
      BY <1>0 DEF SessionRow
    <3> HIDE DEF now
    <3>6. SessionFits(now)
      BY <1>0, <3>2, <3>5 DEF SessionFits
    <3> QED
      BY <3>3, <3>4, <3>6, Goes DEF now
  <2>2. CASE Session(Returned(lSess))
    BY <2>2, <1>0, ReturnedFits, Goes
  <2> QED
    BY <1>2, <2>1, <2>2 DEF Greeting
<1>3. CASE GreetingTimesOut
  BY <1>3, <1>0, ReturnedFits, Goes DEF GreetingTimesOut
<1>4. CASE Dial
  <2> DEFINE main == IF lSess.kind = "ssh" THEN "ready" ELSE "handshake"
             new == [lSess EXCEPT !.main = main, !.remote = "open"]
  <2>1. main \in HandlerStates /\ main \in {"ready", "handshake"}
    BY DEF HandlerStates
  <2>2. Session(new) \/ Session(Returned(lSess))
    BY <1>4 DEF Dial
  <2> HIDE DEF main
  <2>3. new \in SessionRow
    BY <1>0, <2>1 DEF SessionRow
  <2>4. new.main = main /\ new.back = lSess.back /\ new.pump = lSess.pump /\ new.kind = lSess.kind
    BY <1>0 DEF SessionRow
  <2> HIDE DEF new
  <2>5. SessionFits(new)
    BY <1>0, <2>1, <2>4 DEF SessionFits
  <2> QED
    BY <1>0, <2>2, <2>3, <2>5, ReturnedFits, Goes
<1>5. CASE vncHandshake
  <2> DEFINE new == [lSess EXCEPT !.main = "ready", !.asked = TRUE]
  <2>1. Session(new) \/ Session(Returned(lSess))
    BY <1>5 DEF vncHandshake
  <2>2. new \in SessionRow
    BY <1>0 DEF SessionRow, HandlerStates
  <2>3. new.main = "ready" /\ new.back = lSess.back /\ new.pump = lSess.pump /\ new.kind = lSess.kind
    BY <1>0 DEF SessionRow
  <2> HIDE DEF new
  <2>4. SessionFits(new)
    BY <1>0, <2>3 DEF SessionFits
  <2> QED
    BY <1>0, <2>1, <2>2, <2>4, ReturnedFits, Goes
<1>6. CASE Ready
  <2> DEFINE main == IF lSess.kind = "ssh" THEN "wait" ELSE "read"
             pump == [u \in Pumps |-> IF lSess.kind = "ssh" THEN "read" ELSE "none"]
             new == [lSess EXCEPT !.main = main, !.inp = "read", !.pump = pump]
  <2>1. main \in HandlerStates /\ main \in {"wait", "read"} /\ pump \in [Pumps -> {"none", "read", "write", "done"}]
        /\ \A u \in Pumps : pump[u] # "none" => lSess.kind = "ssh"
    BY DEF HandlerStates
  <2>2. Session(new) \/ Session(Returned(lSess))
    BY <1>6 DEF Ready
  <2> HIDE DEF main, pump
  <2>3. new \in SessionRow
    BY <1>0, <2>1 DEF SessionRow
  <2>4. new.main = main /\ new.back = lSess.back /\ new.pump = pump /\ new.kind = lSess.kind
    BY <1>0 DEF SessionRow
  <2> HIDE DEF new
  <2>5. SessionFits(new)
    BY <1>0, <2>1, <2>4 DEF SessionFits
  <2> QED
    BY <1>0, <2>2, <2>3, <2>5, ReturnedFits, Goes
<1> QED
  BY <1>1, <1>2, <1>3, <1>4, <1>5, <1>6

LEMMA TerminalKeeps ==
  ASSUME SessionIInv, ForwardInput \/ (\E u \in Pumps : PumpReads(u) \/ PumpWrites(u)) \/ Wait PROVE SessionIInv'
<1>0. lSess \in SessionRow /\ SessionFits(lSess)
  BY DEF SessionIInv
<1>1. CASE ForwardInput
  <2> DEFINE new == [lSess EXCEPT !.inp = "done", !.stop = TRUE]
  <2>1. new \in SessionRow
    BY <1>0 DEF SessionRow
  <2>2. /\ new.main = lSess.main /\ new.remote = lSess.remote /\ new.back = lSess.back
        /\ new.kind = lSess.kind /\ new.ws = lSess.ws /\ new.pump = lSess.pump
    BY <1>0 DEF SessionRow
  <2> HIDE DEF new
  <2>3. SessionFits(new)
    BY <1>0, <2>2 DEF SessionFits
  <2>4. Session(new)
    BY <1>1 DEF ForwardInput, new
  <2> QED
    BY <2>1, <2>3, <2>4, Goes
<1>2. ASSUME NEW u \in Pumps, PumpReads(u) \/ PumpWrites(u) PROVE SessionIInv'
  <2>1. lSess.pump[u] \in {"read", "write"} /\ lSess.kind = "ssh" /\ lSess.pipe[u] \in Nat
    BY <1>0, <1>2 DEF PumpReads, PumpWrites, SessionRow, SessionFits
  <2>2. ASSUME NEW new \in SessionRow, new.main = lSess.main, new.remote = lSess.remote, new.kind = lSess.kind,
               new.back = lSess.back, new.ws = lSess.ws
        PROVE  SessionFits(new)
    BY <1>0, <2>1, <2>2 DEF SessionFits
  <2>3. CASE lSess.pipe[u] > 0 /\ Session([lSess EXCEPT !.pipe[u] = @ - 1, !.pump[u] = "write"])
    <3> DEFINE pipe == [lSess.pipe EXCEPT ![u] = @ - 1]
               pump == [lSess.pump EXCEPT ![u] = "write"]
               new == [lSess EXCEPT !.pipe = pipe, !.pump = pump]
    <3>2. pipe \in [Pumps -> Nat] /\ pump \in [Pumps -> {"none", "read", "write", "done"}]
      BY <1>0, <2>1, <2>3 DEF SessionRow
    <3>3. Session(new)
      BY <2>3
    <3> HIDE DEF pipe, pump
    <3>1. new \in SessionRow /\ new.main = lSess.main /\ new.remote = lSess.remote /\ new.kind = lSess.kind
          /\ new.back = lSess.back /\ new.ws = lSess.ws
      BY <1>0, <3>2 DEF SessionRow
    <3> QED
      BY <2>2, <3>1, <3>3, Goes
  <2>4. CASE Session([lSess EXCEPT !.pump[u] = "done", !.stop = TRUE])
    <3> DEFINE new == [lSess EXCEPT !.pump[u] = "done", !.stop = TRUE]
    <3>1. new \in SessionRow /\ new.main = lSess.main /\ new.remote = lSess.remote /\ new.kind = lSess.kind
          /\ new.back = lSess.back /\ new.ws = lSess.ws
      BY <1>0 DEF SessionRow
    <3> QED
      BY <2>2, <2>4, <3>1, Goes
  <2>5. CASE Session([lSess EXCEPT !.pump[u] = "read"])
    <3> DEFINE new == [lSess EXCEPT !.pump[u] = "read"]
    <3>1. new \in SessionRow /\ new.main = lSess.main /\ new.remote = lSess.remote /\ new.kind = lSess.kind
          /\ new.back = lSess.back /\ new.ws = lSess.ws
      BY <1>0 DEF SessionRow
    <3> QED
      BY <2>2, <2>5, <3>1, Goes
  <2> QED
    BY <1>2, <2>3, <2>4, <2>5 DEF PumpReads, PumpWrites
<1>3. CASE Wait
  BY <1>0, <1>3, ReturnedFits, Goes DEF Wait
<1> QED
  BY <1>1, <1>2, <1>3

\* The goroutines that run go on, each with what it may do.
LEMMA SameGoroutines ==
  ASSUME SessionIInv, lSess.main # "none", NEW new \in SessionRow, Session(new),
         new.kind = lSess.kind, new.pump = lSess.pump, new.main = lSess.main \/ new.main \in {"read", "write"},
         new.back # "none" => lSess.back # "none",
         new.main = "returned" => new.ws = "closed" /\ (new.remote = "open" => lSess.remote = "open" \/ lSess.back # "none")
  PROVE  SessionIInv'
<1>1. SessionFits(new)
  BY DEF SessionIInv, SessionFits
<1> QED
  BY <1>1, Goes

LEMMA DesktopKeeps ==
  ASSUME SessionIInv,
         \/ \E pressed \in {{}, {"left"}} : Pointer(pressed)
         \/ readServerMessage \/ WriteFramebuffer \/ Login \/ OnBitmap \/ closeOnce \/ InputLoop
  PROVE  SessionIInv'
<1>0. lSess \in SessionRow /\ SessionFits(lSess) /\ (lSess.back # "none" \/ lSess.remote # "none" => lSess.main # "none")
  BY DEF SessionIInv, SessionFits
<1>1. ASSUME NEW pressed \in {{}, {"left"}}, Pointer(pressed) PROVE SessionIInv'
  <2> DEFINE held == IF lSess.kind = "vnc" THEN sendInput(lSess.held, pressed) ELSE rdpHandleInput(lSess.held, pressed)
             new == [lSess EXCEPT !.pressed = pressed, !.held = held]
  <2>1. held \in SUBSET {"left"} /\ pressed \in SUBSET {"left"}
    BY <1>0 DEF SessionRow, sendInput, rdpHandleInput
  <2>2. Session(new) /\ lSess.remote = "open"
    BY <1>1 DEF Pointer
  <2> HIDE DEF held
  <2>3. new \in SessionRow /\ new.kind = lSess.kind /\ new.pump = lSess.pump /\ new.main = lSess.main /\ new.back = lSess.back
        /\ new.ws = lSess.ws /\ new.remote = lSess.remote
    BY <1>0, <2>1 DEF SessionRow
  <2> HIDE DEF new
  <2> QED
    BY <1>0, <2>2, <2>3, SameGoroutines DEF SessionFits
<1>2. CASE readServerMessage
  <2>1. ASSUME NEW pipe \in [Pumps -> Nat], NEW main \in {"read", "write"}, NEW sync \in BOOLEAN,
               Session([lSess EXCEPT !.pipe = pipe, !.main = main, !.sync = sync])
        PROVE  SessionIInv'
    <3> DEFINE new == [lSess EXCEPT !.pipe = pipe, !.main = main, !.sync = sync]
    <3>1. new \in SessionRow /\ new.kind = lSess.kind /\ new.pump = lSess.pump /\ new.main = main /\ new.back = lSess.back
      BY <1>0 DEF SessionRow, HandlerStates
    <3>2. Session(new) /\ lSess.main # "none"
      BY <1>2, <2>1 DEF readServerMessage
    <3> HIDE DEF new
    <3> QED
      BY <3>1, <3>2, SameGoroutines
  <2>2. CASE lSess.pipe["stdout"] > 0 /\ Session([lSess EXCEPT !.pipe["stdout"] = @ - 1, !.main = "write"])
    <3> DEFINE pipe == [lSess.pipe EXCEPT !["stdout"] = @ - 1]
    <3>1. pipe \in [Pumps -> Nat] /\ lSess.sync \in BOOLEAN
      BY <1>0, <2>2 DEF SessionRow, Pumps
    <3>2. Session([lSess EXCEPT !.pipe = pipe, !.main = "write", !.sync = lSess.sync])
      BY <1>0, <2>2 DEF SessionRow
    <3> HIDE DEF pipe
    <3> QED
      BY <2>1, <3>1, <3>2
  <2>3. CASE lSess.pipe["stderr"] > 0 /\ Session([lSess EXCEPT !.pipe["stderr"] = @ - 1, !.sync = FALSE])
    <3> DEFINE pipe == [lSess.pipe EXCEPT !["stderr"] = @ - 1]
    <3>1. pipe \in [Pumps -> Nat]
      BY <1>0, <2>3 DEF SessionRow, Pumps
    <3>2. Session([lSess EXCEPT !.pipe = pipe, !.main = "read", !.sync = FALSE])
      BY <1>0, <1>2, <2>3 DEF SessionRow, readServerMessage
    <3> HIDE DEF pipe
    <3> QED
      BY <2>1, <3>1, <3>2
  <2>4. CASE Session(Returned(lSess))
    BY <2>4, <1>0, ReturnedFits, Goes
  <2> QED
    BY <1>2, <2>2, <2>3, <2>4 DEF readServerMessage
<1>3. CASE WriteFramebuffer
  <2> DEFINE new == [lSess EXCEPT !.main = "read", !.asked = TRUE]
  <2>1. (Session(new) \/ Session(Returned(lSess))) /\ lSess.main = "write"
    BY <1>3 DEF WriteFramebuffer
  <2>2. new \in SessionRow /\ new.kind = lSess.kind /\ new.pump = lSess.pump /\ new.main = "read" /\ new.back = lSess.back
    BY <1>0 DEF SessionRow, HandlerStates
  <2> HIDE DEF new
  <2> QED
    BY <1>0, <2>1, <2>2, ReturnedFits, Goes, SameGoroutines
<1>4. CASE Login
  <2>1. ASSUME NEW back \in {"idle", "close"}, NEW remote \in {lSess.remote, "open"}, NEW ws \in {lSess.ws, "closed"},
               Session([lSess EXCEPT !.back = back, !.remote = remote, !.ws = ws])
        PROVE  SessionIInv'
    <3> DEFINE new == [lSess EXCEPT !.back = back, !.remote = remote, !.ws = ws]
    <3>1. new \in SessionRow /\ new.kind = lSess.kind /\ new.pump = lSess.pump /\ new.main = lSess.main /\ new.ws = ws
      BY <1>0 DEF SessionRow
    <3>2. Session(new) /\ lSess.back # "none"
      BY <1>4, <2>1 DEF Login
    <3> HIDE DEF new
    <3> QED
      BY <1>0, <3>1, <3>2, SameGoroutines DEF SessionFits
  <2>2. CASE Session([lSess EXCEPT !.back = "idle", !.remote = "open"])
    <3>1. Session([lSess EXCEPT !.back = "idle", !.remote = "open", !.ws = lSess.ws])
      BY <1>0, <2>2 DEF SessionRow
    <3> QED
      BY <2>1, <3>1
  <2>3. CASE Session([lSess EXCEPT !.back = "close", !.ws = "closed"])
    <3>1. Session([lSess EXCEPT !.back = "close", !.remote = lSess.remote, !.ws = "closed"])
      BY <1>0, <2>3 DEF SessionRow
    <3> QED
      BY <2>1, <3>1
  <2> QED
    BY <1>4, <2>2, <2>3 DEF Login
<1>5. CASE OnBitmap
  <2>1. ASSUME NEW pipe \in [Pumps -> Nat], NEW back \in {"idle", "write", "close"},
               Session([lSess EXCEPT !.pipe = pipe, !.back = back])
        PROVE  SessionIInv'
    <3> DEFINE new == [lSess EXCEPT !.pipe = pipe, !.back = back]
    <3>1. new \in SessionRow /\ new.kind = lSess.kind /\ new.pump = lSess.pump /\ new.main = lSess.main /\ new.ws = lSess.ws
          /\ new.remote = lSess.remote
      BY <1>0 DEF SessionRow
    <3>2. Session(new) /\ lSess.back # "none"
      BY <1>5, <2>1 DEF OnBitmap
    <3> HIDE DEF new
    <3> QED
      BY <1>0, <3>1, <3>2, SameGoroutines DEF SessionFits
  <2>2. CASE lSess.pipe["stdout"] > 0 /\ Session([lSess EXCEPT !.pipe["stdout"] = @ - 1, !.back = "write"])
    <3> DEFINE pipe == [lSess.pipe EXCEPT !["stdout"] = @ - 1]
    <3>1. pipe \in [Pumps -> Nat]
      BY <1>0, <2>2 DEF SessionRow, Pumps
    <3>2. Session([lSess EXCEPT !.pipe = pipe, !.back = "write"])
      BY <2>2
    <3> HIDE DEF pipe
    <3> QED
      BY <2>1, <3>1, <3>2
  <2>3. CASE Session([lSess EXCEPT !.back = IF Cut(lSess) THEN "close" ELSE "idle"])
    <3> DEFINE back == IF Cut(lSess) THEN "close" ELSE "idle"
    <3>1. back \in {"idle", "close"} /\ lSess.pipe \in [Pumps -> Nat]
      BY <1>0 DEF SessionRow
    <3>2. Session([lSess EXCEPT !.back = back])
      BY <2>3
    <3> HIDE DEF back
    <3>3. Session([lSess EXCEPT !.pipe = lSess.pipe, !.back = back])
      BY <1>0, <3>2 DEF SessionRow
    <3> QED
      BY <2>1, <3>1, <3>3
  <2> QED
    BY <1>5, <2>2, <2>3 DEF OnBitmap
<1>6. CASE closeOnce
  <2> DEFINE new == [lSess EXCEPT !.stop = TRUE, !.back = "idle"]
  <2>1. Session(new) /\ (lSess.back = "close" \/ (lSess.kind = "rdp" /\ lSess.remote = "gone"))
    BY <1>6 DEF closeOnce, OnClose
  <2>2. new \in SessionRow /\ new.kind = lSess.kind /\ new.pump = lSess.pump /\ new.main = lSess.main /\ new.ws = lSess.ws
        /\ new.remote = lSess.remote /\ new.back = "idle"
    BY <1>0 DEF SessionRow
  <2> HIDE DEF new
  <2>3. lSess.main # "none" /\ lSess.kind = "rdp"
    BY <1>0, <2>1 DEF SessionFits
  <2>4. SessionFits(new)
    BY <1>0, <2>2, <2>3 DEF SessionFits
  <2> QED
    BY <2>1, <2>2, <2>4, Goes
<1>7. CASE InputLoop
  BY <1>0, <1>7, ReturnedFits, Goes DEF InputLoop
<1> QED
  BY <1>1, <1>2, <1>3, <1>4, <1>5, <1>6, <1>7

LEMMA OutsideKeeps ==
  ASSUME SessionIInv, (\E u \in Pumps : HostWrites(u)) \/ HostEnds \/ Browser
  PROVE  SessionIInv'
<1>0. lSess \in SessionRow /\ SessionFits(lSess) /\ (lSess.remote # "none" => lSess.main # "none")
  BY DEF SessionIInv, SessionFits
<1>1. ASSUME NEW u \in Pumps, HostWrites(u) PROVE SessionIInv'
  <2> DEFINE pipe == [lSess.pipe EXCEPT ![u] = @ + 1]
             sent == lSess.sent + 1
             new == [lSess EXCEPT !.pipe = pipe, !.sent = sent, !.asked = FALSE]
  <2>1. pipe \in [Pumps -> Nat] /\ sent \in Nat
    BY <1>0 DEF SessionRow
  <2>2. Session(new) /\ lSess.remote = "open"
    BY <1>1 DEF HostWrites
  <2> HIDE DEF pipe, sent
  <2>3. new \in SessionRow /\ new.kind = lSess.kind /\ new.pump = lSess.pump /\ new.main = lSess.main /\ new.back = lSess.back
        /\ new.ws = lSess.ws /\ new.remote = lSess.remote
    BY <1>0, <2>1 DEF SessionRow
  <2> HIDE DEF new
  <2> QED
    BY <1>0, <2>2, <2>3, SameGoroutines DEF SessionFits
<1>2. CASE HostEnds
  <2> DEFINE new == [lSess EXCEPT !.remote = "gone"]
  <2>1. Session(new) /\ lSess.main # "none"
    BY <1>0, <1>2 DEF HostEnds
  <2>2. new \in SessionRow /\ new.kind = lSess.kind /\ new.pump = lSess.pump /\ new.main = lSess.main /\ new.back = lSess.back
        /\ new.ws = lSess.ws /\ new.remote = "gone"
    BY <1>0 DEF SessionRow
  <2> HIDE DEF new
  <2> QED
    BY <1>0, <2>1, <2>2, SameGoroutines DEF SessionFits
<1>3. CASE Browser
  <2>1. PICK ws \in {"open", "stalled", "closed"} : Session([lSess EXCEPT !.ws = ws]) /\ lSess.ws # "closed" /\ lSess.main # "none"
    BY <1>3 DEF Browser
  <2> DEFINE new == [lSess EXCEPT !.ws = ws]
  <2>2. new \in SessionRow /\ new.kind = lSess.kind /\ new.pump = lSess.pump /\ new.main = lSess.main /\ new.back = lSess.back
        /\ new.remote = lSess.remote
    BY <1>0 DEF SessionRow
  <2> HIDE DEF new
  <2>3. lSess.main # "returned"
    BY <1>0, <2>1 DEF SessionFits
  <2> QED
    BY <2>1, <2>2, <2>3, SameGoroutines DEF new
<1> QED
  BY <1>1, <1>2, <1>3

LEMMA SessionKeeps == ASSUME SessionIInv, SessionNext PROVE SessionIInv'
<1>1. CASE NewRBAC
  BY <1>1, NewRBACKeepsSession
<1>2. CASE ServerSide
  BY <1>2, HandlerKeeps, TerminalKeeps, DesktopKeeps, Zenon DEF ServerSide
<1>3. CASE (\E s \in LServers, kind \in SessionKinds : handleWS(s, kind)) \/ \E pressed \in {{}, {"left"}} : Pointer(pressed)
  BY <1>3, HandlerKeeps, DesktopKeeps, Zenon
<1>4. CASE (\E u \in Pumps : HostWrites(u)) \/ HostEnds \/ Browser
  BY <1>4, OutsideKeeps
<1> QED
  BY <1>1, <1>2, <1>3, <1>4 DEF SessionNext

LEMMA SessionStays == ASSUME SessionIInv, lSess' = lSess PROVE SessionIInv'
BY DEF SessionIInv, SessionFits
-----------------------------------------------------------------------------
(* Outside databases *)

LEMMA RowsKeep ==
  ASSUME ConnectionIInv, lConns' \subseteq lConns, lLastId' = lLastId,
         lPools' \in [LServers -> SUBSET ConnectionRow],
         \A s \in LServers : \A c \in lPools'[s] : c \in lPools[s] \/ c \in lConns
  PROVE  ConnectionIInv'
<1>1. lConns' \subseteq ConnectionRow /\ lLastId' \in Nat
  BY DEF ConnectionIInv
<1>2. \A c \in lConns' : c.id <= lLastId' /\ \A d \in lConns' : c.id = d.id => c = d
  BY DEF ConnectionIInv
<1>3. \A s \in LServers : \A c \in lPools'[s] : c.id <= lLastId' /\ \A d \in lConns' : c.id = d.id => c = d
  BY DEF ConnectionIInv
<1> QED
  BY <1>1, <1>2, <1>3 DEF ConnectionIInv

LEMMA NewRBACKeepsConnections == ASSUME ConnectionIInv, NewRBAC PROVE ConnectionIInv'
<1>1. ASSUME NEW s \in LServers, Restart(s) PROVE ConnectionIInv'
  <2>1. lPools' \in [LServers -> SUBSET ConnectionRow] /\ \A q \in LServers : \A c \in lPools'[q] : c \in lPools[q]
    BY <1>1 DEF Restart, ConnectionIInv
  <2> QED
    BY <1>1, <2>1, RowsKeep DEF Restart
<1>2. ASSUME NEW s \in LServers, LoadPolicy(s) \/ ensureDefaults(s) \/ NewRBACFails(s) PROVE ConnectionIInv'
  BY <1>2 DEF LoadPolicy, ensureDefaults, NewRBACFails, dbVars, ConnectionIInv
<1> QED
  BY <1>1, <1>2 DEF NewRBAC

LEMMA DBCreateKeeps ==
  ASSUME ConnectionIInv, NEW s \in LServers, NEW dsn \in DSNs, handleDBCreate(s, dsn) PROVE ConnectionIInv'
<1> DEFINE row == [id |-> NextId, dsn |-> dsn]
<1>1. row \in ConnectionRow /\ row.id = lLastId + 1 /\ lLastId \in Nat
  BY DEF ConnectionIInv, NextId, ConnectionRow
<1>2. lConns' = lConns \cup {row} /\ lLastId' = lLastId + 1 /\ lPools' = lPools
  BY DEF handleDBCreate
<1> HIDE DEF row
<1>3. (\A c \in lConns : c.id \in Nat) /\ \A q \in LServers : \A c \in lPools[q] : c.id \in Nat
  BY DEF ConnectionIInv, ConnectionRow
<1>4. \A c \in lConns' : c.id <= lLastId' /\ \A d \in lConns' : c.id = d.id => c = d
  <2> SUFFICES ASSUME NEW c \in lConns', NEW d \in lConns' PROVE c.id <= lLastId' /\ (c.id = d.id => c = d)
    OBVIOUS
  <2>1. (c \in lConns => c.id <= lLastId /\ c.id \in Nat) /\ (d \in lConns => d.id <= lLastId /\ d.id \in Nat)
    BY <1>3 DEF ConnectionIInv
  <2>2. c \in lConns /\ d \in lConns => (c.id = d.id => c = d)
    BY DEF ConnectionIInv
  <2> QED
    BY <2>1, <2>2, <1>1, <1>2
<1>5. \A q \in LServers : \A c \in lPools'[q] : c.id <= lLastId' /\ \A d \in lConns' : c.id = d.id => c = d
  <2> SUFFICES ASSUME NEW q \in LServers, NEW c \in lPools[q], NEW d \in lConns'
               PROVE  c.id <= lLastId' /\ (c.id = d.id => c = d)
    BY <1>1, <1>2 DEF ConnectionIInv
  <2>1. c.id \in Nat /\ c.id <= lLastId /\ (d \in lConns => (c.id = d.id => c = d))
    BY <1>3 DEF ConnectionIInv
  <2> QED
    BY <2>1, <1>1, <1>2
<1>6. lConns' \subseteq ConnectionRow /\ lLastId' \in Nat /\ lPools' \in [LServers -> SUBSET ConnectionRow]
  BY <1>1, <1>2 DEF ConnectionIInv
<1> QED
  BY <1>4, <1>5, <1>6 DEF ConnectionIInv

LEMMA DBQueryKeeps ==
  ASSUME ConnectionIInv, NEW s \in LServers, NEW id, handleDBQuery(s, id) PROVE ConnectionIInv'
<1>1. PICK row \in lConns : lPools' = [lPools EXCEPT ![s] = @ \cup {row}] /\ UNCHANGED << lConns, lLastId >>
  BY DEF handleDBQuery
<1>2. lPools' \in [LServers -> SUBSET ConnectionRow] /\ \A q \in LServers : \A c \in lPools'[q] : c \in lPools[q] \/ c \in lConns
  BY <1>1 DEF ConnectionIInv
<1> QED
  BY <1>1, <1>2, RowsKeep

LEMMA ConnectionsKeep == ASSUME ConnectionIInv, WebDbNext PROVE ConnectionIInv'
<1>1. CASE NewRBAC
  BY <1>1, NewRBACKeepsConnections
<1>2. ASSUME NEW s \in LServers, NEW row, handleDBDelete(s, row) PROVE ConnectionIInv'
  BY <1>2, RowsKeep DEF handleDBDelete, ConnectionIInv
<1> QED
  BY <1>1, <1>2, DBCreateKeeps, DBQueryKeeps, Zenon DEF WebDbNext

LEMMA ConnectionsStay == ASSUME ConnectionIInv, UNCHANGED dbVars PROVE ConnectionIInv'
BY DEF ConnectionIInv, dbVars
-----------------------------------------------------------------------------
(* The parts of remote management share nothing but the start of a server. *)

LEMMA PolicyNextIsAlone == ASSUME PolicyNext, ~NewRBAC PROVE lSess' = lSess /\ UNCHANGED dbVars
BY DEF PolicyNext, handlePolicyAdd, handlePolicyRemove, AddPolicy, KeepPolicy, RemovePolicy, ForgetPolicy, PolicyFails

LEMMA SessionNextIsAlone == ASSUME SessionNext, ~NewRBAC PROVE UNCHANGED policyVars /\ UNCHANGED dbVars
<1>1. (\E new : Session(new)) => UNCHANGED policyVars /\ UNCHANGED dbVars
  BY DEF Session
<1>2. ASSUME ServerSide PROVE \E new : Session(new)
  <2>1. ASSUME NEW roles, Greeting(roles) PROVE \E new : Session(new)
    BY <2>1, Zenon DEF Greeting
  <2>2. ASSUME NEW u, PumpReads(u) \/ PumpWrites(u) PROVE \E new : Session(new)
    BY <2>2, Zenon DEF PumpReads, PumpWrites
  <2>3. ASSUME GreetingTimesOut \/ Dial \/ vncHandshake \/ Ready \/ ForwardInput \/ Wait PROVE \E new : Session(new)
    BY <2>3, Zenon DEF GreetingTimesOut, Dial, vncHandshake, Ready, ForwardInput, Wait
  <2>4. ASSUME readServerMessage \/ WriteFramebuffer \/ Login \/ OnBitmap \/ closeOnce \/ InputLoop PROVE \E new : Session(new)
    BY <2>4, Zenon DEF readServerMessage, WriteFramebuffer, Login, OnBitmap, closeOnce, InputLoop
  <2> QED
    BY <1>2, <2>1, <2>2, <2>3, <2>4, Zenon DEF ServerSide
<1>3. ASSUME NEW s, NEW kind, handleWS(s, kind) PROVE \E new : Session(new)
  BY <1>3, Zenon DEF handleWS
<1>4. ASSUME NEW pressed, Pointer(pressed) PROVE \E new : Session(new)
  BY <1>4, Zenon DEF Pointer
<1>5. ASSUME NEW u, HostWrites(u) PROVE \E new : Session(new)
  BY <1>5, Zenon DEF HostWrites
<1>6. ASSUME HostEnds \/ Browser PROVE \E new : Session(new)
  BY <1>6, Zenon DEF HostEnds, Browser
<1> QED
  BY <1>1, <1>2, <1>3, <1>4, <1>5, <1>6, Zenon DEF SessionNext

LEMMA WebDbNextIsAlone == ASSUME WebDbNext, ~NewRBAC PROVE UNCHANGED policyVars /\ lSess' = lSess
BY DEF WebDbNext, handleDBCreate, handleDBDelete, handleDBQuery

LEMMA LiaisonKeeps == ASSUME LiaisonIInv, PolicyNext \/ SessionNext \/ WebDbNext PROVE LiaisonIInv'
<1>1. CASE NewRBAC
  BY <1>1, NewRBACKeepsPolicies, NewRBACKeepsSession, NewRBACKeepsConnections DEF LiaisonIInv
<1>2. CASE PolicyNext /\ ~NewRBAC
  BY <1>2, PoliciesKeep, PolicyNextIsAlone, SessionStays, ConnectionsStay DEF LiaisonIInv
<1>3. CASE SessionNext /\ ~NewRBAC
  BY <1>3, PoliciesStay, SessionNextIsAlone, SessionKeeps, ConnectionsStay DEF LiaisonIInv
<1>4. CASE WebDbNext /\ ~NewRBAC
  BY <1>4, PoliciesStay, WebDbNextIsAlone, SessionStays, ConnectionsKeep DEF LiaisonIInv
<1> QED
  BY <1>1, <1>2, <1>3, <1>4

LEMMA LiaisonStays == ASSUME LiaisonIInv, UNCHANGED lVars PROVE LiaisonIInv'
<1>1. UNCHANGED policyVars /\ lSess' = lSess /\ UNCHANGED dbVars
  BY DEF lVars, policyVars, dbVars
<1> QED
  BY <1>1, PoliciesStay, SessionStays, ConnectionsStay DEF LiaisonIInv

LEMMA LiaisonSound == ASSUME LiaisonIInv PROVE LiaisonInv
<1>0. lSess \in SessionRow /\ SessionFits(lSess) /\ PolicyIInv /\ ConnectionIInv
  BY DEF LiaisonIInv, SessionIInv
<1>1. GivenPoliciesHold
  <2> SUFFICES ASSUME NEW g \in lGiven
               PROVE  lRows[g[2]] > 0 /\ (lBoot[g[1]] = "up" => \A right \in PolicyRights[g[2]] : Allow(g[1], PolicyRole[g[2]], right))
    BY DEF GivenPoliciesHold
  <2>1. PICK s \in LServers, p \in Policies : g = << s, p >>
    BY <1>0 DEF PolicyIInv, PolicyTypes
  <2>2. GivenFits(s, p)
    BY <1>0, <2>1 DEF PolicyIInv
  <2>3. lBoot[s] = "up" => \A right \in PolicyRights[p] : Allow(s, PolicyRole[p], right)
    BY <2>2 DEF GivenFits, Allow
  <2>4. lRows[p] > 0
    BY <2>2 DEF GivenFits
  <2> QED
    BY <2>1, <2>3, <2>4
<1>2. HostEndsSession
  <2> SUFFICES ASSUME lSess.remote = "gone", lSess.ws # "stalled", ~Busy(lSess) PROVE lSess.main = "returned"
    BY DEF HostEndsSession
  <2>1. WriteReturns(lSess)
    BY <1>0 DEF SessionRow, WriteReturns, Cut
  <2>2. lSess.main \notin {"greet", "dial", "handshake", "ready", "wait", "read", "write"}
    BY <2>1 DEF Busy
  <2>3. lSess.main # "none"
    BY <1>0 DEF SessionFits
  <2>4. lSess.main # "input"
    <3> SUFFICES ASSUME lSess.main = "input" PROVE FALSE
      OBVIOUS
    <3>1. lSess.kind = "rdp" /\ ~lSess.stop /\ lSess.back # "write"
      BY <1>0, <2>1 DEF SessionFits, Busy, Cut
    <3> QED
      BY <3>1 DEF Busy, OnClose
  <2> QED
    BY <1>0, <2>2, <2>3, <2>4 DEF SessionRow, HandlerStates
<1>3. NothingLeftBehind
  <2> SUFFICES ASSUME lSess.main = "returned", ~Busy(lSess)
               PROVE  /\ lSess.inp # "read" /\ \A u \in Pumps : lSess.pump[u] \in {"none", "done"}
                      /\ lSess.back \in {"none", "idle"} /\ (lSess.kind # "rdp" => lSess.remote # "open")
    BY DEF NothingLeftBehind
  <2>1. lSess.ws = "closed" /\ (lSess.kind # "rdp" => lSess.remote # "open")
    BY <1>0 DEF SessionFits
  <2>2. Cut(lSess) /\ WriteReturns(lSess)
    BY <2>1 DEF Cut, WriteReturns
  <2>3. lSess.inp # "read" /\ lSess.back \in {"none", "idle"}
    BY <1>0, <2>2 DEF Busy, SessionRow
  <2>4. ASSUME NEW u \in Pumps PROVE lSess.pump[u] \in {"none", "done"}
    <3>1. lSess.pump[u] \in {"none", "read", "write", "done"} /\ lSess.pump[u] # "write"
      BY <1>0, <2>2 DEF SessionRow, Busy
    <3>2. lSess.pump[u] # "read"
      BY <1>0, <2>1 DEF SessionFits, Busy
    <3> QED
      BY <3>1, <3>2
  <2> QED
    BY <2>1, <2>3, <2>4
<1>4. QueriesReachTheirRow
  BY <1>0 DEF QueriesReachTheirRow, ConnectionIInv
<1> QED
  BY <1>1, <1>2, <1>3, <1>4 DEF LiaisonInv
-----------------------------------------------------------------------------
\* Of those who change a password at once one succeeds, its session is good and
\* the older ones end with the next lookup; a user holds no more access tokens
\* than allowed; a tool that waits runs once, for its owner or a superadmin, and
\* one of MCP with the headers of its message, within the limit of requests; a
\* policy that was given holds, sessions end with their host and leave nothing
\* behind, and a query reaches its row (ChangePassword, aitoken.Service.Create,
\* AIExecuteAction, ServeHTTP, AddPolicy, handleWS and dbRegistry.get).
THEOREM SignInIsSound == ServicesSpec => []SignInInv
<1> DEFINE SignInIInv == AccountsIInv /\ TokensIInv /\ AssistantIInv /\ LiaisonIInv
<1>1. ServicesInit => SignInIInv
  BY AccountsFromTheStart, TokensFromTheStart, AssistantFromTheStart, LiaisonFromTheStart DEF ServicesInit
<1>2. SignInIInv /\ [ServicesNext]_servicesVars => SignInIInv'
  <2> SUFFICES ASSUME SignInIInv, [ServicesNext]_servicesVars PROVE SignInIInv'
    OBVIOUS
  <2>1. (AccountsNext \/ UNCHANGED uVars) /\ (TokensNext \/ UNCHANGED tVars)
    BY DEF ServicesNext, servicesVars
  <2>2. AssistantNext \/ McpNext \/ UNCHANGED kVars
    BY DEF ServicesNext, servicesVars
  <2>3. PolicyNext \/ SessionNext \/ WebDbNext \/ UNCHANGED lVars
    BY DEF ServicesNext, servicesVars
  <2>4. AccountsIInv' /\ TokensIInv'
    BY <2>1, AccountsKeep, AccountsStay, TokensKeep, TokensStay
  <2>5. AssistantIInv'
    BY <2>2, AssistantKeeps, AssistantStays DEF AiNext
  <2>6. LiaisonIInv'
    BY <2>3, LiaisonKeeps, LiaisonStays
  <2> QED
    BY <2>4, <2>5, <2>6
<1>3. SignInIInv => SignInInv
  BY AccountsSound, TokensSound, AssistantSound, LiaisonSound DEF SignInInv
<1> QED
  BY <1>1, <1>2, <1>3, PTL DEF ServicesSpec
=============================================================================
