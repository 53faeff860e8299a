---------------------------- MODULE ResponseCache ----------------------------
(***************************************************************************)
(* Lists kept in Redis for a while: a read that misses asks the database   *)
(* and stores the answer later, a write that succeeded clears all lists    *)
(* after its commit, page by page, and the settings page replaces the      *)
(* connection under both.  Each takes the connection of its replica when   *)
(* it begins.  The data is the number of writes that are committed.        *)
(***************************************************************************)
EXTENDS Integers, FiniteSets

CONSTANTS
  WebReplicas,
  Lists,          \* cached lists
  Readers, Writers,
  Databases,      \* how many databases the Redis server has
  CacheOptions,   \* mode and database in the settings
  MaxWrites, MaxReloads   \* bounds

ASSUME ResponseCacheAssumption ==
  /\ Databases \in Nat \ {0} /\ MaxWrites \in Nat /\ MaxReloads \in Nat
  /\ \A o \in CacheOptions : o.mode \in {"single", "cluster", "sentinel"} /\ o.db \in Nat

DBs == 0..Databases - 1
Disabled == -1
NoEntryYet == [data |-> -1, crossed |-> FALSE]
AtRest == [pc |-> "idle", at |-> "", gen |-> 0, db |-> Disabled, list |-> "", data |-> 0, seen |-> 0,
           left |-> {}]

VARIABLES
  hData,      \* committed writes
  hConn,      \* the connection of each replica: its number and database
  hStore,     \* what each database holds of each list
  hDone,      \* history: the last write after which a list was cleared there
  hRead,      \* readers
  hWrite,     \* writers
  hReloads    \* bound

hVars == << hData, hConn, hStore, hDone, hRead, hWrite, hReloads >>

CacheInit ==
  /\ hData = 0 /\ hConn = [r \in WebReplicas |-> [gen |-> 0, db |-> 0]]
  /\ hStore = [d \in DBs |-> [l \in Lists |-> NoEntryYet]]
  /\ hDone = [d \in DBs |-> [l \in Lists |-> 0]]
  /\ hRead = [p \in Readers |-> AtRest] /\ hWrite = [w \in Writers |-> AtRest]
  /\ hReloads = 0

\* A request holds on to the connection it began with; is it still open?
Held(p, r) == [p EXCEPT !.at = r, !.gen = hConn[r].gen, !.db = hConn[r].db]
Enabled(p) == p.db # Disabled /\ p.gen = hConn[p.at].gen
-----------------------------------------------------------------------------
(* Connections *)

\* What the server says of its databases, if it is asked and answers.
Known(o) == IF o.mode = "cluster" THEN {1} ELSE {Databases, 0}

\* A cluster has one database; of another server the last one is taken if
\* there are fewer; if it does not say, and refuses, it is asked again and
\* else the first is taken.
Fallback(o, known) ==
  IF o.mode = "cluster" THEN 0
  ELSE IF known > 0 /\ o.db >= known THEN known - 1 ELSE o.db

NewDB(o, known, again) ==
  LET first == Fallback(o, known) IN
  IF first \in DBs THEN first ELSE IF again > 0 THEN again - 1 ELSE 0

\* ReloadCache: a new connection, or none; the old one is closed.
ReloadCache(r, o) ==
  /\ hReloads < MaxReloads /\ hReloads' = hReloads + 1
  /\ \E known, again \in Known(o), up \in BOOLEAN :
       hConn' = [hConn EXCEPT ![r] = [gen |-> @.gen + 1,
                                      db |-> IF up THEN NewDB(o, known, again) ELSE Disabled]]
  /\ UNCHANGED << hData, hStore, hDone, hRead, hWrite >>
-----------------------------------------------------------------------------
(* Reads *)

\* A hit is answered at once.
Miss(p, r, l) ==
  /\ hRead[p].pc = "idle" /\ hConn[r].db # Disabled
  /\ hStore[hConn[r].db][l] = NoEntryYet
  /\ hRead' = [hRead EXCEPT ![p] = [Held(AtRest, r) EXCEPT !.pc = "miss", !.list = l]]
  /\ UNCHANGED << hData, hConn, hStore, hDone, hWrite, hReloads >>

\* The handler asks the database.
AskDatabase(p) ==
  LET q == hRead[p] IN
  /\ q.pc = "miss"
  /\ hRead' = [hRead EXCEPT ![p] = [q EXCEPT !.pc = "answer", !.data = hData,
                                    !.seen = hDone[q.db][q.list]]]
  /\ UNCHANGED << hData, hConn, hStore, hDone, hWrite, hReloads >>

\* SetJSON, unless the connection was replaced or the answer is not to be kept.
SetJSON(p) ==
  LET q == hRead[p] IN
  /\ q.pc = "answer" /\ Enabled(q)
  /\ hStore' = [hStore EXCEPT ![q.db][q.list] =
                  [data |-> q.data, crossed |-> hDone[q.db][q.list] # q.seen]]
  /\ hRead' = [hRead EXCEPT ![p] = AtRest]
  /\ UNCHANGED << hData, hConn, hDone, hWrite, hReloads >>

NotKept(p) ==
  /\ hRead[p].pc = "answer" /\ hRead' = [hRead EXCEPT ![p] = AtRest]
  /\ UNCHANGED << hData, hConn, hStore, hDone, hWrite, hReloads >>

\* The time to live is over.
EntryExpires(d, l) ==
  /\ hStore[d][l] # NoEntryYet /\ hStore' = [hStore EXCEPT ![d][l] = NoEntryYet]
  /\ UNCHANGED << hData, hConn, hDone, hRead, hWrite, hReloads >>
-----------------------------------------------------------------------------
(* Writes *)

WriteBegins(w, r) ==
  /\ hWrite[w].pc = "idle"
  /\ hWrite' = [hWrite EXCEPT ![w] = [Held(AtRest, r) EXCEPT !.pc = "handler"]]
  /\ UNCHANGED << hData, hConn, hStore, hDone, hRead, hReloads >>

\* The handler commits and answers with success; the lists are cleared next.
Commit(w) ==
  /\ hWrite[w].pc = "handler" /\ hData < MaxWrites
  /\ hData' = hData + 1
  /\ hWrite' = [hWrite EXCEPT ![w].pc = "clear", ![w].data = hData + 1, ![w].left = Lists]
  /\ UNCHANGED << hConn, hStore, hDone, hRead, hReloads >>

\* DelPrefix: found by SCAN, then deleted; not over a connection that was
\* replaced.
DelPrefix(w, l) ==
  LET q == hWrite[w] IN
  /\ q.pc = "clear" /\ Enabled(q) /\ l \in q.left
  /\ hStore' = [hStore EXCEPT ![q.db][l] = NoEntryYet]
  /\ hDone' = [hDone EXCEPT ![q.db][l] = IF @ > q.data THEN @ ELSE q.data]
  /\ hWrite' = [hWrite EXCEPT ![w].left = @ \ {l}]
  /\ UNCHANGED << hData, hConn, hRead, hReloads >>

\* Cleared; or the write failed and nothing is; or Redis failed on the way.
WriteEnds(w) ==
  /\ hWrite[w].pc # "idle" /\ hWrite' = [hWrite EXCEPT ![w] = AtRest]
  /\ UNCHANGED << hData, hConn, hStore, hDone, hRead, hReloads >>

CacheNext ==
  \/ \E r \in WebReplicas :
       \/ \E o \in CacheOptions : ReloadCache(r, o)
       \/ \E p \in Readers, l \in Lists : Miss(p, r, l)
       \/ \E w \in Writers : WriteBegins(w, r)
  \/ \E p \in Readers : AskDatabase(p) \/ SetJSON(p) \/ NotKept(p)
  \/ \E d \in DBs, l \in Lists : EntryExpires(d, l)
  \/ \E w \in Writers : Commit(w) \/ (\E l \in Lists : DelPrefix(w, l)) \/ WriteEnds(w)
-----------------------------------------------------------------------------
(* Properties *)

CacheTypeOK ==
  /\ hData \in 0..MaxWrites
  /\ \A r \in WebReplicas : hConn[r].db \in DBs \cup {Disabled}

\* A list older than a write whose clearing has come to it was read before
\* that clearing and stored after it; there is no other way to keep one.
StaleOnlyByCrossing ==
  \A d \in DBs, l \in Lists :
    LET e == hStore[d][l] IN e # NoEntryYet => e.crossed \/ e.data >= hDone[d][l]

\* The answer under way is as new as what was cleared before it was asked for.
AnswersAreNew ==
  \A p \in Readers : hRead[p].pc = "answer" => hRead[p].data >= hRead[p].seen

\* Cached lists follow writes, and connections use a database that the server
\* has (Cache, DelPrefix, New).
CacheInv == CacheTypeOK /\ StaleOnlyByCrossing /\ AnswersAreNew

\* Deliberately not checked, the code does not keep it: a cleared list is never
\* older than the write it was cleared for.
VisibleAtOnce ==
  \A d \in DBs, l \in Lists : hStore[d][l] # NoEntryYet => hStore[d][l].data >= hDone[d][l]
=============================================================================
