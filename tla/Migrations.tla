------------------------------ MODULE Migrations ------------------------------
(***************************************************************************)
(* Replicas of the server that start at the same time and migrate one      *)
(* database, each with the scripts of its own release.  Opening the store  *)
(* migrates the tables of the overlay: it reads what is recorded and       *)
(* applies the rest, without a lock.  Then the replica waits for the       *)
(* advisory lock, reads the highest version of the other tables and        *)
(* applies what is above it.  A script and its record are one transaction. *)
(* SQLite has no such lock; its lock functions return at once.             *)
(***************************************************************************)
EXTENDS Naturals, FiniteSets, FiniteSetsExt

CONSTANTS
  Starters,        \* replicas that start
  StoreScripts,    \* versions of the overlay tables, the same in each release
  Release,         \* versions of the other tables each replica has scripts for
  MaxStarts,       \* bound: starts of the replicas together
  MaxAborts        \* bound: stops and failures of the database in a migration

Tables == {"store", "schema"}
Scripts(s, t) == IF t = "store" THEN StoreScripts ELSE Release[s]
AllScripts(t) == UNION {Scripts(s, t) : s \in Starters}

\* A release keeps the scripts of the one before and adds scripts above them.
ASSUME MigrationsAssumption ==
  /\ StoreScripts \subseteq Nat \ {0} /\ \A s \in Starters : Release[s] \subseteq Nat \ {0}
  /\ \A s, o \in Starters : \A w \in Release[s], v \in Release[o] : v < w => v \in Release[s]
  /\ MaxStarts \in Nat /\ MaxAborts \in Nat /\ "nobody" \notin Starters

VARIABLES
  gDialect,    \* "postgres" or "sqlite"
  gDone,       \* how many times each script has taken effect
  gRecorded,   \* iflygo_migrations and schema_migrations
  gLock,       \* who holds the lock of the migrations, or "nobody"
  gProc,       \* each replica: its step, and the versions it still means to apply
  gRefused,    \* history: tables whose migration failed at another's record
  gStarts, gAborts   \* bounds

gVars == << gDialect, gDone, gRecorded, gLock, gProc, gRefused, gStarts, gAborts >>

NotStarted == [pc |-> "down", todo |-> {}]

MigrationsInit ==
  /\ gDialect \in {"postgres", "sqlite"}
  /\ gDone = [t \in Tables |-> [v \in AllScripts(t) |-> 0]]
  /\ gRecorded = [t \in Tables |-> {}]
  /\ gLock = "nobody"
  /\ gProc = [s \in Starters |-> NotStarted]
  /\ gRefused = {}
  /\ gStarts = 0
  /\ gAborts = 0
-----------------------------------------------------------------------------
\* The step that applies scripts of a table, and the one after it.
AtStep(s, t) == gProc[s].pc = t
After(t) == IF t = "store" THEN "lock" ELSE "unlock"

\* store.migrate passes over what is recorded, and locks nothing.
OpenStore(s) ==
  /\ AtStep(s, "down") /\ gStarts < MaxStarts
  /\ gStarts' = gStarts + 1
  /\ gProc' = [gProc EXCEPT ![s] = [pc |-> "store", todo |-> StoreScripts \ gRecorded["store"]]]
  /\ UNCHANGED << gDialect, gDone, gRecorded, gLock, gRefused, gAborts >>

\* Waits for nobody.
LockFreeMutant(s) == TRUE

\* pg_advisory_lock waits for whoever has the lock.
LockFree(s) == gDialect = "postgres" => gLock = "nobody"

\* Up: only a replica that has the lock reads the highest version.
Up(s) ==
  /\ AtStep(s, "lock") /\ LockFree(s)
  /\ gLock' = IF gDialect = "postgres" THEN s ELSE gLock
  /\ gProc' = [gProc EXCEPT ![s] = [pc |-> "schema",
                 todo |-> {v \in Release[s] : v > Max(gRecorded["schema"] \cup {0})}]]
  /\ UNCHANGED << gDialect, gDone, gRecorded, gRefused, gStarts, gAborts >>

LetGo(s) == gLock' = IF gLock = s THEN "nobody" ELSE gLock

\* The next script and its record.  A version that is recorded by now is
\* refused by the key of the table, its script is undone, and the replica exits.
applyMigration(s, t) ==
  /\ AtStep(s, t) /\ gProc[s].todo # {}
  /\ LET v == Min(gProc[s].todo)
     IN  IF v \in gRecorded[t]
         THEN /\ gRefused' = gRefused \cup {t}
              /\ gProc' = [gProc EXCEPT ![s] = NotStarted]
              /\ LetGo(s)
              /\ UNCHANGED << gDone, gRecorded >>
         ELSE /\ gDone' = [gDone EXCEPT ![t][v] = @ + 1]
              /\ gRecorded' = [gRecorded EXCEPT ![t] = @ \cup {v}]
              /\ gProc' = [gProc EXCEPT ![s].todo = @ \ {v}]
              /\ UNCHANGED << gRefused, gLock >>
  /\ UNCHANGED << gDialect, gStarts, gAborts >>

NothingLeft(s, t) ==
  /\ AtStep(s, t) /\ gProc[s].todo = {}
  /\ gProc' = [gProc EXCEPT ![s].pc = After(t)]
  /\ UNCHANGED << gDialect, gDone, gRecorded, gLock, gRefused, gStarts, gAborts >>

Unlock(s) ==
  /\ AtStep(s, "unlock")
  /\ gProc' = [gProc EXCEPT ![s].pc = "serving"]
  /\ LetGo(s)
  /\ UNCHANGED << gDialect, gDone, gRecorded, gRefused, gStarts, gAborts >>

\* The replica stops, or a statement fails and it exits; the transaction is
\* undone, and the lock goes with the session.
Aborts(s) ==
  /\ gProc[s].pc \in {"store", "lock", "schema", "unlock"} /\ gAborts < MaxAborts
  /\ gAborts' = gAborts + 1
  /\ gProc' = [gProc EXCEPT ![s] = NotStarted]
  /\ LetGo(s)
  /\ UNCHANGED << gDialect, gDone, gRecorded, gRefused, gStarts >>

MigrationsNext ==
  \E s \in Starters : \/ OpenStore(s) \/ Up(s) \/ Unlock(s) \/ Aborts(s)
                      \/ \E t \in Tables : applyMigration(s, t) \/ NothingLeft(s, t)
-----------------------------------------------------------------------------
(* Properties *)

\* Replicas that start together never fail over schema_migrations in each
\* other's way; a replica that serves has all of its scripts in the database,
\* whoever applied them and wherever anyone stopped; each took effect once, in
\* the order of the versions.
MigrationsInv ==
  /\ gDialect = "postgres" => "schema" \notin gRefused
  /\ \A t \in Tables, s \in Starters :
       gProc[s].pc = "serving" => \A v \in Scripts(s, t) : gDone[t][v] = 1
  /\ \A t \in Tables : \A v, w \in AllScripts(t) : v < w /\ gDone[t][w] > 0 => gDone[t][v] = 1

\* Not kept by the code: nor over iflygo_migrations.
StartsNeverCollide == gDialect = "postgres" => gRefused = {}
=============================================================================
