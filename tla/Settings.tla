------------------------------- MODULE Settings -------------------------------
(***************************************************************************)
(* A setting saved on the page, on several replicas: its row in            *)
(* app_settings, the configuration each replica has in memory, what was    *)
(* built from it, and the watchers that bring what other replicas saved.   *)
(* A save writes the table and the memory under the service's mutex; a     *)
(* watcher reads the table first and takes the mutex later.                *)
(*                                                                         *)
(* A history is about one key, of four that differ: ai, whose watcher      *)
(* compares with the memory; artifact, whose watcher compares with what it *)
(* read last; consul, which nobody watches; and the session secret, which  *)
(* no page shows and each replica reads or writes when it starts, if its   *)
(* configuration has none of 16 bytes or more.  artifact and consul have   *)
(* something built from them: the limiter and the client.  The keys of one *)
(* save change in one transaction, so each is as if it were saved alone.   *)
(***************************************************************************)
EXTENDS Integers, Sequences, FiniteSets

CONSTANTS
  SetReplicas,
  SetValues,      \* values saved on the page
  FileValue,      \* the value in the configuration file
  MaxSaves,       \* bound: saves and resets
  MaxBoots        \* bound: starts of replicas after the first

NoValue == ""     \* no row, no secret, nothing seen
OwnRandom == "random"   \* a secret of one process, another one in each

ASSUME SettingsAssumption ==
  /\ FileValue \notin SetValues \cup {NoValue} /\ NoValue \notin SetValues \cup SetReplicas
  /\ OwnRandom \notin SetReplicas
  /\ MaxSaves \in Nat /\ MaxBoots \in Nat

Keys == {"ai", "artifact", "consul", "secret"}
NoRead == [has |-> FALSE, value |-> NoValue, new |-> FALSE]

VARIABLES
  sKey,       \* the key this history is about
  sDb,        \* its row in app_settings; "" without a row
  sMem,       \* its value in the memory of each replica
  sPage,      \* pageKeys: replicas that take the key for saved
  sUse,       \* the values that limiter or client were built from
  sDue,       \* reloads that a handler or watcher is about to begin
  sSnap,      \* reloads under way: the snapshots they took, in order
  sRead,      \* what a watcher has read and not applied; new if nothing was saved since
  sLast,      \* the artifact watcher's fingerprint
  sFresh,     \* history: replicas whose watcher has read and applied the last save
  sLocal,     \* history: replicas that saved the key since their watcher last noticed a change
  sSecret,    \* server.session_secret of the table, "" without one of 16 bytes
  sOwn,       \* of each replica: what it signs sessions with, "" while it starts
  sWord,      \* the secret it generated and has not offered yet
  sKept,      \* history: what replicas took from the table to sign sessions with
  sSaves, sBoots   \* bounds

settings == << sDb, sMem, sPage >>
builds == << sUse, sDue, sSnap >>
watch == << sRead, sLast, sFresh, sLocal >>
secrets == << sSecret, sOwn, sWord, sKept >>
bounds == << sSaves, sBoots >>
sVars == << sKey, settings, builds, watch, secrets, bounds >>

\* What the key is worth: its row, or else the configuration file.
Worth == IF sDb = NoValue THEN FileValue ELSE sDb

SettingsInit ==
  /\ sKey \in Keys
  /\ sDb = NoValue /\ sMem = [r \in SetReplicas |-> FileValue] /\ sPage = {}
  /\ sUse = [r \in SetReplicas |-> FileValue]
  /\ sDue = [r \in SetReplicas |-> 0] /\ sSnap = [r \in SetReplicas |-> << >>]
  /\ sRead = [r \in SetReplicas |-> NoRead] /\ sLast = [r \in SetReplicas |-> NoValue]
  /\ sFresh = {} /\ sLocal = {}
  /\ sSecret = NoValue /\ sOwn = [r \in SetReplicas |-> NoValue] /\ sWord = [r \in SetReplicas |-> NoValue]
  /\ sKept = {}
  /\ sSaves = 0 /\ sBoots = 0

\* A handler or watcher goes on to rebuild what depends on the key.
ReloadDue(r) == IF sKey = "ai" THEN UNCHANGED sDue ELSE sDue' = [sDue EXCEPT ![r] = @ + 1]
-----------------------------------------------------------------------------
(* The settings page *)

\* The table changes; what watchers have read is old now.
Saved(r) ==
  /\ sSaves < MaxSaves /\ sSaves' = sSaves + 1
  /\ sFresh' = {} /\ sLocal' = sLocal \cup {r}
  /\ sRead' = [q \in SetReplicas |-> [sRead[q] EXCEPT !.new = FALSE]]
  /\ UNCHANGED << sKey, sUse, sSnap, sLast, secrets, sBoots >>

\* The table in a transaction, then the memory.
Apply(r, v) ==
  /\ Saved(r)
  /\ sDb' = v /\ sMem' = [sMem EXCEPT ![r] = v] /\ sPage' = sPage \cup {r}
  /\ ReloadDue(r)

\* The answer to the commit is lost: the row is there, the memory is as before.
CommitUnanswered(r, v) ==
  /\ Saved(r)
  /\ sDb' = v
  /\ UNCHANGED << sMem, sPage, sDue >>

Reset(r) ==
  /\ Saved(r)
  /\ sDb' = NoValue /\ sMem' = [sMem EXCEPT ![r] = FileValue] /\ sPage' = sPage \ {r}
  /\ ReloadDue(r)
-----------------------------------------------------------------------------
(* What is built from the setting *)

\* A reload takes a snapshot: that of the limiter under a mutex of its own,
\* that of the client without one.
ReloadBegins(r) ==
  /\ sDue[r] > 0
  /\ sKey = "artifact" => sSnap[r] = << >>
  /\ sDue' = [sDue EXCEPT ![r] = @ - 1]
  /\ sSnap' = [sSnap EXCEPT ![r] = Append(@, sMem[r])]
  /\ UNCHANGED << sKey, settings, sUse, watch, secrets, bounds >>

\* The client is connected and tried before it is put into place, so a later
\* reload may be done first.
ReloadEnds(r, i) ==
  /\ sUse' = [sUse EXCEPT ![r] = sSnap[r][i]]
  /\ sSnap' = [sSnap EXCEPT ![r] = SubSeq(@, 1, i - 1) \o SubSeq(@, i + 1, Len(@))]
  /\ UNCHANGED << sKey, settings, sDue, watch, secrets, bounds >>
-----------------------------------------------------------------------------
(* The watchers *)

ReadValues(r) ==
  /\ sKey # "consul" /\ ~sRead[r].has
  /\ sRead' = [sRead EXCEPT ![r] = [has |-> TRUE, value |-> sDb, new |-> TRUE]]
  /\ UNCHANGED << sKey, settings, builds, sLast, sFresh, sLocal, secrets, bounds >>

\* The watcher's round is over.
RoundDone(r) ==
  /\ sRead' = [sRead EXCEPT ![r] = NoRead]
  /\ sFresh' = IF sRead[r].new THEN sFresh \cup {r} ELSE sFresh
  /\ UNCHANGED << sKey, sDb, sUse, sSnap, secrets, bounds >>

MemoryTakes(r, v) == sMem' = [sMem EXCEPT ![r] = v] /\ sPage' = sPage \cup {r}

\* Takes a missing row for nothing to do.
SyncFromDBMutant(r) ==
  /\ sKey = "ai" /\ sRead[r].has
  /\ \/ sRead[r].value = NoValue /\ UNCHANGED << sMem, sPage >>
     \/ sRead[r].value # NoValue /\ MemoryTakes(r, sRead[r].value)
  /\ RoundDone(r)
  /\ UNCHANGED << sDue, sLast, sLocal >>

\* ai: the memory takes the row's value; without a row, a key that was taken
\* for saved goes back to the file's.
SyncFromDB(r) ==
  /\ sKey = "ai" /\ sRead[r].has
  /\ \/ /\ sRead[r].value = NoValue
        /\ sMem' = IF r \in sPage THEN [sMem EXCEPT ![r] = FileValue] ELSE sMem
        /\ sPage' = sPage \ {r}
     \/ sRead[r].value # NoValue /\ MemoryTakes(r, sRead[r].value)
  /\ RoundDone(r)
  /\ UNCHANGED << sDue, sLast, sLocal >>

\* artifact: nothing to do if the table is as the watcher saw it last; a row
\* that is gone is passed over; otherwise the memory takes the value and the
\* limiter is rebuilt.
syncOnce(r) ==
  LET v == sRead[r].value IN
  /\ sKey = "artifact" /\ sRead[r].has
  /\ \/ v = sLast[r] /\ UNCHANGED << sLast, sLocal, sMem, sDue >>
     \/ /\ v # sLast[r]
        /\ sLast' = [sLast EXCEPT ![r] = v]
        /\ sLocal' = sLocal \ {r}
        /\ IF v \in {NoValue, sMem[r]} THEN UNCHANGED << sMem, sDue >>
           ELSE sMem' = [sMem EXCEPT ![r] = v] /\ ReloadDue(r)
  /\ RoundDone(r)
  /\ UNCHANGED sPage
-----------------------------------------------------------------------------
(* Start *)

\* The row is read and everything built anew; watchers begin with nothing seen.
Boot(r) ==
  /\ sBoots < MaxBoots /\ sBoots' = sBoots + 1
  /\ sMem' = [sMem EXCEPT ![r] = Worth] /\ sUse' = [sUse EXCEPT ![r] = Worth]
  /\ sPage' = IF sDb = NoValue THEN sPage \ {r} ELSE sPage \cup {r}
  /\ sDue' = [sDue EXCEPT ![r] = 0] /\ sSnap' = [sSnap EXCEPT ![r] = << >>]
  /\ sRead' = [sRead EXCEPT ![r] = NoRead] /\ sLast' = [sLast EXCEPT ![r] = NoValue]
  /\ sLocal' = sLocal \ {r} /\ sFresh' = sFresh \ {r}
  /\ sOwn' = [sOwn EXCEPT ![r] = NoValue] /\ sWord' = [sWord EXCEPT ![r] = NoValue]
  /\ UNCHANGED << sKey, sDb, sSecret, sKept, sSaves >>

Takes(r, secret) == sOwn' = [sOwn EXCEPT ![r] = secret] /\ sKept' = sKept \cup {secret}

\* ensureSessionSecret: the secret of the table, or a new one is generated,
\* which the name of its replica stands for ...
SecretLooked(r) ==
  /\ sOwn[r] = NoValue /\ sWord[r] = NoValue
  /\ \/ sSecret # NoValue /\ Takes(r, sSecret) /\ UNCHANGED sWord
     \/ sSecret = NoValue /\ sWord' = [sWord EXCEPT ![r] = r] /\ UNCHANGED << sOwn, sKept >>
  /\ UNCHANGED << sKey, settings, builds, watch, sSecret, bounds >>

\* The table keeps the first secret that is long enough.
Offered(r) == IF sSecret = NoValue THEN sWord[r] ELSE sSecret

\* ... and offered, and what the table has then is used.
SecretOffered(r) ==
  /\ sOwn[r] = NoValue /\ sWord[r] # NoValue
  /\ sSecret' = Offered(r)
  /\ Takes(r, sSecret') /\ sWord' = [sWord EXCEPT ![r] = NoValue]
  /\ UNCHANGED << sKey, settings, builds, watch, bounds >>

\* A statement that fails, or whose answer is lost, is logged and passed over:
\* the codec of the sessions makes up a secret of its own, and the replica
\* serves.  The table may have taken the offer.
SecretFails(r) ==
  /\ sOwn[r] = NoValue
  /\ sSecret' \in {sSecret} \cup (IF sWord[r] = NoValue THEN {} ELSE {Offered(r)})
  /\ sOwn' = [sOwn EXCEPT ![r] = OwnRandom] /\ sWord' = [sWord EXCEPT ![r] = NoValue]
  /\ UNCHANGED << sKey, settings, builds, watch, sKept, bounds >>

SettingsNext ==
  \E r \in SetReplicas :
    \/ /\ sKey # "secret"
       /\ \/ \E v \in SetValues : Apply(r, v) \/ CommitUnanswered(r, v)
          \/ Reset(r)
          \/ ReloadBegins(r) \/ \E i \in DOMAIN sSnap[r] : ReloadEnds(r, i)
          \/ ReadValues(r) \/ SyncFromDB(r) \/ syncOnce(r)
    \/ Boot(r)
    \/ sKey = "secret" /\ (SecretLooked(r) \/ SecretOffered(r) \/ SecretFails(r))
-----------------------------------------------------------------------------
(* Properties *)

SettingsTypeOK ==
  /\ sDb \in SetValues \cup {NoValue} /\ sPage \subseteq SetReplicas
  /\ sMem \in [SetReplicas -> SetValues \cup {FileValue}]
  /\ sDue \in [SetReplicas -> Nat]

NoReload(r) == sDue[r] = 0 /\ sSnap[r] = << >>

\* With no reload under way the limiter has the value of the memory, however
\* saves and the watcher meet.
LimiterFollows ==
  sKey = "artifact" => \A r \in SetReplicas : NoReload(r) => sUse[r] = sMem[r]

\* One round of its watcher gives a replica what was saved or reset before it.
AiWithinRound == sKey = "ai" => \A r \in sFresh : sMem[r] = Worth

\* The same for artifact, but for a reset, and for a replica that has saved it
\* itself since its watcher last saw a change.
ArtifactWithinRound ==
  sKey = "artifact" /\ sDb # NoValue => \A r \in sFresh \ sLocal : sMem[r] = sDb

\* All that replicas ever took from the table is one secret, whoever starts
\* together, starts again or fails in between; only a replica whose look or
\* offer failed signs with another.
SecretsAgree ==
  /\ sKept \subseteq {sSecret}
  /\ \A r \in SetReplicas : sOwn[r] \in {NoValue, OwnRandom} \cup sKept

\* What is saved reaches memory, limiter and replicas (Apply, Reset,
\* SyncFromDB, the watchers, ReloadArtifactSettings, ensureSessionSecret).
SettingsInv ==
  /\ SettingsTypeOK /\ LimiterFollows /\ AiWithinRound /\ ArtifactWithinRound /\ SecretsAgree

\* Deliberately not checked, the code does not keep them: every save of
\* artifact arrives with one round; the client follows the memory; replicas
\* always share the secret ("several replicas and starts share it", context.go 651).
ArtifactAlwaysWithinRound == sKey = "artifact" => \A r \in sFresh : sMem[r] = Worth
ClientFollows ==
  sKey = "consul" => \A r \in SetReplicas : NoReload(r) => sUse[r] = sMem[r]
SecretsShared ==
  \A r, q \in SetReplicas : NoValue \notin {sOwn[r], sOwn[q]} /\ r # q =>
    sOwn[r] = sOwn[q] /\ sOwn[r] # OwnRandom
=============================================================================
