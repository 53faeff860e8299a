------------------------------ MODULE AgentConn ------------------------------
(***************************************************************************)
(* How an agent keeps its connection to the server and the results it has  *)
(* not delivered (agent/agentrun/run.go): its registration, the address it  *)
(* uses, the addresses it may rotate to, the override the server sends with *)
(* heartbeats, the pending reports and the state file they survive in.     *)
(* One step of the main loop is one action, except that the process may    *)
(* die between handing in reports and writing the state file.              *)
(***************************************************************************)
EXTENDS Integers, Sequences, FiniteSets, SequencesExt, TLAPS

CONSTANTS
  Addrs,          \* all server addresses
  Installed,      \* ServerURLs in the first state file, a sequence
  DefaultServerURL, \* ServerURL and DefaultServerURL in the first state file
  Overrides,      \* override addresses an administrator may set for the host
  None,           \* no address
  Cmds,           \* commands whose results the agent produces
  MaxPending,     \* maxPendingReports
  MaxFlush,       \* reports handed in per flush (5 in the code)
  MaxRestarts,    \* bound: deaths of the process
  MaxOutages,     \* bound: changes of what is reachable, and requests cut short
  MaxDbOutages,   \* bound: times the server's database stops answering
  MaxSettings     \* bound: changes of the override and deletions of commands

ASSUME ConnAssumption ==
  /\ None \notin Addrs
  /\ Installed \in Seq(Addrs) /\ Len(Installed) > 0
  /\ DefaultServerURL \in Addrs
  /\ Overrides \subseteq Addrs
  /\ MaxPending \in Nat \ {0} /\ MaxFlush \in Nat \ {0}
  /\ MaxRestarts \in Nat /\ MaxOutages \in Nat /\ MaxSettings \in Nat
  /\ MaxDbOutages \in Nat

VARIABLES
  pc,             \* "down", "register", "flush", "save", "loop" or "report"
  registered,     \* cfg.AgentID is set
  url,            \* cfg.ServerURL
  urls,           \* cfg.ServerURLs
  applied,        \* cfg.AppliedOverride
  connectFailures,
  tunnelFail,     \* tunnelFailURL while its five minutes last, else None
  pending,        \* commands with a result in cfg.PendingReports
  disk,           \* what the state file holds of the above
  override,       \* the server's setting for this host
  reach,          \* addresses that answer
  db,             \* the server reads its database; if not it answers HTTP 401
  done,           \* commands whose result was written down
  delivered,      \* results the server has recorded
  forgotten,      \* commands the server no longer knows (HTTP 500)
  evicted,        \* results dropped from a full queue
  heard,          \* the last heartbeat was answered
  restarts, outages, dbOutages, settings

conn == << url, urls, applied, connectFailures, tunnelFail >>
results == << done, delivered, evicted >>
server == << override, reach, db, forgotten >>
bounds == << restarts, outages, dbOutages, settings >>
vars == << pc, registered, conn, pending, disk, results, server, heard, bounds >>

(* normalizeServerList: the current address first, then the list without repeats. *)
normalizeServerList(current, list) ==
  << current >> \o SelectSeq(list, LAMBDA u : u # current)

(* Off by one: urls[i % len(urls)]. *)
nextServerURLMutant(cur, list) ==
  IF Len(list) < 2 THEN None ELSE IF Contains(list, cur) THEN cur ELSE list[1]

(* nextServerURL: the address after the current one, in a circle. *)
nextServerURL(cur, list) ==
  IF Len(list) < 2 THEN None
  ELSE IF Contains(list, cur)
       THEN list[((CHOOSE i \in DOMAIN list : list[i] = cur) % Len(list)) + 1]
       ELSE list[1]

(* resolveServerURL: no override means the default address. *)
resolveServerURL(raw) == IF raw = None THEN DefaultServerURL ELSE raw

(* An authenticated request is answered without an error. *)
Answers == url \in reach /\ db

State(r, u, l, a, p) ==
  [registered |-> r, url |-> u, urls |-> l, applied |-> a, pending |-> p]

Init ==
  /\ pc = "down"
  /\ url = DefaultServerURL /\ urls = Installed /\ applied = None
  /\ connectFailures = 0 /\ tunnelFail = None
  /\ registered = FALSE /\ pending = {}
  /\ disk = State(FALSE, DefaultServerURL, Installed, None, {})
  /\ override = None
  /\ reach = Range(Installed) /\ db = TRUE
  /\ done = {} /\ delivered = {} /\ forgotten = {} /\ evicted = {}
  /\ heard = FALSE
  /\ restarts = 0 /\ outages = 0 /\ dbOutages = 0 /\ settings = 0

-----------------------------------------------------------------------------
(* The process *)

(* LoadState, New, and the start of Run up to its first flush. *)
Boot ==
  /\ pc = "down"
  /\ pc' = IF disk.registered THEN "flush" ELSE "register"
  /\ registered' = disk.registered
  /\ url' = disk.url
  /\ urls' = normalizeServerList(disk.url, disk.urls)
  /\ applied' = disk.applied
  /\ connectFailures' = 0 /\ tunnelFail' = None
  /\ pending' = disk.pending
  /\ UNCHANGED << disk, results, server, heard, bounds >>

saveState == disk' = State(registered', url', urls', applied', pending')

(* register comes before anything else; if it fails Run returns the error   *)
(* and the process ends.                                                    *)
Register ==
  /\ pc = "register"
  /\ Answers
  /\ registered' = TRUE
  /\ pc' = "flush"
  /\ UNCHANGED << conn, pending >>
  /\ saveState
  /\ UNCHANGED << results, server, heard, bounds >>

RegisterFails ==
  /\ pc = "register"
  /\ ~Answers
  /\ pc' = "down"
  /\ UNCHANGED << registered, conn, pending, disk, results, server, heard, bounds >>

Die ==
  /\ pc # "down"
  /\ restarts < MaxRestarts
  /\ pc' = "down"
  /\ restarts' = restarts + 1
  /\ UNCHANGED << registered, conn, pending, disk, results, server, heard, outages,
                  dbOutages, settings >>

(* Gives up one failure late. *)
FailOverrideMutant ==
  /\ url # DefaultServerURL
  /\ IF connectFailures < 3
     THEN /\ connectFailures' = connectFailures + 1
          /\ UNCHANGED << url, applied, tunnelFail >>
     ELSE /\ url' = DefaultServerURL
          /\ tunnelFail' = url
          /\ applied' = None
          /\ connectFailures' = 0

(* Does not clear AppliedOverride. *)
FailOverrideKeepsApplied ==
  /\ url # DefaultServerURL
  /\ IF connectFailures + 1 < 3
     THEN /\ connectFailures' = connectFailures + 1
          /\ UNCHANGED << url, applied, tunnelFail >>
     ELSE /\ url' = DefaultServerURL
          /\ tunnelFail' = url
          /\ connectFailures' = 0
          /\ UNCHANGED applied

(* handleConnectFailure: an address that is not the default is given up    *)
(* for the default after three failures, the default for the next address  *)
(* of the list after two.                                                  *)
FailOverride ==
  /\ url # DefaultServerURL
  /\ IF connectFailures + 1 < 3
     THEN /\ connectFailures' = connectFailures + 1
          /\ UNCHANGED << url, applied, tunnelFail >>
     ELSE /\ url' = DefaultServerURL
          /\ tunnelFail' = url
          /\ applied' = None
          /\ connectFailures' = 0

FailDefault ==
  /\ url = DefaultServerURL
  /\ UNCHANGED tunnelFail
  /\ IF connectFailures + 1 < 2
     THEN connectFailures' = connectFailures + 1 /\ UNCHANGED << url, applied >>
     ELSE /\ connectFailures' = 0
          /\ LET next == nextServerURL(url, urls) IN
               IF next \in {None, url}
               THEN UNCHANGED << url, applied >>
               ELSE url' = next /\ applied' = None

handleConnectFailure == (FailOverride \/ FailDefault) /\ UNCHANGED urls

(* applyServerURL *)
Switches(raw) ==
  /\ resolveServerURL(raw) # url
  /\ resolveServerURL(raw) # tunnelFail

applyServerURL(raw) ==
  IF Switches(raw)
  THEN /\ url' = resolveServerURL(raw)
       /\ applied' = raw
       /\ connectFailures' = 0
       /\ UNCHANGED << urls, tunnelFail >>
  ELSE UNCHANGED conn

(* heartbeat: every branch saves, and all but a switch go on to a flush. *)
HeartbeatFails ==
  /\ pc = "loop"
  /\ ~Answers
  /\ handleConnectFailure
  /\ pc' = "flush"
  /\ heard' = FALSE
  /\ UNCHANGED << registered, pending >>
  /\ saveState
  /\ UNCHANGED << results, server, bounds >>

(* Flushes after failures only. *)
AnsweredMutant(raw) ==
  /\ pc = "loop"
  /\ Answers
  /\ applyServerURL(raw)
  /\ heard' = TRUE
  /\ UNCHANGED << pc, registered, pending >>
  /\ saveState
  /\ UNCHANGED << results, server, restarts, outages, settings >>

Answered(raw) ==
  /\ pc = "loop"
  /\ Answers
  /\ applyServerURL(raw)
  /\ pc' = IF Switches(raw) THEN "loop" ELSE "flush"
  /\ heard' = TRUE
  /\ UNCHANGED << registered, pending >>
  /\ saveState
  /\ UNCHANGED << results, server, restarts, outages, settings >>

HeartbeatAnswered == Answered(override) /\ UNCHANGED dbOutages

(* AgentHeartbeat discards the error of the query that reads the override   *)
(* and answers as if none were set.                                         *)
HeartbeatBlind ==
  /\ dbOutages < MaxDbOutages
  /\ dbOutages' = dbOutages + 1
  /\ Answered(None)

(* flushPendingReports hands in up to MaxFlush reports, in no fixed order.   *)
(* Any answer but HTTP 4xx ends the round, so the report of a command the    *)
(* server has forgotten does, and stays.                                    *)
HandIn(Out) ==
  /\ pc = "flush"
  /\ Answers
  /\ Out \subseteq pending \ forgotten
  /\ Cardinality(Out) <= MaxFlush
  /\ pending' = pending \ Out
  /\ pc' = IF Out = {} THEN "loop" ELSE "save"
  /\ UNCHANGED << registered, conn, disk, done, evicted, server, heard >>

RoundEnds(Out) ==
  \/ Out = pending
  \/ Cardinality(Out) = MaxFlush
  \/ pending \cap forgotten # {}

Flush(Out) ==
  /\ HandIn(Out)
  /\ RoundEnds(Out)
  /\ delivered' = delivered \cup Out
  /\ UNCHANGED bounds

(* The connection breaks during the round; the report under way may have    *)
(* been recorded although its answer is lost.                               *)
FlushCut(Out) ==
  /\ HandIn(Out)
  /\ outages < MaxOutages
  /\ outages' = outages + 1
  /\ \E lost \in SUBSET (pending \ (Out \cup forgotten)) :
       /\ Cardinality(lost) <= 1
       /\ delivered' = delivered \cup Out \cup lost
  /\ UNCHANGED << restarts, dbOutages, settings >>

(* HTTP 401 is an HTTP 4xx: every report is given up. *)
FlushRejected ==
  /\ pc = "flush"
  /\ url \in reach /\ ~db
  /\ pending' = {}
  /\ pc' = IF pending = {} THEN "loop" ELSE "save"
  /\ UNCHANGED << registered, conn, disk, results, server, heard, bounds >>

FlushFails ==
  /\ pc = "flush"
  /\ url \notin reach
  /\ pc' = "loop"
  /\ UNCHANGED << registered, conn, pending, disk, results, server, heard, bounds >>

SaveFlushed ==
  /\ pc = "save"
  /\ pc' = "loop"
  /\ UNCHANGED << registered, conn, pending >>
  /\ saveState
  /\ UNCHANGED << results, server, heard, bounds >>

(* Sends the result before it is saved. *)
FinishMutant(c) ==
  /\ pc = "loop"
  /\ Answers
  /\ c \notin done
  /\ Cardinality(pending) < MaxPending
  /\ pending' = pending \cup {c}
  /\ done' = done \cup {c}
  /\ pc' = "report"
  /\ UNCHANGED << registered, conn, disk, evicted, delivered, server, heard, bounds >>

(* poll: a command arrives and its execution ends; postReportWithRetry      *)
(* makes room in the queue and saves the result before it sends it.        *)
Finish(c) ==
  /\ pc = "loop"
  /\ Answers
  /\ c \notin done
  /\ \E kept \in {pending} \cup {pending \ {d} : d \in pending} :
       /\ (kept = pending) <=> (Cardinality(pending) < MaxPending)
       /\ pending' = kept \cup {c}
       /\ evicted' = evicted \cup (pending \ kept)
  /\ done' = done \cup {c}
  /\ pc' = "report"
  /\ UNCHANGED << registered, conn >>
  /\ saveState
  /\ UNCHANGED << delivered, server, heard, bounds >>

(* The attempts to send it.  Only an answer without an error takes it off   *)
(* the queue: the report may have arrived although the answer was lost.     *)
Report(c) ==
  /\ pc = "report"
  /\ c \in pending
  /\ pc' = "loop"
  /\ \/ /\ Answers /\ c \notin forgotten
        /\ delivered' = delivered \cup {c}
        /\ pending' \in {pending, pending \ {c}}
     \/ UNCHANGED << delivered, pending >>
  /\ UNCHANGED << registered, conn >>
  /\ saveState
  /\ UNCHANGED << done, evicted, server, heard, bounds >>

-----------------------------------------------------------------------------
(* The surroundings *)

(* Five minutes after the failure of an override it may be tried again. *)
CooldownEnds ==
  /\ tunnelFail # None
  /\ tunnelFail' = None
  /\ UNCHANGED << pc, registered, url, urls, applied, connectFailures, pending, disk, results,
                  server, heard, bounds >>

Outage ==
  /\ outages < MaxOutages
  /\ outages' = outages + 1
  /\ reach' \in SUBSET Addrs \ {reach}
  /\ UNCHANGED << pc, registered, conn, pending, disk, results, override, db, forgotten, heard,
                  restarts, dbOutages, settings >>

DbFails ==
  /\ db /\ dbOutages < MaxDbOutages
  /\ db' = FALSE
  /\ dbOutages' = dbOutages + 1
  /\ UNCHANGED << pc, registered, conn, pending, disk, results, override, reach, forgotten,
                  heard, restarts, outages, settings >>

DbReturns ==
  /\ ~db
  /\ db' = TRUE
  /\ UNCHANGED << pc, registered, conn, pending, disk, results, override, reach, forgotten,
                  heard, bounds >>

SetOverride ==
  /\ settings < MaxSettings
  /\ settings' = settings + 1
  /\ override' \in (Overrides \cup {None}) \ {override}
  /\ UNCHANGED << pc, registered, conn, pending, disk, results, reach, db, forgotten, heard,
                  restarts, outages, dbOutages >>

(* The task of a command is deleted on the server. *)
Forget(c) ==
  /\ settings < MaxSettings
  /\ settings' = settings + 1
  /\ c \in done \ forgotten
  /\ forgotten' = forgotten \cup {c}
  /\ UNCHANGED << pc, registered, conn, pending, disk, results, override, reach, db, heard,
                  restarts, outages, dbOutages >>

-----------------------------------------------------------------------------
Heartbeat == HeartbeatFails \/ HeartbeatAnswered

Loop ==
  \/ Boot \/ Register \/ RegisterFails
  \/ Heartbeat
  \/ \E Out \in SUBSET Cmds : Flush(Out)
  \/ FlushRejected \/ FlushFails \/ SaveFlushed
  \/ \E c \in Cmds : Report(c)

Next ==
  \/ Loop
  \/ Die \/ HeartbeatBlind
  \/ \E Out \in SUBSET Cmds : FlushCut(Out)
  \/ \E c \in Cmds : Finish(c) \/ Forget(c)
  \/ CooldownEnds \/ Outage \/ DbFails \/ DbReturns \/ SetOverride

Spec == Init /\ [][Next]_vars

(* The service manager starts the process again, its loop goes on, a       *)
(* heartbeat is due every 30 seconds, the cooldown is a clock and the       *)
(* database comes back.  Ranging over a Go map starts at a random entry, so *)
(* no report waits forever behind another one.                              *)
FlushOf(c) == \E Out \in SUBSET Cmds : c \in Out /\ Flush(Out)

FairSpec ==
  /\ Spec
  /\ WF_vars(Loop) /\ WF_vars(Heartbeat)
  /\ WF_vars(CooldownEnds) /\ WF_vars(DbReturns)
  /\ \A c \in Cmds : SF_vars(FlushOf(c))

-----------------------------------------------------------------------------
StateFiles == [registered : BOOLEAN, url : Addrs, urls : Seq(Addrs), applied : Addrs \cup {None},
               pending : SUBSET Cmds]

TypeOK ==
  /\ pc \in {"down", "register", "flush", "save", "loop", "report"}
  /\ registered \in BOOLEAN /\ db \in BOOLEAN
  /\ url \in Addrs /\ urls \in Seq(Addrs) /\ applied \in Addrs \cup {None}
  /\ connectFailures \in 0..2 /\ tunnelFail \in Addrs \cup {None}
  /\ pending \in SUBSET Cmds /\ Cardinality(pending) <= MaxPending
  /\ disk \in StateFiles
  /\ override \in Overrides \cup {None} /\ reach \in SUBSET Addrs
  /\ done \in SUBSET Cmds /\ delivered \in SUBSET Cmds
  /\ forgotten \in SUBSET Cmds /\ evicted \in SUBSET Cmds
  /\ heard \in BOOLEAN
  /\ restarts \in 0..MaxRestarts /\ outages \in 0..MaxOutages
  /\ dbOutages \in 0..MaxDbOutages /\ settings \in 0..MaxSettings

(* A result is never lost: until the server has recorded it or a full queue *)
(* dropped it, it is in the state file, whenever the process dies           *)
(* (postReportWithRetry, flushPendingReports, Config.PendingReports).       *)
ResultsSurvive == done \subseteq delivered \cup evicted \cup disk.pending

(* What status shows as the override in effect is the address in use, also *)
(* after rotations, fallbacks and restarts (Config.AppliedOverride).        *)
AppliedIsCurrent ==
  /\ pc # "down" /\ applied # None => url = applied
  /\ disk.applied # None => disk.url = disk.applied

(* Eventually some installed address stays reachable. *)
InstalledUp == <>[](Range(Installed) \cap reach # {})

(* Then every result gets to the server unless its command is gone or a     *)
(* full queue dropped it (flushPendingReports after every heartbeat).       *)
ResultsArrive ==
  InstalledUp =>
    \A c \in Cmds : (c \in done) ~> (c \in delivered \cup forgotten \cup evicted)

(* And a registered agent keeps being heard, whatever override the server  *)
(* sets (handleConnectFailure, nextServerURL).                              *)
HearsServer == InstalledUp /\ <>registered => []<>heard

-----------------------------------------------------------------------------
(* Proofs, for every set of addresses and commands. *)

(* One step of the process, of the network or of the server. *)
Steps ==
  \/ Boot \/ Register \/ RegisterFails \/ Die
  \/ HeartbeatFails \/ HeartbeatAnswered \/ HeartbeatBlind
  \/ FlushRejected \/ FlushFails \/ SaveFlushed
  \/ \E Out \in SUBSET Cmds : Flush(Out) \/ FlushCut(Out)
  \/ \E c \in Cmds : Finish(c) \/ Report(c) \/ Forget(c)
  \/ CooldownEnds \/ Outage \/ DbFails \/ DbReturns \/ SetOverride

LEMMA NextIsSteps == Next => Steps
  BY DEF Next, Loop, Heartbeat, Steps

-----------------------------------------------------------------------------
(* The override that status shows as applied is the address in use, in the *)
(* running process and in the state file: every rotation and fallback of   *)
(* handleConnectFailure clears it, and only applyServerURL sets it.         *)
LEMMA AppliedStep == AppliedIsCurrent /\ [Next]_vars => AppliedIsCurrent'
<1> SUFFICES ASSUME AppliedIsCurrent, [Next]_vars
             PROVE  AppliedIsCurrent'
  OBVIOUS
<1> USE DEF AppliedIsCurrent
<1>1. CASE Boot
  BY <1>1 DEF Boot
<1>2. CASE Register
  BY <1>2 DEF Register, saveState, State, conn
<1>3. CASE RegisterFails \/ Die \/ FlushRejected \/ FlushFails
  BY <1>3 DEF RegisterFails, Die, FlushRejected, FlushFails, conn
<1>4. CASE HeartbeatFails
  <2>1. url' # url => applied' = None
    BY <1>4 DEF HeartbeatFails, handleConnectFailure, FailOverride, FailDefault
  <2>2. url' = url => applied' \in {None, applied}
    BY <1>4 DEF HeartbeatFails, handleConnectFailure, FailOverride, FailDefault
  <2>3. pc = "loop" /\ disk'.url = url' /\ disk'.applied = applied'
    BY <1>4 DEF HeartbeatFails, saveState, State
  <2> QED BY <2>1, <2>2, <2>3
<1>5. CASE HeartbeatAnswered \/ HeartbeatBlind
  <2>1. PICK raw \in {override, None} : Answered(raw)
    BY <1>5 DEF HeartbeatAnswered, HeartbeatBlind
  <2>2. \/ url' = url /\ applied' = applied
        \/ url' = resolveServerURL(raw) /\ applied' = raw
    BY <2>1 DEF Answered, applyServerURL, conn
  <2>3. pc = "loop" /\ disk'.url = url' /\ disk'.applied = applied'
    BY <2>1 DEF Answered, saveState, State
  <2> QED BY <2>2, <2>3 DEF resolveServerURL
<1>6. CASE SaveFlushed
  BY <1>6 DEF SaveFlushed, saveState, State, conn
<1>7. ASSUME NEW Out \in SUBSET Cmds, Flush(Out) \/ FlushCut(Out)
      PROVE  AppliedIsCurrent'
  BY <1>7 DEF Flush, FlushCut, HandIn, conn
<1>8. ASSUME NEW c \in Cmds, Finish(c) \/ Report(c)
      PROVE  AppliedIsCurrent'
  <2>1. pc # "down" /\ url' = url /\ applied' = applied
    BY <1>8 DEF Finish, Report, conn
  <2>2. disk'.url = url' /\ disk'.applied = applied'
    BY <1>8 DEF Finish, Report, saveState, State
  <2> QED BY <2>1, <2>2
<1>9. ASSUME NEW c \in Cmds, Forget(c)
      PROVE  AppliedIsCurrent'
  BY <1>9 DEF Forget, conn
<1>10. CASE CooldownEnds \/ Outage \/ DbFails \/ DbReturns \/ SetOverride
  BY <1>10 DEF CooldownEnds, Outage, DbFails, DbReturns, SetOverride, conn
<1>11. CASE UNCHANGED vars
  BY <1>11 DEF vars, conn
<1> QED
  BY NextIsSteps, <1>1, <1>2, <1>3, <1>4, <1>5, <1>6, <1>7, <1>8, <1>9, <1>10, <1>11
  DEF Steps

(* AppliedIsCurrent holds in every reachable state. *)
THEOREM AppliedHolds == Spec => []AppliedIsCurrent
<1>1. Init => AppliedIsCurrent
  BY DEF Init, AppliedIsCurrent, State
<1> QED BY <1>1, AppliedStep, PTL DEF Spec

-----------------------------------------------------------------------------
(* With a database that always answers no result is lost: the process has  *)
(* every result that neither the server recorded nor a full queue dropped, *)
(* and so has the state file, which lags behind only with reports that were *)
(* handed in.                                                               *)
Kept ==
  /\ db = TRUE /\ dbOutages = 0
  /\ pc # "down" => done \subseteq delivered \cup evicted \cup pending
  /\ ResultsSurvive

LEMMA KeptStep ==
  ASSUME MaxDbOutages = 0, Kept, [Next]_vars
  PROVE  Kept'
<1> USE DEF Kept, ResultsSurvive
<1>1. CASE Boot
  BY <1>1 DEF Boot, server, bounds, results
<1>2. CASE Register
  <2>1. disk'.pending = pending'
    BY <1>2 DEF Register, saveState, State
  <2> QED BY <1>2, <2>1 DEF Register, server, bounds, results
<1>3. CASE RegisterFails \/ Die \/ FlushFails
  BY <1>3 DEF RegisterFails, Die, FlushFails, server, bounds, results
<1>4. CASE FlushRejected
  BY <1>4 DEF FlushRejected
<1>5. CASE HeartbeatFails \/ HeartbeatAnswered \/ SaveFlushed
  <2>1. disk'.pending = pending'
    BY <1>5 DEF HeartbeatFails, HeartbeatAnswered, Answered, SaveFlushed, saveState, State
  <2> QED BY <1>5, <2>1 DEF HeartbeatFails, HeartbeatAnswered, Answered, SaveFlushed, server, bounds, results
<1>6. ASSUME NEW Out \in SUBSET Cmds, Flush(Out) \/ FlushCut(Out)
      PROVE  Kept'
  <2>1. /\ pc # "down" /\ pending' = pending \ Out /\ delivered \cup Out \subseteq delivered'
        /\ UNCHANGED << disk, done, evicted, db, dbOutages >>
    BY <1>6 DEF Flush, FlushCut, HandIn, server, bounds
  <2> QED BY <2>1
<1>7. ASSUME NEW c \in Cmds, Finish(c)
      PROVE  Kept'
  <2>1. pc # "down" /\ done' = done \cup {c} /\ UNCHANGED << delivered, db, dbOutages >>
    BY <1>7 DEF Finish, server, bounds
  <2>2. PICK kept \in {pending} \cup {pending \ {d} : d \in pending} :
          pending' = kept \cup {c} /\ evicted' = evicted \cup (pending \ kept)
    BY <1>7 DEF Finish
  <2>3. disk'.pending = pending'
    BY <1>7 DEF Finish, saveState, State
  <2> QED BY <2>1, <2>2, <2>3
<1>8. ASSUME NEW c \in Cmds, Report(c)
      PROVE  Kept'
  <2>1. /\ pc # "down" /\ UNCHANGED << done, evicted, db, dbOutages >>
        /\ delivered \subseteq delivered'
        /\ pending \subseteq delivered' \cup pending'
    BY <1>8 DEF Report, server, bounds
  <2>2. disk'.pending = pending'
    BY <1>8 DEF Report, saveState, State
  <2> QED BY <2>1, <2>2
<1>9. ASSUME NEW c \in Cmds, Forget(c)
      PROVE  Kept'
  BY <1>9 DEF Forget, results
<1>10. CASE CooldownEnds \/ Outage \/ DbReturns \/ SetOverride
  BY <1>10 DEF CooldownEnds, Outage, DbReturns, SetOverride, results, server, bounds
<1>11. CASE DbFails \/ HeartbeatBlind
  BY <1>11 DEF DbFails, HeartbeatBlind
<1>12. CASE UNCHANGED vars
  BY <1>12 DEF vars, results, server, bounds
<1> QED
  BY NextIsSteps, <1>1, <1>2, <1>3, <1>4, <1>5, <1>6, <1>7, <1>8, <1>9, <1>10, <1>11, <1>12
  DEF Steps

(* ResultsSurvive holds in every reachable state of a server whose          *)
(* database never fails.                                                    *)
THEOREM ResultsKept ==
  ASSUME MaxDbOutages = 0
  PROVE  Spec => []ResultsSurvive
<1>1. Init => Kept
  BY DEF Init, Kept, ResultsSurvive, State
<1>2. Kept /\ [Next]_vars => Kept'
  BY KeptStep
<1>3. Kept => ResultsSurvive
  BY DEF Kept
<1> QED BY <1>1, <1>2, <1>3, PTL DEF Spec
=============================================================================
