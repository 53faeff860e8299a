----------------------------- MODULE SelfUpdate -----------------------------
(***************************************************************************)
(* The agent's own program on a host: the self update that replaces it,    *)
(* the service manager and the watchdog that start it, the lock that keeps *)
(* one agent running, and the rollback after repeated crashes.             *)
(*                                                                         *)
(* Processes are the one the service manager starts and the one the        *)
(* watchdog starts.  Each runs the program that was installed when it was  *)
(* started, also while it waits for the lock.  A heartbeat that succeeds   *)
(* saves the state, which has no crash counter, so saving removes it.      *)
(***************************************************************************)
EXTENDS Naturals, Sequences

CONSTANTS
  Images,         \* versions of the agent's program
  Broken,         \* versions that crash before their first heartbeat
  Managed,        \* the agent is a service with Restart=always
  MaxUpdates,     \* bound: self updates
  MaxCuts         \* bound: processes that die while they copy the backup

Procs == {"svc", "dog"}
Torn == "torn"    \* a file whose copy was cut

ASSUME SelfUpdateAssumption ==
  /\ Torn \notin Images
  /\ Broken \subseteq Images
  /\ Managed \in BOOLEAN
  /\ MaxUpdates \in Nat /\ MaxCuts \in Nat

VARIABLES
  uProg,          \* the file at the path of the program
  uBaks,          \* its backups, the newest last
  uProc,          \* each process: off, wait (for the lock), up, copied
  uImage,         \* the version each process runs
  uCount,         \* crash_count of the state file
  uFresh,         \* the last heartbeat is younger than the threshold
  uDog,           \* the watchdog: idle, or about to judge or to start
  uSeen,          \* CrashCount as the check holds it in memory
  uSilent,        \* history: checks in a row that saw no agent
  uUpdates, uCuts \* bounds

uVars == << uProg, uBaks, uProc, uImage, uCount, uFresh, uDog, uSeen,
            uSilent, uUpdates, uCuts >>

Running(p) == uProc[p] \in {"up", "copied"}
NobodyUp == \A p \in Procs : ~Running(p)
Newest == uBaks[Len(uBaks)]

SelfUpdateInit ==
  /\ uProg \in Images \ Broken
  /\ uBaks = << >>
  /\ uProc = [p \in Procs |-> "off"]
  /\ uImage = [p \in Procs |-> uProg]
  /\ uCount = 0
  /\ uFresh = FALSE
  /\ uDog = "idle"
  /\ uSeen = 0
  /\ uSilent = 0
  /\ uUpdates = 0
  /\ uCuts = 0
-----------------------------------------------------------------------------
(* The process *)

\* Starting loads the program of the moment; the lock is waited for later.
Launch(p) ==
  /\ uProc[p] = "off"
  /\ uProc' = [uProc EXCEPT ![p] = "wait"]
  /\ uImage' = [uImage EXCEPT ![p] = uProg]

ServiceStart ==
  /\ Managed
  /\ uProg # Torn
  /\ Launch("svc")
  /\ UNCHANGED << uProg, uBaks, uCount, uFresh, uDog, uSeen, uSilent, uUpdates,
                  uCuts >>

waitRunLock(p) ==
  /\ uProc[p] = "wait"
  /\ NobodyUp
  /\ uProc' = [uProc EXCEPT ![p] = "up"]
  /\ UNCHANGED << uProg, uBaks, uImage, uCount, uFresh, uDog, uSeen, uSilent,
                  uUpdates, uCuts >>

\* A heartbeat that the server answered, and the state saved after it.
Heartbeat(p) ==
  /\ uProc[p] = "up"
  /\ uImage[p] \notin Broken
  /\ uFresh' = TRUE
  /\ uCount' = 0
  /\ uSilent' = 0
  /\ UNCHANGED << uProg, uBaks, uProc, uImage, uDog, uSeen, uUpdates, uCuts >>

HeartbeatAges ==
  /\ uFresh
  /\ uFresh' = FALSE
  /\ UNCHANGED << uProg, uBaks, uProc, uImage, uCount, uDog, uSeen, uSilent,
                  uUpdates, uCuts >>

Die(p) ==
  /\ Running(p)
  /\ uProc' = [uProc EXCEPT ![p] = "off"]
  /\ UNCHANGED << uProg, uBaks, uImage, uCount, uFresh, uDog, uSeen, uSilent,
                  uUpdates, uCuts >>

\* The download has worked; the program is copied to a name of its own.
SelfBackup(p) ==
  /\ uProc[p] = "up"
  /\ uUpdates < MaxUpdates
  /\ uUpdates' = uUpdates + 1
  /\ uProg # Torn
  /\ uBaks' = Append(uBaks, uProg)
  /\ uProc' = [uProc EXCEPT ![p] = "copied"]
  /\ UNCHANGED << uProg, uImage, uCount, uFresh, uDog, uSeen, uSilent, uCuts >>

\* The process dies during the copy, which goes straight to its final name.
SelfBackupCut(p) ==
  /\ uProc[p] = "up"
  /\ uUpdates < MaxUpdates
  /\ uCuts < MaxCuts
  /\ uCuts' = uCuts + 1
  /\ uUpdates' = uUpdates + 1
  /\ uBaks' = Append(uBaks, Torn)
  /\ uProc' = [uProc EXCEPT ![p] = "off"]
  /\ UNCHANGED << uProg, uImage, uCount, uFresh, uDog, uSeen, uSilent >>

\* The rename puts the whole new file in place and the process exits with 75.
SelfReplace(p, v) ==
  /\ uProc[p] = "copied"
  /\ uProg' = v
  /\ uProc' = [uProc EXCEPT ![p] = "off"]
  /\ UNCHANGED << uBaks, uImage, uCount, uFresh, uDog, uSeen, uSilent, uUpdates,
                  uCuts >>

SelfReplaceFails(p) ==
  /\ uProc[p] = "copied"
  /\ uProc' = [uProc EXCEPT ![p] = "up"]
  /\ UNCHANGED << uProg, uBaks, uImage, uCount, uFresh, uDog, uSeen, uSilent,
                  uUpdates, uCuts >>
-----------------------------------------------------------------------------
(* The watchdog, one at a time under a lock of its own *)

\* Does not reset the counter when the agent is there.
WatchdogCheckMutant ==
  /\ uDog = "idle"
  /\ IF ~NobodyUp \/ uFresh
     THEN /\ uSilent' = 0
          /\ UNCHANGED << uCount, uDog, uSeen >>
     ELSE /\ uSeen' = IF uCount < 3 THEN uCount + 1 ELSE 3
          /\ uCount' = uSeen'
          /\ uSilent' = IF uSilent < 3 THEN uSilent + 1 ELSE 3
          /\ uDog' = "judge"
  /\ UNCHANGED << uProg, uBaks, uProc, uImage, uFresh, uUpdates, uCuts >>

\* Seeing the lock taken or the heartbeat fresh resets the counter; seeing
\* neither counts a crash.  Counts above three make no further difference.
WatchdogCheck ==
  /\ uDog = "idle"
  /\ IF ~NobodyUp \/ uFresh
     THEN /\ uCount' = 0
          /\ uSilent' = 0
          /\ UNCHANGED << uDog, uSeen >>
     ELSE /\ uSeen' = IF uCount < 3 THEN uCount + 1 ELSE 3
          /\ uCount' = uSeen'
          /\ uSilent' = IF uSilent < 3 THEN uSilent + 1 ELSE 3
          /\ uDog' = "judge"
  /\ UNCHANGED << uProg, uBaks, uProc, uImage, uFresh, uUpdates, uCuts >>

\* Returns from the check after the rollback and starts nothing.
WatchdogJudgeMutant ==
  /\ uDog = "judge"
  /\ \/ uSeen < 3 /\ uDog' = "start" /\ UNCHANGED << uProg, uCount >>
     \/ /\ uSeen >= 3
        /\ uDog' = "idle"
        /\ UNCHANGED << uProg, uCount >>
  /\ UNCHANGED << uBaks, uProc, uImage, uFresh, uSeen, uSilent, uUpdates, uCuts >>

\* Three crashes: the newest backup comes back.  Without one the check ends
\* here, and the agent is not started.
WatchdogJudge ==
  /\ uDog = "judge"
  /\ \/ uSeen < 3 /\ uDog' = "start" /\ UNCHANGED << uProg, uCount >>
     \/ /\ uSeen >= 3
        /\ uBaks # << >>
        /\ uProg' = Newest
        /\ uCount' = 0
        /\ uDog' = "start"
     \/ /\ uSeen >= 3
        /\ uBaks = << >>
        /\ uDog' = "idle"
        /\ UNCHANGED << uProg, uCount >>
  /\ UNCHANGED << uBaks, uProc, uImage, uFresh, uSeen, uSilent, uUpdates, uCuts >>

\* A second process of the watchdog would wait beside the first one.
WatchdogStart ==
  /\ uDog = "start"
  /\ uDog' = "idle"
  /\ IF uProg # Torn /\ uProc["dog"] = "off"
     THEN Launch("dog")
     ELSE UNCHANGED << uProc, uImage >>
  /\ UNCHANGED << uProg, uBaks, uCount, uFresh, uSeen, uSilent, uUpdates,
                  uCuts >>

WatchdogStep == WatchdogCheck \/ WatchdogJudge \/ WatchdogStart

SelfUpdateNext ==
  \/ ServiceStart \/ HeartbeatAges \/ WatchdogStep
  \/ \E p \in Procs :
       \/ waitRunLock(p) \/ Heartbeat(p) \/ Die(p) \/ SelfBackup(p)
       \/ SelfBackupCut(p) \/ SelfReplaceFails(p)
       \/ \E v \in Images : SelfReplace(p, v)

\* Cron calls the watchdog, waiting processes poll the lock, time passes.
SelfUpdateFairness ==
  /\ WF_uVars(WatchdogStep)
  /\ WF_uVars(HeartbeatAges)
  /\ \A p \in Procs : WF_uVars(waitRunLock(p))

SelfUpdateSpec == SelfUpdateInit /\ [][SelfUpdateNext]_uVars /\ SelfUpdateFairness
-----------------------------------------------------------------------------
SelfUpdateTypeOK ==
  /\ uProg \in Images \cup {Torn}
  /\ uBaks \in Seq(Images \cup {Torn})
  /\ uProc \in [Procs -> {"off", "wait", "up", "copied"}]
  /\ uImage \in [Procs -> Images]
  /\ uCount \in 0 .. 3 /\ uSeen \in 0 .. 3 /\ uSilent \in 0 .. 3
  /\ uFresh \in BOOLEAN
  /\ uDog \in {"idle", "judge", "start"}
  /\ uUpdates \in 0 .. MaxUpdates /\ uCuts \in 0 .. MaxCuts

\* The program is never half a file, unless a backup was cut: replacing and
\* rolling back are renames (binswap.go 29-68).
TornNeedsCut == uProg = Torn => uCuts > 0

\* The watchdog rolls back only after three checks in a row found no agent,
\* although the counter lives in a file the agent rewrites (watchdog.go 70-99).
RollbackNeedsSilence ==
  [][uDog = "idle" /\ uDog' = "judge" /\ uSeen' >= 3 => uSilent' >= 3]_uVars

\* A dead agent that has a whole backup is started again (watchdog.go 45-112).
AgentComesBack ==
  (NobodyUp /\ uBaks # << >> /\ uCuts = 0) ~> ~NobodyUp

\* "start it when necessary" (watchdog.go 45), without a backup to return to.
AgentAlwaysComesBack == NobodyUp ~> ~NobodyUp
=============================================================================
