------------------------------ MODULE Executor ------------------------------
(***************************************************************************)
(* The upgrade pipeline of the agent, internal/agent/executor, with the    *)
(* downloader and the binary swap it calls: download, check, back up, stop *)
(* the service, replace and run, start, verify, and roll back on failure.  *)
(*                                                                         *)
(* A file is what it was put together from: the set of versions its bytes  *)
(* come from and whether the last byte of one of them was reached.  Hooks, *)
(* scripts and the service manager are external commands, which succeed or *)
(* fail as they like; a script may register or remove the service.  The    *)
(* process may die between any two stages; the disk and the service stay.  *)
(***************************************************************************)
EXTENDS Naturals

CONSTANTS
  Versions,       \* what an artifact or a script may be
  TmpNames,       \* names of the temporary download file
  Jobs,           \* the commands the agent may be given
  MaxRetries,     \* attempts of one download (3 in the code)
  MaxCrashes      \* bound: how often the process dies

Modes == {"replace", "exec", "replace_exec", "script"}

\* A path that fails one of the four checks of validateInstallPath, and "good".
PathKinds == {"empty", "dots", "relative", "denied", "outside", "link", "good"}

\* What a command of the component carries, as far as control depends on it.
JobType ==
  [ver : Versions, tmp : TmpNames, mode : Modes, path : PathKinds,
   url : BOOLEAN,                                   \* Artifact.URL is set
   scriptURL : {"none", "relative", "http", "other"},
   sum : BOOLEAN,                                   \* a checksum is given
   svc : BOOLEAN,                                   \* ServiceName is set
   uninstall : BOOLEAN, ignore : BOOLEAN]

ASSUME ExecutorAssumption ==
  /\ Jobs \subseteq JobType /\ Jobs # {}
  /\ MaxRetries \in Nat \ {0}
  /\ MaxCrashes \in Nat

VARIABLES
  xPc,            \* the stage the pipeline is about to enter
  xJob,           \* the command being executed
  xTry,           \* attempts of the download so far
  xFile,          \* the file at install_path
  xTmp,           \* the temporary download files
  xBak,           \* the backup of this attempt: BackupPath
  xSvc,           \* the service: absent, stopped, running
  xExisted,       \* svcExistedBefore
  xPending,       \* pendingStart
  xBefore,        \* history: the file when the attempt began
  xRolled,        \* history: how the rollback of the attempt ended
  xCrashes        \* bound: deaths of the process

xVars == << xPc, xJob, xTry, xFile, xTmp, xBak, xSvc, xExisted, xPending,
            xBefore, xRolled, xCrashes >>

Files == [parts : SUBSET Versions, whole : BOOLEAN]
NoFile == [parts |-> {}, whole |-> FALSE]
Whole(v) == [parts |-> {v}, whole |-> TRUE]
Append1(f, v, all) == [parts |-> f.parts \cup {v}, whole |-> all]

Ended == {"idle", "failed", "done"}
-----------------------------------------------------------------------------
(* What a command is *)

ExecScript(j) == j.mode = "exec" /\ j.scriptURL # "none"
ExecOnly(j) == j.mode = "exec" /\ ~j.url /\ ~ExecScript(j)
ScriptMode(j) == j.mode = "script" \/ ExecScript(j)
ValidInstallPath(p) == p \notin PathKinds \ {"good"}

\* The install path has to be valid where the pipeline touches it.
PathRefused(j) ==
  /\ ~ScriptMode(j)
  /\ ~(ExecOnly(j) /\ j.path = "empty")
  /\ ~ValidInstallPath(j.path)

ValidScriptURL(u) == u \in {"none", "http"}

\* A platform path is resolved by the agent into Artifact.URL beforehand.
ScriptRefused(j) ==
  /\ ScriptMode(j)
  /\ j.scriptURL # "none"
  /\ IF j.scriptURL = "relative" THEN ~j.url ELSE ~ValidScriptURL(j.scriptURL)

\* With a checksum only the requested bytes pass; without one all do.
VerifyChecksum(f, j) == j.sum => f = Whole(j.ver)

\* The service manager answers TRUE when it cannot tell.
SvcAnswers == IF xSvc = "absent" THEN BOOLEAN ELSE {TRUE}
StartResults(s) == CASE s = "stopped" -> {"running", "stopped"} [] OTHER -> {s}
RestartResults(s) == IF s = "absent" THEN {s} ELSE {"running", "stopped"}
-----------------------------------------------------------------------------
ExecutorInit ==
  /\ xPc = "idle"
  /\ xJob = CHOOSE j \in Jobs : TRUE
  /\ xTry = 0
  /\ xFile \in {NoFile} \cup {Whole(v) : v \in Versions}
  /\ xTmp = [n \in TmpNames |-> NoFile]
  /\ xBak = NoFile
  /\ xSvc \in {"absent", "running"}
  /\ xExisted = FALSE
  /\ xPending = FALSE
  /\ xBefore = xFile
  /\ xRolled = "no"
  /\ xCrashes = 0

\* A command arrives; paths and addresses are validated first.
Execute(j) ==
  /\ xPc \in Ended
  /\ xJob' = j
  /\ xPc' = CASE PathRefused(j)   -> "failed"
              [] ScriptRefused(j) -> "failed"
              [] ExecOnly(j)      -> "prehook"
              [] OTHER            -> "reuse"
  /\ xTry' = 0
  /\ xBak' = NoFile
  /\ xExisted' = FALSE
  /\ xPending' = FALSE
  /\ xBefore' = xFile
  /\ xRolled' = "no"
  /\ UNCHANGED << xFile, xTmp, xSvc, xCrashes >>

Tmp == xTmp[xJob.tmp]
SetTmp(f) == xTmp' = [xTmp EXCEPT ![xJob.tmp] = f]

\* A file left over from before is used when its checksum matches, removed
\* when it does not, and resumed when there is no checksum to tell.
Download ==
  /\ xPc = "reuse"
  /\ IF Tmp # NoFile /\ xJob.sum
     THEN IF VerifyChecksum(Tmp, xJob)
          THEN xPc' = "backup" /\ UNCHANGED xTmp
          ELSE xPc' = "fetch" /\ SetTmp(NoFile)
     ELSE xPc' = "fetch" /\ UNCHANGED xTmp
  /\ UNCHANGED << xJob, xTry, xFile, xBak, xSvc, xExisted, xPending, xBefore,
                  xRolled, xCrashes >>

\* One request: refused or lost; 416 for a file that is long enough already;
\* 206 appends to what is there, 200 writes from the start; either may be cut.
Responses(f) ==
  {[file |-> f, ok |-> FALSE]}
    \cup (IF f = NoFile THEN {} ELSE {[file |-> NoFile, ok |-> FALSE]})
    \cup {[file |-> Append1(f, xJob.ver, all), ok |-> all] : all \in BOOLEAN}
    \cup {[file |-> Append1(NoFile, xJob.ver, all), ok |-> all] : all \in BOOLEAN}

NextTry == IF xTry + 1 < MaxRetries THEN "fetch" ELSE "failed"

DownloadGo ==
  /\ xPc = "fetch"
  /\ xTry' = xTry + 1
  /\ \E r \in Responses(Tmp) :
       IF ~r.ok
       THEN SetTmp(r.file) /\ xPc' = NextTry
       ELSE IF VerifyChecksum(r.file, xJob)
            THEN SetTmp(r.file) /\ xPc' = "backup"
            ELSE SetTmp(NoFile) /\ xPc' = NextTry
  /\ UNCHANGED << xJob, xFile, xBak, xSvc, xExisted, xPending, xBefore,
                  xRolled, xCrashes >>

\* Scripts bring their own backup; otherwise the installed file is copied.
Backup ==
  /\ xPc = "backup"
  /\ \/ xPc' = "prehook" /\ xBak' = IF ScriptMode(xJob) THEN NoFile ELSE xFile
     \/ ~ScriptMode(xJob) /\ xFile # NoFile /\ xPc' = "failed" /\ UNCHANGED xBak
  /\ UNCHANGED << xJob, xTry, xFile, xTmp, xSvc, xExisted, xPending, xBefore,
                  xRolled, xCrashes >>

\* The hooks run before anything is stopped: their failure undoes nothing.
PreInstall ==
  /\ xPc = "prehook"
  /\ \/ xPc' = "stop"
     \/ ~xJob.ignore /\ xPc' = "failed"
  /\ UNCHANGED << xJob, xTry, xFile, xTmp, xBak, xSvc, xExisted, xPending,
                  xBefore, xRolled, xCrashes >>

Stop ==
  /\ xPc = "stop"
  /\ \E e \in SvcAnswers :
       /\ xExisted' = (xJob.svc /\ e)
       /\ IF xJob.svc /\ e
          THEN \/ xPc' = "replace" /\ xSvc # "absent" /\ xSvc' = "stopped"
               \/ xPc' = (IF xJob.ignore THEN "replace" ELSE "failed") /\ UNCHANGED xSvc
          ELSE xPc' = "replace" /\ UNCHANGED xSvc
  /\ UNCHANGED << xJob, xTry, xFile, xTmp, xBak, xPending, xBefore, xRolled,
                  xCrashes >>

\* Starts the service and forgets to restore the file.
RollBackMutant(svc, results) ==
  /\ xPc' = "failed"
  /\ UNCHANGED << xFile, xRolled >>
  /\ xSvc' \in IF xJob.svc /\ xBak # NoFile THEN results ELSE {svc}

\* The failing branches after the backup: restore it, then start or restart
\* what is registered.  Errors of both are swallowed.
RollBack(svc, results) ==
  /\ xPc' = "failed"
  /\ IF xBak = NoFile
     THEN xSvc' = svc /\ UNCHANGED << xFile, xRolled >>
     ELSE /\ \/ xFile' = xBak /\ xRolled' = "ok"
             \/ xFile' = xFile /\ xRolled' = "failed"
          /\ xSvc' \in IF xJob.svc THEN results ELSE {svc}

Replace ==
  /\ xPc = "replace"
  /\ IF xJob.mode \in {"replace", "replace_exec"}
     THEN \/ /\ xFile' = Tmp
             /\ SetTmp(NoFile)
             /\ xPc' = IF xJob.mode = "replace" THEN "start" ELSE "exec"
             /\ UNCHANGED << xSvc, xRolled >>
          \/ /\ xPc' = "failed"               \* the directory cannot be made
             /\ UNCHANGED << xFile, xTmp, xSvc, xRolled >>
          \/ RollBack(xSvc, StartResults(xSvc)) /\ UNCHANGED xTmp
     ELSE xPc' = "exec" /\ UNCHANGED << xFile, xTmp, xSvc, xRolled >>
  /\ UNCHANGED << xJob, xTry, xBak, xExisted, xPending, xBefore, xCrashes >>

\* A script or a command that works may register, start or remove the service.
ScriptMoves == IF xJob.svc THEN {xSvc, "stopped", "running", "absent"} ELSE {xSvc}

\* Only a plain command that fails after a backup is undone.
ExecStage ==
  /\ xPc = "exec"
  /\ \/ xPc' = "start" /\ xSvc' \in ScriptMoves /\ UNCHANGED << xFile, xRolled >>
     \/ /\ ~xJob.ignore
        /\ ScriptMode(xJob)
        /\ xPc' = "failed"
        /\ xSvc' \in ScriptMoves
        /\ UNCHANGED << xFile, xRolled >>
     \/ /\ ~xJob.ignore
        /\ ~ScriptMode(xJob)
        /\ \E s \in ScriptMoves : RollBack(s, StartResults(s))
  /\ UNCHANGED << xJob, xTry, xTmp, xBak, xExisted, xPending, xBefore, xCrashes >>

\* startService: a failure rolls back and starts the old version.
StartService(next) ==
  \/ /\ xSvc # "absent"
     /\ xSvc' = "running"
     /\ xPc' = next
     /\ UNCHANGED << xFile, xRolled >>
  \/ IF xJob.ignore
     THEN xPc' = next /\ UNCHANGED << xSvc, xFile, xRolled >>
     ELSE IF xBak = NoFile
          THEN xPc' = "failed" /\ UNCHANGED << xSvc, xFile, xRolled >>
          ELSE RollBack(xSvc, StartResults(xSvc))

\* Uninstalling never starts; what is not registered yet waits for the hooks.
Start ==
  /\ xPc = "start"
  /\ IF ~xJob.svc \/ xJob.uninstall
     THEN xPc' = "posthook" /\ UNCHANGED << xSvc, xFile, xRolled, xPending >>
     ELSE \E e \in SvcAnswers :
            IF e
            THEN StartService("posthook") /\ UNCHANGED xPending
            ELSE /\ xPending' = TRUE
                 /\ xPc' = "posthook"
                 /\ UNCHANGED << xSvc, xFile, xRolled >>
  /\ UNCHANGED << xJob, xTry, xTmp, xBak, xExisted, xBefore, xCrashes >>

\* Nothing stops a service here; one that is missing may be registered.
PostMoves == IF xSvc = "absent" THEN ScriptMoves ELSE {xSvc}

\* Commands and then the script after the installation; either may register
\* the service, and a failure is undone.
PostInstall ==
  /\ xPc = "posthook"
  /\ \/ /\ xPc' = "pending"
        /\ xSvc' \in PostMoves
        /\ UNCHANGED << xFile, xRolled >>
     \/ ~xJob.ignore /\ RollBack(xSvc, RestartResults(xSvc))
  /\ UNCHANGED << xJob, xTry, xTmp, xBak, xExisted, xPending, xBefore, xCrashes >>

PendingStart ==
  /\ xPc = "pending"
  /\ IF ~xPending
     THEN xPc' = "verify" /\ UNCHANGED << xSvc, xFile, xRolled >>
     ELSE \E e \in SvcAnswers :
            IF e THEN StartService("verify")
                 ELSE xPc' = "verify" /\ UNCHANGED << xSvc, xFile, xRolled >>
  /\ UNCHANGED << xJob, xTry, xTmp, xBak, xExisted, xPending, xBefore, xCrashes >>

\* A failed health check rolls back even where errors are ignored; on success
\* the temporary file is removed.
Verify ==
  /\ xPc = "verify"
  /\ \/ /\ xPc' = "done"
        /\ IF ExecOnly(xJob) THEN UNCHANGED xTmp ELSE SetTmp(NoFile)
        /\ UNCHANGED << xFile, xSvc, xRolled >>
     \/ RollBack(xSvc, RestartResults(xSvc)) /\ UNCHANGED xTmp
  /\ UNCHANGED << xJob, xTry, xBak, xExisted, xPending, xBefore, xCrashes >>

\* The process dies; what it knew of the attempt is gone.
ExecutorCrash ==
  /\ xPc \notin Ended
  /\ xCrashes < MaxCrashes
  /\ xCrashes' = xCrashes + 1
  /\ xPc' = "idle"
  /\ xBak' = NoFile
  /\ UNCHANGED << xJob, xTry, xFile, xTmp, xSvc, xExisted, xPending, xBefore,
                  xRolled >>

ExecutorStep ==
  \/ Download \/ DownloadGo \/ Backup \/ PreInstall \/ Stop \/ Replace
  \/ ExecStage \/ Start \/ PostInstall \/ PendingStart \/ Verify

ExecutorNext == ExecutorStep \/ ExecutorCrash \/ \E j \in Jobs : Execute(j)
-----------------------------------------------------------------------------
ExecutorTypeOK ==
  /\ xPc \in Ended \cup {"reuse", "fetch", "backup", "prehook", "stop", "replace",
                         "exec", "start", "posthook", "pending", "verify"}
  /\ xJob \in Jobs
  /\ xTry \in 0 .. MaxRetries
  /\ xFile \in Files /\ xBak \in Files /\ xBefore \in Files
  /\ xTmp \in [TmpNames -> Files]
  /\ xSvc \in {"absent", "stopped", "running"}
  /\ xExisted \in BOOLEAN /\ xPending \in BOOLEAN
  /\ xRolled \in {"no", "ok", "failed"}
  /\ xCrashes \in 0 .. MaxCrashes

\* A pipeline that fails leaves the file that was there when it began, unless
\* the restoring itself failed or there was nothing to restore, whatever was
\* replaced, run or crashed before (executor.go 166-328).
FailureRestores ==
  xPc = "failed" /\ xRolled # "failed" /\ xBefore # NoFile => xFile = xBefore

\* With a checksum, what a successful replacement leaves is the requested
\* version and nothing else, although downloads are cut, resumed from other
\* versions and left over from crashed attempts (downloader.go 33-84).
ChecksumHonoured ==
  xPc = "done" /\ xJob.sum /\ xJob.mode \in {"replace", "replace_exec"}
    => xFile = Whole(xJob.ver)

\* A successful command that does not uninstall leaves no registered service
\* stopped, however late it was registered (executor.go 226-307).
ServiceRunsAfterSuccess ==
  xPc = "done" /\ xJob.svc /\ ~xJob.uninstall /\ ~xJob.ignore
    => xSvc # "stopped"

\* What a command leaves behind, whatever failed or crashed on its way.
ExecutorInv ==
  /\ ExecutorTypeOK /\ FailureRestores /\ ChecksumHonoured /\ ServiceRunsAfterSuccess
=============================================================================
