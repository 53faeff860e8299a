---------------------------- MODULE FleetProofs -----------------------------
(***************************************************************************)
(* Proofs about the fleet, for any machines, tokens, hosts, agents and     *)
(* replicas, and any commands, images, writers and lengths of the output   *)
(* and the log: the inductive invariant of each part, that the part begins *)
(* in it and every step keeps it, and the theorems on FleetSpec that       *)
(* follow.  First the parts that run on the host of an agent.              *)
(***************************************************************************)
EXTENDS MCFleet, FiniteSetTheorems, TLAPS

(* The execution of a command *)

\* Stages at which nothing of the installation has been touched, and after.
Intact == {"reuse", "fetch", "backup", "prehook", "stop", "replace"}
BackedUp == {"prehook", "stop", "replace"}
Touched == {"exec", "start", "posthook", "pending", "verify"}

Swaps(j) == j.mode \in {"replace", "replace_exec"}
Stays(j) == j.svc /\ ~j.uninstall /\ ~j.ignore

\* While nothing is touched the file is the one of before; once a program may
\* be replaced its backup is that file; a command that replaces nothing leaves
\* it in place, with or without a backup.
FileStory ==
  /\ xPc \in Intact \cup Touched => xRolled = "no"
  /\ xPc \in Intact => xFile = xBefore
  /\ xPc \in {"reuse", "fetch", "backup"} => ~ExecOnly(xJob)
  /\ xPc \in BackedUp => /\ xBak \in {NoFile, xBefore}
                         /\ Swaps(xJob) => xBak = xBefore
  /\ xPc \in Touched => /\ xBak \in {NoFile, xBefore}
                        /\ IF Swaps(xJob) THEN xBak = xBefore ELSE xFile = xBefore

\* From the check on, the download is the requested version, and so is the
\* file that replaced the program.
SumStory ==
  xJob.sum =>
    /\ xPc = "backup" => Tmp = Whole(xJob.ver)
    /\ xPc \in BackedUp /\ Swaps(xJob) => Tmp = Whole(xJob.ver)
    /\ xPc \in Touched \cup {"done"} /\ Swaps(xJob) => xFile = Whole(xJob.ver)

\* After the start the service runs or waits for the hooks; after that it runs
\* or does not exist.
ServiceStory ==
  Stays(xJob) =>
    /\ xPc \in {"posthook", "pending"} => xPending = TRUE \/ xSvc = "running"
    /\ xPc \in {"verify", "done"} => xSvc # "stopped"

ExecutorIInv ==
  /\ ExecutorTypeOK
  /\ xPc = "reuse" => xTry = 0
  /\ xPc = "fetch" => xTry < MaxRetries
  /\ FileStory /\ SumStory /\ ServiceStory
  /\ FailureRestores

\* What is kept implies what the run checks.
LEMMA ExecutorHolds == ExecutorIInv => ExecutorInv
BY DEF ExecutorIInv, ExecutorInv, SumStory, ServiceStory, ChecksumHonoured, ServiceRunsAfterSuccess,
       Swaps, Stays

(* The files are closed under what a download does to them. *)
LEMMA FileFacts ==
  /\ NoFile \in Files
  /\ \A v \in Versions : Whole(v) \in Files
  /\ \A f \in Files, v \in Versions, all \in BOOLEAN : Append1(f, v, all) \in Files
BY DEF NoFile, Files, Whole, Append1

\* What a command asks for.
LEMMA JobFacts ==
  ASSUME NEW j \in Jobs
  PROVE  /\ j.ver \in Versions /\ j.tmp \in TmpNames /\ j.mode \in Modes
         /\ j.svc \in BOOLEAN /\ j.sum \in BOOLEAN /\ j.uninstall \in BOOLEAN /\ j.ignore \in BOOLEAN
BY ExecutorAssumption DEF JobType

\* A command that exchanges the program runs no script in its place.
LEMMA ReplacingPrograms ==
  ASSUME NEW j \in Jobs, Swaps(j)
  PROVE  ~ExecOnly(j) /\ ~ScriptMode(j) /\ ~ExecScript(j)
BY DEF Swaps, ExecOnly, ScriptMode, ExecScript

LEMMA ExecutorBegins == ExecutorInit => ExecutorIInv
<1> SUFFICES ASSUME ExecutorInit PROVE ExecutorIInv
  OBVIOUS
<1>1. xJob \in Jobs
  BY ExecutorAssumption DEF ExecutorInit
<1>2. xFile \in Files /\ xBak \in Files /\ xBefore \in Files /\ xTmp \in [TmpNames -> Files]
  BY FileFacts DEF ExecutorInit
<1>3. xTry \in 0 .. MaxRetries /\ xCrashes \in 0 .. MaxCrashes
  BY ExecutorAssumption DEF ExecutorInit
<1>4. xExisted \in BOOLEAN /\ xPending \in BOOLEAN
  BY Zenon DEF ExecutorInit
<1>5. ExecutorTypeOK
  BY <1>1, <1>2, <1>3, <1>4 DEF ExecutorInit, ExecutorTypeOK, Ended
<1> QED
  BY <1>5 DEF ExecutorInit, ExecutorIInv, FileStory, SumStory, ServiceStory, FailureRestores,
     Intact, BackedUp, Touched

(* What one response leaves. *)
LEMMA ResponseFacts ==
  ASSUME xJob \in Jobs, NEW f \in Files, NEW r \in Responses(f)
  PROVE  r.file \in Files /\ r.ok \in BOOLEAN
<1>1. xJob.ver \in Versions
  BY JobFacts
<1>2. \/ r = [file |-> f, ok |-> FALSE]
      \/ r = [file |-> NoFile, ok |-> FALSE]
      \/ \E all \in BOOLEAN : r = [file |-> Append1(f, xJob.ver, all), ok |-> all]
      \/ \E all \in BOOLEAN : r = [file |-> Append1(NoFile, xJob.ver, all), ok |-> all]
  BY Zenon DEF Responses
<1>3. ASSUME NEW g \in Files, r = [file |-> g, ok |-> FALSE] PROVE r.file \in Files /\ r.ok \in BOOLEAN
  <2>1. r.file = g /\ r.ok = FALSE
    BY <1>3
  <2> QED
    BY <2>1
<1>4. ASSUME NEW all \in BOOLEAN, NEW g \in Files, r = [file |-> Append1(g, xJob.ver, all), ok |-> all]
      PROVE  r.file \in Files /\ r.ok \in BOOLEAN
  <2>1. Append1(g, xJob.ver, all) \in Files
    BY <1>1, FileFacts
  <2>2. r.file = Append1(g, xJob.ver, all) /\ r.ok = all
    BY <1>4
  <2> QED
    BY <2>1, <2>2, Zenon
<1> QED
  BY <1>2, <1>3, <1>4, FileFacts, Zenon

(* A rollback restores the file of before or says that it could not. *)
LEMMA RollBackFacts ==
  ASSUME ExecutorIInv, xPc \in BackedUp \cup Touched, NEW s, NEW R, RollBack(s, R)
  PROVE  /\ xPc' = "failed"
         /\ xFile' \in Files
         /\ xRolled' \in {"no", "ok", "failed"}
         /\ xRolled' # "failed" /\ xBefore # NoFile => xFile' = xBefore
         /\ xSvc' \in {s} \cup R
<1>1. xRolled = "no" /\ xBak \in {NoFile, xBefore} /\ (xBak = NoFile => xBefore = NoFile \/ xFile = xBefore)
  BY DEF ExecutorIInv, FileStory, Intact, BackedUp, Touched
<1>2. CASE xBak = NoFile
  BY <1>1, <1>2 DEF RollBack, ExecutorIInv, ExecutorTypeOK
<1>3. CASE xBak # NoFile
  BY <1>1, <1>3 DEF RollBack, ExecutorIInv, ExecutorTypeOK
<1> QED
  BY <1>2, <1>3

(* Setting the temporary file of the command to another one. *)
LEMMA TmpFacts ==
  ASSUME xJob \in Jobs, xTmp \in [TmpNames -> Files], NEW f \in Files, SetTmp(f), xJob' = xJob
  PROVE  xTmp' \in [TmpNames -> Files] /\ Tmp' = f
<1>1. xJob.tmp \in TmpNames
  BY JobFacts
<1> QED
  BY <1>1 DEF SetTmp, Tmp

\* The stages of a command, one lemma each.
LEMMA ExecuteStep == ASSUME ExecutorIInv, NEW j \in Jobs, Execute(j) PROVE ExecutorIInv'
<1>1. /\ xPc' \in {"failed", "prehook", "reuse"} /\ (xPc' = "prehook" => ExecOnly(j))
      /\ (xPc' = "reuse" => ~ExecOnly(j))
  BY DEF Execute
<1>2. ExecOnly(j) => ~Swaps(j)
  BY DEF ExecOnly, Swaps
<1>3. xTry' = 0 /\ 0 < MaxRetries /\ xTry' \in 0 .. MaxRetries
  BY ExecutorAssumption DEF Execute
<1>4. xExisted' \in BOOLEAN /\ xPending' \in BOOLEAN
  BY Zenon DEF Execute
<1>5. ExecutorTypeOK'
  BY <1>1, <1>3, <1>4, FileFacts DEF Execute, ExecutorIInv, ExecutorTypeOK, Ended
<1> QED
  BY <1>1, <1>2, <1>3, <1>5 DEF Execute, ExecutorIInv, FileStory, SumStory, ServiceStory,
     FailureRestores, Intact, BackedUp, Touched

LEMMA DownloadStep == ASSUME ExecutorIInv, Download PROVE ExecutorIInv'
<1>0. xJob \in Jobs /\ xTmp \in [TmpNames -> Files] /\ xJob' = xJob
  BY DEF ExecutorIInv, ExecutorTypeOK, Download
<1>1. CASE xPc' = "backup" /\ UNCHANGED xTmp /\ VerifyChecksum(Tmp, xJob)
  <2>1. xJob'.sum => Tmp' = Whole(xJob'.ver)
    BY <1>0, <1>1 DEF VerifyChecksum, Tmp
  <2>2. ExecutorTypeOK'
    BY <1>1 DEF Download, ExecutorIInv, ExecutorTypeOK, Ended
  <2> QED
    BY <1>0, <1>1, <2>1, <2>2 DEF Download, ExecutorIInv, FileStory, SumStory, ServiceStory,
       FailureRestores, Intact, BackedUp, Touched
<1>2. CASE xPc' = "fetch" /\ (SetTmp(NoFile) \/ UNCHANGED xTmp)
  <2>1. xTmp' \in [TmpNames -> Files]
    BY <1>0, <1>2, TmpFacts, FileFacts
  <2>2. xTry' = 0 /\ 0 < MaxRetries
    BY <1>2, ExecutorAssumption DEF Download, ExecutorIInv
  <2>3. ExecutorTypeOK'
    BY <1>2, <2>1 DEF Download, ExecutorIInv, ExecutorTypeOK, Ended
  <2> QED
    BY <1>0, <1>2, <2>2, <2>3 DEF Download, ExecutorIInv, FileStory, SumStory, ServiceStory,
       FailureRestores, Intact, BackedUp, Touched
<1> QED
  BY <1>1, <1>2 DEF Download, VerifyChecksum

LEMMA DownloadGoStep == ASSUME ExecutorIInv, DownloadGo PROVE ExecutorIInv'
<1>0. xJob \in Jobs /\ xTmp \in [TmpNames -> Files] /\ xJob' = xJob /\ xTry < MaxRetries /\ xTry \in Nat
      /\ MaxRetries \in Nat /\ xTry' = xTry + 1
  BY ExecutorAssumption DEF ExecutorIInv, ExecutorTypeOK, DownloadGo
<1>1. Tmp \in Files
  BY <1>0, JobFacts DEF Tmp
<1>2. PICK r \in Responses(Tmp) :
        IF ~r.ok
        THEN SetTmp(r.file) /\ xPc' = NextTry
        ELSE IF VerifyChecksum(r.file, xJob)
             THEN SetTmp(r.file) /\ xPc' = "backup"
             ELSE SetTmp(NoFile) /\ xPc' = NextTry
  BY DEF DownloadGo
<1>3. r.file \in Files /\ r.ok \in BOOLEAN
  BY <1>0, <1>1, ResponseFacts
<1>4. xTmp' \in [TmpNames -> Files]
  BY <1>0, <1>2, <1>3, TmpFacts, FileFacts
<1>5. xTry' \in 0 .. MaxRetries
  BY <1>0
<1>6. xPc' = "backup" \/ (xPc' = "fetch" /\ xTry' < MaxRetries) \/ xPc' = "failed"
  BY <1>0, <1>2 DEF NextTry
<1>7. xPc' = "backup" /\ xJob.sum => Tmp' = Whole(xJob.ver)
  <2> SUFFICES ASSUME xPc' = "backup", xJob.sum PROVE Tmp' = Whole(xJob.ver)
    OBVIOUS
  <2>1. SetTmp(r.file) /\ r.file = Whole(xJob.ver)
    BY <1>2 DEF NextTry, VerifyChecksum
  <2> QED
    BY <1>0, <1>3, <2>1, TmpFacts
<1>8. ExecutorTypeOK'
  BY <1>4, <1>5, <1>6 DEF DownloadGo, ExecutorIInv, ExecutorTypeOK, Ended
<1> QED
  BY <1>0, <1>6, <1>7, <1>8 DEF DownloadGo, ExecutorIInv, FileStory, SumStory, ServiceStory,
     FailureRestores, Intact, BackedUp, Touched

LEMMA BackupStep == ASSUME ExecutorIInv, Backup PROVE ExecutorIInv'
<1>1. xJob \in Jobs /\ (Swaps(xJob) => ~ScriptMode(xJob))
  BY ReplacingPrograms DEF ExecutorIInv, ExecutorTypeOK
<1>2. ExecutorTypeOK'
  BY FileFacts DEF Backup, ExecutorIInv, ExecutorTypeOK, Ended
<1>3. Tmp' = Tmp /\ xJob' = xJob
  BY DEF Backup, Tmp
<1> QED
  BY <1>1, <1>2, <1>3 DEF Backup, ExecutorIInv, FileStory, SumStory, ServiceStory,
     FailureRestores, Intact, BackedUp, Touched

LEMMA PreInstallStep == ASSUME ExecutorIInv, PreInstall PROVE ExecutorIInv'
<1>1. ExecutorTypeOK'
  BY DEF PreInstall, ExecutorIInv, ExecutorTypeOK, Ended
<1>2. Tmp' = Tmp /\ xJob' = xJob
  BY DEF PreInstall, Tmp
<1> QED
  BY <1>1, <1>2 DEF PreInstall, ExecutorIInv, FileStory, SumStory, ServiceStory,
     FailureRestores, Intact, BackedUp, Touched

LEMMA StopStep == ASSUME ExecutorIInv, Stop PROVE ExecutorIInv'
<1>1. PICK e \in SvcAnswers :
        /\ xExisted' = (xJob.svc /\ e)
        /\ IF xJob.svc /\ e
           THEN \/ xPc' = "replace" /\ xSvc # "absent" /\ xSvc' = "stopped"
                \/ xPc' = (IF xJob.ignore THEN "replace" ELSE "failed") /\ UNCHANGED xSvc
           ELSE xPc' = "replace" /\ UNCHANGED xSvc
  BY Zenon DEF Stop
<1>2. xExisted' \in BOOLEAN
  BY <1>1, Zenon
<1>3. xPc' \in {"replace", "failed"} /\ xSvc' \in {xSvc, "stopped"}
  BY <1>1
<1>4. ExecutorTypeOK'
  BY <1>2, <1>3 DEF Stop, ExecutorIInv, ExecutorTypeOK, Ended
<1>5. Tmp' = Tmp /\ xJob' = xJob
  BY DEF Stop, Tmp
<1> QED
  BY <1>3, <1>4, <1>5 DEF Stop, ExecutorIInv, FileStory, SumStory, ServiceStory,
     FailureRestores, Intact, BackedUp, Touched

(* After a rollback, whatever stage it happened in. *)
LEMMA RollBackStep ==
  ASSUME ExecutorIInv, xPc \in BackedUp \cup Touched, NEW s \in {"absent", "stopped", "running"},
         NEW R \in SUBSET {"absent", "stopped", "running"},
         RollBack(s, R), xTmp' \in [TmpNames -> Files],
         UNCHANGED << xJob, xTry, xBak, xExisted, xBefore, xCrashes >>, xPending' \in BOOLEAN
  PROVE  ExecutorIInv'
<1>1. /\ xPc' = "failed" /\ xFile' \in Files /\ xRolled' \in {"no", "ok", "failed"}
      /\ (xRolled' # "failed" /\ xBefore # NoFile => xFile' = xBefore)
      /\ xSvc' \in {"absent", "stopped", "running"}
  BY RollBackFacts
<1>2. ExecutorTypeOK'
  BY <1>1 DEF ExecutorIInv, ExecutorTypeOK, Ended
<1> QED
  BY <1>1, <1>2 DEF ExecutorIInv, FileStory, SumStory, ServiceStory,
     FailureRestores, Intact, BackedUp, Touched

\* What scripts, starts and restarts may make of the service.
LEMMA ServiceFacts ==
  ASSUME ExecutorIInv
  PROVE  /\ ScriptMoves \in SUBSET {"absent", "stopped", "running"}
         /\ PostMoves \in SUBSET {"absent", "stopped", "running"}
         /\ \A s \in {"absent", "stopped", "running"} :
              /\ StartResults(s) \in SUBSET {"absent", "stopped", "running"}
              /\ RestartResults(s) \in SUBSET {"absent", "stopped", "running"}
         /\ \A s \in {"absent", "stopped", "running"} : s \in {"absent", "stopped", "running"}
BY DEF ExecutorIInv, ExecutorTypeOK, ScriptMoves, PostMoves, StartResults, RestartResults

LEMMA ReplaceStep == ASSUME ExecutorIInv, Replace PROVE ExecutorIInv'
<1>0. /\ xPc = "replace" /\ xJob \in Jobs /\ xTmp \in [TmpNames -> Files] /\ xSvc \in {"absent", "stopped", "running"}
      /\ UNCHANGED << xJob, xTry, xBak, xExisted, xPending, xBefore, xCrashes >>
  BY DEF Replace, ExecutorIInv, ExecutorTypeOK
<1>1. CASE Swaps(xJob) /\ xFile' = Tmp /\ SetTmp(NoFile) /\ UNCHANGED << xSvc, xRolled >>
           /\ xPc' = IF xJob.mode = "replace" THEN "start" ELSE "exec"
  <2>1. Tmp \in Files /\ xTmp' \in [TmpNames -> Files]
    BY <1>0, <1>1, JobFacts, FileFacts, TmpFacts DEF Tmp
  <2>2. xPc' \in {"start", "exec"}
    BY <1>1
  <2>3. ExecutorTypeOK'
    BY <1>0, <1>1, <2>1, <2>2 DEF ExecutorIInv, ExecutorTypeOK, Ended
  <2> QED
    BY <1>0, <1>1, <2>2, <2>3 DEF ExecutorIInv, FileStory, SumStory, ServiceStory,
       FailureRestores, Intact, BackedUp, Touched
<1>2. CASE xPc' = "failed" /\ UNCHANGED << xFile, xTmp, xSvc, xRolled >>
  <2>1. ExecutorTypeOK'
    BY <1>0, <1>2 DEF ExecutorIInv, ExecutorTypeOK, Ended
  <2> QED
    BY <1>0, <1>2, <2>1 DEF ExecutorIInv, FileStory, SumStory, ServiceStory,
       FailureRestores, Intact, BackedUp, Touched
<1>3. CASE RollBack(xSvc, StartResults(xSvc)) /\ UNCHANGED xTmp
  <2>1. StartResults(xSvc) \in SUBSET {"absent", "stopped", "running"} /\ xPending' \in BOOLEAN
        /\ xTmp' \in [TmpNames -> Files]
    BY <1>0, <1>3, ServiceFacts DEF ExecutorIInv, ExecutorTypeOK
  <2> QED
    BY <1>0, <1>3, <2>1, RollBackStep DEF BackedUp
<1>4. CASE ~Swaps(xJob) /\ xPc' = "exec" /\ UNCHANGED << xFile, xTmp, xSvc, xRolled >>
  <2>1. ExecutorTypeOK'
    BY <1>0, <1>4 DEF ExecutorIInv, ExecutorTypeOK, Ended
  <2> QED
    BY <1>0, <1>4, <2>1 DEF ExecutorIInv, FileStory, SumStory, ServiceStory,
       FailureRestores, Intact, BackedUp, Touched
<1> QED
  BY <1>1, <1>2, <1>3, <1>4 DEF Replace, Swaps

(* A stage after the backup that goes on, or fails with nothing to restore. *)
LEMMA TouchedStep ==
  ASSUME ExecutorIInv, xPc \in Touched, xPc' \in Touched \cup {"done"},
         xSvc' \in {"absent", "stopped", "running"}, xPending' \in BOOLEAN,
         UNCHANGED << xJob, xTry, xFile, xBak, xExisted, xBefore, xRolled, xCrashes >>,
         xTmp' \in [TmpNames -> Files], ServiceStory'
  PROVE  ExecutorIInv'
<1>1. ExecutorTypeOK'
  BY DEF ExecutorIInv, ExecutorTypeOK, Ended, Touched
<1> QED
  BY <1>1 DEF ExecutorIInv, FileStory, SumStory, FailureRestores, Intact, BackedUp, Touched

\* A stage that fails with no backup to put back leaves the file alone.
LEMMA NothingToRestore ==
  ASSUME ExecutorIInv, xPc \in Touched, xPc' = "failed",
         ~Swaps(xJob) \/ xBak = NoFile,
         xSvc' \in {"absent", "stopped", "running"}, xPending' \in BOOLEAN,
         UNCHANGED << xJob, xTry, xFile, xTmp, xBak, xExisted, xBefore, xRolled, xCrashes >>
  PROVE  ExecutorIInv'
<1>1. ExecutorTypeOK'
  BY DEF ExecutorIInv, ExecutorTypeOK, Ended, Touched
<1> QED
  BY <1>1 DEF ExecutorIInv, FileStory, SumStory, ServiceStory, FailureRestores, Intact, BackedUp, Touched

LEMMA ExecStep == ASSUME ExecutorIInv, ExecStage PROVE ExecutorIInv'
<1>0. /\ xPc = "exec" /\ xJob \in Jobs /\ xTmp' \in [TmpNames -> Files] /\ xPending' \in BOOLEAN
      /\ UNCHANGED << xJob, xTry, xTmp, xBak, xExisted, xPending, xBefore, xCrashes >>
      /\ xPc \in Touched
  BY DEF ExecStage, ExecutorIInv, ExecutorTypeOK, Touched
<1>1. CASE xPc' = "start" /\ xSvc' \in ScriptMoves /\ UNCHANGED << xFile, xRolled >>
  <2>1. xSvc' \in {"absent", "stopped", "running"} /\ ServiceStory'
    BY <1>1, ServiceFacts DEF ServiceStory
  <2> QED
    BY <1>0, <1>1, <2>1, TouchedStep DEF Touched
<1>2. CASE ScriptMode(xJob) /\ xPc' = "failed" /\ xSvc' \in ScriptMoves /\ UNCHANGED << xFile, xRolled >>
  <2>1. xSvc' \in {"absent", "stopped", "running"} /\ ~Swaps(xJob)
    BY <1>0, <1>2, ServiceFacts, ReplacingPrograms
  <2> QED
    BY <1>0, <1>2, <2>1, NothingToRestore
<1>3. ASSUME NEW s \in ScriptMoves, RollBack(s, StartResults(s)) PROVE ExecutorIInv'
  <2>1. s \in {"absent", "stopped", "running"} /\ StartResults(s) \in SUBSET {"absent", "stopped", "running"}
    BY ServiceFacts
  <2> QED
    BY <1>0, <1>3, <2>1, RollBackStep
<1> QED
  BY <1>1, <1>2, <1>3 DEF ExecStage

(* Starting the service from a stage after the backup. *)
LEMMA ServiceStep ==
  ASSUME ExecutorIInv, xPc \in Touched, NEW next \in {"posthook", "verify"}, StartService(next),
         UNCHANGED << xJob, xTry, xTmp, xBak, xExisted, xPending, xBefore, xCrashes >>
  PROVE  ExecutorIInv'
<1>0. /\ xJob \in Jobs /\ xTmp' \in [TmpNames -> Files] /\ xPending' \in BOOLEAN
      /\ xSvc \in {"absent", "stopped", "running"}
  BY DEF ExecutorIInv, ExecutorTypeOK
<1>1. CASE xSvc' = "running" /\ xPc' = next /\ UNCHANGED << xFile, xRolled >>
  <2>1. ServiceStory'
    BY <1>1 DEF ServiceStory
  <2> QED
    BY <1>0, <1>1, <2>1, TouchedStep DEF Touched
<1>2. CASE xJob.ignore /\ xPc' = next /\ UNCHANGED << xSvc, xFile, xRolled >>
  <2>1. ServiceStory'
    BY <1>2 DEF ServiceStory, Stays
  <2> QED
    BY <1>0, <1>2, <2>1, TouchedStep DEF Touched
<1>3. CASE xBak = NoFile /\ xPc' = "failed" /\ UNCHANGED << xSvc, xFile, xRolled >>
  BY <1>0, <1>3, NothingToRestore
<1>4. CASE RollBack(xSvc, StartResults(xSvc))
  <2>1. StartResults(xSvc) \in SUBSET {"absent", "stopped", "running"}
    BY <1>0, ServiceFacts
  <2> QED
    BY <1>0, <1>4, <2>1, RollBackStep
<1> QED
  BY <1>1, <1>2, <1>3, <1>4 DEF StartService

LEMMA StartStep == ASSUME ExecutorIInv, Start PROVE ExecutorIInv'
<1>0. /\ xPc = "start" /\ xPc \in Touched /\ xJob \in Jobs /\ xTmp' \in [TmpNames -> Files]
      /\ xSvc \in {"absent", "stopped", "running"} /\ xPending \in BOOLEAN
      /\ UNCHANGED << xJob, xTry, xTmp, xBak, xExisted, xBefore, xCrashes >>
  BY DEF Start, ExecutorIInv, ExecutorTypeOK, Touched
<1>1. CASE ~Stays(xJob) /\ xPc' = "posthook" /\ UNCHANGED << xSvc, xFile, xRolled, xPending >>
  <2>1. ServiceStory'
    BY <1>0, <1>1 DEF ServiceStory, Stays
  <2> QED
    BY <1>0, <1>1, <2>1, TouchedStep DEF Touched
<1>2. CASE StartService("posthook") /\ UNCHANGED xPending
  BY <1>0, <1>2, ServiceStep
<1>3. CASE xPending' = TRUE /\ xPc' = "posthook" /\ UNCHANGED << xSvc, xFile, xRolled >>
  <2>1. ServiceStory' /\ xPending' \in BOOLEAN
    BY <1>3 DEF ServiceStory
  <2> QED
    BY <1>0, <1>3, <2>1, TouchedStep DEF Touched
<1> QED
  BY <1>1, <1>2, <1>3 DEF Start, Stays

LEMMA PostInstallStep == ASSUME ExecutorIInv, PostInstall PROVE ExecutorIInv'
<1>0. /\ xPc = "posthook" /\ xPc \in Touched /\ xJob \in Jobs /\ xTmp' \in [TmpNames -> Files]
      /\ xSvc \in {"absent", "stopped", "running"} /\ xPending' \in BOOLEAN
      /\ UNCHANGED << xJob, xTry, xTmp, xBak, xExisted, xPending, xBefore, xCrashes >>
  BY DEF PostInstall, ExecutorIInv, ExecutorTypeOK, Touched
<1>1. CASE xPc' = "pending" /\ xSvc' \in PostMoves /\ UNCHANGED << xFile, xRolled >>
  <2>1. xSvc' \in {"absent", "stopped", "running"}
    BY <1>1, ServiceFacts
  <2>2. ServiceStory'
    BY <1>0, <1>1 DEF ServiceStory, PostMoves, ExecutorIInv
  <2> QED
    BY <1>0, <1>1, <2>1, <2>2, TouchedStep DEF Touched
<1>2. CASE RollBack(xSvc, RestartResults(xSvc))
  <2>1. RestartResults(xSvc) \in SUBSET {"absent", "stopped", "running"}
    BY <1>0, ServiceFacts
  <2> QED
    BY <1>0, <1>2, <2>1, RollBackStep
<1> QED
  BY <1>1, <1>2 DEF PostInstall

LEMMA PendingStartStep == ASSUME ExecutorIInv, PendingStart PROVE ExecutorIInv'
<1>0. /\ xPc = "pending" /\ xPc \in Touched /\ xJob \in Jobs /\ xTmp' \in [TmpNames -> Files]
      /\ xSvc \in {"absent", "stopped", "running"} /\ xPending' \in BOOLEAN
      /\ UNCHANGED << xJob, xTry, xTmp, xBak, xExisted, xPending, xBefore, xCrashes >>
  BY DEF PendingStart, ExecutorIInv, ExecutorTypeOK, Touched
<1>1. CASE StartService("verify")
  BY <1>0, <1>1, ServiceStep
<1>2. CASE (~xPending \/ xSvc = "absent") /\ xPc' = "verify" /\ UNCHANGED << xSvc, xFile, xRolled >>
  <2>1. ServiceStory'
    BY <1>0, <1>2 DEF ServiceStory, ExecutorIInv
  <2> QED
    BY <1>0, <1>2, <2>1, TouchedStep DEF Touched
<1> QED
  BY <1>1, <1>2 DEF PendingStart, SvcAnswers

LEMMA VerifyStep == ASSUME ExecutorIInv, Verify PROVE ExecutorIInv'
<1>0. /\ xPc = "verify" /\ xPc \in Touched /\ xJob \in Jobs /\ xTmp \in [TmpNames -> Files]
      /\ xSvc \in {"absent", "stopped", "running"} /\ xPending' \in BOOLEAN
      /\ UNCHANGED << xJob, xTry, xBak, xExisted, xPending, xBefore, xCrashes >>
  BY DEF Verify, ExecutorIInv, ExecutorTypeOK, Touched
<1>1. CASE xPc' = "done" /\ (UNCHANGED xTmp \/ SetTmp(NoFile)) /\ UNCHANGED << xFile, xSvc, xRolled >>
  <2>1. xTmp' \in [TmpNames -> Files]
    BY <1>0, <1>1, TmpFacts, FileFacts
  <2>2. ServiceStory'
    BY <1>0, <1>1 DEF ServiceStory, ExecutorIInv
  <2> QED
    BY <1>0, <1>1, <2>1, <2>2, TouchedStep
<1>2. CASE RollBack(xSvc, RestartResults(xSvc)) /\ UNCHANGED xTmp
  <2>1. RestartResults(xSvc) \in SUBSET {"absent", "stopped", "running"} /\ xTmp' \in [TmpNames -> Files]
    BY <1>0, <1>2, ServiceFacts
  <2> QED
    BY <1>0, <1>2, <2>1, RollBackStep
<1> QED
  BY <1>1, <1>2 DEF Verify

LEMMA CrashStep == ASSUME ExecutorIInv, ExecutorCrash PROVE ExecutorIInv'
<1>1. xCrashes' \in 0 .. MaxCrashes
  BY ExecutorAssumption DEF ExecutorCrash, ExecutorIInv, ExecutorTypeOK
<1>2. ExecutorTypeOK'
  BY <1>1, FileFacts DEF ExecutorCrash, ExecutorIInv, ExecutorTypeOK, Ended
<1> QED
  BY <1>2 DEF ExecutorCrash, ExecutorIInv, FileStory, SumStory, ServiceStory,
     FailureRestores, Intact, BackedUp, Touched

LEMMA ExecutorKeeps == ExecutorIInv /\ [ExecutorNext]_xVars => ExecutorIInv'
<1> SUFFICES ASSUME ExecutorIInv, [ExecutorNext]_xVars PROVE ExecutorIInv'
  OBVIOUS
<1>1. CASE UNCHANGED xVars
  BY <1>1 DEF xVars, ExecutorIInv, ExecutorTypeOK, FileStory, SumStory, ServiceStory,
     FailureRestores, Tmp
<1>2. CASE ExecutorStep
  BY <1>2, DownloadStep, DownloadGoStep, BackupStep, PreInstallStep, StopStep, ReplaceStep,
     ExecStep, StartStep, PostInstallStep, PendingStartStep, VerifyStep DEF ExecutorStep
<1>3. CASE ExecutorCrash
  BY <1>3, CrashStep
<1>4. ASSUME NEW j \in Jobs, Execute(j) PROVE ExecutorIInv'
  BY <1>4, ExecuteStep
<1> QED
  BY <1>1, <1>2, <1>3, <1>4 DEF ExecutorNext

-----------------------------------------------------------------------------
(* The replacement of the program under its watchdog *)

SwapIInv ==
  /\ uProg \in Images \cup {Torn}
  /\ uBaks \in Seq(Images \cup {Torn})
  /\ uProc \in [Procs -> {"off", "wait", "up", "copied"}]
  /\ uImage \in [Procs -> Images]
  /\ uCount \in 0 .. 3 /\ uSeen \in 0 .. 3 /\ uSilent \in 0 .. 3
  /\ uFresh \in BOOLEAN
  /\ uDog \in {"idle", "judge", "start"}
  /\ uUpdates \in 0 .. MaxUpdates /\ uCuts \in 0 .. MaxCuts
  /\ uCount <= uSilent
  /\ uCuts = 0 => uProg # Torn /\ \A i \in 1 .. Len(uBaks) : uBaks[i] # Torn

LEMMA SwapBegins == SelfUpdateInit => SwapIInv
<1> SUFFICES ASSUME SelfUpdateInit PROVE SwapIInv
  OBVIOUS
<1>1. uProg \in Images /\ uProg # Torn
  BY SelfUpdateAssumption DEF SelfUpdateInit
<1>2. uUpdates \in 0 .. MaxUpdates /\ uCuts \in 0 .. MaxCuts
  BY SelfUpdateAssumption DEF SelfUpdateInit
<1>3. uBaks \in Seq(Images \cup {Torn}) /\ Len(uBaks) = 0
  BY DEF SelfUpdateInit
<1>4. uImage \in [Procs -> Images]
  BY <1>1 DEF SelfUpdateInit
<1>5. uProc \in [Procs -> {"off", "wait", "up", "copied"}]
  BY DEF SelfUpdateInit
<1>6. uCount = 0 /\ uSeen = 0 /\ uSilent = 0 /\ uFresh = FALSE /\ uDog = "idle"
  BY DEF SelfUpdateInit
<1>7. \A i \in 1 .. Len(uBaks) : uBaks[i] # Torn
  BY <1>3
<1>8. uFresh \in BOOLEAN
  BY <1>6
<1> QED
  BY <1>1, <1>2, <1>3, <1>4, <1>5, <1>6, <1>7, <1>8 DEF SwapIInv

(* A backup joins the others. *)
LEMMA BackupJoins ==
  ASSUME uBaks \in Seq(Images \cup {Torn}), NEW b \in Images \cup {Torn}, uBaks' = Append(uBaks, b)
  PROVE  /\ uBaks' \in Seq(Images \cup {Torn})
         /\ \A i \in 1 .. Len(uBaks') : uBaks'[i] = b \/ \E k \in 1 .. Len(uBaks) : uBaks'[i] = uBaks[k]
OBVIOUS

LEMMA SwapStep == SwapIInv /\ [SelfUpdateNext]_uVars => SwapIInv'
<1> SUFFICES ASSUME SwapIInv, [SelfUpdateNext]_uVars PROVE SwapIInv'
  OBVIOUS
<1>0. MaxUpdates \in Nat /\ MaxCuts \in Nat /\ Torn \notin Images
  BY SelfUpdateAssumption
<1>1. CASE UNCHANGED uVars
  BY <1>1 DEF uVars, SwapIInv
<1>2. CASE ServiceStart
  BY <1>2 DEF ServiceStart, Launch, SwapIInv
<1>3. CASE HeartbeatAges
  BY <1>3 DEF HeartbeatAges, SwapIInv
<1>4. CASE WatchdogCheck
  <2>1. uCount' \in 0 .. 3 /\ uSeen' \in 0 .. 3 /\ uSilent' \in 0 .. 3 /\ uCount' <= uSilent'
    BY <1>4 DEF WatchdogCheck, SwapIInv
  <2> QED
    BY <1>4, <2>1 DEF WatchdogCheck, SwapIInv
<1>5. CASE WatchdogJudge
  <2>1. uBaks # << >> => Newest \in Images \cup {Torn} /\ (uCuts = 0 => Newest # Torn)
    <3> SUFFICES ASSUME uBaks # << >> PROVE Newest \in Images \cup {Torn} /\ (uCuts = 0 => Newest # Torn)
      OBVIOUS
    <3>1. Len(uBaks) \in 1 .. Len(uBaks)
      BY DEF SwapIInv
    <3> QED
      BY <3>1 DEF SwapIInv, Newest
  <2> QED
    BY <1>5, <2>1 DEF WatchdogJudge, SwapIInv
<1>6. CASE WatchdogStart
  BY <1>6 DEF WatchdogStart, Launch, SwapIInv
<1>7. ASSUME NEW p \in Procs, waitRunLock(p) \/ Heartbeat(p) \/ Die(p) \/ SelfReplaceFails(p)
      PROVE  SwapIInv'
  <2>1. CASE Heartbeat(p)
    <3>1. uFresh' \in BOOLEAN /\ uCount' = 0 /\ uSilent' = 0
      BY <2>1 DEF Heartbeat
    <3> QED
      BY <2>1, <3>1 DEF Heartbeat, SwapIInv
  <2>2. CASE waitRunLock(p) \/ Die(p) \/ SelfReplaceFails(p)
    BY <2>2 DEF waitRunLock, Die, SelfReplaceFails, SwapIInv
  <2> QED
    BY <1>7, <2>1, <2>2
<1>8. ASSUME NEW p \in Procs, SelfBackup(p) PROVE SwapIInv'
  <2>1. /\ uBaks' \in Seq(Images \cup {Torn})
        /\ \A i \in 1 .. Len(uBaks') : uBaks'[i] = uProg \/ \E k \in 1 .. Len(uBaks) : uBaks'[i] = uBaks[k]
    BY <1>8, BackupJoins DEF SelfBackup, SwapIInv
  <2>2. uUpdates' \in 0 .. MaxUpdates
    BY <1>0, <1>8 DEF SelfBackup, SwapIInv
  <2>3. uCuts' = 0 => uProg' # Torn /\ \A i \in 1 .. Len(uBaks') : uBaks'[i] # Torn
    BY <1>8, <2>1 DEF SelfBackup, SwapIInv
  <2> QED
    BY <1>8, <2>1, <2>2, <2>3 DEF SelfBackup, SwapIInv
<1>9. ASSUME NEW p \in Procs, SelfBackupCut(p) PROVE SwapIInv'
  <2>1. uBaks' \in Seq(Images \cup {Torn})
    BY <1>9, BackupJoins DEF SelfBackupCut, SwapIInv
  <2>2. uUpdates' \in 0 .. MaxUpdates /\ uCuts' \in 0 .. MaxCuts /\ uCuts' # 0
    BY <1>0, <1>9 DEF SelfBackupCut, SwapIInv
  <2> QED
    BY <1>9, <2>1, <2>2 DEF SelfBackupCut, SwapIInv
<1>10. ASSUME NEW p \in Procs, NEW v \in Images, SelfReplace(p, v) PROVE SwapIInv'
  BY <1>0, <1>10 DEF SelfReplace, SwapIInv
<1> QED
  BY <1>1, <1>2, <1>3, <1>4, <1>5, <1>6, <1>7, <1>8, <1>9, <1>10 DEF SelfUpdateNext, WatchdogStep

\* What is kept implies what the run checks.
LEMMA SwapHolds == SwapIInv => SelfUpdateTypeOK /\ TornNeedsCut
BY SelfUpdateAssumption DEF SwapIInv, SelfUpdateTypeOK, TornNeedsCut

\* The counter of the watchdog never runs ahead of the silence.
LEMMA RollbackIsLate ==
  SwapIInv /\ [SelfUpdateNext]_uVars
    => [uDog = "idle" /\ uDog' = "judge" /\ uSeen' >= 3 => uSilent' >= 3]_uVars
<1> SUFFICES ASSUME SwapIInv, SelfUpdateNext, uDog = "idle", uDog' = "judge", uSeen' >= 3
             PROVE  uSilent' >= 3
  BY DEF uVars
<1>1. WatchdogCheck
  BY DEF SelfUpdateNext, ServiceStart, HeartbeatAges, WatchdogStep, WatchdogJudge, WatchdogStart,
     waitRunLock, Heartbeat, Die, SelfBackup, SelfBackupCut, SelfReplaceFails, SelfReplace
<1> QED
  BY <1>1 DEF WatchdogCheck, SwapIInv

-----------------------------------------------------------------------------
(* The state file *)

Contents == [kind : {"empty", "garbage", "good"}, id : Nat]

\* What is written keeps the identity of the disk, unless it writes none.
Keeps(c) == c.kind = "good" /\ (Disk.id = 0 \/ c.id \in {0, Disk.id})

\* A writer that is alone writes a whole state to a temporary file of its own.
AloneIsSafe(w) ==
  /\ fPc[w] \in {"open", "write"} => Keeps(fBuf[w])
  /\ fPc[w] = "write" => fFd[w] = fTmp /\ fData[fTmp] = Empty
  /\ fPc[w] \in {"write", "rename"} => fTmp # 0
  /\ fPc[w] = "rename" => Keeps(fData[fTmp])

StateTypes ==
  /\ fPath \in Inodes /\ fTmp \in Inodes \cup {0}
  /\ fData \in [Inodes -> Contents]
  /\ fPc \in [Writers -> {"idle", "open", "write", "rename", "restart"}]
  /\ fFd \in [Writers -> Inodes \cup {0}]
  /\ fBuf \in [Writers -> Contents]
  /\ fReg \in 0 .. MaxIdentity
  /\ fMem \in 0 .. fReg /\ fWait \in -1 .. fReg
  /\ fAlive \in BOOLEAN
  /\ fMeets \in 0 .. MaxMeets /\ fDeaths \in 0 .. MaxDeaths
  /\ \A i \in Inodes : fData[i].id <= fReg
  /\ \A w \in Writers : fBuf[w].id <= fReg

StateIInv ==
  /\ StateTypes
  /\ fTmp # fPath
  /\ fMeets = 0 =>
       /\ Disk.kind = "good"
       /\ \A w \in Writers : AloneIsSafe(w)
       /\ \A v, w \in Writers : fPc[v] # "idle" /\ fPc[w] # "idle" => v = w

\* What is kept implies what the run checks.
LEMMA StateHolds == StateIInv => StateFileTypeOK /\ TornNeedsMeeting
<1> SUFFICES ASSUME StateIInv PROVE StateFileTypeOK /\ TornNeedsMeeting
  OBVIOUS
<1>1. fMeets \in Nat
  BY StateFileAssumption DEF StateIInv, StateTypes
<1>2. TornNeedsMeeting
  BY <1>1 DEF StateIInv, TornNeedsMeeting
<1>3. \A i \in Inodes : fData[i] \in [kind : {"empty", "garbage", "good"}, id : 0 .. MaxIdentity]
  BY StateFileAssumption DEF StateIInv, StateTypes, Contents
<1>4. fData \in [Inodes -> [kind : {"empty", "garbage", "good"}, id : 0 .. MaxIdentity]]
  BY <1>3 DEF StateIInv, StateTypes
<1> QED
  BY <1>2, <1>4 DEF StateIInv, StateTypes, StateFileTypeOK

\* The contents a file may have.
LEMMA ContentFacts ==
  /\ Empty \in Contents /\ Garbage \in Contents
  /\ \A n \in Nat : Good(n) \in Contents
  /\ Empty.id = 0 /\ Garbage.id = 0 /\ \A n \in Nat : Good(n).id = n /\ Good(n).kind = "good"
BY DEF Empty, Garbage, Good, Contents

LEMMA StateBegins == StateFileInit => StateIInv
<1> SUFFICES ASSUME StateFileInit PROVE StateIInv
  OBVIOUS
<1>1. fData \in [Inodes -> Contents] /\ \A i \in Inodes : fData[i].id <= 0
  BY ContentFacts DEF StateFileInit
<1>2. fBuf \in [Writers -> Contents] /\ \A w \in Writers : fBuf[w].id <= 0
  BY ContentFacts DEF StateFileInit
<1>3. Disk.kind = "good"
  BY ContentFacts DEF StateFileInit, Disk, Inodes
<1>4. StateTypes
  BY <1>1, <1>2, StateFileAssumption DEF StateFileInit, StateTypes, Inodes
<1> QED
  BY <1>3, <1>4 DEF StateFileInit, StateIInv, AloneIsSafe

(* Five files are enough for two names and three writers. *)
LEMMA FreeInodeExists ==
  ASSUME StateTypes, fTmp = 0
  PROVE  FreeInode \in Inodes /\ FreeInode # fPath
<1>1. \E i \in Inodes : i # fPath /\ i # fFd["agent"] /\ i # fFd["watchdog"] /\ i # fFd["installer"]
  BY DEF StateTypes, Inodes, Writers
<1>2. \E i \in Inodes : i \notin InUse
  BY <1>1 DEF InUse, Inodes, Writers
<1>3. FreeInode \in Inodes /\ FreeInode \notin InUse
  BY <1>2, Zenon DEF FreeInode
<1> QED
  BY <1>3 DEF InUse

\* The file at the name, and its contents.
LEMMA DiskFacts ==
  ASSUME StateTypes
  PROVE  Disk \in Contents /\ Disk.id \in 0 .. fReg /\ fReg \in Nat
BY StateFileAssumption DEF StateTypes, Disk, Contents

(* A writer begins: it is alone, or a meeting is counted. *)
LEMMA BeginStep ==
  ASSUME StateIInv, NEW w \in Writers, NEW c \in Contents, fPc[w] = "idle", Begin(w, c),
         c.id <= fReg, fMeets = 0 => Keeps(c),
         UNCHANGED << fPath, fTmp, fData, fFd, fMem, fReg, fWait, fDeaths >>, fAlive' \in BOOLEAN
  PROVE  StateIInv'
<1> DEFINE met == IF \E x \in Writers \ {w} : fPc[x] # "idle" THEN 1 ELSE 0
<1>1. /\ fBuf' = [fBuf EXCEPT ![w] = c] /\ fPc' = [fPc EXCEPT ![w] = "open"]
      /\ fMeets + met <= MaxMeets /\ fMeets' = fMeets + met
  BY Zenon DEF Begin
<1>2. met \in {0, 1} /\ (met = 0 => \A x \in Writers \ {w} : fPc[x] = "idle")
  OBVIOUS
<1> HIDE DEF met
<1>3. fMeets \in Nat /\ MaxMeets \in Nat
  BY StateFileAssumption DEF StateIInv, StateTypes
<1>4. fMeets' \in 0 .. MaxMeets /\ (fMeets' = 0 => fMeets = 0 /\ met = 0)
  BY <1>1, <1>2, <1>3
<1>5. StateTypes'
  BY <1>1, <1>4 DEF StateIInv, StateTypes
<1>6. ASSUME fMeets' = 0
      PROVE  /\ Disk'.kind = "good"
             /\ \A x \in Writers : AloneIsSafe(x)'
             /\ \A v, x \in Writers : fPc'[v] # "idle" /\ fPc'[x] # "idle" => v = x
  <2>1. Disk' = Disk
    BY DEF Disk
  <2>2. \A x \in Writers : x # w => fPc'[x] = "idle"
    BY <1>1, <1>2, <1>4, <1>6 DEF StateIInv, StateTypes
  <2>3. fPc'[w] = "open" /\ fBuf'[w] = c
    BY <1>1 DEF StateIInv, StateTypes
  <2>4. \A x \in Writers : AloneIsSafe(x)'
    BY <1>4, <1>6, <2>1, <2>2, <2>3 DEF AloneIsSafe, Keeps
  <2> QED
    BY <1>4, <1>6, <2>1, <2>2, <2>4 DEF StateIInv
<1> QED
  BY <1>5, <1>6 DEF StateIInv

(* What the file, the writers' steps and what they write have to do with each
   other does not change where only the rest does. *)
LEMMA QuietStep ==
  ASSUME StateIInv, UNCHANGED << fPath, fTmp, fData, fPc, fFd, fBuf, fMeets >>, StateTypes'
  PROVE  StateIInv'
<1>1. Disk' = Disk
  BY DEF Disk
<1>2. \A w \in Writers : AloneIsSafe(w)' <=> AloneIsSafe(w)
  BY <1>1 DEF AloneIsSafe, Keeps
<1> QED
  BY <1>1, <1>2 DEF StateIInv

\* The agent's own steps: it registers, saves, loads, or a second process
\* does.
\* The agent's own steps: it registers, saves, loads, or a second process
\* does.
LEMMA AgentStep ==
  ASSUME StateIInv, Register \/ saveState \/ LoadState \/ SecondLoads \/ SecondTakesOver
  PROVE  StateIInv'
<1>0. StateTypes /\ Disk \in Contents /\ Disk.id \in 0 .. fReg /\ fReg \in Nat /\ MaxIdentity \in Nat
  BY DiskFacts, StateFileAssumption DEF StateIInv
<1>1. CASE Register
  <2>1. StateTypes'
    BY <1>0, <1>1 DEF Register, StateTypes, Contents
  <2> QED
    BY <1>1, <2>1, QuietStep DEF Register
<1>2. CASE saveState
  <2>1. CASE Disk.kind = "good" /\ Disk.id \notin {0, fMem}
    <3>1. fAlive' \in BOOLEAN
      BY <1>2, <2>1, Zenon DEF saveState
    <3>2. StateTypes'
      BY <1>0, <1>2, <2>1, <3>1 DEF saveState, StateTypes
    <3> QED
      BY <1>2, <2>1, <3>2, QuietStep DEF saveState
  <2>2. CASE ~(Disk.kind = "good" /\ Disk.id \notin {0, fMem})
    <3>1. fMem \in Nat /\ fMem <= fReg
      BY <1>0 DEF StateTypes
    <3>2. Good(fMem) \in Contents /\ Good(fMem).id <= fReg /\ (fMeets = 0 => Keeps(Good(fMem)))
      BY <2>2, <3>1, ContentFacts DEF StateIInv, Keeps
    <3>3. /\ Begin("agent", Good(fMem)) /\ fPc["agent"] = "idle" /\ fAlive' \in BOOLEAN /\ "agent" \in Writers
          /\ UNCHANGED << fPath, fTmp, fData, fFd, fMem, fReg, fWait, fDeaths >>
      BY <1>0, <1>2, <2>2, Zenon DEF saveState, Writers, StateTypes
    <3> QED
      BY <3>2, <3>3, BeginStep
  <2> QED
    BY <2>1, <2>2
<1>3. CASE LoadState
  <2>1. fAlive' \in BOOLEAN /\ fMem' \in 0 .. fReg
    BY <1>0, <1>3 DEF LoadState
  <2>2. StateTypes'
    BY <1>0, <1>3, <2>1 DEF LoadState, StateTypes
  <2> QED
    BY <1>3, <2>2, QuietStep DEF LoadState
<1>4. CASE SecondLoads
  <2>1. fWait' \in -1 .. fReg
    BY <1>0, <1>4 DEF SecondLoads
  <2>2. StateTypes'
    BY <1>0, <1>4, <2>1 DEF SecondLoads, StateTypes
  <2> QED
    BY <1>4, <2>2, QuietStep DEF SecondLoads
<1>5. CASE SecondTakesOver
  <2>1. fAlive' \in BOOLEAN /\ fMem' \in 0 .. fReg /\ fWait' \in -1 .. fReg
    BY <1>0, <1>5 DEF SecondTakesOver, StateTypes
  <2>2. StateTypes'
    BY <1>0, <1>5, <2>1 DEF SecondTakesOver, StateTypes
  <2> QED
    BY <1>5, <2>2, QuietStep DEF SecondTakesOver
<1> QED
  BY <1>1, <1>2, <1>3, <1>4, <1>5

\* The watchdog and the installer begin a write.
LEMMA OthersBegin ==
  ASSUME StateIInv, updateState \/ \E force \in BOOLEAN : writeInitialState(force)
  PROVE  StateIInv'
<1>0. StateTypes /\ Disk \in Contents /\ Disk.id \in 0 .. fReg /\ fReg \in Nat /\ fAlive \in BOOLEAN
  BY DiskFacts DEF StateIInv, StateTypes
<1>1. CASE updateState
  <2>1. fMeets = 0 => Keeps(Disk)
    BY <1>1 DEF updateState, Keeps
  <2>2. "watchdog" \in Writers /\ Disk.id <= fReg
    BY <1>0 DEF Writers
  <2> QED
    BY <1>0, <1>1, <2>1, <2>2, BeginStep DEF updateState
<1>2. ASSUME NEW force \in BOOLEAN, writeInitialState(force) PROVE StateIInv'
  <2> DEFINE c == IF ~force /\ Disk.kind = "good" /\ Disk.id # 0 THEN Disk ELSE Good(0)
  <2>1. c \in Contents /\ c.id <= fReg /\ Keeps(c)
    BY <1>0, ContentFacts DEF Keeps
  <2>2. Begin("installer", c) /\ "installer" \in Writers /\ fPc["installer"] = "idle"
        /\ UNCHANGED << fPath, fTmp, fData, fFd, fMem, fAlive, fReg, fWait, fDeaths >>
    BY <1>2 DEF writeInitialState, Writers
  <2> HIDE DEF c
  <2> QED
    BY <1>0, <2>1, <2>2, BeginStep
<1> QED
  BY <1>1, <1>2

(* A writer that ends, by death or by a restart, leaves the files alone. *)
LEMMA WriterEnds ==
  ASSUME StateIInv, UNCHANGED << fPath, fTmp, fData, fMem, fReg, fMeets, fWait >>,
         StateTypes',
         \A w \in Writers : fPc'[w] = "idle" \/ (fPc'[w] = fPc[w] /\ fFd'[w] = fFd[w] /\ fBuf'[w] = fBuf[w])
  PROVE  StateIInv'
<1>1. Disk' = Disk
  BY DEF Disk
<1>2. \A w \in Writers : AloneIsSafe(w) => AloneIsSafe(w)'
  BY <1>1 DEF AloneIsSafe, Keeps
<1> QED
  BY <1>1, <1>2 DEF StateIInv

\* The installer restarts the agent, or a writer dies.
LEMMA EndStep ==
  ASSUME StateIInv, InstallerRestarts \/ \E w \in Writers : WriterDies(w)
  PROVE  StateIInv'
<1>0. StateTypes /\ MaxDeaths \in Nat /\ fReg \in Nat
  BY StateFileAssumption DEF StateIInv, StateTypes
<1>1. CASE InstallerRestarts
  <2>1. fAlive' \in BOOLEAN
    BY <1>1, Zenon DEF InstallerRestarts
  <2>2. fBuf' \in [Writers -> Contents] /\ \A w \in Writers : fBuf'[w].id <= fReg
    <3>1. fBuf' = [fBuf EXCEPT !["agent"] = Empty]
      BY <1>1 DEF InstallerRestarts
    <3>2. Empty \in Contents /\ Empty.id = 0
      BY ContentFacts
    <3>3. fBuf \in [Writers -> Contents] /\ \A w \in Writers : fBuf[w].id <= fReg
      BY <1>0 DEF StateTypes
    <3>4. \A w \in Writers : fBuf'[w] = Empty \/ fBuf'[w] = fBuf[w]
      BY <3>1, <3>3
    <3>5. fBuf' \in [Writers -> Contents]
      BY <3>1, <3>2, <3>3
    <3>6. 0 <= fReg
      BY <1>0
    <3> QED
      BY <3>2, <3>3, <3>4, <3>5, <3>6
  <2>3. StateTypes'
    BY <1>0, <1>1, <2>1, <2>2 DEF InstallerRestarts, StateTypes
  <2> QED
    BY <1>0, <1>1, <2>3, WriterEnds DEF InstallerRestarts, StateTypes
<1>2. ASSUME NEW w \in Writers, WriterDies(w) PROVE StateIInv'
  <2>1. fAlive' \in BOOLEAN
    BY <1>0, <1>2, Zenon DEF WriterDies, StateTypes
  <2>2. fBuf' \in [Writers -> Contents] /\ \A x \in Writers : fBuf'[x].id <= fReg
    BY <1>0, <1>2, ContentFacts DEF WriterDies, StateTypes
  <2>3. StateTypes'
    BY <1>0, <1>2, <2>1, <2>2 DEF WriterDies, StateTypes
  <2> QED
    BY <1>0, <1>2, <2>3, WriterEnds DEF WriterDies, StateTypes
<1> QED
  BY <1>1, <1>2

(* While two writers have not met, the one that is at work is the only one. *)
LEMMA OnlyWriter ==
  ASSUME StateIInv, fMeets = 0, NEW w \in Writers, fPc[w] # "idle", NEW x \in Writers, x # w
  PROVE  fPc[x] = "idle"
BY DEF StateIInv

\* The three calls of a save: the temporary file, its contents, the rename.
LEMMA OpenStep == ASSUME StateIInv, NEW w \in Writers, Open(w) PROVE StateIInv'
<1> DEFINE i == IF fTmp = 0 THEN FreeInode ELSE fTmp
<1>1. /\ fTmp' = i /\ fData' = [fData EXCEPT ![i] = Empty] /\ fFd' = [fFd EXCEPT ![w] = i]
      /\ fPc[w] = "open" /\ fPc' = [fPc EXCEPT ![w] = "write"]
      /\ UNCHANGED << fPath, fBuf, fMem, fAlive, fReg, fMeets, fWait, fDeaths >>
  BY DEF Open
<1>2. i \in Inodes /\ i # fPath /\ i # 0
  BY FreeInodeExists DEF StateIInv, StateTypes, Inodes
<1> HIDE DEF i
<1>3. fData' \in [Inodes -> Contents] /\ (\A k \in Inodes : fData'[k].id <= fReg) /\ fReg \in Nat
  BY <1>1, <1>2, ContentFacts, StateFileAssumption DEF StateIInv, StateTypes
<1>4. StateTypes'
  BY <1>1, <1>2, <1>3 DEF StateIInv, StateTypes
<1>5. Disk' = Disk
  BY <1>1, <1>2 DEF Disk, StateIInv, StateTypes
<1>6. ASSUME fMeets' = 0 PROVE \A x \in Writers : AloneIsSafe(x)'
  <2>1. \A x \in Writers : x # w => fPc'[x] = "idle"
    BY <1>1, <1>6, OnlyWriter DEF StateIInv, StateTypes
  <2>2. fPc'[w] = "write" /\ fFd'[w] = i /\ fData'[i] = Empty /\ Keeps(fBuf[w])
    BY <1>1, <1>2, <1>6 DEF StateIInv, StateTypes, AloneIsSafe
  <2> QED
    BY <1>1, <1>2, <1>5, <2>1, <2>2 DEF AloneIsSafe, Keeps
<1>7. \A v, x \in Writers : fMeets' = 0 /\ fPc'[v] # "idle" /\ fPc'[x] # "idle" => v = x
  BY <1>1 DEF StateIInv, StateTypes
<1> QED
  BY <1>1, <1>2, <1>4, <1>5, <1>6, <1>7 DEF StateIInv

LEMMA WriteStep == ASSUME StateIInv, NEW w \in Writers, Write(w) PROVE StateIInv'
<1>1. PICK c \in {fBuf[w]} \cup (IF fData[fFd[w]] = Empty THEN {} ELSE {Garbage}) :
        fData' = [fData EXCEPT ![fFd[w]] = c]
  BY DEF Write
<1>2. /\ fPc[w] = "write" /\ fPc' = [fPc EXCEPT ![w] = "rename"]
      /\ fFd' = [fFd EXCEPT ![w] = 0] /\ fBuf' = [fBuf EXCEPT ![w] = Empty]
      /\ UNCHANGED << fPath, fTmp, fMem, fAlive, fReg, fMeets, fWait, fDeaths >>
  BY DEF Write
<1>3. c \in Contents /\ c.id <= fReg /\ fReg \in Nat
  BY <1>1, ContentFacts, StateFileAssumption DEF StateIInv, StateTypes
<1>4. fData' \in [Inodes -> Contents] /\ (\A k \in Inodes : fData'[k].id <= fReg)
  BY <1>1, <1>3 DEF StateIInv, StateTypes
<1>5. fBuf' \in [Writers -> Contents] /\ (\A x \in Writers : fBuf'[x].id <= fReg)
  BY <1>2, <1>3, ContentFacts DEF StateIInv, StateTypes
<1>6. StateTypes'
  BY <1>2, <1>4, <1>5 DEF StateIInv, StateTypes
<1>7. ASSUME fMeets' = 0
      PROVE  /\ Disk'.kind = "good" /\ \A x \in Writers : AloneIsSafe(x)'
             /\ \A v, x \in Writers : fPc'[v] # "idle" /\ fPc'[x] # "idle" => v = x
  <2>1. /\ fFd[w] = fTmp /\ fTmp # 0 /\ fTmp \in Inodes /\ fTmp # fPath /\ fData[fTmp] = Empty
        /\ Keeps(fBuf[w]) /\ fPath \in Inodes
    BY <1>2, <1>7 DEF StateIInv, AloneIsSafe, StateTypes
  <2>2. c = fBuf[w] /\ fData'[fTmp] = c /\ fData'[fPath] = fData[fPath]
    BY <1>1, <2>1 DEF StateIInv, StateTypes
  <2>3. Disk' = Disk
    BY <1>2, <2>2 DEF Disk
  <2>4. \A x \in Writers : x # w => fPc'[x] = "idle"
    BY <1>2, <1>7, OnlyWriter DEF StateIInv, StateTypes
  <2>5. fPc'[w] = "rename"
    BY <1>2 DEF StateIInv, StateTypes
  <2>6. AloneIsSafe(w)'
    BY <1>2, <2>1, <2>2, <2>3, <2>5 DEF AloneIsSafe, Keeps
  <2>7. \A x \in Writers : AloneIsSafe(x)'
    BY <2>4, <2>6 DEF AloneIsSafe
  <2> QED
    BY <1>2, <1>7, <2>3, <2>4, <2>7 DEF StateIInv
<1> QED
  BY <1>2, <1>6, <1>7 DEF StateIInv

LEMMA RenameStep == ASSUME StateIInv, NEW w \in Writers, Rename(w) PROVE StateIInv'
<1>1. /\ fPc[w] = "rename"
      /\ fPath' = IF fTmp # 0 THEN fTmp ELSE fPath
      /\ fTmp' = 0
      /\ fPc' = [fPc EXCEPT ![w] = IF w = "installer" THEN "restart" ELSE "idle"]
      /\ UNCHANGED << fFd, fBuf, fMem, fAlive, fReg, fMeets, fWait, fDeaths >>
      /\ fData' = [i \in Inodes |-> IF i = fPath' \/ \E x \in Writers : fFd[x] = i
                                THEN fData[i] ELSE Empty]
  BY DEF Rename
<1>2. fPath' \in Inodes /\ fReg \in Nat
  BY <1>1, StateFileAssumption DEF StateIInv, StateTypes
<1>3. \A i \in Inodes : fData'[i] \in {fData[i], Empty}
  BY <1>1
<1>4. fData' \in [Inodes -> Contents] /\ (\A k \in Inodes : fData'[k].id <= fReg)
  <2>1. \A i \in Inodes : fData'[i] \in Contents /\ fData'[i].id <= fReg
    BY <1>2, <1>3, ContentFacts DEF StateIInv, StateTypes
  <2>2. fData' = [i \in Inodes |-> fData'[i]]
    BY <1>1, Zenon
  <2> QED
    BY <2>1, <2>2
<1>5. StateTypes'
  BY <1>1, <1>2, <1>4 DEF StateIInv, StateTypes
<1>6. fTmp' # fPath'
  BY <1>1, <1>2 DEF Inodes
<1>7. ASSUME fMeets' = 0
      PROVE  /\ Disk'.kind = "good" /\ \A x \in Writers : AloneIsSafe(x)'
             /\ \A v, x \in Writers : fPc'[v] # "idle" /\ fPc'[x] # "idle" => v = x
  <2>1. fTmp # 0 /\ Keeps(fData[fTmp])
    BY <1>1, <1>7 DEF StateIInv, AloneIsSafe
  <2>2. Disk' = fData[fTmp]
    BY <1>1, <1>2, <2>1 DEF Disk
  <2>3. \A x \in Writers : x # w => fPc'[x] = "idle"
    BY <1>1, <1>7, OnlyWriter DEF StateIInv, StateTypes
  <2>4. fPc'[w] \in {"restart", "idle"}
    BY <1>1 DEF StateIInv, StateTypes
  <2>5. \A x \in Writers : AloneIsSafe(x)'
    BY <2>3, <2>4 DEF AloneIsSafe
  <2> QED
    BY <2>1, <2>2, <2>3, <2>5 DEF Keeps
<1> QED
  BY <1>5, <1>6, <1>7 DEF StateIInv

LEMMA StateStep == StateIInv /\ [StateFileNext]_fVars => StateIInv'
<1> SUFFICES ASSUME StateIInv, [StateFileNext]_fVars PROVE StateIInv'
  OBVIOUS
<1>1. CASE UNCHANGED fVars
  <2>1. StateTypes'
    BY <1>1 DEF fVars, StateIInv, StateTypes
  <2> QED
    BY <1>1, <2>1, QuietStep DEF fVars
<1>2. CASE StateFileNext
  BY <1>2, AgentStep, OthersBegin, EndStep, OpenStep, WriteStep, RenameStep DEF StateFileNext
<1> QED
  BY <1>1, <1>2

\* The identity on the disk changes only when two writers have met.
LEMMA IdentityIsKept ==
  StateIInv /\ [StateFileNext]_fVars
    => [Disk.id # 0 /\ Disk'.id \notin {0, Disk.id} => fMeets' > 0]_fVars
<1> SUFFICES ASSUME StateIInv, StateFileNext, Disk.id # 0, Disk'.id \notin {0, Disk.id}
             PROVE  fMeets' > 0
  BY DEF fVars
<1>0. StateIInv' /\ fMeets \in Nat /\ fMeets' \in Nat
  <2>1. StateIInv'
    BY StateStep
  <2> QED
    BY <2>1, StateFileAssumption DEF StateIInv, StateTypes
<1> SUFFICES ASSUME fMeets' = 0 PROVE FALSE
  BY <1>0
<1>1. PICK w \in Writers : Open(w) \/ Write(w) \/ Rename(w)
  <2>1. fPath' # fPath \/ fData' # fData
    BY DEF Disk
  <2> QED
    BY <2>1 DEF StateFileNext, Register, saveState, LoadState, SecondLoads, SecondTakesOver,
       updateState, InstallerRestarts, writeInitialState, WriterDies
<1>2. CASE Rename(w)
  <2>1. fMeets = 0 /\ fPc[w] = "rename" /\ fTmp # 0 /\ fPath' = fTmp /\ fData'[fPath'] = fData[fPath']
    BY <1>2 DEF Rename, StateIInv, StateTypes, AloneIsSafe
  <2>2. Keeps(fData[fTmp]) /\ Disk' = fData[fTmp]
    BY <2>1 DEF StateIInv, AloneIsSafe, Disk
  <2> QED
    BY <2>2 DEF Keeps
<1>3. CASE Open(w) \/ Write(w)
  <2>1. fMeets = 0 /\ fPath' = fPath
    BY <1>3 DEF Open, Write
  <2>2. CASE Open(w)
    <3> DEFINE i == IF fTmp = 0 THEN FreeInode ELSE fTmp
    <3>1. fData' = [fData EXCEPT ![i] = Empty] /\ i # fPath
      BY <2>2, FreeInodeExists DEF Open, StateIInv, StateTypes
    <3> QED
      BY <2>1, <3>1 DEF Disk, StateIInv, StateTypes
  <2>3. CASE Write(w)
    <3>1. fFd[w] = fTmp /\ fTmp # fPath /\ \E c : fData' = [fData EXCEPT ![fFd[w]] = c]
      BY <2>1, <2>3 DEF Write, StateIInv, AloneIsSafe
    <3> QED
      BY <2>1, <3>1 DEF Disk, StateIInv, StateTypes
  <2> QED
    BY <1>3, <2>2, <2>3
<1> QED
  BY <1>1, <1>2, <1>3

-----------------------------------------------------------------------------
(* The output of a command and the log *)

\* Sets of elements of sequences that are joined, lengthened or empty.
LEMMA ToSetFacts ==
  ASSUME NEW S, NEW p \in Seq(S), NEW q \in Seq(S)
  PROVE  /\ ToSet(p \o q) = ToSet(p) \cup ToSet(q)
         /\ Len(p \o q) = Len(p) + Len(q)
         /\ p \o q \in Seq(S)
<1>1. p \o q \in Seq(S) /\ Len(p \o q) = Len(p) + Len(q) /\ Len(p) \in Nat /\ Len(q) \in Nat
  OBVIOUS
<1>2. \A x : x \in ToSet(p \o q) => x \in ToSet(p) \cup ToSet(q)
  BY <1>1 DEF ToSet
<1>3. \A x : x \in ToSet(p) => x \in ToSet(p \o q)
  BY <1>1 DEF ToSet
<1>4. ASSUME NEW x \in ToSet(q) PROVE x \in ToSet(p \o q)
  <2>1. PICK i \in 1 .. Len(q) : q[i] = x
    BY <1>1 DEF ToSet
  <2>2. Len(p) + i \in 1 .. Len(p \o q) /\ (p \o q)[Len(p) + i] = x
    BY <1>1, <2>1
  <2> QED
    BY <1>1, <2>2 DEF ToSet
<1> QED
  BY <1>1, <1>2, <1>3, <1>4

LEMMA AppendFacts ==
  ASSUME NEW S, NEW p \in Seq(S), NEW x \in S
  PROVE  /\ Append(p, x) \in Seq(S)
         /\ Len(Append(p, x)) = Len(p) + 1
         /\ ToSet(Append(p, x)) = ToSet(p) \cup {x}
         /\ \A k \in 1 .. Len(p) : Append(p, x)[k] = p[k]
         /\ Append(p, x)[Len(p) + 1] = x
<1>1. /\ Append(p, x) \in Seq(S) /\ Len(Append(p, x)) = Len(p) + 1
      /\ \A k \in 1 .. Len(p) : Append(p, x)[k] = p[k]
      /\ Append(p, x)[Len(p) + 1] = x
      /\ Len(p) \in Nat
  OBVIOUS
<1>2. ToSet(Append(p, x)) = ToSet(p) \cup {x}
  BY <1>1 DEF ToSet
<1> QED
  BY <1>1, <1>2

LEMMA EmptyFacts == ToSet(<< >>) = {} /\ Len(<< >>) = 0 /\ \A S : << >> \in Seq(S)
BY DEF ToSet

-----------------------------------------------------------------------------
PieceOf == Streams \X (1 .. MaxPieces)
Written == {p \in PieceOf : p[2] <= MaxPieces - oLeft[p[1]]}
Untouched ==
  /\ \A s \in Streams : oLeft[s] = MaxPieces /\ oHand[s] = << >>
  /\ oBuf = << >> /\ oPosted = << >>
AllPosted ==
  /\ \A s \in Streams : oLeft[s] = 0 /\ oHand[s] = << >>
  /\ ToSet(oPosted) = PieceOf /\ Len(oPosted) = 2 * MaxPieces

\* The pieces that are posted, in the buffer, in the hand of a stream, or
\* still to be written.
Total(p, b, h, g, x, y) == p + b + h + g + x + y
Places ==
  Total(Len(oPosted), Len(oBuf), Len(oHand["stdout"]), Len(oHand["stderr"]),
        oLeft["stdout"], oLeft["stderr"])

ChunkTypes ==
  /\ oLeft \in [Streams -> 0 .. MaxPieces]
  /\ oBuf \in Seq(PieceOf) /\ oPosted \in Seq(PieceOf)
  /\ oHand \in [Streams -> Seq(PieceOf)]
  /\ oPc \in {"new", "run", "refused", "done", "staged", "over"}

\* Every piece written is in one place: posted, in the buffer or in a hand.
ChunkIInv ==
  /\ ChunkTypes
  /\ oPc \in {"new", "refused"} => Untouched
  /\ oPc \in {"new", "run", "refused", "done"} => oTold = {}
  /\ oPc = "run" =>
       /\ ToSet(oPosted) \cup ToSet(oBuf) \cup ToSet(oHand["stdout"]) \cup ToSet(oHand["stderr"]) = Written
       /\ Places = 2 * MaxPieces
  /\ oPc = "done" => AllPosted
  /\ oPc \in {"staged", "over"} => AllPosted \/ Untouched

\* What is kept of the pieces implies what the run checks.
LEMMA ChunksHold == ChunkIInv => OutputComplete
BY AgentOutputAssumption DEF ChunkIInv, ChunkTypes, OutputComplete, AllPosted, Untouched, PieceOf

LEMMA ChunksBegin == AgentOutputInit => ChunkIInv
<1> SUFFICES ASSUME AgentOutputInit PROVE ChunkIInv
  OBVIOUS
<1>1. oLeft \in [Streams -> 0 .. MaxPieces]
  BY AgentOutputAssumption DEF AgentOutputInit
<1>2. ChunkTypes
  BY <1>1, EmptyFacts DEF AgentOutputInit, ChunkTypes
<1> QED
  BY <1>2 DEF AgentOutputInit, ChunkIInv, Untouched

\* A stream writes, posts, and the rest is flushed.
LEMMA ChunkWriteStep ==
  ASSUME ChunkIInv, NEW s \in Streams, NEW f \in BOOLEAN, ChunkWrite(s, f)
  PROVE  ChunkIInv'
<1> DEFINE buf == Append(oBuf, Piece(s))
<1>1. /\ oPc = "run" /\ oLeft[s] > 0 /\ oHand[s] = << >>
      /\ oLeft' = [oLeft EXCEPT ![s] = oLeft[s] - 1]
      /\ \/ oHand' = [oHand EXCEPT ![s] = buf] /\ oBuf' = << >>
         \/ oBuf' = buf /\ oHand' = oHand
      /\ UNCHANGED << oPosted, oPc, oTold >>
  BY DEF ChunkWrite
<1>2. ChunkTypes /\ MaxPieces \in Nat /\ oLeft[s] \in 0 .. MaxPieces
  BY AgentOutputAssumption DEF ChunkIInv, ChunkTypes
<1>3. Piece(s) \in PieceOf /\ Piece(s)[1] = s /\ Piece(s)[2] = MaxPieces - oLeft[s] + 1
  BY <1>1, <1>2 DEF Piece, PieceOf
<1>4. /\ buf \in Seq(PieceOf) /\ Len(buf) = Len(oBuf) + 1 /\ ToSet(buf) = ToSet(oBuf) \cup {Piece(s)}
      /\ Len(oBuf) \in Nat
  BY <1>2, <1>3, AppendFacts DEF ChunkTypes
<1> HIDE DEF buf
<1>5. oLeft' \in [Streams -> 0 .. MaxPieces]
  BY <1>1, <1>2 DEF ChunkTypes
<1>6. ChunkTypes'
  BY <1>1, <1>2, <1>4, <1>5, EmptyFacts DEF ChunkTypes
<1>7. Written' = Written \cup {Piece(s)}
  <2>1. \A p \in PieceOf : p[1] \in Streams /\ p[2] \in Nat
    BY <1>2 DEF PieceOf
  <2>2. \A p \in PieceOf : p[1] # s => oLeft'[p[1]] = oLeft[p[1]]
    BY <1>1, <2>1 DEF ChunkTypes
  <2>3. oLeft'[s] = oLeft[s] - 1
    BY <1>1, <1>2 DEF ChunkTypes
  <2>4. \A p \in PieceOf : p[1] = s /\ p[2] = MaxPieces - oLeft[s] + 1 => p = Piece(s)
    BY <1>2 DEF Piece, PieceOf
  <2>5. \A p \in PieceOf : p \in Written' <=> p \in Written \/ p = Piece(s)
    <3>1. \A p \in PieceOf : p[1] = s => (p[2] <= MaxPieces - (oLeft[s] - 1)
                                           <=> p[2] <= MaxPieces - oLeft[s] \/ p[2] = MaxPieces - oLeft[s] + 1)
      BY <1>2, <2>1
    <3>2. \A p \in PieceOf : p \in Written' <=> p[2] <= MaxPieces - oLeft'[p[1]]
      BY DEF Written
    <3>3. \A p \in PieceOf : p \in Written <=> p[2] <= MaxPieces - oLeft[p[1]]
      BY DEF Written
    <3>4. \A p \in PieceOf : p[1] # s => p # Piece(s)
      BY <1>3
    <3> QED
      BY <1>3, <2>2, <2>3, <2>4, <3>1, <3>2, <3>3, <3>4
  <2> QED
    BY <1>3, <2>5 DEF Written
<1>8. Len(oHand["stdout"]) \in Nat /\ Len(oHand["stderr"]) \in Nat /\ Len(oPosted) \in Nat
  BY <1>2 DEF ChunkTypes, Streams
<1>9. /\ ToSet(oPosted') \cup ToSet(oBuf') \cup ToSet(oHand'["stdout"]) \cup ToSet(oHand'["stderr"]) = Written'
      /\ Places' = 2 * MaxPieces
  <2>0. ToSet(oPosted) \cup ToSet(oBuf) \cup ToSet(oHand["stdout"]) \cup ToSet(oHand["stderr"]) = Written
    BY <1>1 DEF ChunkIInv
  <2>1. Places = 2 * MaxPieces
    BY <1>1 DEF ChunkIInv
  <2>2. /\ oLeft["stdout"] \in Nat /\ oLeft["stderr"] \in Nat
        /\ \A x \in {"stdout", "stderr"} : oLeft'[x] = IF x = s THEN oLeft[x] - 1 ELSE oLeft[x]
    BY <1>1, <1>2 DEF ChunkTypes, Streams
  <2>3. Len(oPosted') = Len(oPosted) /\ ToSet(oPosted') = ToSet(oPosted) /\ oLeft[s] >= 1
    BY <1>1, <1>2
  <2>6. /\ Len(oPosted) \in Nat /\ Len(oBuf) \in Nat /\ Len(oHand["stdout"]) \in Nat /\ Len(oHand["stderr"]) \in Nat
        /\ oLeft["stdout"] \in Nat /\ oLeft["stderr"] \in Nat
    BY <1>4, <1>8, <2>2
  <2>4. CASE oBuf' = buf /\ oHand' = oHand
    <3>1. Len(oBuf') = Len(oBuf) + 1 /\ ToSet(oBuf') = ToSet(oBuf) \cup {Piece(s)}
      BY <1>4, <2>4
    <3>2. ToSet(oPosted') \cup ToSet(oBuf') \cup ToSet(oHand'["stdout"]) \cup ToSet(oHand'["stderr"]) = Written'
      BY <1>7, <2>0, <2>3, <2>4, <3>1
    <3>3. Len(oHand'["stdout"]) = Len(oHand["stdout"]) /\ Len(oHand'["stderr"]) = Len(oHand["stderr"])
      BY <2>4
    <3>4. CASE s = "stdout"
      <4>1. oLeft'["stdout"] = oLeft["stdout"] - 1 /\ oLeft'["stderr"] = oLeft["stderr"]
        BY <2>2, <3>4
      <4>2. Len(oBuf') = Len(oBuf) + 1 /\ Len(oPosted') = Len(oPosted)
        BY <2>3, <3>1
      <4>4. oLeft["stdout"] >= 1
        BY <2>3, <3>4
      <4>3. Places' = 2 * MaxPieces
        <5>1. Places' = Total(Len(oPosted), Len(oBuf) + 1, Len(oHand["stdout"]), Len(oHand["stderr"]), oLeft["stdout"] - 1, oLeft["stderr"])
          BY <3>3, <4>1, <4>2 DEF Places
        <5>2. Places = Total(Len(oPosted), Len(oBuf), Len(oHand["stdout"]), Len(oHand["stderr"]), oLeft["stdout"], oLeft["stderr"])
          BY <3>3, <4>1, <4>2 DEF Places
        <5>3. Total(Len(oPosted), Len(oBuf) + 1, Len(oHand["stdout"]), Len(oHand["stderr"]), oLeft["stdout"] - 1, oLeft["stderr"]) = Total(Len(oPosted), Len(oBuf), Len(oHand["stdout"]), Len(oHand["stderr"]), oLeft["stdout"], oLeft["stderr"])
          <6> DEFINE p0 == Len(oPosted)  b0 == Len(oBuf)  h0 == Len(oHand["stdout"])
                     g0 == Len(oHand["stderr"])  x0 == oLeft["stdout"]  y0 == oLeft["stderr"]
          <6>1. p0 \in Nat /\ b0 \in Nat /\ h0 \in Nat /\ g0 \in Nat /\ x0 \in Nat /\ y0 \in Nat
            BY <2>6, <4>2, <4>4
          <6>2. x0 >= 1
            BY <2>6, <4>2, <4>4
          <6> SUFFICES Total(p0, b0 + 1, h0, g0, x0 - 1, y0) = Total(p0, b0, h0, g0, x0, y0)
            OBVIOUS
          <6> HIDE DEF p0, b0, h0, g0, x0, y0
          <6> QED
            BY <6>1, <6>2 DEF Total
        <5> QED
          BY <2>1, <5>1, <5>2, <5>3
      <4> QED
        BY <3>2, <4>3
    <3>5. CASE s = "stderr"
      <4>1. oLeft'["stderr"] = oLeft["stderr"] - 1 /\ oLeft'["stdout"] = oLeft["stdout"]
        BY <2>2, <3>5
      <4>2. Len(oBuf') = Len(oBuf) + 1 /\ Len(oPosted') = Len(oPosted)
        BY <2>3, <3>1
      <4>4. oLeft["stderr"] >= 1
        BY <2>3, <3>5
      <4>3. Places' = 2 * MaxPieces
        <5>1. Places' = Total(Len(oPosted), Len(oBuf) + 1, Len(oHand["stdout"]), Len(oHand["stderr"]), oLeft["stdout"], oLeft["stderr"] - 1)
          BY <3>3, <4>1, <4>2 DEF Places
        <5>2. Places = Total(Len(oPosted), Len(oBuf), Len(oHand["stdout"]), Len(oHand["stderr"]), oLeft["stdout"], oLeft["stderr"])
          BY <3>3, <4>1, <4>2 DEF Places
        <5>3. Total(Len(oPosted), Len(oBuf) + 1, Len(oHand["stdout"]), Len(oHand["stderr"]), oLeft["stdout"], oLeft["stderr"] - 1) = Total(Len(oPosted), Len(oBuf), Len(oHand["stdout"]), Len(oHand["stderr"]), oLeft["stdout"], oLeft["stderr"])
          <6> DEFINE p0 == Len(oPosted)  b0 == Len(oBuf)  h0 == Len(oHand["stdout"])
                     g0 == Len(oHand["stderr"])  x0 == oLeft["stdout"]  y0 == oLeft["stderr"]
          <6>1. p0 \in Nat /\ b0 \in Nat /\ h0 \in Nat /\ g0 \in Nat /\ x0 \in Nat /\ y0 \in Nat
            BY <2>6, <4>2, <4>4
          <6>2. y0 >= 1
            BY <2>6, <4>2, <4>4
          <6> SUFFICES Total(p0, b0 + 1, h0, g0, x0, y0 - 1) = Total(p0, b0, h0, g0, x0, y0)
            OBVIOUS
          <6> HIDE DEF p0, b0, h0, g0, x0, y0
          <6> QED
            BY <6>1, <6>2 DEF Total
        <5> QED
          BY <2>1, <5>1, <5>2, <5>3
      <4> QED
        BY <3>2, <4>3
    <3> QED
      BY <3>4, <3>5 DEF Streams
  <2>5. CASE oHand' = [oHand EXCEPT ![s] = buf] /\ oBuf' = << >>
    <3>1. /\ oHand[s] = << >> /\ Len(oHand[s]) = 0 /\ ToSet(oHand[s]) = {}
          /\ Len(oBuf') = 0 /\ ToSet(oBuf') = {}
          /\ \A x \in {"stdout", "stderr"} : oHand'[x] = IF x = s THEN buf ELSE oHand[x]
      BY <1>1, <1>2, <2>5, EmptyFacts DEF ChunkTypes, Streams
    <3>2. CASE s = "stdout"
      <4>1. /\ oHand'["stdout"] = buf /\ oHand'["stderr"] = oHand["stderr"]
            /\ ToSet(oHand["stdout"]) = {} /\ Len(oHand["stdout"]) = 0
            /\ oLeft'["stdout"] = oLeft["stdout"] - 1 /\ oLeft'["stderr"] = oLeft["stderr"]
        BY <2>2, <3>1, <3>2
      <4>7. Len(oHand["stdout"]) = 0 /\ oLeft'["stdout"] = oLeft["stdout"] - 1 /\ oLeft'["stderr"] = oLeft["stderr"]
        BY <4>1
      <4>2. ToSet(oPosted') \cup ToSet(oBuf') \cup ToSet(oHand'["stdout"]) \cup ToSet(oHand'["stderr"]) = Written'
        BY <1>4, <1>7, <2>0, <2>3, <3>1, <4>1
      <4>3. Len(oHand'["stdout"]) = Len(oBuf) + 1 /\ Len(oHand'["stderr"]) = Len(oHand["stderr"])
        BY <1>4, <4>1
      <4>4. Len(oBuf') = 0 /\ Len(oPosted') = Len(oPosted)
        BY <2>3, <3>1
      <4>5. oLeft["stdout"] >= 1
        BY <2>3, <3>2
      <4>6. Places' = 2 * MaxPieces
        <5>1. Places' = Total(Len(oPosted), 0, Len(oBuf) + 1, Len(oHand["stderr"]), oLeft["stdout"] - 1, oLeft["stderr"])
          BY <4>3, <4>4, <4>7 DEF Places
        <5>2. Places = Total(Len(oPosted), Len(oBuf), 0, Len(oHand["stderr"]), oLeft["stdout"], oLeft["stderr"])
          BY <4>3, <4>4, <4>7 DEF Places
        <5>3. Total(Len(oPosted), 0, Len(oBuf) + 1, Len(oHand["stderr"]), oLeft["stdout"] - 1, oLeft["stderr"]) = Total(Len(oPosted), Len(oBuf), 0, Len(oHand["stderr"]), oLeft["stdout"], oLeft["stderr"])
          <6> DEFINE p0 == Len(oPosted)  b0 == Len(oBuf)  h0 == Len(oHand["stdout"])
                     g0 == Len(oHand["stderr"])  x0 == oLeft["stdout"]  y0 == oLeft["stderr"]
          <6>1. p0 \in Nat /\ b0 \in Nat /\ h0 \in Nat /\ g0 \in Nat /\ x0 \in Nat /\ y0 \in Nat
            BY <2>6, <4>5
          <6>2. x0 >= 1
            BY <2>6, <4>5
          <6> SUFFICES Total(p0, 0, b0 + 1, g0, x0 - 1, y0) = Total(p0, b0, 0, g0, x0, y0)
            OBVIOUS
          <6> HIDE DEF p0, b0, h0, g0, x0, y0
          <6> QED
            BY <6>1, <6>2 DEF Total
        <5> QED
          BY <2>1, <5>1, <5>2, <5>3
      <4> QED
        BY <4>2, <4>6
    <3>3. CASE s = "stderr"
      <4>1. /\ oHand'["stderr"] = buf /\ oHand'["stdout"] = oHand["stdout"]
            /\ ToSet(oHand["stderr"]) = {} /\ Len(oHand["stderr"]) = 0
            /\ oLeft'["stderr"] = oLeft["stderr"] - 1 /\ oLeft'["stdout"] = oLeft["stdout"]
        BY <2>2, <3>1, <3>3
      <4>7. Len(oHand["stderr"]) = 0 /\ oLeft'["stderr"] = oLeft["stderr"] - 1 /\ oLeft'["stdout"] = oLeft["stdout"]
        BY <4>1
      <4>2. ToSet(oPosted') \cup ToSet(oBuf') \cup ToSet(oHand'["stdout"]) \cup ToSet(oHand'["stderr"]) = Written'
        BY <1>4, <1>7, <2>0, <2>3, <3>1, <4>1
      <4>3. Len(oHand'["stderr"]) = Len(oBuf) + 1 /\ Len(oHand'["stdout"]) = Len(oHand["stdout"])
        BY <1>4, <4>1
      <4>4. Len(oBuf') = 0 /\ Len(oPosted') = Len(oPosted)
        BY <2>3, <3>1
      <4>5. oLeft["stderr"] >= 1
        BY <2>3, <3>3
      <4>6. Places' = 2 * MaxPieces
        <5>1. Places' = Total(Len(oPosted), 0, Len(oHand["stdout"]), Len(oBuf) + 1, oLeft["stdout"], oLeft["stderr"] - 1)
          BY <4>3, <4>4, <4>7 DEF Places
        <5>2. Places = Total(Len(oPosted), Len(oBuf), Len(oHand["stdout"]), 0, oLeft["stdout"], oLeft["stderr"])
          BY <4>3, <4>4, <4>7 DEF Places
        <5>3. Total(Len(oPosted), 0, Len(oHand["stdout"]), Len(oBuf) + 1, oLeft["stdout"], oLeft["stderr"] - 1) = Total(Len(oPosted), Len(oBuf), Len(oHand["stdout"]), 0, oLeft["stdout"], oLeft["stderr"])
          <6> DEFINE p0 == Len(oPosted)  b0 == Len(oBuf)  h0 == Len(oHand["stdout"])
                     g0 == Len(oHand["stderr"])  x0 == oLeft["stdout"]  y0 == oLeft["stderr"]
          <6>1. p0 \in Nat /\ b0 \in Nat /\ h0 \in Nat /\ g0 \in Nat /\ x0 \in Nat /\ y0 \in Nat
            BY <2>6, <4>5
          <6>2. y0 >= 1
            BY <2>6, <4>5
          <6> SUFFICES Total(p0, 0, h0, b0 + 1, x0, y0 - 1) = Total(p0, b0, h0, 0, x0, y0)
            OBVIOUS
          <6> HIDE DEF p0, b0, h0, g0, x0, y0
          <6> QED
            BY <6>1, <6>2 DEF Total
        <5> QED
          BY <2>1, <5>1, <5>2, <5>3
      <4> QED
        BY <4>2, <4>6
    <3> QED
      BY <3>2, <3>3 DEF Streams
  <2> QED
    BY <1>1, <2>4, <2>5
<1> QED
  BY <1>1, <1>6, <1>9 DEF ChunkIInv

LEMMA PostStep == ASSUME ChunkIInv, NEW s \in Streams, Post(s) PROVE ChunkIInv'
<1>1. /\ oHand[s] # << >> /\ oPosted' = oPosted \o oHand[s]
      /\ oHand' = [oHand EXCEPT ![s] = << >>]
      /\ UNCHANGED << oLeft, oBuf, oPc, oTold >>
  BY DEF Post
<1>2. ChunkTypes /\ MaxPieces \in Nat /\ oHand[s] \in Seq(PieceOf)
  BY AgentOutputAssumption DEF ChunkIInv, ChunkTypes
<1>3. /\ oPosted' \in Seq(PieceOf) /\ Len(oPosted') = Len(oPosted) + Len(oHand[s])
      /\ ToSet(oPosted') = ToSet(oPosted) \cup ToSet(oHand[s])
  BY <1>1, <1>2, ToSetFacts DEF ChunkTypes
<1>4. ChunkTypes'
  BY <1>1, <1>2, <1>3, EmptyFacts DEF ChunkTypes
<1>5. oPc = "run"
  BY <1>1, <1>2 DEF ChunkIInv, Untouched, AllPosted, ChunkTypes
<1>6. Len(oHand["stdout"]) \in Nat /\ Len(oHand["stderr"]) \in Nat /\ Len(oPosted) \in Nat /\ Len(oBuf) \in Nat
  BY <1>2 DEF ChunkTypes, Streams
<1>7. /\ Len(oHand'[s]) = 0 /\ ToSet(oHand'[s]) = {}
      /\ \A x \in {"stdout", "stderr"} : x # s => oHand'[x] = oHand[x]
  BY <1>1, <1>2, EmptyFacts DEF ChunkTypes, Streams
<1>8. ToSet(oPosted) \cup ToSet(oBuf) \cup ToSet(oHand["stdout"]) \cup ToSet(oHand["stderr"]) = Written
  BY <1>5 DEF ChunkIInv
<1>12. Places = 2 * MaxPieces
  BY <1>5 DEF ChunkIInv
<1>9. Written' = Written
  BY <1>1 DEF Written
<1>10. CASE s = "stdout"
  <2>1. oHand'["stderr"] = oHand["stderr"] /\ Len(oHand'["stdout"]) = 0 /\ ToSet(oHand'["stdout"]) = {}
        /\ ToSet(oPosted') = ToSet(oPosted) \cup ToSet(oHand["stdout"])
        /\ Len(oPosted') = Len(oPosted) + Len(oHand["stdout"])
    BY <1>3, <1>7, <1>10
  <2>2. ToSet(oPosted') \cup ToSet(oBuf') \cup ToSet(oHand'["stdout"]) \cup ToSet(oHand'["stderr"]) = Written'
    BY <1>1, <1>8, <1>9, <2>1
  <2>3. Places' = 2 * MaxPieces
    <3>1. Len(oBuf') = Len(oBuf) /\ oLeft' = oLeft
      BY <1>1
    <3>2. oLeft["stdout"] \in Nat /\ oLeft["stderr"] \in Nat
      BY <1>2 DEF ChunkTypes, Streams
    <3>3. Len(oHand'["stdout"]) = 0 /\ Len(oHand'["stderr"]) = Len(oHand["stderr"])
          /\ Len(oPosted') = Len(oPosted) + Len(oHand["stdout"])
      BY <2>1
    <3>4. Places' = Total(Len(oPosted) + Len(oHand["stdout"]), Len(oBuf), 0, Len(oHand["stderr"]), oLeft["stdout"], oLeft["stderr"])
      BY <3>1, <3>3 DEF Places
    <3>5. Places = Total(Len(oPosted), Len(oBuf), Len(oHand["stdout"]), Len(oHand["stderr"]), oLeft["stdout"], oLeft["stderr"])
      BY <3>1, <3>3 DEF Places
    <3>6. Total(Len(oPosted) + Len(oHand["stdout"]), Len(oBuf), 0, Len(oHand["stderr"]), oLeft["stdout"], oLeft["stderr"]) = Total(Len(oPosted), Len(oBuf), Len(oHand["stdout"]), Len(oHand["stderr"]), oLeft["stdout"], oLeft["stderr"])
      <4> DEFINE p0 == Len(oPosted)  b0 == Len(oBuf)  h0 == Len(oHand["stdout"])
                 g0 == Len(oHand["stderr"])  x0 == oLeft["stdout"]  y0 == oLeft["stderr"]
      <4>1. p0 \in Nat /\ b0 \in Nat /\ h0 \in Nat /\ g0 \in Nat /\ x0 \in Nat /\ y0 \in Nat
        BY <1>6, <3>2
      <4> SUFFICES Total(p0 + h0, b0, 0, g0, x0, y0) = Total(p0, b0, h0, g0, x0, y0)
        OBVIOUS
      <4> HIDE DEF p0, b0, h0, g0, x0, y0
      <4> QED
        BY <4>1 DEF Total
    <3> QED
      BY <1>12, <3>4, <3>5, <3>6
  <2> QED
    BY <1>1, <1>4, <1>5, <2>2, <2>3 DEF ChunkIInv
<1>11. CASE s = "stderr"
  <2>1. oHand'["stdout"] = oHand["stdout"] /\ Len(oHand'["stderr"]) = 0 /\ ToSet(oHand'["stderr"]) = {}
        /\ ToSet(oPosted') = ToSet(oPosted) \cup ToSet(oHand["stderr"])
        /\ Len(oPosted') = Len(oPosted) + Len(oHand["stderr"])
    BY <1>3, <1>7, <1>11
  <2>2. ToSet(oPosted') \cup ToSet(oBuf') \cup ToSet(oHand'["stdout"]) \cup ToSet(oHand'["stderr"]) = Written'
    BY <1>1, <1>8, <1>9, <2>1
  <2>3. Places' = 2 * MaxPieces
    <3>1. Len(oBuf') = Len(oBuf) /\ oLeft' = oLeft
      BY <1>1
    <3>2. oLeft["stdout"] \in Nat /\ oLeft["stderr"] \in Nat
      BY <1>2 DEF ChunkTypes, Streams
    <3>3. Len(oHand'["stderr"]) = 0 /\ Len(oHand'["stdout"]) = Len(oHand["stdout"])
          /\ Len(oPosted') = Len(oPosted) + Len(oHand["stderr"])
      BY <2>1
    <3>4. Places' = Total(Len(oPosted) + Len(oHand["stderr"]), Len(oBuf), Len(oHand["stdout"]), 0, oLeft["stdout"], oLeft["stderr"])
      BY <3>1, <3>3 DEF Places
    <3>5. Places = Total(Len(oPosted), Len(oBuf), Len(oHand["stdout"]), Len(oHand["stderr"]), oLeft["stdout"], oLeft["stderr"])
      BY <3>1, <3>3 DEF Places
    <3>6. Total(Len(oPosted) + Len(oHand["stderr"]), Len(oBuf), Len(oHand["stdout"]), 0, oLeft["stdout"], oLeft["stderr"]) = Total(Len(oPosted), Len(oBuf), Len(oHand["stdout"]), Len(oHand["stderr"]), oLeft["stdout"], oLeft["stderr"])
      <4> DEFINE p0 == Len(oPosted)  b0 == Len(oBuf)  h0 == Len(oHand["stdout"])
                 g0 == Len(oHand["stderr"])  x0 == oLeft["stdout"]  y0 == oLeft["stderr"]
      <4>1. p0 \in Nat /\ b0 \in Nat /\ h0 \in Nat /\ g0 \in Nat /\ x0 \in Nat /\ y0 \in Nat
        BY <1>6, <3>2
      <4> SUFFICES Total(p0 + g0, b0, h0, 0, x0, y0) = Total(p0, b0, h0, g0, x0, y0)
        OBVIOUS
      <4> HIDE DEF p0, b0, h0, g0, x0, y0
      <4> QED
        BY <4>1 DEF Total
    <3> QED
      BY <1>12, <3>4, <3>5, <3>6
  <2> QED
    BY <1>1, <1>4, <1>5, <2>2, <2>3 DEF ChunkIInv
<1> QED
  BY <1>10, <1>11 DEF Streams

LEMMA FlushStep == ASSUME ChunkIInv, FlushRest PROVE ChunkIInv'
<1>1. /\ oPc = "run" /\ \A s \in Streams : oLeft[s] = 0 /\ oHand[s] = << >>
      /\ oPosted' = oPosted \o oBuf /\ oBuf' = << >> /\ oPc' = "done"
      /\ UNCHANGED << oLeft, oHand, oTold >>
  BY DEF FlushRest
<1>2. ChunkTypes /\ MaxPieces \in Nat
  BY AgentOutputAssumption DEF ChunkIInv
<1>3. /\ oPosted' \in Seq(PieceOf) /\ Len(oPosted') = Len(oPosted) + Len(oBuf)
      /\ ToSet(oPosted') = ToSet(oPosted) \cup ToSet(oBuf)
      /\ Len(oPosted) \in Nat /\ Len(oBuf) \in Nat
  BY <1>1, <1>2, ToSetFacts DEF ChunkTypes
<1>4. ChunkTypes'
  BY <1>1, <1>2, <1>3, EmptyFacts DEF ChunkTypes
<1>5. Written = PieceOf
  <2>1. \A p \in PieceOf : oLeft[p[1]] = 0 /\ p[2] \in 1 .. MaxPieces
    BY <1>1 DEF PieceOf
  <2> QED
    BY <1>2, <2>1 DEF Written
<1>6. /\ ToSet(oHand["stdout"]) = {} /\ ToSet(oHand["stderr"]) = {} /\ oLeft["stdout"] = 0 /\ oLeft["stderr"] = 0
      /\ Len(oHand["stdout"]) = 0 /\ Len(oHand["stderr"]) = 0
  BY <1>1, EmptyFacts DEF Streams
<1>7. ToSet(oPosted') = PieceOf
  BY <1>1, <1>3, <1>5, <1>6 DEF ChunkIInv
<1>9. Len(oPosted') = 2 * MaxPieces
  <2>1. Places = Total(Len(oPosted), Len(oBuf), 0, 0, 0, 0)
    BY <1>6 DEF Places
  <2>2. Total(Len(oPosted), Len(oBuf), 0, 0, 0, 0) = Len(oPosted) + Len(oBuf)
    BY <1>3 DEF Total
  <2>3. Places = 2 * MaxPieces
    BY <1>1 DEF ChunkIInv
  <2> QED
    BY <1>3, <2>1, <2>2, <2>3
<1>8. AllPosted'
  BY <1>1, <1>7, <1>9 DEF AllPosted, PieceOf
<1> QED
  BY <1>1, <1>4, <1>8 DEF ChunkIInv

LEMMA CommandEndsStep ==
  ASSUME ChunkIInv, NEW b \in BOOLEAN, ExecuteCommand(b) \/ executeRunCommand(b)
  PROVE  ChunkIInv'
<1>1. CASE ExecuteCommand(b)
  <2>1. ChunkTypes' /\ ChunkTypes
    BY <1>1 DEF ExecuteCommand, ChunkIInv, ChunkTypes
  <2>2. /\ ToSet(oPosted) \cup ToSet(oBuf) \cup ToSet(oHand["stdout"]) \cup ToSet(oHand["stderr"]) = {}
        /\ Len(oPosted) = 0 /\ Len(oBuf) = 0 /\ Len(oHand["stdout"]) = 0 /\ Len(oHand["stderr"]) = 0
        /\ Untouched /\ oTold = {}
    BY <1>1, EmptyFacts DEF ExecuteCommand, ChunkIInv, Untouched, Streams
  <2>3. MaxPieces \in Nat /\ oLeft["stdout"] = MaxPieces /\ oLeft["stderr"] = MaxPieces
    BY <2>2, AgentOutputAssumption DEF Untouched, Streams
  <2>4. Written = {}
    <3>1. \A p \in PieceOf : oLeft[p[1]] = MaxPieces /\ p[2] \in 1 .. MaxPieces
      BY <2>2 DEF PieceOf, Untouched
    <3> QED
      BY <2>3, <3>1 DEF Written
  <2>5. Written' = Written /\ Untouched'
    BY <1>1, <2>2 DEF ExecuteCommand, Written, Untouched
  <2>6. Places' = 2 * MaxPieces
    <3>1. Places' = Total(0, 0, 0, 0, MaxPieces, MaxPieces)
      BY <1>1, <2>2, <2>3 DEF ExecuteCommand, Places
    <3> QED
      BY <2>3, <3>1 DEF Total
  <2> QED
    BY <1>1, <2>1, <2>2, <2>4, <2>5, <2>6 DEF ExecuteCommand, ChunkIInv
<1>2. CASE executeRunCommand(b)
  <2>1. ChunkTypes'
    BY <1>2 DEF executeRunCommand, ChunkIInv, ChunkTypes
  <2>2. (AllPosted' <=> AllPosted) /\ (Untouched' <=> Untouched)
    BY <1>2 DEF executeRunCommand, AllPosted, Untouched
  <2> QED
    BY <1>2, <2>1, <2>2 DEF executeRunCommand, ChunkIInv
<1> QED
  BY <1>1, <1>2

LEMMA ChunkStep == ChunkIInv /\ [CommandOutputNext]_oVars => ChunkIInv'
<1> SUFFICES ASSUME ChunkIInv, [CommandOutputNext]_oVars PROVE ChunkIInv'
  OBVIOUS
<1>1. CASE UNCHANGED oVars
  BY <1>1 DEF oVars, ChunkIInv, ChunkTypes, Untouched, AllPosted, Written, Places
<1>2. CASE CommandOutputNext
  BY <1>2, ChunkWriteStep, PostStep, FlushStep, CommandEndsStep DEF CommandOutputNext
<1> QED
  BY <1>1, <1>2

-----------------------------------------------------------------------------
LogTypes ==
  /\ lNext \in 1 .. MaxLines + 1
  /\ lFile \in Seq(Nat) /\ lOut \in Seq(Nat)
  /\ lBaks \in [1 .. Backups -> Seq(Nat)]
  /\ lPc \in {"idle", "copy", "truncate", "rotated"}
  /\ lOff \in 0 .. MaxLines /\ lFp \in 0 .. MaxLines
  /\ lFails \in 0 .. MaxRotateFails

\* A line is in the file or in one of the newest i rotated files.
KeptTo(i, n) == n \in ToSet(lFile) \/ \E j \in 1 .. i : n \in ToSet(lBaks[j])

\* However many rotated files one looks at, nothing is missing in between.
NoGapTo ==
  \A i \in 0 .. Backups : \A n, m \in Nat :
    KeptTo(i, n) /\ n <= m /\ m < lNext => KeptTo(i, m)

FileOrder ==
  /\ Len(lFile) < lNext
  /\ \A k \in 1 .. Len(lFile) : lFile[k] \in 1 .. lNext - 1
  /\ \A j, k \in 1 .. Len(lFile) : j < k => lFile[j] < lFile[k]

OutOrder ==
  /\ \A i \in 1 .. Len(lOut) : lOut[i] < lNext
  /\ \A i, j \in 1 .. Len(lOut) : i < j => lOut[i] < lOut[j]

\* What the file holds after a place is newer than all that was printed.
NewerAfter(off) == \A i \in 1 .. Len(lOut), k \in 1 .. Len(lFile) : k > off => lOut[i] < lFile[k]

\* The reader stands in the file it knows, or the file is all new.
ReaderPlace ==
  \/ NewerAfter(0)
  \/ lOff \in 1 .. Len(lFile) /\ lFp = lFile[lOff] /\ NewerAfter(lOff)

LogIInv ==
  /\ LogTypes
  /\ lPc = "copy" => lBaks[1] = << >>
  /\ lPc = "truncate" => lBaks[1] = lFile
  /\ NoGapTo
  /\ FileOrder /\ OutOrder /\ ReaderPlace

LEMMA ToSetOfLines == ASSUME NEW q \in Seq(Nat), NEW n \in ToSet(q) PROVE n \in Nat
BY DEF ToSet

\* What is kept of the lines implies what the run checks.
LEMMA LogHolds == LogIInv => NoGap /\ TailNeverRepeats
<1> SUFFICES ASSUME LogIInv PROVE NoGap /\ TailNeverRepeats
  OBVIOUS
<1>1. TailNeverRepeats
  BY DEF LogIInv, LogTypes, OutOrder, TailNeverRepeats
<1>2. Backups \in Nat /\ lNext \in Nat /\ Backups \in 0 .. Backups
  BY AgentOutputAssumption DEF LogIInv, LogTypes
<1>3. \A n : n \in KeptLines <=> KeptTo(Backups, n)
  <2>1. \A n : n \in KeptLines <=> n \in ToSet(lFile) \/ n \in UNION {ToSet(lBaks[i]) : i \in 1 .. Backups}
    BY DEF KeptLines
  <2>2. \A n : n \in UNION {ToSet(lBaks[i]) : i \in 1 .. Backups} <=> \E j \in 1 .. Backups : n \in ToSet(lBaks[j])
    OBVIOUS
  <2> QED
    BY <2>1, <2>2, Zenon DEF KeptTo
<1>4. \A n : KeptTo(Backups, n) => n \in Nat
  BY ToSetOfLines DEF KeptTo, LogIInv, LogTypes
<1>5. ASSUME NEW n \in KeptLines, NEW m \in n .. lNext - 1 PROVE m \in KeptLines
  <2>1. n \in Nat /\ m \in Nat /\ n <= m /\ m < lNext
    BY <1>2, <1>3, <1>4
  <2> QED
    BY <1>2, <1>3, <2>1 DEF LogIInv, NoGapTo
<1>6. NoGap
  BY <1>5 DEF NoGap
<1> QED
  BY <1>1, <1>6

LEMMA LogBegins == AgentOutputInit => LogIInv
<1> SUFFICES ASSUME AgentOutputInit PROVE LogIInv
  OBVIOUS
<1>0. MaxLines \in Nat /\ Backups \in Nat /\ MaxRotateFails \in Nat
  BY AgentOutputAssumption
<1>1. /\ lNext = 1 /\ lFile = << >> /\ lBaks = [i \in 1 .. Backups |-> << >>] /\ lPc = "idle"
      /\ lFails = 0 /\ lOff = 0 /\ lFp = 0 /\ lOut = << >>
  BY DEF AgentOutputInit
<1>2. LogTypes
  BY <1>0, <1>1, EmptyFacts DEF LogTypes
<1>3. NoGapTo
  BY <1>0, <1>1, EmptyFacts DEF NoGapTo, KeptTo
<1> QED
  BY <1>1, <1>2, <1>3, EmptyFacts DEF LogIInv, FileOrder, OutOrder, ReaderPlace, NewerAfter

\* A line is written; the steps of a rotation follow.
LEMMA LogWriteStep == ASSUME LogIInv, LogWrite PROVE LogIInv'
<1>0. MaxLines \in Nat /\ Backups \in Nat /\ lNext \in Nat /\ lFile \in Seq(Nat) /\ lNext >= 1
  BY AgentOutputAssumption DEF LogIInv, LogTypes
<1>1. /\ lFile' = Append(lFile, lNext) /\ lNext <= MaxLines /\ lNext' = lNext + 1 /\ lPc' = "idle"
      /\ UNCHANGED << lBaks, lFails, lOff, lFp, lOut >>
  BY DEF LogWrite
<1>2. /\ lFile' \in Seq(Nat) /\ Len(lFile') = Len(lFile) + 1 /\ ToSet(lFile') = ToSet(lFile) \cup {lNext}
      /\ \A k \in 1 .. Len(lFile) : lFile'[k] = lFile[k]
      /\ lFile'[Len(lFile) + 1] = lNext /\ Len(lFile) \in Nat
  BY <1>0, <1>1, AppendFacts
<1>3. LogTypes'
  BY <1>0, <1>1, <1>2 DEF LogIInv, LogTypes
<1>4. NoGapTo'
  <2> SUFFICES ASSUME NEW i \in 0 .. Backups, NEW n \in Nat, NEW m \in Nat,
                      KeptTo(i, n)', n <= m, m < lNext'
               PROVE  KeptTo(i, m)'
    BY DEF NoGapTo
  <2>1. \A x : KeptTo(i, x)' <=> KeptTo(i, x) \/ x = lNext
    BY <1>1, <1>2 DEF KeptTo
  <2>2. m < lNext \/ m = lNext
    BY <1>0, <1>1
  <2>3. CASE m = lNext
    BY <2>1, <2>3
  <2>4. CASE m < lNext
    <3>1. KeptTo(i, n)
      BY <1>0, <2>1, <2>4
    <3>2. KeptTo(i, m)
      BY <2>4, <3>1 DEF LogIInv, NoGapTo
    <3> QED
      BY <2>1, <3>2
  <2> QED
    BY <2>2, <2>3, <2>4
<1>5. \A k \in 1 .. Len(lFile') : lFile'[k] = lNext \/ k \in 1 .. Len(lFile)
  BY <1>2
<1>6. FileOrder'
  <2>1. Len(lFile') < lNext'
    BY <1>0, <1>1, <1>2 DEF LogIInv, FileOrder
  <2>2. \A k \in 1 .. Len(lFile') : lFile'[k] \in 1 .. lNext' - 1
    BY <1>0, <1>1, <1>2, <1>5 DEF LogIInv, FileOrder
  <2>3. ASSUME NEW j \in 1 .. Len(lFile'), NEW k \in 1 .. Len(lFile'), j < k PROVE lFile'[j] < lFile'[k]
    <3>0. j \in 1 .. Len(lFile)
      BY <1>2, <2>3
    <3>1. lFile'[j] = lFile[j] /\ lFile[j] < lNext
      BY <1>0, <1>2, <3>0 DEF LogIInv, FileOrder
    <3>2. CASE k \in 1 .. Len(lFile)
      BY <1>2, <2>3, <3>0, <3>1, <3>2 DEF LogIInv, FileOrder
    <3>3. CASE lFile'[k] = lNext
      BY <3>1, <3>3
    <3> QED
      BY <1>5, <3>2, <3>3
  <2> QED
    BY <2>1, <2>2, <2>3 DEF FileOrder
<1>7. OutOrder'
  BY <1>0, <1>1 DEF LogIInv, LogTypes, OutOrder
<1>8. ASSUME NEW off \in Nat, NewerAfter(off), NEW i \in 1 .. Len(lOut), NEW k \in 1 .. Len(lFile'), k > off
      PROVE  lOut[i] < lFile'[k]
  <2>1. CASE k \in 1 .. Len(lFile)
    BY <1>2, <1>8, <2>1 DEF NewerAfter
  <2>2. CASE lFile'[k] = lNext
    BY <2>2 DEF LogIInv, OutOrder
  <2> QED
    BY <1>5, <2>1, <2>2
<1>9. ReaderPlace'
  <2>1. CASE NewerAfter(0)
    <3>1. \A i \in 1 .. Len(lOut), k \in 1 .. Len(lFile') : k > 0 => lOut[i] < lFile'[k]
      BY <1>8, <2>1
    <3> QED
      BY <1>1, <3>1 DEF ReaderPlace, NewerAfter
  <2>2. CASE lOff \in 1 .. Len(lFile) /\ lFp = lFile[lOff] /\ NewerAfter(lOff)
    <3>1. lOff \in Nat
      BY <1>2, <2>2
    <3>2. \A i \in 1 .. Len(lOut), k \in 1 .. Len(lFile') : k > lOff => lOut[i] < lFile'[k]
      BY <1>8, <2>2, <3>1
    <3>3. lOff' \in 1 .. Len(lFile') /\ lFp' = lFile'[lOff'] /\ lOff' = lOff
      BY <1>1, <1>2, <2>2
    <3> QED
      BY <1>1, <3>2, <3>3 DEF ReaderPlace, NewerAfter
  <2> QED
    BY <2>1, <2>2 DEF LogIInv, ReaderPlace
<1> QED
  BY <1>1, <1>3, <1>4, <1>6, <1>7, <1>9 DEF LogIInv

(* A step that leaves the file, the lines and the reader alone. *)
LEMMA SameFile ==
  ASSUME LogIInv, UNCHANGED << lNext, lFile, lOff, lFp, lOut >>,
         lBaks' \in [1 .. Backups -> Seq(Nat)], lPc' \in {"idle", "copy", "truncate", "rotated"},
         lFails' \in 0 .. MaxRotateFails,
         lPc' = "copy" => lBaks'[1] = << >>,
         lPc' = "truncate" => lBaks'[1] = lFile,
         NoGapTo'
  PROVE  LogIInv'
<1>1. LogTypes'
  BY DEF LogIInv, LogTypes
<1>2. FileOrder' /\ OutOrder' /\ ReaderPlace'
  BY DEF LogIInv, FileOrder, OutOrder, ReaderPlace, NewerAfter
<1> QED
  BY <1>1, <1>2 DEF LogIInv

LEMMA ShiftStep == ASSUME LogIInv, RotateShift PROVE LogIInv'
<1>0. Backups \in Nat /\ Backups >= 1 /\ lBaks \in [1 .. Backups -> Seq(Nat)]
  BY AgentOutputAssumption DEF LogIInv, LogTypes
<1>1. /\ lBaks' = [i \in 1 .. Backups |-> IF i = 1 THEN << >> ELSE lBaks[i - 1]]
      /\ lPc' = "copy" /\ UNCHANGED << lNext, lFile, lFails, lOff, lFp, lOut >>
  BY DEF RotateShift
<1>2. \A j \in 1 .. Backups : lBaks'[j] = IF j = 1 THEN << >> ELSE lBaks[j - 1]
  BY <1>1
<1>3. lBaks' \in [1 .. Backups -> Seq(Nat)]
  BY <1>0, <1>1, EmptyFacts
<1>4. \A i \in 1 .. Backups : \A x : KeptTo(i, x)' <=> KeptTo(i - 1, x)
  <2> SUFFICES ASSUME NEW i \in 1 .. Backups, NEW x
               PROVE  (\E j \in 1 .. i : x \in ToSet(lBaks'[j])) <=> \E j \in 1 .. i - 1 : x \in ToSet(lBaks[j])
    BY <1>1 DEF KeptTo
  <2>1. ASSUME NEW j \in 1 .. i, x \in ToSet(lBaks'[j]) PROVE \E k \in 1 .. i - 1 : x \in ToSet(lBaks[k])
    <3>1. j # 1
      BY <1>0, <1>2, <2>1, EmptyFacts
    <3>2. j - 1 \in 1 .. i - 1 /\ lBaks'[j] = lBaks[j - 1]
      BY <1>0, <1>2, <3>1
    <3> QED
      BY <2>1, <3>2
  <2>2. ASSUME NEW j \in 1 .. i - 1, x \in ToSet(lBaks[j]) PROVE \E k \in 1 .. i : x \in ToSet(lBaks'[k])
    <3>1. j + 1 \in 1 .. i /\ j + 1 \in 1 .. Backups /\ j + 1 # 1 /\ (j + 1) - 1 = j
      BY <1>0
    <3>2. lBaks'[j + 1] = lBaks[j]
      BY <1>2, <3>1
    <3> QED
      BY <2>2, <3>1, <3>2
  <2> QED
    BY <2>1, <2>2
<1>5. NoGapTo'
  <2> SUFFICES ASSUME NEW i \in 0 .. Backups, NEW n \in Nat, NEW m \in Nat,
                      KeptTo(i, n)', n <= m, m < lNext'
               PROVE  KeptTo(i, m)'
    BY DEF NoGapTo
  <2>1. CASE i = 0
    <3>1. \A x : KeptTo(0, x)' <=> KeptTo(0, x)
      BY <1>1 DEF KeptTo
    <3>2. KeptTo(0, m)
      BY <1>0, <1>1, <2>1, <3>1 DEF LogIInv, NoGapTo
    <3> QED
      BY <2>1, <3>1, <3>2
  <2>2. CASE i \in 1 .. Backups
    <3>1. i - 1 \in 0 .. Backups /\ KeptTo(i - 1, n)
      BY <1>0, <1>4, <2>2
    <3>2. KeptTo(i - 1, m)
      BY <1>1, <3>1 DEF LogIInv, NoGapTo
    <3> QED
      BY <1>4, <2>2, <3>2
  <2> QED
    BY <1>0, <2>1, <2>2
<1>6. 1 \in 1 .. Backups /\ lBaks'[1] = << >> /\ lFails' \in 0 .. MaxRotateFails
  BY <1>0, <1>1, <1>2 DEF LogIInv, LogTypes
<1> QED
  BY <1>1, <1>3, <1>5, <1>6, SameFile

LEMMA CopyStep == ASSUME LogIInv, RotateCopy PROVE LogIInv'
<1>0. Backups \in Nat /\ 1 \in 1 .. Backups /\ lBaks \in [1 .. Backups -> Seq(Nat)] /\ lFile \in Seq(Nat)
  BY AgentOutputAssumption DEF LogIInv, LogTypes
<1>1. /\ lPc = "copy" /\ lBaks' = [lBaks EXCEPT ![1] = lFile] /\ lPc' = "truncate"
      /\ UNCHANGED << lNext, lFile, lFails, lOff, lFp, lOut >>
  BY DEF RotateCopy
<1>2. ToSet(lBaks[1]) = {} /\ lBaks'[1] = lFile /\ \A j \in 1 .. Backups : j # 1 => lBaks'[j] = lBaks[j]
  BY <1>0, <1>1, EmptyFacts DEF LogIInv
<1>3. \A i \in 0 .. Backups : \A x : KeptTo(i, x)' <=> KeptTo(i, x)
  <2> SUFFICES ASSUME NEW i \in 0 .. Backups, NEW x PROVE KeptTo(i, x)' <=> KeptTo(i, x)
    OBVIOUS
  <2>1. \A j \in 1 .. i : j \in 1 .. Backups
    BY <1>0
  <2>2. \A j \in 1 .. i : x \in ToSet(lBaks'[j]) => x \in ToSet(lFile) \/ x \in ToSet(lBaks[j])
    BY <1>2, <2>1
  <2>3. \A j \in 1 .. i : x \in ToSet(lBaks[j]) => x \in ToSet(lBaks'[j])
    BY <1>2, <2>1
  <2> QED
    BY <1>1, <2>2, <2>3 DEF KeptTo
<1>4. NoGapTo'
  BY <1>1, <1>3 DEF LogIInv, NoGapTo
<1>5. lBaks' \in [1 .. Backups -> Seq(Nat)] /\ lFails' \in 0 .. MaxRotateFails
  BY <1>0, <1>1 DEF LogIInv, LogTypes
<1> QED
  BY <1>1, <1>2, <1>4, <1>5, SameFile

LEMMA FailStep == ASSUME LogIInv, RotateFails \/ LogReopen PROVE LogIInv'
<1>1. /\ lPc' \in {"rotated", "idle"} /\ lFails < MaxRotateFails /\ lFails' = lFails + 1
      /\ UNCHANGED << lNext, lFile, lBaks, lOff, lFp, lOut >>
  BY DEF RotateFails, LogReopen
<1>2. NoGapTo'
  BY <1>1 DEF LogIInv, NoGapTo, KeptTo
<1>3. lFails' \in 0 .. MaxRotateFails /\ lBaks' \in [1 .. Backups -> Seq(Nat)]
  BY <1>1, AgentOutputAssumption DEF LogIInv, LogTypes
<1> QED
  BY <1>1, <1>2, <1>3, SameFile

LEMMA TruncateStep == ASSUME LogIInv, RotateTruncate PROVE LogIInv'
<1>0. Backups \in Nat /\ 1 \in 1 .. Backups /\ lNext \in Nat
  BY AgentOutputAssumption DEF LogIInv, LogTypes
<1>1. /\ lPc = "truncate" /\ lFile' = << >> /\ lPc' = "rotated" /\ lBaks[1] = lFile
      /\ UNCHANGED << lNext, lBaks, lFails, lOff, lFp, lOut >>
  BY DEF RotateTruncate, LogIInv
<1>2. LogTypes'
  BY <1>1, EmptyFacts DEF LogIInv, LogTypes
<1>3. \A i \in 1 .. Backups : \A x : KeptTo(i, x)' <=> KeptTo(i, x)
  BY <1>0, <1>1, EmptyFacts DEF KeptTo
<1>4. \A x : ~KeptTo(0, x)'
  BY <1>1, EmptyFacts DEF KeptTo
<1>5. NoGapTo'
  <2> SUFFICES ASSUME NEW i \in 0 .. Backups, NEW n \in Nat, NEW m \in Nat,
                      KeptTo(i, n)', n <= m, m < lNext
               PROVE  KeptTo(i, m)'
    BY <1>1 DEF NoGapTo
  <2>1. i \in 1 .. Backups
    BY <1>0, <1>4
  <2> QED
    BY <1>3, <2>1 DEF LogIInv, NoGapTo
<1>6. Len(lFile') = 0 /\ Len(lFile') < lNext'
  BY <1>0, <1>1, EmptyFacts DEF LogIInv, LogTypes
<1>7. FileOrder'
  BY <1>6 DEF FileOrder
<1>8. OutOrder'
  BY <1>1 DEF LogIInv, OutOrder
<1>9. ReaderPlace'
  BY <1>6 DEF ReaderPlace, NewerAfter
<1> QED
  BY <1>1, <1>2, <1>5, <1>7, <1>8, <1>9 DEF LogIInv

LEMMA RestartStep == ASSUME LogIInv, TailRestart PROVE LogIInv'
<1>1. Truncated /\ lOff' = 0 /\ lFp' = 0 /\ UNCHANGED << lNext, lFile, lBaks, lPc, lFails, lOut >>
  BY DEF TailRestart
<1>2. LogTypes'
  BY <1>1, AgentOutputAssumption DEF LogIInv, LogTypes
<1>3. NewerAfter(0)
  <2>1. Len(lFile) \in Nat /\ lOff \in Nat
    BY AgentOutputAssumption DEF LogIInv, LogTypes
  <2>2. ~(lOff \in 1 .. Len(lFile) /\ lFp = lFile[lOff])
    BY <1>1, <2>1 DEF Truncated
  <2> QED
    BY <2>2 DEF LogIInv, ReaderPlace
<1>4. NoGapTo' /\ FileOrder' /\ OutOrder' /\ ReaderPlace'
  BY <1>1, <1>3 DEF LogIInv, NoGapTo, KeptTo, FileOrder, OutOrder, ReaderPlace, NewerAfter
<1> QED
  BY <1>1, <1>2, <1>4 DEF LogIInv

\* The elements of two sequences joined.
LEMMA ConcatParts ==
  ASSUME NEW S, NEW p \in Seq(S), NEW q \in Seq(S)
  PROVE  /\ p \o q \in Seq(S) /\ Len(p \o q) = Len(p) + Len(q) /\ Len(p) \in Nat /\ Len(q) \in Nat
         /\ \A i \in 1 .. Len(p) : (p \o q)[i] = p[i]
         /\ \A i \in 1 .. Len(p \o q) : i > Len(p) => (p \o q)[i] = q[i - Len(p)]
OBVIOUS

(* What is printed after a read: the old lines, then those of the file from
   the place on. *)
LEMMA ReadFacts ==
  ASSUME NEW out \in Seq(Nat), NEW f \in Seq(Nat), NEW o \in Nat, o < Len(f)
  PROVE  LET new == out \o SubSeq(f, o + 1, Len(f)) IN
         /\ new \in Seq(Nat)
         /\ \A i \in 1 .. Len(new) :
              \/ i \in 1 .. Len(out) /\ new[i] = out[i]
              \/ i > Len(out) /\ \E k \in 1 .. Len(f) : k > o /\ k - o = i - Len(out) /\ new[i] = f[k]
<1> DEFINE rest == SubSeq(f, o + 1, Len(f))
           new == out \o rest
<1>1. Len(f) \in Nat /\ Len(out) \in Nat
  OBVIOUS
<1>2. rest \in Seq(Nat) /\ Len(rest) = Len(f) - o
  BY <1>1
<1>3. \A k \in 1 .. Len(rest) : rest[k] = f[o + k] /\ o + k \in 1 .. Len(f)
  BY <1>1, <1>2
<1> HIDE DEF rest
<1>4. new = out \o rest
  OBVIOUS
<1> HIDE DEF new
<1>5. new \in Seq(Nat) /\ Len(new) = Len(out) + Len(rest) /\ Len(rest) \in Nat
  <2>1. Len(rest) \in Nat
    BY <1>2
  <2>2. new \in Seq(Nat) /\ Len(new) = Len(out) + Len(rest)
    BY <1>2, <1>4, ConcatParts
  <2> QED
    BY <2>1, <2>2
<1>6. \A i \in 1 .. Len(out) : new[i] = out[i]
  BY <1>2, <1>4, ConcatParts
<1>7. ASSUME NEW i \in 1 .. Len(new), i > Len(out)
      PROVE  \E k \in 1 .. Len(f) : k > o /\ k - o = i - Len(out) /\ new[i] = f[k]
  <2>1. i - Len(out) \in 1 .. Len(rest)
    BY <1>1, <1>5, <1>7
  <2>2. new[i] = rest[i - Len(out)]
    BY <1>2, <1>4, <1>7, ConcatParts
  <2>3. o + (i - Len(out)) \in 1 .. Len(f) /\ new[i] = f[o + (i - Len(out))]
    BY <1>3, <2>1, <2>2
  <2>4. o + (i - Len(out)) > o /\ (o + (i - Len(out))) - o = i - Len(out)
    BY <1>1, <1>7
  <2> QED
    BY <2>3, <2>4
<1>8. \A i \in 1 .. Len(new) : i \in 1 .. Len(out) \/ i > Len(out)
  BY <1>1, <1>5
<1> QED
  BY <1>5, <1>6, <1>7, <1>8, Zenon DEF new, rest

\* The reader takes what the file has beyond its offset.
LEMMA ReadStep == ASSUME LogIInv, TailRead PROVE LogIInv'
<1>1. /\ Len(lFile) > lOff /\ lOut' = lOut \o SubSeq(lFile, lOff + 1, Len(lFile))
      /\ lOff' = Len(lFile) /\ lFp' = lFile[Len(lFile)]
      /\ UNCHANGED << lNext, lFile, lBaks, lPc, lFails >>
  BY DEF TailRead, Last
<1>2. /\ lFile \in Seq(Nat) /\ lOut \in Seq(Nat) /\ lOff \in Nat /\ Len(lFile) \in Nat /\ Len(lOut) \in Nat
      /\ lNext \in 1 .. MaxLines + 1 /\ MaxLines \in Nat
  BY AgentOutputAssumption DEF LogIInv, LogTypes
<1>3. /\ lOut' \in Seq(Nat)
      /\ \A i \in 1 .. Len(lOut') :
           \/ i \in 1 .. Len(lOut) /\ lOut'[i] = lOut[i]
           \/ i > Len(lOut) /\ \E k \in 1 .. Len(lFile) : k > lOff /\ k - lOff = i - Len(lOut) /\ lOut'[i] = lFile[k]
  <2>1. lOff < Len(lFile)
    BY <1>1, <1>2
  <2> QED
    BY <1>1, <1>2, <2>1, ReadFacts
<1>5. NewerAfter(lOff)
  BY <1>2 DEF LogIInv, ReaderPlace, NewerAfter
<1>6. \A k \in 1 .. Len(lFile) : lFile[k] \in Nat /\ lFile[k] < lNext
  <2>1. lNext \in Int
    BY <1>2
  <2>2. \A k \in 1 .. Len(lFile) : lFile[k] \in 1 .. lNext - 1
    BY Zenon DEF LogIInv, FileOrder
  <2>3. SUFFICES ASSUME NEW k \in 1 .. Len(lFile) PROVE lFile[k] \in Nat /\ lFile[k] < lNext
    OBVIOUS
  <2> QED
    BY <2>1, <2>2
<1>7. lOff' \in 0 .. MaxLines /\ lFp' \in 0 .. MaxLines /\ lOff' \in 1 .. Len(lFile)
  BY <1>1, <1>2, <1>6 DEF LogIInv, FileOrder
<1>8. LogTypes'
  BY <1>1, <1>3, <1>7 DEF LogIInv, LogTypes
<1>10. OutOrder'
  <2>1. ASSUME NEW i \in 1 .. Len(lOut') PROVE lOut'[i] < lNext'
    BY <1>1, <1>3, <1>6 DEF LogIInv, OutOrder
  <2>2. ASSUME NEW i \in 1 .. Len(lOut'), NEW j \in 1 .. Len(lOut'), i < j PROVE lOut'[i] < lOut'[j]
    <3>1. CASE j \in 1 .. Len(lOut) /\ lOut'[j] = lOut[j]
      <4>1. i \in 1 .. Len(lOut) /\ ~(i > Len(lOut))
        BY <1>2, <2>2, <3>1
      <4>2. lOut'[i] = lOut[i]
        BY <1>3, <4>1
      <4> QED
        BY <2>2, <3>1, <4>1, <4>2 DEF LogIInv, OutOrder
    <3>2. ASSUME NEW k \in 1 .. Len(lFile), k > lOff, k - lOff = j - Len(lOut), lOut'[j] = lFile[k]
          PROVE  lOut'[i] < lOut'[j]
      <4>1. CASE i \in 1 .. Len(lOut) /\ lOut'[i] = lOut[i]
        BY <1>5, <3>2, <4>1 DEF NewerAfter
      <4>2. ASSUME NEW n \in 1 .. Len(lFile), n - lOff = i - Len(lOut), lOut'[i] = lFile[n]
            PROVE  lOut'[i] < lOut'[j]
        <5>1. n < k
          BY <1>2, <2>2, <3>2, <4>2
        <5> QED
          BY <3>2, <4>2, <5>1 DEF LogIInv, FileOrder
      <4> QED
        BY <1>3, <4>1, <4>2
    <3> QED
      BY <1>3, <3>1, <3>2
  <2> QED
    BY <2>1, <2>2 DEF OutOrder
<1>11. ReaderPlace'
  <2>1. \A k \in 1 .. Len(lFile) : ~(k > lOff')
    BY <1>1, <1>2
  <2> QED
    BY <1>1, <1>7, <2>1 DEF ReaderPlace, NewerAfter
<1>12. NoGapTo' /\ FileOrder'
  BY <1>1 DEF LogIInv, NoGapTo, KeptTo, FileOrder
<1> QED
  BY <1>1, <1>8, <1>10, <1>11, <1>12 DEF LogIInv

LEMMA LogStep == LogIInv /\ [LogNext]_lVars => LogIInv'
<1> SUFFICES ASSUME LogIInv, [LogNext]_lVars PROVE LogIInv'
  OBVIOUS
<1>1. CASE UNCHANGED lVars
  BY <1>1 DEF lVars, LogIInv, LogTypes, NoGapTo, KeptTo, FileOrder, OutOrder, ReaderPlace, NewerAfter
<1>2. CASE LogNext
  BY <1>2, LogWriteStep, ShiftStep, CopyStep, FailStep, TruncateStep, RestartStep, ReadStep DEF LogNext
<1> QED
  BY <1>1, <1>2

LEMMA OutputHolds == ChunkIInv /\ LogIInv => OutputInv
BY ChunksHold, LogHolds DEF OutputInv, AgentOutputTypeOK, ChunkIInv, ChunkTypes, LogIInv, LogTypes

(* The enrolment of machines *)

TokenRow ==
  [kind : {"one_time", "automation"}, tenant : Tenants, max : Nat,
   nets : SUBSET Addresses, used : Nat, enabled : BOOLEAN, expired : BOOLEAN]
HostRow == [ip : Addresses, agent : 1 .. MaxRegs, tenant : Tenants]
AgentRow == [id : 1 .. MaxRegs, host : 1 .. MaxHosts, ip : Addresses, tenant : Tenants]
CommitRow == [tok : EnrolTokens, id : 1 .. MaxRegs,
              status : {"absent", "revoked", "expired", "exhausted", "active"}]
NoTx == [pc |-> "idle"]
TxRow == [pc : {"locked", "consumed", "answer"}, tok : EnrolTokens, ip : Addresses,
          id : 1 .. MaxRegs]
OldToken == [kind |-> "deleted"]
OldHost == [ip |-> "deleted"]

EnrolmentTypes ==
  /\ eTok \in [EnrolTokens -> TokenRow \cup {NoToken, OldToken}]
  /\ eHost \in [1 .. MaxHosts -> HostRow \cup {NoHost, OldHost}]
  /\ eAgents \subseteq AgentRow
  /\ eTx \in [Machines -> TxRow \cup {NoTx}]
  /\ eCred \in [Machines -> 0 .. MaxRegs]
  /\ eTrusted \in BOOLEAN
  /\ eCommits \subseteq CommitRow /\ IsFiniteSet(eCommits)
  /\ eNext \in 1 .. (MaxRegs + 1)
  /\ eLost \in 0 .. MaxLost

CommitsOf(t) == {c \in eCommits : c.tok = t}

\* What the transactions owe the rows they hold.
TokensFit ==
  /\ \A t \in EnrolTokens : eTok[t] \in TokenRow =>
       /\ eTok[t].used = Cardinality(CommitsOf(t)) + (IF Locked(t) THEN 1 ELSE 0)
       /\ eTok[t].max > 0 => eTok[t].used <= eTok[t].max
  /\ \A m \in Machines : eTx[m] # NoTx => eTok[eTx[m].tok] # NoToken
  /\ \A c \in eCommits : eTok[c.tok] # NoToken /\ c.status \notin {"revoked", "absent"}
  /\ \A m \in Machines : eTx[m].pc = "consumed" =>
       eTok[eTx[m].tok] \in TokenRow /\ eTok[eTx[m].tok].enabled
  /\ \A m, n \in Machines :
       eTx[m].pc = "consumed" /\ eTx[n].pc = "consumed" /\ eTx[m].tok = eTx[n].tok => m = n

Busy(m) == eTx[m].pc \in {"locked", "consumed"}

\* Every registration has an identity of its own.
IdentitiesFit ==
  /\ \A m \in Machines : eTx[m] # NoTx => eTx[m].id < eNext
  /\ \A m, n \in Machines : eTx[m] # NoTx /\ eTx[n] # NoTx /\ eTx[m].id = eTx[n].id => m = n
  /\ \A m \in Machines : eCred[m] < eNext
  /\ \A m, n \in Machines : eCred[m] # 0 /\ eCred[m] = eCred[n] => m = n
  /\ \A m, n \in Machines : eTx[m] # NoTx => eTx[m].id # eCred[n]
  /\ \A a \in eAgents : a.id < eNext
  /\ \A c \in eCommits : c.id < eNext
  /\ \A m \in Machines : Busy(m) => /\ \A a \in eAgents : a.id # eTx[m].id
                                    /\ \A c \in eCommits : c.id # eTx[m].id

Lags(a) == a.ip = Loop /\ eHost[a.host].ip # Loop

\* Hosts, addresses and credentials fit.
HostsFit ==
  /\ \A h, g \in 1 .. MaxHosts :
       eHost[h] \in HostRow /\ eHost[g] \in HostRow /\ eHost[h].ip = eHost[g].ip => h = g
  /\ \A a \in eAgents :
       /\ eHost[a.host] \in HostRow
       /\ eHost[a.host].agent = a.id /\ eHost[a.host].tenant = a.tenant
       /\ a.ip = eHost[a.host].ip \/ a.ip = Loop
  /\ \A h \in 1 .. MaxHosts : eHost[h] \in HostRow =>
       \E a \in eAgents : a.id = eHost[h].agent /\ a.host = h
  /\ \A a, b \in eAgents : a.host = b.host \/ a.ip = b.ip \/ a.id = b.id => a = b
  /\ \A a \in eAgents : Lags(a) =>
       /\ eTrusted
       /\ \A h \in 1 .. MaxHosts : eHost[h].ip # Loop
       /\ \A m \in Machines : eCred[m] = a.id => eHost[a.host].ip = m
       /\ \A m \in Machines : eTx[m] # NoTx => eTx[m].id # a.id
  /\ \A m \in Machines : eTx[m] # NoTx => eTx[m].ip = clientIP(m)

EnrolmentIInv == EnrolmentTypes /\ TokensFit /\ IdentitiesFit /\ HostsFit

-----------------------------------------------------------------------------
\* The rows of tokens, hosts and registrations, by what they hold.
LEMMA RowKinds ==
  ASSUME EnrolmentTypes
  PROVE  /\ NoToken \notin TokenRow /\ OldToken \notin TokenRow
         /\ \A t \in EnrolTokens :
              /\ eTok[t].kind \in {"one_time", "automation"} <=> eTok[t] \in TokenRow
              /\ TokenStatus(t) # "absent" <=> eTok[t] \in TokenRow
         /\ NoHost \notin HostRow /\ OldHost \notin HostRow
         /\ DOMAIN eHost = 1 .. MaxHosts
         /\ \A h \in 1 .. MaxHosts : eHost[h].ip \in Addresses <=> eHost[h] \in HostRow
         /\ Loop \in Addresses /\ Machines \subseteq Addresses
         /\ \A m \in Machines : /\ eTx[m].pc = "idle" <=> eTx[m] = NoTx
                                /\ eTx[m] # NoTx <=> eTx[m] \in TxRow
  <1>1. NoToken \notin TokenRow /\ OldToken \notin TokenRow
    BY DEF NoToken, OldToken, TokenRow
  <1>2. NoHost \notin HostRow /\ OldHost \notin HostRow
    BY EnrolmentAssumption DEF NoHost, OldHost, HostRow, Addresses
  <1>3. ASSUME NEW t \in EnrolTokens
        PROVE  eTok[t].kind \in {"one_time", "automation"} <=> eTok[t] \in TokenRow
    BY DEF EnrolmentTypes, NoToken, OldToken, TokenRow
  <1>4. ASSUME NEW t \in EnrolTokens
        PROVE  TokenStatus(t) # "absent" <=> eTok[t] \in TokenRow
    BY <1>3 DEF TokenStatus
  <1>5. DOMAIN eHost = 1 .. MaxHosts
    BY DEF EnrolmentTypes
  <1>6. ASSUME NEW h \in 1 .. MaxHosts
        PROVE  eHost[h].ip \in Addresses <=> eHost[h] \in HostRow
    BY EnrolmentAssumption DEF EnrolmentTypes, NoHost, OldHost, HostRow, Addresses
  <1>7. Loop \in Addresses /\ Machines \subseteq Addresses
    BY DEF Addresses
  <1>8. ASSUME NEW m \in Machines
        PROVE  /\ eTx[m].pc = "idle" <=> eTx[m] = NoTx
               /\ eTx[m] # NoTx <=> eTx[m] \in TxRow
    BY DEF EnrolmentTypes, NoTx, TxRow
  <1>. QED
    BY <1>1, <1>2, <1>3, <1>4, <1>5, <1>6, <1>7, <1>8

\* What is kept implies what the run checks.
LEMMA EnrolmentHolds == EnrolmentIInv => EnrolmentInv
  <1>. SUFFICES ASSUME EnrolmentIInv PROVE EnrolmentInv
    OBVIOUS
  <1>. USE DEF EnrolmentIInv
  <1>0. EnrolmentTypes
    OBVIOUS
  <1>1. EnrolmentTypeOK
    <2>1. \A t \in EnrolTokens : TokenStatus(t) \in {"absent", "revoked", "expired", "exhausted", "active"}
      BY DEF TokenStatus
    <2>2. \A a \in eAgents : a.id \in 1 .. MaxRegs /\ a.ip \in Addresses /\ a.host \in DOMAIN eHost
      BY RowKinds DEF EnrolmentTypes, AgentRow
    <2>3. QED
      BY <2>1, <2>2 DEF EnrolmentTypes, EnrolmentTypeOK
  <1>2. UsesHonest
    BY RowKinds DEF UsesHonest, TokensFit, CommitsOf
  <1>3. RevokedAdmitsNobody
    BY DEF RevokedAdmitsNobody, TokensFit
  <1>4. OneCredential
    BY DEF OneCredential, HostsFit
  <1>5. CredentialKeepsTenant
    BY DEF CredentialKeepsTenant, HostsFit
  <1>6. HostHasCredential
    BY RowKinds DEF HostHasCredential, HostsFit
  <1>. QED
    BY <1>1, <1>2, <1>3, <1>4, <1>5, <1>6 DEF EnrolmentInv

LEMMA EnrolmentBegins == EnrolmentInit => EnrolmentIInv
  <1>. SUFFICES ASSUME EnrolmentInit PROVE EnrolmentIInv
    OBVIOUS
  <1>. USE DEF EnrolmentInit
  <1>1. EnrolmentTypes
    <2>1. eTok \in [EnrolTokens -> TokenRow \cup {NoToken, OldToken}]
      OBVIOUS
    <2>2. eHost \in [1 .. MaxHosts -> HostRow \cup {NoHost, OldHost}]
      OBVIOUS
    <2>3. eTx \in [Machines -> TxRow \cup {NoTx}]
      BY DEF NoTx
    <2>4. eAgents \subseteq AgentRow /\ eCommits \subseteq CommitRow /\ IsFiniteSet(eCommits)
      BY FS_EmptySet
    <2>5. eCred \in [Machines -> 0 .. MaxRegs]
      BY EnrolmentAssumption
    <2>6. eNext \in 1 .. (MaxRegs + 1) /\ eLost \in 0 .. MaxLost
      BY EnrolmentAssumption
    <2>7. eTrusted \in BOOLEAN
      BY Zenon
    <2>. QED
      BY <2>1, <2>2, <2>3, <2>4, <2>5, <2>6, <2>7 DEF EnrolmentTypes
  <1>2. TokensFit
    <2>1. \A t \in EnrolTokens : eTok[t] \notin TokenRow
      BY <1>1, RowKinds
    <2>2. \A m \in Machines : eTx[m] = NoTx /\ eTx[m].pc # "consumed"
      BY DEF NoTx
    <2>. QED
      BY <2>1, <2>2 DEF TokensFit
  <1>3. IdentitiesFit
    BY DEF IdentitiesFit, NoTx, Busy
  <1>4. HostsFit
    <2>1. \A h \in 1 .. MaxHosts : eHost[h] \notin HostRow
      BY <1>1, RowKinds
    <2>. QED
      BY <2>1 DEF HostsFit, NoTx
  <1>. QED
    BY <1>1, <1>2, <1>3, <1>4 DEF EnrolmentIInv

\* A change of the tokens' rows alone.
LEMMA RowsChange ==
  ASSUME EnrolmentIInv,
         eTok' \in [EnrolTokens -> TokenRow \cup {NoToken, OldToken}],
         UNCHANGED << eHost, eAgents, eTx, eCred, eTrusted, eCommits, eNext, eLost >>,
         \A t \in EnrolTokens : eTok[t] # NoToken => eTok'[t] # NoToken,
         \A t \in EnrolTokens : eTok'[t] \in TokenRow =>
           \/ eTok[t] \in TokenRow /\ eTok'[t].used = eTok[t].used /\ eTok'[t].max = eTok[t].max
           \/ eTok[t] = NoToken /\ eTok'[t].used = 0,
         \A t \in EnrolTokens : Locked(t) => eTok'[t] \in TokenRow /\ eTok'[t].enabled
  PROVE  EnrolmentIInv'
  <1>. USE DEF EnrolmentIInv
  <1>1. EnrolmentTypes'
    BY DEF EnrolmentTypes
  <1>2. IdentitiesFit' /\ HostsFit'
    BY DEF IdentitiesFit, HostsFit, Busy, Lags, clientIP
  <1>3. \A t \in EnrolTokens : Locked(t)' <=> Locked(t)
    BY DEF Locked
  <1>4. \A t \in EnrolTokens : CommitsOf(t)' = CommitsOf(t)
    BY DEF CommitsOf
  <1>5. ASSUME NEW t \in EnrolTokens, eTok'[t] \in TokenRow
        PROVE  /\ eTok'[t].used = Cardinality(CommitsOf(t)) + (IF Locked(t) THEN 1 ELSE 0)
               /\ eTok'[t].max > 0 => eTok'[t].used <= eTok'[t].max
    <2>1. CASE eTok[t] \in TokenRow /\ eTok'[t].used = eTok[t].used /\ eTok'[t].max = eTok[t].max
      BY <2>1 DEF TokensFit
    <2>2. CASE eTok[t] = NoToken /\ eTok'[t].used = 0
      <3>1. CommitsOf(t) = {}
        BY <2>2 DEF TokensFit, CommitsOf
      <3>2. ~Locked(t)
        BY <2>2, RowKinds DEF Locked, TokensFit
      <3>3. Cardinality(CommitsOf(t)) = 0
        BY <3>1, FS_EmptySet
      <3>4. eTok'[t].max \in Nat
        BY <1>5 DEF TokenRow
      <3>. QED
        BY <2>2, <3>2, <3>3, <3>4
    <2>. QED
      BY <1>5, <2>1, <2>2
  <1>6. \A m \in Machines : eTx[m].pc = "consumed" => eTx[m].tok \in EnrolTokens /\ Locked(eTx[m].tok)
    BY DEF Locked, EnrolmentTypes, TxRow, NoTx
  <1>7. \A m \in Machines : eTx[m] # NoTx => eTx[m].tok \in EnrolTokens
    BY DEF EnrolmentTypes, TxRow
  <1>8. \A c \in eCommits : c.tok \in EnrolTokens
    BY DEF EnrolmentTypes, CommitRow
  <1>9. TokensFit'
    <2>1. \A t \in EnrolTokens : eTok'[t] \in TokenRow =>
            /\ eTok'[t].used = Cardinality(CommitsOf(t)') + (IF Locked(t)' THEN 1 ELSE 0)
            /\ eTok'[t].max > 0 => eTok'[t].used <= eTok'[t].max
      BY <1>3, <1>4, <1>5
    <2>2. \A m \in Machines : eTx'[m] # NoTx => eTok'[eTx'[m].tok] # NoToken
      BY <1>7 DEF TokensFit
    <2>3. \A c \in eCommits' : eTok'[c.tok] # NoToken /\ c.status \notin {"revoked", "absent"}
      BY <1>8 DEF TokensFit
    <2>4. \A m \in Machines : eTx'[m].pc = "consumed" =>
            eTok'[eTx'[m].tok] \in TokenRow /\ eTok'[eTx'[m].tok].enabled
      BY <1>6
    <2>5. \A m, n \in Machines :
            eTx'[m].pc = "consumed" /\ eTx'[n].pc = "consumed" /\ eTx'[m].tok = eTx'[n].tok => m = n
      BY DEF TokensFit
    <2>. QED
      BY <2>1, <2>2, <2>3, <2>4, <2>5 DEF TokensFit
  <1>. QED
    BY <1>1, <1>2, <1>9

\* A new token, of either kind.
LEMMA InsertKeeps ==
  ASSUME EnrolmentIInv, NEW t \in EnrolTokens, FreshToken(t), NEW p \in EnrolPolicies, insertToken(t, p),
         UNCHANGED << eHost, eAgents, eTx, eCred, eTrusted, eCommits, eNext, eLost >>
  PROVE  EnrolmentIInv'
  <1>. DEFINE row == [kind |-> p.kind, tenant |-> p.tenant, max |-> p.max, nets |-> p.nets,
                      used |-> 0, enabled |-> TRUE, expired |-> FALSE]
  <1>1. row \in TokenRow
    BY EnrolmentAssumption DEF TokenRow, Addresses
  <1>2. row.used = 0
    OBVIOUS
  <1>3. eTok \in [EnrolTokens -> TokenRow \cup {NoToken, OldToken}]
    BY DEF EnrolmentIInv, EnrolmentTypes
  <1>4. eTok' = [eTok EXCEPT ![t] = row]
    BY DEF insertToken
  <1>5. eTok[t] = NoToken
    BY DEF FreshToken
  <1>6. EnrolmentTypes /\ NoToken \notin TokenRow
    BY RowKinds DEF EnrolmentIInv
  <1>7. ~Locked(t)
    BY <1>5, <1>6, RowKinds DEF Locked, EnrolmentIInv, TokensFit
  <1>8. \A s \in EnrolTokens : Locked(s) => eTok[s] \in TokenRow /\ eTok[s].enabled
    BY DEF Locked, EnrolmentIInv, TokensFit
  <1>. HIDE DEF row
  <1>9. eTok' \in [EnrolTokens -> TokenRow \cup {NoToken, OldToken}]
    BY <1>1, <1>3, <1>4
  <1>10. eTok'[t] = row /\ \A s \in EnrolTokens : s # t => eTok'[s] = eTok[s]
    BY <1>3, <1>4
  <1>. QED
    BY <1>1, <1>2, <1>5, <1>6, <1>7, <1>8, <1>9, <1>10, RowsChange

\* A revoked token is not held by a registration: the statement waits for the
\* row.
\* A revoked token is not held by a registration: the statement waits for the
\* row.
LEMMA RevokeKeeps ==
  ASSUME EnrolmentIInv, NEW t \in EnrolTokens, AutomationEnrollTokenRevoke(t)
  PROVE  EnrolmentIInv'
  <1>1. EnrolmentTypes /\ ~Locked(t) /\ eTok[t] # NoToken
    BY DEF EnrolmentIInv, AutomationEnrollTokenRevoke, Automation
  <1>2. eTok[t] \in TokenRow
    BY <1>1, RowKinds DEF AutomationEnrollTokenRevoke, Automation
  <1>3. eTok' = [eTok EXCEPT ![t] = [eTok[t] EXCEPT !.enabled = FALSE]]
    BY DEF AutomationEnrollTokenRevoke
  <1>4. eTok \in [EnrolTokens -> TokenRow \cup {NoToken, OldToken}]
    BY <1>1 DEF EnrolmentTypes
  <1>5. /\ eTok'[t] \in TokenRow /\ eTok'[t].used = eTok[t].used /\ eTok'[t].max = eTok[t].max
        /\ \A s \in EnrolTokens : s # t => eTok'[s] = eTok[s]
    BY <1>2, <1>3, <1>4 DEF TokenRow
  <1>6. eTok' \in [EnrolTokens -> TokenRow \cup {NoToken, OldToken}]
    BY <1>3, <1>4, <1>5
  <1>7. \A s \in EnrolTokens : Locked(s) => eTok[s] \in TokenRow /\ eTok[s].enabled
    BY DEF Locked, EnrolmentIInv, TokensFit
  <1>. QED
    BY <1>1, <1>2, <1>5, <1>6, <1>7, RowKinds, RowsChange DEF AutomationEnrollTokenRevoke

\* The new token starts with no use and no registration.
LEMMA RotateKeeps ==
  ASSUME EnrolmentIInv, NEW t \in EnrolTokens, NEW new \in EnrolTokens, AutomationEnrollTokenRotate(t, new)
  PROVE  EnrolmentIInv'
  <1>1. EnrolmentTypes /\ ~Locked(t) /\ eTok[t] # NoToken /\ eTok[new] = NoToken /\ new # t
    BY DEF EnrolmentIInv, AutomationEnrollTokenRotate, Automation, FreshToken
  <1>2. eTok[t] \in TokenRow
    BY <1>1, RowKinds DEF AutomationEnrollTokenRotate, Automation
  <1>3. eTok' = [eTok EXCEPT ![t] = [eTok[t] EXCEPT !.enabled = FALSE],
                             ![new] = [eTok[t] EXCEPT !.used = 0]]
    BY DEF AutomationEnrollTokenRotate
  <1>4. eTok \in [EnrolTokens -> TokenRow \cup {NoToken, OldToken}]
    BY <1>1 DEF EnrolmentTypes
  <1>5. /\ [eTok[t] EXCEPT !.enabled = FALSE] \in TokenRow
        /\ [eTok[t] EXCEPT !.enabled = FALSE].used = eTok[t].used
        /\ [eTok[t] EXCEPT !.enabled = FALSE].max = eTok[t].max
    BY <1>2 DEF TokenRow
  <1>6. [eTok[t] EXCEPT !.used = 0] \in TokenRow /\ [eTok[t] EXCEPT !.used = 0].used = 0
    BY <1>2 DEF TokenRow
  <1>. DEFINE stale == [eTok[t] EXCEPT !.enabled = FALSE]
              fresh == [eTok[t] EXCEPT !.used = 0]
  <1>7. stale \in TokenRow /\ stale.used = eTok[t].used /\ stale.max = eTok[t].max
    BY <1>5
  <1>8. fresh \in TokenRow /\ fresh.used = 0
    BY <1>6
  <1>9. eTok' = [eTok EXCEPT ![t] = stale, ![new] = fresh]
    BY <1>3
  <1>. HIDE DEF stale, fresh
  <1>10. /\ eTok'[t] = stale /\ eTok'[new] = fresh
         /\ \A s \in EnrolTokens : s # t /\ s # new => eTok'[s] = eTok[s]
    BY <1>1, <1>4, <1>9
  <1>11. eTok' \in [EnrolTokens -> TokenRow \cup {NoToken, OldToken}]
    BY <1>4, <1>7, <1>8, <1>9
  <1>12. \A s \in EnrolTokens : Locked(s) => eTok[s] \in TokenRow /\ eTok[s].enabled
    BY DEF Locked, EnrolmentIInv, TokensFit
  <1>13. UNCHANGED << eHost, eAgents, eTx, eCred, eTrusted, eCommits, eNext, eLost >>
    BY DEF AutomationEnrollTokenRotate
  <1>14. NoToken \notin TokenRow
    BY <1>1, RowKinds
  <1>15. \A s \in EnrolTokens : eTok[s] # NoToken => eTok'[s] # NoToken
    BY <1>1, <1>7, <1>8, <1>10, <1>14
  <1>16. \A s \in EnrolTokens : eTok'[s] \in TokenRow =>
           \/ eTok[s] \in TokenRow /\ eTok'[s].used = eTok[s].used /\ eTok'[s].max = eTok[s].max
           \/ eTok[s] = NoToken /\ eTok'[s].used = 0
    BY <1>1, <1>2, <1>7, <1>8, <1>10
  <1>17. \A s \in EnrolTokens : Locked(s) => eTok'[s] \in TokenRow /\ eTok'[s].enabled
    BY <1>1, <1>10, <1>12, <1>14
  <1>. QED
    BY <1>11, <1>13, <1>15, <1>16, <1>17, RowsChange

\* No registration that goes on has a use of the deleted row.
LEMMA BatchDeleteKeeps ==
  ASSUME EnrolmentIInv, NEW t \in EnrolTokens, AutomationEnrollTokenBatchDelete(t)
  PROVE  EnrolmentIInv'
  <1>1. EnrolmentTypes /\ ~Locked(t) /\ eTok[t] # NoToken
    BY DEF EnrolmentIInv, AutomationEnrollTokenBatchDelete, Automation
  <1>2. eTok \in [EnrolTokens -> TokenRow \cup {NoToken, OldToken}]
    BY <1>1 DEF EnrolmentTypes
  <1>3. eTok' = [eTok EXCEPT ![t] = OldToken]
    BY DEF AutomationEnrollTokenBatchDelete, OldToken
  <1>4. eTok'[t] = OldToken /\ \A s \in EnrolTokens : s # t => eTok'[s] = eTok[s]
    BY <1>2, <1>3
  <1>5. eTok' \in [EnrolTokens -> TokenRow \cup {NoToken, OldToken}]
    BY <1>2, <1>3
  <1>6. OldToken # NoToken /\ OldToken \notin TokenRow
    BY DEF OldToken, NoToken, TokenRow
  <1>7. \A s \in EnrolTokens : Locked(s) => eTok[s] \in TokenRow /\ eTok[s].enabled
    BY DEF Locked, EnrolmentIInv, TokensFit
  <1>. QED
    BY <1>1, <1>4, <1>5, <1>6, <1>7, RowsChange DEF AutomationEnrollTokenBatchDelete

LEMMA ExpireKeeps ==
  ASSUME EnrolmentIInv, NEW t \in EnrolTokens, Expire(t)
  PROVE  EnrolmentIInv'
  <1>1. EnrolmentTypes
    BY DEF EnrolmentIInv
  <1>2. eTok[t] \in TokenRow
    BY <1>1, RowKinds DEF Expire
  <1>3. eTok' = [eTok EXCEPT ![t] = [eTok[t] EXCEPT !.expired = TRUE]]
    BY DEF Expire
  <1>4. eTok \in [EnrolTokens -> TokenRow \cup {NoToken, OldToken}]
    BY <1>1 DEF EnrolmentTypes
  <1>5. /\ eTok'[t] \in TokenRow /\ eTok'[t].used = eTok[t].used /\ eTok'[t].max = eTok[t].max
        /\ \A s \in EnrolTokens : s # t => eTok'[s] = eTok[s]
    BY <1>2, <1>3, <1>4 DEF TokenRow
  <1>6. eTok'[t].enabled = eTok[t].enabled
    BY <1>2, <1>3, <1>4 DEF TokenRow
  <1>7. eTok' \in [EnrolTokens -> TokenRow \cup {NoToken, OldToken}]
    BY <1>3, <1>4, <1>5
  <1>8. \A s \in EnrolTokens : Locked(s) => eTok[s] \in TokenRow /\ eTok[s].enabled
    BY DEF Locked, EnrolmentIInv, TokensFit
  <1>. QED
    BY <1>1, <1>2, <1>5, <1>6, <1>7, <1>8, RowKinds, RowsChange DEF Expire

\* Nobody registers while the proxy is corrected, and no credentials lag.
LEMMA TrustKeeps ==
  ASSUME EnrolmentIInv, TrustProxy
  PROVE  EnrolmentIInv'
  <1>. USE DEF EnrolmentIInv, TrustProxy
  <1>1. \A m \in Machines : eTx[m] = NoTx
    BY RowKinds
  <1>2. EnrolmentTypes'
    BY DEF EnrolmentTypes
  <1>3. TokensFit'
    BY DEF TokensFit, CommitsOf, Locked
  <1>4. IdentitiesFit'
    BY DEF IdentitiesFit, Busy
  <1>5. HostsFit'
    <2>1. \A a \in eAgents : ~Lags(a)
      BY DEF HostsFit
    <2>2. \A a \in eAgents' : ~Lags(a)'
      BY <2>1 DEF Lags
    <2>. QED
      BY <1>1, <2>2 DEF HostsFit
  <1>. QED
    BY <1>2, <1>3, <1>4, <1>5

\* A registration begins with an identity nobody has.
LEMMA RegisterKeeps ==
  ASSUME EnrolmentIInv, NEW m \in Machines, NEW t \in EnrolTokens, AgentRegister(m, t)
  PROVE  EnrolmentIInv'
  <1>. DEFINE x == [pc |-> "locked", tok |-> t, ip |-> clientIP(m), id |-> eNext]
  <1>0. EnrolmentTypes /\ TokensFit /\ IdentitiesFit /\ HostsFit
    BY DEF EnrolmentIInv
  <1>1. eTx[m] = NoTx /\ eNext <= MaxRegs /\ eTok[t] # NoToken /\ eNext \in 1 .. MaxRegs
    BY <1>0, RowKinds, EnrolmentAssumption DEF AgentRegister, EnrolmentTypes
  <1>2. x \in TxRow /\ x # NoTx
    BY <1>0, <1>1, RowKinds DEF TxRow, NoTx, clientIP
  <1>3. x.pc = "locked" /\ x.tok = t /\ x.ip = clientIP(m) /\ x.id = eNext
    OBVIOUS
  <1>4. eTx' = [eTx EXCEPT ![m] = x] /\ eTx \in [Machines -> TxRow \cup {NoTx}]
    BY <1>0 DEF AgentRegister, EnrolmentTypes
  <1>. HIDE DEF x
  <1>5. eTx'[m] = x /\ \A n \in Machines : n # m => eTx'[n] = eTx[n]
    BY <1>4
  <1>6. eTx' \in [Machines -> TxRow \cup {NoTx}]
    BY <1>2, <1>4
  <1>7. UNCHANGED << eTok, eHost, eAgents, eCred, eTrusted, eCommits, eLost >> /\ eNext' = eNext + 1
    BY DEF AgentRegister
  <1>8. EnrolmentTypes'
    <2>1. eNext' \in 1 .. (MaxRegs + 1)
      BY <1>1, <1>7, EnrolmentAssumption
    <2>. QED
      BY <1>0, <1>6, <1>7, <2>1 DEF EnrolmentTypes
  <1>9. NoTx.pc = "idle"
    BY DEF NoTx
  <1>10. \A s \in EnrolTokens : Locked(s)' <=> Locked(s)
    BY <1>1, <1>3, <1>5, <1>9 DEF Locked
  <1>11. TokensFit'
    <2>1. \A s \in EnrolTokens : eTok'[s] \in TokenRow =>
            /\ eTok'[s].used = Cardinality(CommitsOf(s)') + (IF Locked(s)' THEN 1 ELSE 0)
            /\ eTok'[s].max > 0 => eTok'[s].used <= eTok'[s].max
      BY <1>0, <1>7, <1>10 DEF TokensFit, CommitsOf
    <2>2. \A n \in Machines : eTx'[n] # NoTx => eTok'[eTx'[n].tok] # NoToken
      BY <1>0, <1>1, <1>3, <1>5, <1>7 DEF TokensFit
    <2>3. \A c \in eCommits' : eTok'[c.tok] # NoToken /\ c.status \notin {"revoked", "absent"}
      BY <1>0, <1>7 DEF TokensFit
    <2>4. \A n \in Machines : eTx'[n].pc = "consumed" => n # m
      BY <1>3, <1>5
    <2>. QED
      BY <1>0, <1>5, <1>7, <2>1, <2>2, <2>3, <2>4 DEF TokensFit
  <1>12. IdentitiesFit'
    <2>1. \A n \in Machines : eTx[n] # NoTx => eTx[n].id < eNext /\ eTx[n].id \in Nat
      BY <1>0 DEF IdentitiesFit, EnrolmentTypes, TxRow
    <2>2. \A n \in Machines : eCred[n] < eNext /\ eCred[n] \in Nat
      BY <1>0 DEF IdentitiesFit, EnrolmentTypes
    <2>3. \A a \in eAgents : a.id < eNext /\ a.id \in Nat
      BY <1>0 DEF IdentitiesFit, EnrolmentTypes, AgentRow
    <2>4. \A c \in eCommits : c.id < eNext /\ c.id \in Nat
      BY <1>0 DEF IdentitiesFit, EnrolmentTypes, CommitRow
    <2>5. \A n \in Machines : eTx'[n] # NoTx => eTx'[n].id < eNext'
      BY <1>1, <1>3, <1>5, <1>7, <2>1
    <2>6. \A n \in Machines : n # m /\ eTx'[n] # NoTx => eTx'[n].id # eTx'[m].id
      BY <1>1, <1>3, <1>5, <2>1
    <2>7. \A n, o \in Machines : eTx'[n] # NoTx /\ eTx'[o] # NoTx /\ eTx'[n].id = eTx'[o].id => n = o
      BY <1>0, <1>5, <2>6 DEF IdentitiesFit
    <2>8. \A n \in Machines : eCred'[n] < eNext'
      BY <1>1, <1>7, <2>2
    <2>9. \A n, o \in Machines : eCred'[n] # 0 /\ eCred'[n] = eCred'[o] => n = o
      BY <1>0, <1>7 DEF IdentitiesFit
    <2>10. \A n, o \in Machines : eTx'[n] # NoTx => eTx'[n].id # eCred'[o]
      BY <1>0, <1>1, <1>3, <1>5, <1>7, <2>2 DEF IdentitiesFit
    <2>11. (\A a \in eAgents' : a.id < eNext') /\ (\A c \in eCommits' : c.id < eNext')
      BY <1>1, <1>7, <2>3, <2>4
    <2>12. \A n \in Machines : Busy(n)' => /\ \A a \in eAgents' : a.id # eTx'[n].id
                                          /\ \A c \in eCommits' : c.id # eTx'[n].id
      <3>1. (\A a \in eAgents : a.id # eNext) /\ (\A c \in eCommits : c.id # eNext)
        BY <1>1, <2>3, <2>4
      <3>2. \A n \in Machines : n # m => (Busy(n)' <=> Busy(n))
        BY <1>5 DEF Busy
      <3>. QED
        BY <1>0, <1>3, <1>5, <1>7, <3>1, <3>2 DEF IdentitiesFit
    <2>. QED
      BY <2>5, <2>7, <2>8, <2>9, <2>10, <2>11, <2>12 DEF IdentitiesFit
  <1>13. HostsFit'
    <2>1. \A a \in eAgents : a.id # eNext
      BY <1>0, <1>1 DEF IdentitiesFit, EnrolmentTypes, AgentRow
    <2>2. \A n \in Machines : eTx'[n] # NoTx => eTx'[n].ip = clientIP(n)'
      BY <1>0, <1>3, <1>5, <1>7 DEF HostsFit, clientIP
    <2>3. \A a \in eAgents : Lags(a) => \A n \in Machines : eTx'[n] # NoTx => eTx'[n].id # a.id
      BY <1>0, <1>3, <1>5, <2>1 DEF HostsFit
    <2>. QED
      BY <1>0, <1>7, <2>2, <2>3 DEF HostsFit, Lags
  <1>. QED
    BY <1>8, <1>11, <1>12, <1>13 DEF EnrolmentIInv

\* A registration takes a step or ends, and no credentials change.
LEMMA TxMoves ==
  ASSUME EnrolmentIInv, NEW m \in Machines, NEW x, eTx' = [eTx EXCEPT ![m] = x],
         \/ x = NoTx
         \/ /\ eTx[m] # NoTx /\ x \in TxRow /\ x.id = eTx[m].id /\ x.ip = eTx[m].ip
            /\ x.pc \in {"locked", "consumed"} => Busy(m),
         UNCHANGED << eHost, eAgents, eCred, eTrusted, eCommits, eNext >>
  PROVE  IdentitiesFit' /\ HostsFit' /\ eTx' \in [Machines -> TxRow \cup {NoTx}]
  <1>0. EnrolmentTypes /\ IdentitiesFit /\ HostsFit
    BY DEF EnrolmentIInv
  <1>1. eTx \in [Machines -> TxRow \cup {NoTx}]
    BY <1>0 DEF EnrolmentTypes
  <1>2. eTx' \in [Machines -> TxRow \cup {NoTx}]
    BY <1>1
  <1>3. eTx'[m] = x /\ \A n \in Machines : n # m => eTx'[n] = eTx[n]
    BY <1>1
  <1>4. \A n \in Machines : eTx'[n] # NoTx =>
          eTx[n] # NoTx /\ eTx'[n].id = eTx[n].id /\ eTx'[n].ip = eTx[n].ip
    BY <1>3
  <1>5. \A n \in Machines : Busy(n)' => Busy(n) /\ eTx'[n] # NoTx
    <2>1. NoTx.pc = "idle"
      BY DEF NoTx
    <2>. QED
      BY <1>3, <2>1 DEF Busy
  <1>6. IdentitiesFit'
    BY <1>0, <1>4, <1>5 DEF IdentitiesFit
  <1>7. HostsFit'
    <2>1. \A n \in Machines : eTx'[n] # NoTx => eTx'[n].ip = clientIP(n)'
      BY <1>0, <1>4 DEF HostsFit, clientIP
    <2>2. \A a \in eAgents : Lags(a) => \A n \in Machines : eTx'[n] # NoTx => eTx'[n].id # a.id
      BY <1>0, <1>4 DEF HostsFit
    <2>. QED
      BY <1>0, <2>1, <2>2 DEF HostsFit, Lags
  <1>. QED
    BY <1>2, <1>6, <1>7

\* The one UPDATE counts the use it admits.
LEMMA ConsumeKeeps ==
  ASSUME EnrolmentIInv, NEW m \in Machines, consumeEnrollTokenTx(m)
  PROVE  EnrolmentIInv'
  <1>0. EnrolmentTypes /\ TokensFit /\ IdentitiesFit /\ HostsFit
    BY DEF EnrolmentIInv
  <1>t. PICK t \in EnrolTokens : t = eTx[m].tok
    BY <1>0, RowKinds DEF consumeEnrollTokenTx, TxRow
  <1>1. eTx[m] \in TxRow /\ eTx[m] # NoTx /\ ~Locked(t) /\ t \in EnrolTokens /\ Busy(m)
    BY <1>0, <1>t, RowKinds DEF consumeEnrollTokenTx, TxRow, Busy
  <1>2. UNCHANGED << eHost, eAgents, eCred, eTrusted, eCommits, eNext, eLost >>
    BY DEF consumeEnrollTokenTx
  <1>3. eTx \in [Machines -> TxRow \cup {NoTx}] /\ eTok \in [EnrolTokens -> TokenRow \cup {NoToken, OldToken}]
    BY <1>0 DEF EnrolmentTypes
  <1>4. CASE Admits(t, eTx[m].ip)
    <2>. DEFINE x == [eTx[m] EXCEPT !.pc = "consumed"]
                r == [eTok[t] EXCEPT !.used = eTok[t].used + 1]
    <2>1. eTok[t] \in TokenRow /\ eTok[t].enabled
      BY <1>0, <1>1, <1>4, RowKinds DEF Admits
    <2>2. eTx' = [eTx EXCEPT ![m] = x] /\ eTok' = [eTok EXCEPT ![t] = r]
      BY <1>t, <1>4 DEF consumeEnrollTokenTx
    <2>3. x \in TxRow /\ x.tok = t /\ x.id = eTx[m].id /\ x.ip = eTx[m].ip /\ x.pc = "consumed"
      BY <1>t, <1>1 DEF TxRow
    <2>4. r \in TokenRow /\ r.used = eTok[t].used + 1 /\ r.max = eTok[t].max
      BY <2>1 DEF TokenRow
    <2>5. r.enabled
      BY <2>1 DEF TokenRow
    <2>6. r.max > 0 => r.used <= r.max
      BY <1>4, <2>1, <2>4 DEF Admits, TokenRow
    <2>. HIDE DEF x, r
    <2>7. IdentitiesFit' /\ HostsFit' /\ eTx' \in [Machines -> TxRow \cup {NoTx}]
      BY <1>1, <1>2, <2>2, <2>3, TxMoves
    <2>8. eTok' \in [EnrolTokens -> TokenRow \cup {NoToken, OldToken}]
      BY <1>3, <2>2, <2>4
    <2>9. EnrolmentTypes'
      BY <1>0, <1>2, <2>7, <2>8 DEF EnrolmentTypes
    <2>10. eTok'[t] = r /\ \A s \in EnrolTokens : s # t => eTok'[s] = eTok[s]
      BY <1>1, <1>3, <2>2
    <2>11. eTx'[m] = x /\ \A n \in Machines : n # m => eTx'[n] = eTx[n]
      BY <1>3, <2>2
    <2>12. Locked(t)' /\ \A s \in EnrolTokens : s # t => (Locked(s)' <=> Locked(s))
      <3>1. Locked(t)'
        BY <2>3, <2>11 DEF Locked
      <3>2. eTx[m].tok = t
        BY <1>t
      <3>3. ASSUME NEW s \in EnrolTokens, s # t PROVE Locked(s)' <=> Locked(s)
        BY <2>3, <2>11, <3>2, <3>3 DEF Locked
      <3>. QED
        BY <3>1, <3>3
    <2>13. \A s \in EnrolTokens : CommitsOf(s)' = CommitsOf(s)
      BY <1>2 DEF CommitsOf
    <2>14. eTok[t].used = Cardinality(CommitsOf(t)) /\ eTok[t].used \in Nat
      <3>1. ~Locked(t)
        BY <1>1
      <3>2. IsFiniteSet(CommitsOf(t)) 
        BY <1>0, FS_Subset DEF CommitsOf, EnrolmentTypes
      <3>3. Cardinality(CommitsOf(t)) \in Nat
        BY <3>2, FS_CardinalityType
      <3>. QED
        BY <1>0, <1>1, <2>1, <3>1, <3>3 DEF TokensFit
    <2>15. NoToken \notin TokenRow
      BY <1>0, RowKinds
    <2>16. TokensFit'
      <3>1. ASSUME NEW s \in EnrolTokens, eTok'[s] \in TokenRow
            PROVE  /\ eTok'[s].used = Cardinality(CommitsOf(s)') + (IF Locked(s)' THEN 1 ELSE 0)
                   /\ eTok'[s].max > 0 => eTok'[s].used <= eTok'[s].max
        <4>1. CASE s = t
          BY <2>4, <2>6, <2>10, <2>12, <2>13, <2>14, <4>1
        <4>2. CASE s # t
          BY <1>0, <2>10, <2>12, <2>13, <3>1, <4>2 DEF TokensFit
        <4>. QED
          BY <4>1, <4>2
      <3>2. \A s \in EnrolTokens : eTok[s] # NoToken => eTok'[s] # NoToken
        BY <2>4, <2>10, <2>15
      <3>3. \A n \in Machines : eTx'[n] # NoTx => eTok'[eTx'[n].tok] # NoToken
        <4>1. \A n \in Machines : eTx'[n] # NoTx => eTx[n] # NoTx /\ eTx'[n].tok = eTx[n].tok
          BY <1>t, <1>1, <2>3, <2>11
        <4>2. \A n \in Machines : eTx[n] # NoTx => eTx[n].tok \in EnrolTokens
          BY <1>3 DEF TxRow
        <4>. QED
          BY <1>0, <3>2, <4>1, <4>2 DEF TokensFit
      <3>4. \A c \in eCommits' : eTok'[c.tok] # NoToken /\ c.status \notin {"revoked", "absent"}
        <4>1. \A c \in eCommits : c.tok \in EnrolTokens
          BY <1>0 DEF EnrolmentTypes, CommitRow
        <4>. QED
          BY <1>0, <1>2, <3>2, <4>1 DEF TokensFit
      <3>5. \A n \in Machines : n # m /\ eTx'[n].pc = "consumed" =>
              eTx'[n] = eTx[n] /\ eTx[n].tok # t /\ eTx[n].tok \in EnrolTokens
        <4>1. \A n \in Machines : eTx[n].pc = "consumed" => eTx[n].tok \in EnrolTokens
          BY <1>3 DEF TxRow, NoTx
        <4>. QED
          BY <1>t, <1>1, <2>11, <4>1 DEF Locked
      <3>6. \A n \in Machines : eTx'[n].pc = "consumed" =>
              eTok'[eTx'[n].tok] \in TokenRow /\ eTok'[eTx'[n].tok].enabled
        BY <1>0, <2>3, <2>4, <2>5, <2>10, <2>11, <3>5 DEF TokensFit
      <3>7. \A n, o \in Machines :
              eTx'[n].pc = "consumed" /\ eTx'[o].pc = "consumed" /\ eTx'[n].tok = eTx'[o].tok => n = o
        BY <1>0, <2>3, <2>11, <3>5 DEF TokensFit
      <3>. QED
        BY <3>1, <3>3, <3>4, <3>6, <3>7 DEF TokensFit
    <2>. QED
      BY <2>7, <2>9, <2>16 DEF EnrolmentIInv
  <1>5. CASE ~Admits(t, eTx[m].ip)
    <2>1. eTx' = [eTx EXCEPT ![m] = NoTx] /\ UNCHANGED eTok
      BY <1>t, <1>5 DEF consumeEnrollTokenTx, NoTx
    <2>2. IdentitiesFit' /\ HostsFit' /\ eTx' \in [Machines -> TxRow \cup {NoTx}]
      BY <1>2, <2>1, TxMoves
    <2>3. EnrolmentTypes'
      BY <1>0, <1>2, <2>1, <2>2 DEF EnrolmentTypes
    <2>4. eTx'[m] = NoTx /\ NoTx.pc = "idle" /\ \A n \in Machines : n # m => eTx'[n] = eTx[n]
      BY <1>3, <2>1 DEF NoTx
    <2>5. eTx[m].pc # "consumed"
      BY DEF consumeEnrollTokenTx
    <2>6. \A s \in EnrolTokens : Locked(s)' <=> Locked(s)
      BY <2>4, <2>5 DEF Locked
    <2>7. TokensFit'
      <3>1. \A s \in EnrolTokens : CommitsOf(s)' = CommitsOf(s)
        BY <1>2 DEF CommitsOf
      <3>2. \A s \in EnrolTokens : eTok'[s] \in TokenRow =>
              /\ eTok'[s].used = Cardinality(CommitsOf(s)') + (IF Locked(s)' THEN 1 ELSE 0)
              /\ eTok'[s].max > 0 => eTok'[s].used <= eTok'[s].max
        BY <1>0, <2>1, <2>6, <3>1 DEF TokensFit
      <3>3. \A n \in Machines : eTx'[n] # NoTx => eTx'[n] = eTx[n]
        BY <2>4
      <3>4. \A n \in Machines : eTx'[n].pc = "consumed" => eTx'[n] = eTx[n]
        BY <2>4
      <3>. QED
        BY <1>0, <1>2, <2>1, <3>2, <3>3, <3>4 DEF TokensFit
    <2>. QED
      BY <2>2, <2>3, <2>7 DEF EnrolmentIInv
  <1>. QED
    BY <1>4, <1>5

\* A registration that is undone gives its use back.
LEMMA RollbackKeeps ==
  ASSUME EnrolmentIInv, NEW m \in Machines, RollbackRegister(m)
  PROVE  EnrolmentIInv'
  <1>0. EnrolmentTypes /\ TokensFit /\ IdentitiesFit /\ HostsFit
    BY DEF EnrolmentIInv
  <1>1. PICK t \in EnrolTokens : t = eTx[m].tok
    BY <1>0, RowKinds DEF RollbackRegister, TxRow
  <1>2. UNCHANGED << eHost, eAgents, eCred, eTrusted, eCommits, eNext, eLost >>
    BY DEF RollbackRegister
  <1>3. eTx \in [Machines -> TxRow \cup {NoTx}] /\ eTok \in [EnrolTokens -> TokenRow \cup {NoToken, OldToken}]
    BY <1>0 DEF EnrolmentTypes
  <1>4. eTx' = [eTx EXCEPT ![m] = NoTx]
    BY DEF RollbackRegister, NoTx
  <1>5. Locked(t) /\ eTok[t] \in TokenRow
    BY <1>0, <1>1 DEF RollbackRegister, Locked, TokensFit
  <1>. DEFINE r == [eTok[t] EXCEPT !.used = eTok[t].used - 1]
  <1>6. eTok' = [eTok EXCEPT ![t] = r]
    BY <1>1 DEF RollbackRegister
  <1>7. eTok[t].used = Cardinality(CommitsOf(t)) + 1 /\ Cardinality(CommitsOf(t)) \in Nat
    <2>1. IsFiniteSet(CommitsOf(t))
      BY <1>0, FS_Subset DEF CommitsOf, EnrolmentTypes
    <2>2. Cardinality(CommitsOf(t)) \in Nat
      BY <2>1, FS_CardinalityType
    <2>. QED
      BY <1>0, <1>5, <2>2 DEF TokensFit
  <1>8. r \in TokenRow /\ r.used = Cardinality(CommitsOf(t)) /\ r.max = eTok[t].max
    <2>1. eTok[t].used - 1 = Cardinality(CommitsOf(t))
      BY <1>7
    <2>. QED
      BY <1>5, <1>7, <2>1 DEF TokenRow
  <1>9. r.max > 0 => r.used <= r.max
    <2>1. r.max \in Nat /\ (r.max > 0 => eTok[t].used <= r.max)
      BY <1>0, <1>5, <1>8 DEF TokensFit, TokenRow
    <2>. QED
      BY <1>7, <1>8, <2>1
  <1>. HIDE DEF r
  <1>10. IdentitiesFit' /\ HostsFit' /\ eTx' \in [Machines -> TxRow \cup {NoTx}]
    BY <1>2, <1>4, TxMoves
  <1>11. eTok' \in [EnrolTokens -> TokenRow \cup {NoToken, OldToken}]
    BY <1>3, <1>6, <1>8
  <1>12. EnrolmentTypes'
    BY <1>0, <1>2, <1>10, <1>11 DEF EnrolmentTypes
  <1>13. eTok'[t] = r /\ \A s \in EnrolTokens : s # t => eTok'[s] = eTok[s]
    BY <1>3, <1>6
  <1>14. eTx'[m] = NoTx /\ NoTx.pc = "idle" /\ \A n \in Machines : n # m => eTx'[n] = eTx[n]
    BY <1>3, <1>4 DEF NoTx
  <1>15. \A n \in Machines : n # m /\ eTx[n].pc = "consumed" => eTx[n].tok \in EnrolTokens /\ eTx[n].tok # t
    <2>1. \A n \in Machines : eTx[n].pc = "consumed" => eTx[n].tok \in EnrolTokens
      BY <1>3 DEF TxRow, NoTx
    <2>. QED
      BY <1>0, <1>1, <2>1 DEF TokensFit, RollbackRegister
  <1>16. ~Locked(t)' /\ \A s \in EnrolTokens : s # t => (Locked(s)' <=> Locked(s))
    BY <1>1, <1>14, <1>15 DEF Locked
  <1>17. \A s \in EnrolTokens : CommitsOf(s)' = CommitsOf(s)
    BY <1>2 DEF CommitsOf
  <1>18. NoToken \notin TokenRow
    BY <1>0, RowKinds
  <1>19. TokensFit'
    <2>1. ASSUME NEW s \in EnrolTokens, eTok'[s] \in TokenRow
          PROVE  /\ eTok'[s].used = Cardinality(CommitsOf(s)') + (IF Locked(s)' THEN 1 ELSE 0)
                 /\ eTok'[s].max > 0 => eTok'[s].used <= eTok'[s].max
      <3>1. CASE s = t
        BY <1>7, <1>8, <1>9, <1>13, <1>16, <1>17, <3>1
      <3>2. CASE s # t
        BY <1>0, <1>13, <1>16, <1>17, <2>1, <3>2 DEF TokensFit
      <3>. QED
        BY <3>1, <3>2
    <2>2. \A s \in EnrolTokens : eTok[s] # NoToken => eTok'[s] # NoToken
      BY <1>8, <1>13, <1>18
    <2>3. \A n \in Machines : eTx'[n] # NoTx => eTok'[eTx'[n].tok] # NoToken
      <3>1. \A n \in Machines : eTx[n] # NoTx => eTx[n].tok \in EnrolTokens
        BY <1>3 DEF TxRow
      <3>. QED
        BY <1>0, <1>14, <2>2, <3>1 DEF TokensFit
    <2>4. \A c \in eCommits' : eTok'[c.tok] # NoToken /\ c.status \notin {"revoked", "absent"}
      <3>1. \A c \in eCommits : c.tok \in EnrolTokens
        BY <1>0 DEF EnrolmentTypes, CommitRow
      <3>. QED
        BY <1>0, <1>2, <2>2, <3>1 DEF TokensFit
    <2>5. \A n \in Machines : eTx'[n].pc = "consumed" => n # m /\ eTx'[n] = eTx[n]
      BY <1>14
    <2>6. \A n \in Machines : eTx'[n].pc = "consumed" =>
            eTok'[eTx'[n].tok] \in TokenRow /\ eTok'[eTx'[n].tok].enabled
      BY <1>0, <1>13, <1>15, <2>5 DEF TokensFit
    <2>7. \A n, o \in Machines :
            eTx'[n].pc = "consumed" /\ eTx'[o].pc = "consumed" /\ eTx'[n].tok = eTx'[o].tok => n = o
      BY <1>0, <2>5 DEF TokensFit
    <2>. QED
      BY <2>1, <2>3, <2>4, <2>6, <2>7 DEF TokensFit
  <1>. QED
    BY <1>10, <1>12, <1>19 DEF EnrolmentIInv

\* A machine takes the identity of its own registration.
LEMMA AnswerKeeps ==
  ASSUME EnrolmentIInv, NEW m \in Machines, Answer(m)
  PROVE  EnrolmentIInv'
  <1>0. EnrolmentTypes /\ TokensFit /\ IdentitiesFit /\ HostsFit
    BY DEF EnrolmentIInv
  <1>1. eTx[m] \in TxRow /\ eTx[m] # NoTx /\ eTx[m].pc = "answer"
    BY <1>0, RowKinds DEF Answer
  <1>2. UNCHANGED << eTok, eHost, eAgents, eTrusted, eCommits, eNext >>
    BY DEF Answer
  <1>3. eTx' = [eTx EXCEPT ![m] = NoTx]
    BY DEF Answer, NoTx
  <1>4. eTx \in [Machines -> TxRow \cup {NoTx}]
    BY <1>0 DEF EnrolmentTypes
  <1>5. eTx'[m] = NoTx /\ NoTx.pc = "idle" /\ \A n \in Machines : n # m => eTx'[n] = eTx[n]
    BY <1>3, <1>4 DEF NoTx
  <1>6. eTx' \in [Machines -> TxRow \cup {NoTx}]
    BY <1>3, <1>4
  <1>7. \A n \in Machines : eCred'[n] = eCred[n] \/ (n = m /\ eCred'[n] = eTx[m].id)
    BY <1>0 DEF Answer, EnrolmentTypes
  <1>8. eTx[m].id \in 1 .. MaxRegs
    BY <1>1 DEF TxRow
  <1>9. EnrolmentTypes'
    <2>1. eCred' \in [Machines -> 0 .. MaxRegs]
      BY <1>0, <1>8 DEF Answer, EnrolmentTypes
    <2>2. eLost' \in 0 .. MaxLost
      BY <1>0, EnrolmentAssumption DEF Answer, EnrolmentTypes
    <2>. QED
      BY <1>0, <1>2, <1>6, <2>1, <2>2 DEF EnrolmentTypes
  <1>10. \A s \in EnrolTokens : Locked(s)' <=> Locked(s)
    BY <1>1, <1>5 DEF Locked
  <1>11. TokensFit'
    BY <1>0, <1>2, <1>5, <1>10 DEF TokensFit, CommitsOf
  <1>12. IdentitiesFit'
    <2>1. \A n \in Machines : eCred'[n] < eNext'
      BY <1>0, <1>1, <1>2, <1>7 DEF IdentitiesFit
    <2>2. \A n, o \in Machines : eCred'[n] # 0 /\ eCred'[n] = eCred'[o] => n = o
      BY <1>0, <1>1, <1>7 DEF IdentitiesFit
    <2>3. \A n, o \in Machines : eTx'[n] # NoTx => eTx'[n].id # eCred'[o]
      BY <1>0, <1>1, <1>5, <1>7 DEF IdentitiesFit
    <2>4. \A n \in Machines : Busy(n)' => Busy(n) /\ eTx'[n] = eTx[n]
      BY <1>5 DEF Busy
    <2>. QED
      BY <1>0, <1>2, <1>5, <2>1, <2>2, <2>3, <2>4 DEF IdentitiesFit
  <1>13. HostsFit'
    <2>1. \A n \in Machines : eTx'[n] # NoTx => eTx'[n].ip = clientIP(n)'
      BY <1>0, <1>2, <1>5 DEF HostsFit, clientIP
    <2>2. ASSUME NEW a \in eAgents, Lags(a), NEW n \in Machines
          PROVE  /\ eCred'[n] = a.id => eHost[a.host].ip = n
                 /\ eTx'[n] # NoTx => eTx'[n].id # a.id
      BY <1>0, <1>1, <1>5, <1>7, <2>2 DEF HostsFit
    <2>. QED
      BY <1>0, <1>2, <2>1, <2>2 DEF HostsFit, Lags
  <1>. QED
    BY <1>9, <1>11, <1>12, <1>13 DEF EnrolmentIInv

\* A deletion takes the credentials of one host.
LEMMA HostDeleteKeeps ==
  ASSUME EnrolmentIInv, NEW h \in DOMAIN eHost, HostDelete(h)
  PROVE  EnrolmentIInv'
  <1>0. EnrolmentTypes /\ TokensFit /\ IdentitiesFit /\ HostsFit
    BY DEF EnrolmentIInv
  <1>1. UNCHANGED << eTok, eTx, eCred, eTrusted, eCommits, eNext, eLost >>
    BY DEF HostDelete
  <1>2. h \in 1 .. MaxHosts /\ eHost[h] \in HostRow /\ OldHost \notin HostRow
    BY <1>0, RowKinds DEF HostDelete
  <1>3. eHost' = [eHost EXCEPT ![h] = OldHost] /\ eHost \in [1 .. MaxHosts -> HostRow \cup {NoHost, OldHost}]
    BY <1>0 DEF HostDelete, OldHost, EnrolmentTypes
  <1>4. eHost'[h] = OldHost /\ \A g \in 1 .. MaxHosts : g # h => eHost'[g] = eHost[g]
    BY <1>2, <1>3
  <1>5. eHost' \in [1 .. MaxHosts -> HostRow \cup {NoHost, OldHost}]
    BY <1>3
  <1>6. eAgents' = {a \in eAgents : a.host # h /\ a.ip # eHost[h].ip /\ a.id # eHost[h].agent}
    BY DEF HostDelete
  <1>7. eAgents' \subseteq eAgents /\ \A a \in eAgents' : a.host # h
    BY <1>6
  <1>8. EnrolmentTypes'
    BY <1>0, <1>1, <1>5, <1>7 DEF EnrolmentTypes
  <1>9. TokensFit'
    BY <1>0, <1>1 DEF TokensFit, CommitsOf, Locked
  <1>10. IdentitiesFit'
    BY <1>0, <1>1, <1>7 DEF IdentitiesFit, Busy
  <1>11. \A a \in eAgents : a.host \in 1 .. MaxHosts
    BY <1>0 DEF EnrolmentTypes, AgentRow
  \* Only the credentials of h itself go.
  <1>12. ASSUME NEW a \in eAgents, a.host # h PROVE a \in eAgents'
    <2>1. eHost[a.host] \in HostRow /\ eHost[a.host].agent = a.id
          /\ (a.ip = eHost[a.host].ip \/ a.ip = Loop) /\ a.host \in 1 .. MaxHosts
      BY <1>0, <1>11 DEF HostsFit
    <2>2. eHost[a.host].ip # eHost[h].ip
      BY <1>0, <1>2, <1>12, <2>1 DEF HostsFit
    <2>3. a.ip # eHost[h].ip
      <3>1. CASE a.ip = eHost[a.host].ip
        BY <2>2, <3>1
      <3>2. CASE a.ip # eHost[a.host].ip
        <4>1. Lags(a)
          BY <2>1, <3>2 DEF Lags
        <4>2. eHost[h].ip # Loop
          BY <1>0, <1>2, <4>1 DEF HostsFit
        <4>. QED
          BY <2>1, <3>2, <4>2
      <3>. QED
        BY <3>1, <3>2
    <2>4. a.id # eHost[h].agent
      <3>1. PICK b \in eAgents : b.id = eHost[h].agent /\ b.host = h
        BY <1>0, <1>2 DEF HostsFit
      <3>2. a.id = b.id => a = b
        BY <1>0 DEF HostsFit
      <3>. QED
        BY <1>12, <3>1, <3>2
    <2>. QED
      BY <1>6, <1>12, <2>3, <2>4
  <1>13. HostsFit'
    <2>1. \A g \in 1 .. MaxHosts : eHost'[g] \in HostRow => g # h /\ eHost'[g] = eHost[g]
      BY <1>2, <1>4
    <2>2. \A a \in eAgents' : a \in eAgents /\ eHost'[a.host] = eHost[a.host]
      BY <1>4, <1>7, <1>11
    <2>3. \A g \in 1 .. MaxHosts : eHost'[g] \in HostRow =>
            \E a \in eAgents' : a.id = eHost'[g].agent /\ a.host = g
      BY <1>0, <1>12, <2>1 DEF HostsFit
    <2>4. ASSUME NEW a \in eAgents', Lags(a)'
          PROVE  /\ eTrusted'
                 /\ \A g \in 1 .. MaxHosts : eHost'[g].ip # Loop
                 /\ \A m \in Machines : eCred'[m] = a.id => eHost'[a.host].ip = m
                 /\ \A m \in Machines : eTx'[m] # NoTx => eTx'[m].id # a.id
      <3>1. Lags(a) /\ a \in eAgents
        BY <2>2, <2>4 DEF Lags
      <3>2. /\ eTrusted
            /\ \A g \in 1 .. MaxHosts : eHost[g].ip # Loop
            /\ \A m \in Machines : eCred[m] = a.id => eHost[a.host].ip = m
            /\ \A m \in Machines : eTx[m] # NoTx => eTx[m].id # a.id
        BY <1>0, <3>1 DEF HostsFit
      <3>3. OldHost.ip # Loop
        BY EnrolmentAssumption DEF OldHost
      <3>. QED
        BY <1>1, <1>4, <2>2, <3>2, <3>3
    <2>5. \A m \in Machines : eTx'[m] # NoTx => eTx'[m].ip = clientIP(m)'
      BY <1>0, <1>1 DEF HostsFit, clientIP
    <2>6. \A g, f \in 1 .. MaxHosts :
            eHost'[g] \in HostRow /\ eHost'[f] \in HostRow /\ eHost'[g].ip = eHost'[f].ip => g = f
      BY <1>0, <2>1 DEF HostsFit
    <2>7. \A a \in eAgents' :
            /\ eHost'[a.host] \in HostRow
            /\ eHost'[a.host].agent = a.id /\ eHost'[a.host].tenant = a.tenant
            /\ a.ip = eHost'[a.host].ip \/ a.ip = Loop
      BY <1>0, <2>2 DEF HostsFit
    <2>8. \A a, b \in eAgents' : a.host = b.host \/ a.ip = b.ip \/ a.id = b.id => a = b
      BY <1>0, <1>7 DEF HostsFit
    <2>. QED
      BY <2>3, <2>4, <2>5, <2>6, <2>7, <2>8 DEF HostsFit
  <1>. QED
    BY <1>8, <1>9, <1>10, <1>13 DEF EnrolmentIInv

\* The host that moves leaves the loopback address, and its credentials lag.
LEMMA MoveHostKeeps ==
  ASSUME EnrolmentIInv, NEW m \in Machines, MoveHost(m)
  PROVE  EnrolmentIInv'
  <1>0. EnrolmentTypes /\ TokensFit /\ IdentitiesFit /\ HostsFit
    BY DEF EnrolmentIInv
  <1>1. UNCHANGED << eTok, eAgents, eTx, eCred, eTrusted, eCommits, eNext, eLost >> /\ eTrusted
    BY DEF MoveHost
  <1>2. PICK h \in 1 .. MaxHosts :
          /\ eHost[h].ip = Loop /\ eHost[h].agent = eCred[m]
          /\ HostAt(m) = {}
          /\ eHost' = [eHost EXCEPT ![h] = [eHost[h] EXCEPT !.ip = m]]
    BY <1>0, RowKinds DEF MoveHost
  <1>. DEFINE r == [eHost[h] EXCEPT !.ip = m]
  <1>3. eHost[h] \in HostRow
    BY <1>0, <1>2, RowKinds
  <1>4. r \in HostRow /\ r.ip = m /\ r.agent = eHost[h].agent /\ r.tenant = eHost[h].tenant
    BY <1>0, <1>3, RowKinds DEF HostRow
  <1>5. eHost \in [1 .. MaxHosts -> HostRow \cup {NoHost, OldHost}] /\ eHost' = [eHost EXCEPT ![h] = r]
    BY <1>0, <1>2 DEF EnrolmentTypes
  <1>6. m # Loop /\ \A g \in 1 .. MaxHosts : eHost[g].ip # m
    BY <1>0, <1>2, EnrolmentAssumption, RowKinds DEF HostAt
  <1>. HIDE DEF r
  <1>7. eHost'[h] = r /\ \A g \in 1 .. MaxHosts : g # h => eHost'[g] = eHost[g]
    BY <1>5
  <1>8. eHost' \in [1 .. MaxHosts -> HostRow \cup {NoHost, OldHost}]
    BY <1>4, <1>5
  <1>9. EnrolmentTypes'
    BY <1>0, <1>1, <1>8 DEF EnrolmentTypes
  <1>10. TokensFit'
    BY <1>0, <1>1 DEF TokensFit, CommitsOf, Locked
  <1>11. IdentitiesFit'
    BY <1>0, <1>1 DEF IdentitiesFit, Busy
  <1>12. \A g \in 1 .. MaxHosts : g # h => eHost[g].ip # Loop
    <2>1. \A g \in 1 .. MaxHosts : eHost[g].ip = Loop => eHost[g] \in HostRow
      BY <1>0, RowKinds
    <2>. QED
      BY <1>0, <1>2, <1>3, <2>1 DEF HostsFit
  <1>13. \A a \in eAgents : a.host \in 1 .. MaxHosts
    BY <1>0 DEF EnrolmentTypes, AgentRow
  <1>14. \A g \in 1 .. MaxHosts : /\ eHost'[g] \in HostRow <=> eHost[g] \in HostRow
                                 /\ eHost'[g].agent = eHost[g].agent
                                 /\ eHost'[g].tenant = eHost[g].tenant
    BY <1>3, <1>4, <1>7
  <1>15. HostsFit'
    <2>1. \A g, f \in 1 .. MaxHosts :
            eHost'[g] \in HostRow /\ eHost'[f] \in HostRow /\ eHost'[g].ip = eHost'[f].ip => g = f
      BY <1>0, <1>4, <1>6, <1>7 DEF HostsFit
    <2>2. ASSUME NEW a \in eAgents
          PROVE  /\ eHost'[a.host] \in HostRow
                 /\ eHost'[a.host].agent = a.id /\ eHost'[a.host].tenant = a.tenant
                 /\ a.ip = eHost'[a.host].ip \/ a.ip = Loop
      BY <1>0, <1>2, <1>7, <1>13, <1>14 DEF HostsFit
    <2>3. \A g \in 1 .. MaxHosts : eHost'[g] \in HostRow =>
            \E a \in eAgents : a.id = eHost'[g].agent /\ a.host = g
      BY <1>0, <1>14 DEF HostsFit
    <2>4. ASSUME NEW a \in eAgents, Lags(a)'
          PROVE  /\ eTrusted'
                 /\ \A g \in 1 .. MaxHosts : eHost'[g].ip # Loop
                 /\ \A n \in Machines : eCred'[n] = a.id => eHost'[a.host].ip = n
                 /\ \A n \in Machines : eTx'[n] # NoTx => eTx'[n].id # a.id
      <3>1. \A g \in 1 .. MaxHosts : eHost'[g].ip # Loop
        BY <1>4, <1>6, <1>7, <1>12
      <3>2. a.host = h
        <4>1. a.ip = Loop
          BY <1>1, <2>4 DEF Lags
        <4>2. eHost[a.host].ip = Loop
          BY <1>0, <1>2, <4>1 DEF HostsFit, Lags
        <4>. QED
          BY <1>12, <1>13, <4>2
      <3>3. a.id = eCred[m] /\ eCred[m] # 0
        <4>1. a.id = eCred[m]
          BY <1>0, <1>2, <3>2 DEF HostsFit
        <4>2. a.id \in 1 .. MaxRegs
          BY <1>0 DEF EnrolmentTypes, AgentRow
        <4>. QED
          BY <4>1, <4>2
      <3>4. \A n \in Machines : eCred[n] = a.id => n = m
        BY <1>0, <3>3 DEF IdentitiesFit
      <3>5. \A n \in Machines : eTx[n] # NoTx => eTx[n].id # a.id
        BY <1>0, <3>3 DEF IdentitiesFit
      <3>6. eTrusted'
        BY <1>1
      <3>. QED
        BY <1>1, <1>4, <1>7, <3>1, <3>2, <3>4, <3>5, <3>6
    <2>5. \A n \in Machines : eTx'[n] # NoTx => eTx'[n].ip = clientIP(n)'
      BY <1>0, <1>1 DEF HostsFit, clientIP
    <2>6. \A a, b \in eAgents : a.host = b.host \/ a.ip = b.ip \/ a.id = b.id => a = b
      BY <1>0 DEF HostsFit
    <2>7. eAgents' = eAgents
      BY <1>1
    <2>. QED
      BY <2>1, <2>2, <2>3, <2>4, <2>5, <2>6, <2>7 DEF HostsFit
  <1>. QED
    BY <1>9, <1>10, <1>11, <1>15 DEF EnrolmentIInv

\* The credentials follow their host to its address.
LEMMA MoveCredentialsKeeps ==
  ASSUME EnrolmentIInv, NEW m \in Machines, MoveCredentials(m)
  PROVE  EnrolmentIInv'
  <1>0. EnrolmentTypes /\ TokensFit /\ IdentitiesFit /\ HostsFit
    BY DEF EnrolmentIInv
  <1>1. UNCHANGED << eTok, eHost, eTx, eCred, eTrusted, eCommits, eNext, eLost >> /\ eTrusted
    BY DEF MoveCredentials
  <1>2. PICK a \in eAgents :
          /\ a.id = eCred[m] /\ a.ip = Loop
          /\ eAgents' = (eAgents \ {a}) \cup {[a EXCEPT !.ip = m]}
    BY DEF MoveCredentials
  <1>. DEFINE b == [a EXCEPT !.ip = m]
  <1>3. b \in AgentRow /\ b.ip = m /\ b.id = a.id /\ b.host = a.host /\ b.tenant = a.tenant
    BY <1>0, <1>2, RowKinds DEF EnrolmentTypes, AgentRow
  <1>4. eAgents' = (eAgents \ {a}) \cup {b}
    BY <1>2
  <1>. HIDE DEF b
  <1>5. \A c \in eAgents : c.host \in 1 .. MaxHosts
    BY <1>0 DEF EnrolmentTypes, AgentRow
  \* The host of a has been moved, to the address of m.
  <1>6. eHost[a.host].ip = m /\ m # Loop
    <2>1. eHost[a.host].agent = eCred[m]
      BY <1>0, <1>2 DEF HostsFit
    <2>2. eHost[a.host].ip # Loop
      BY <1>0, <1>5, <2>1, RowKinds DEF MoveCredentials
    <2>3. Lags(a)
      BY <1>2, <2>2 DEF Lags
    <2>. QED
      BY <1>0, <1>2, <2>3, EnrolmentAssumption DEF HostsFit
  <1>7. \A c \in eAgents : c # a => c.host # a.host /\ c.id # a.id /\ c.ip # m
    <2>1. \A c \in eAgents : c # a => c.host # a.host /\ c.id # a.id
      BY <1>0 DEF HostsFit
    <2>2. ASSUME NEW c \in eAgents, c.ip = m, c.host # a.host PROVE FALSE
      <3>1. eHost[c.host].ip = m /\ eHost[c.host] \in HostRow /\ eHost[a.host] \in HostRow
        BY <1>0, <1>6, <2>2 DEF HostsFit
      <3>. QED
        BY <1>0, <1>5, <1>6, <2>2, <3>1 DEF HostsFit
    <2>. QED
      BY <2>1, <2>2
  <1>8. EnrolmentTypes'
    BY <1>0, <1>1, <1>3, <1>4 DEF EnrolmentTypes
  <1>9. TokensFit'
    BY <1>0, <1>1 DEF TokensFit, CommitsOf, Locked
  <1>10. IdentitiesFit'
    <2>1. \A c \in eAgents' : \E d \in eAgents : c.id = d.id
      BY <1>3, <1>4
    <2>2. \A c \in eAgents' : c.id < eNext
      BY <1>0, <2>1 DEF IdentitiesFit
    <2>3. \A n \in Machines : Busy(n) => \A c \in eAgents' : c.id # eTx[n].id
      BY <1>0, <2>1 DEF IdentitiesFit
    <2>. QED
      BY <1>0, <1>1, <2>2, <2>3 DEF IdentitiesFit, Busy
  <1>11. HostsFit'
    <2>1. \A c \in eAgents' :
            /\ eHost[c.host] \in HostRow
            /\ eHost[c.host].agent = c.id /\ eHost[c.host].tenant = c.tenant
            /\ c.ip = eHost[c.host].ip \/ c.ip = Loop
      BY <1>0, <1>3, <1>4, <1>6 DEF HostsFit
    <2>2. \A g \in 1 .. MaxHosts : eHost[g] \in HostRow =>
            \E c \in eAgents' : c.id = eHost[g].agent /\ c.host = g
      <3>1. ASSUME NEW g \in 1 .. MaxHosts, eHost[g] \in HostRow
            PROVE  \E c \in eAgents' : c.id = eHost[g].agent /\ c.host = g
        <4>1. PICK d \in eAgents : d.id = eHost[g].agent /\ d.host = g
          BY <1>0, <3>1 DEF HostsFit
        <4>2. CASE d = a
          BY <1>3, <1>4, <4>1, <4>2
        <4>3. CASE d # a
          BY <1>4, <4>1, <4>3
        <4>. QED
          BY <4>2, <4>3
      <3>. QED
        BY <3>1
    <2>3. \A c, d \in eAgents' : c.host = d.host \/ c.ip = d.ip \/ c.id = d.id => c = d
      <3>1. \A c, d \in eAgents : c.host = d.host \/ c.ip = d.ip \/ c.id = d.id => c = d
        BY <1>0 DEF HostsFit
      <3>. QED
        BY <1>3, <1>4, <1>7, <3>1
    <2>4. \A c \in eAgents' : Lags(c)' => Lags(c) /\ c \in eAgents
      BY <1>1, <1>3, <1>4, <1>6 DEF Lags
    <2>5. \A n \in Machines : eTx'[n] # NoTx => eTx'[n].ip = clientIP(n)'
      BY <1>0, <1>1 DEF HostsFit, clientIP
    <2>. QED
      BY <1>0, <1>1, <2>1, <2>2, <2>3, <2>4, <2>5 DEF HostsFit
  <1>. QED
    BY <1>8, <1>9, <1>10, <1>11 DEF EnrolmentIInv

\* What the commit of a registration writes.
LEMMA CommitWrites ==
  ASSUME EnrolmentIInv, NEW m \in Machines, CommitRegister(m)
  PROVE  \E t \in EnrolTokens, h \in 1 .. MaxHosts, tn \in Tenants :
           /\ t = eTx[m].tok /\ tn = eTok[t].tenant
           /\ eHost[h] \in HostRow \/ eHost[h] = NoHost
           /\ \A g \in 1 .. MaxHosts : g # h => eHost[g].ip # eTx[m].ip
           /\ eHost' = [eHost EXCEPT ![h] = [ip |-> eTx[m].ip, agent |-> eTx[m].id, tenant |-> tn]]
           /\ eAgents' = {a \in eAgents : ~(a.ip = eTx[m].ip \/ a.host = h)}
                           \cup {[id |-> eTx[m].id, host |-> h, ip |-> eTx[m].ip, tenant |-> tn]}
           /\ eCommits' = eCommits \cup {[tok |-> t, id |-> eTx[m].id, status |-> TokenStatus(t)]}
           /\ eTx' = [eTx EXCEPT ![m] = [pc |-> "answer", tok |-> t, ip |-> eTx[m].ip, id |-> eTx[m].id]]
  <1>0. EnrolmentTypes /\ TokensFit /\ IdentitiesFit /\ HostsFit
    BY DEF EnrolmentIInv
  <1>1. PICK t \in EnrolTokens : t = eTx[m].tok
    BY <1>0, RowKinds DEF CommitRegister, TxRow
  <1>2. eTx[m].pc = "consumed" /\ eTok[t] \in TokenRow
    BY <1>0, <1>1 DEF CommitRegister, TokensFit
  <1>3. PICK tn \in Tenants : tn = eTok[t].tenant
    BY <1>2 DEF TokenRow
  <1>4. eTx[m].ip \in Addresses
    BY <1>0, <1>2, RowKinds DEF TxRow
  <1>5. PICK h \in IF HostAt(eTx[m].ip) = {} THEN FreshHost ELSE {g \in HostAt(eTx[m].ip) : OwnHost(g, tn)} :
          /\ eHost' = [eHost EXCEPT ![h] = [ip |-> eTx[m].ip, agent |-> eTx[m].id,
                          tenant |-> IF eHost[h] = NoHost THEN tn ELSE eHost[h].tenant]]
          /\ eAgents' = NewCredentials([id |-> eTx[m].id, host |-> h, ip |-> eTx[m].ip, tenant |-> tn])
    BY <1>1, <1>3 DEF CommitRegister
  <1>6. /\ h \in 1 .. MaxHosts
        /\ eHost[h] \in HostRow \/ eHost[h] = NoHost
        /\ (IF eHost[h] = NoHost THEN tn ELSE eHost[h].tenant) = tn
        /\ \A g \in 1 .. MaxHosts : g # h => eHost[g].ip # eTx[m].ip
    <2>1. DOMAIN eHost = 1 .. MaxHosts
      BY <1>0, RowKinds
    <2>2. CASE HostAt(eTx[m].ip) = {}
      <3>1. h \in FreshHost
        BY <1>5, <2>2
      <3>2. h \in 1 .. MaxHosts /\ eHost[h] = NoHost
        BY <2>1, <3>1 DEF FreshHost
      <3>3. \A g \in 1 .. MaxHosts : eHost[g].ip # eTx[m].ip
        BY <2>1, <2>2 DEF HostAt
      <3>. QED
        BY <3>2, <3>3
    <2>3. CASE HostAt(eTx[m].ip) # {}
      <3>1. h \in HostAt(eTx[m].ip) /\ OwnHost(h, tn)
        BY <1>5, <2>3
      <3>2. h \in 1 .. MaxHosts /\ eHost[h].ip = eTx[m].ip /\ eHost[h].tenant = tn
        BY <2>1, <3>1 DEF HostAt, OwnHost
      <3>3. eHost[h] \in HostRow
        BY <1>0, <1>4, <3>2, RowKinds
      <3>4. \A g \in 1 .. MaxHosts : eHost[g].ip = eTx[m].ip => g = h
        <4>1. \A g \in 1 .. MaxHosts : eHost[g].ip = eTx[m].ip => eHost[g] \in HostRow
          BY <1>0, <1>4, RowKinds
        <4>. QED
          BY <1>0, <3>2, <3>3, <4>1 DEF HostsFit
      <3>. QED
        BY <3>2, <3>3, <3>4
    <2>. QED
      BY <2>2, <2>3
  <1>7. eAgents' = {a \in eAgents : ~(a.ip = eTx[m].ip \/ a.host = h)}
                     \cup {[id |-> eTx[m].id, host |-> h, ip |-> eTx[m].ip, tenant |-> tn]}
    BY <1>5 DEF NewCredentials, OldCredentials
  <1>8. /\ eCommits' = eCommits \cup {[tok |-> t, id |-> eTx[m].id, status |-> TokenStatus(t)]}
        /\ eTx' = [eTx EXCEPT ![m] = [pc |-> "answer", tok |-> t, ip |-> eTx[m].ip, id |-> eTx[m].id]]
    BY <1>1 DEF CommitRegister
  <1>9. eHost' = [eHost EXCEPT ![h] = [ip |-> eTx[m].ip, agent |-> eTx[m].id, tenant |-> tn]]
    BY <1>5, <1>6
  <1>. QED
    BY <1>1, <1>3, <1>6, <1>7, <1>8, <1>9

\* A commit replaces the credentials of one host.
LEMMA CommitKeeps ==
  ASSUME EnrolmentIInv, NEW m \in Machines, CommitRegister(m)
  PROVE  EnrolmentIInv'
  <1>0. EnrolmentTypes /\ TokensFit /\ IdentitiesFit /\ HostsFit
    BY DEF EnrolmentIInv
  <1>1. PICK t \in EnrolTokens, h \in 1 .. MaxHosts, tn \in Tenants :
           /\ t = eTx[m].tok /\ tn = eTok[t].tenant
           /\ eHost[h] \in HostRow \/ eHost[h] = NoHost
           /\ \A g \in 1 .. MaxHosts : g # h => eHost[g].ip # eTx[m].ip
           /\ eHost' = [eHost EXCEPT ![h] = [ip |-> eTx[m].ip, agent |-> eTx[m].id, tenant |-> tn]]
           /\ eAgents' = {a \in eAgents : ~(a.ip = eTx[m].ip \/ a.host = h)}
                           \cup {[id |-> eTx[m].id, host |-> h, ip |-> eTx[m].ip, tenant |-> tn]}
           /\ eCommits' = eCommits \cup {[tok |-> t, id |-> eTx[m].id, status |-> TokenStatus(t)]}
           /\ eTx' = [eTx EXCEPT ![m] = [pc |-> "answer", tok |-> t, ip |-> eTx[m].ip, id |-> eTx[m].id]]
    BY CommitWrites
  <1>2. UNCHANGED << eTok, eCred, eTrusted, eNext, eLost >> /\ eTx[m].pc = "consumed"
    BY DEF CommitRegister
  <1>3. PICK ip \in Addresses, id \in 1 .. MaxRegs : ip = eTx[m].ip /\ id = eTx[m].id
    BY <1>0, <1>2, RowKinds DEF TxRow
  <1>. DEFINE r == [ip |-> ip, agent |-> id, tenant |-> tn]
              b == [id |-> id, host |-> h, ip |-> ip, tenant |-> tn]
              k == [tok |-> t, id |-> id, status |-> TokenStatus(t)]
              x == [pc |-> "answer", tok |-> t, ip |-> ip, id |-> id]
  <1>4. r \in HostRow /\ r.ip = ip /\ r.agent = id /\ r.tenant = tn
    BY DEF HostRow
  <1>5. b \in AgentRow /\ b.id = id /\ b.host = h /\ b.ip = ip /\ b.tenant = tn
    BY DEF AgentRow
  <1>6. k \in CommitRow /\ k.tok = t /\ k.id = id /\ k.status \notin {"revoked", "absent"}
    <2>1. eTok[t] \in TokenRow /\ eTok[t].enabled
      BY <1>0, <1>1, <1>2 DEF TokensFit
    <2>2. TokenStatus(t) \in {"expired", "exhausted", "active"}
      BY <1>0, <2>1, RowKinds DEF TokenStatus
    <2>. QED
      BY <2>2 DEF CommitRow
  <1>7. x \in TxRow /\ x # NoTx /\ x.pc = "answer" /\ x.tok = t /\ x.ip = ip /\ x.id = id
    BY DEF TxRow, NoTx
  <1>8. /\ eHost' = [eHost EXCEPT ![h] = r] /\ eTx' = [eTx EXCEPT ![m] = x]
        /\ eCommits' = eCommits \cup {k}
        /\ eAgents' = {a \in eAgents : ~(a.ip = ip \/ a.host = h)} \cup {b}
    BY <1>1, <1>3
  <1>. HIDE DEF r, b, k, x
  <1>9. /\ eHost \in [1 .. MaxHosts -> HostRow \cup {NoHost, OldHost}]
        /\ eTx \in [Machines -> TxRow \cup {NoTx}]
    BY <1>0 DEF EnrolmentTypes
  <1>10. eHost'[h] = r /\ \A g \in 1 .. MaxHosts : g # h => eHost'[g] = eHost[g]
    BY <1>8, <1>9
  <1>11. eTx'[m] = x /\ \A n \in Machines : n # m => eTx'[n] = eTx[n]
    BY <1>8, <1>9
  <1>12. EnrolmentTypes'
    <2>1. eHost' \in [1 .. MaxHosts -> HostRow \cup {NoHost, OldHost}]
      BY <1>4, <1>8, <1>9
    <2>2. eTx' \in [Machines -> TxRow \cup {NoTx}]
      BY <1>7, <1>8, <1>9
    <2>3. eAgents' \subseteq AgentRow
      BY <1>0, <1>5, <1>8 DEF EnrolmentTypes
    <2>4. eCommits' \subseteq CommitRow
      BY <1>0, <1>6, <1>8 DEF EnrolmentTypes
    <2>5. IsFiniteSet(eCommits')
      BY <1>0, <1>8, FS_AddElement DEF EnrolmentTypes
    <2>. QED
      BY <1>0, <1>2, <2>1, <2>2, <2>3, <2>4, <2>5 DEF EnrolmentTypes
  <1>13. eTx[m] # NoTx /\ Busy(m) /\ NoTx.pc = "idle"
    BY <1>2 DEF Busy, NoTx
  <1>14. (\A c \in eCommits : c.id # id) /\ (\A a \in eAgents : a.id # id)
    BY <1>0, <1>3, <1>13 DEF IdentitiesFit
  <1>15. TokensFit'
    <2>1. \A n \in Machines : n # m /\ eTx[n].pc = "consumed" => eTx[n].tok # t
      BY <1>0, <1>1, <1>2 DEF TokensFit
    <2>2. Locked(t) /\ ~Locked(t)' /\ \A s \in EnrolTokens : s # t => (Locked(s)' <=> Locked(s))
      BY <1>1, <1>2, <1>7, <1>11, <2>1 DEF Locked
    <2>3. CommitsOf(t)' = CommitsOf(t) \cup {k} /\ k \notin CommitsOf(t)
      BY <1>6, <1>8, <1>14 DEF CommitsOf
    <2>4. \A s \in EnrolTokens : s # t => CommitsOf(s)' = CommitsOf(s)
      BY <1>6, <1>8 DEF CommitsOf
    <2>5. IsFiniteSet(CommitsOf(t))
      BY <1>0, FS_Subset DEF CommitsOf, EnrolmentTypes
    <2>6. Cardinality(CommitsOf(t)') = Cardinality(CommitsOf(t)) + 1 /\ Cardinality(CommitsOf(t)) \in Nat
      BY <2>3, <2>5, FS_AddElement, FS_CardinalityType
    <2>7. ASSUME NEW s \in EnrolTokens, eTok'[s] \in TokenRow
          PROVE  /\ eTok'[s].used = Cardinality(CommitsOf(s)') + (IF Locked(s)' THEN 1 ELSE 0)
                 /\ eTok'[s].max > 0 => eTok'[s].used <= eTok'[s].max
      <3>1. CASE s = t
        BY <1>0, <1>2, <2>2, <2>6, <2>7, <3>1 DEF TokensFit
      <3>2. CASE s # t
        BY <1>0, <1>2, <2>2, <2>4, <2>7, <3>2 DEF TokensFit
      <3>. QED
        BY <3>1, <3>2
    <2>8. eTok[t] # NoToken
      BY <1>0, <1>1, <1>13 DEF TokensFit
    <2>9. \A n \in Machines : eTx'[n] # NoTx => eTok'[eTx'[n].tok] # NoToken
      BY <1>0, <1>2, <1>7, <1>11, <2>8 DEF TokensFit
    <2>10. \A c \in eCommits' : eTok'[c.tok] # NoToken /\ c.status \notin {"revoked", "absent"}
      BY <1>0, <1>2, <1>6, <1>8, <2>8 DEF TokensFit
    <2>11. \A n \in Machines : eTx'[n].pc = "consumed" => n # m /\ eTx'[n] = eTx[n]
      BY <1>7, <1>11
    <2>12. \A n \in Machines : eTx'[n].pc = "consumed" =>
             eTok'[eTx'[n].tok] \in TokenRow /\ eTok'[eTx'[n].tok].enabled
      BY <1>0, <1>2, <2>11 DEF TokensFit
    <2>13. \A n, o \in Machines :
             eTx'[n].pc = "consumed" /\ eTx'[o].pc = "consumed" /\ eTx'[n].tok = eTx'[o].tok => n = o
      BY <1>0, <2>11 DEF TokensFit
    <2>. QED
      BY <2>7, <2>9, <2>10, <2>12, <2>13 DEF TokensFit
  <1>16. IdentitiesFit'
    <2>1. \A n \in Machines : eTx'[n] # NoTx => eTx[n] # NoTx /\ eTx'[n].id = eTx[n].id
      BY <1>3, <1>7, <1>11, <1>13
    <2>2. \A n \in Machines : Busy(n)' => n # m /\ Busy(n) /\ eTx'[n] = eTx[n] /\ eTx[n] # NoTx
      BY <1>7, <1>11, <1>13 DEF Busy
    <2>3. id < eNext
      BY <1>0, <1>3, <1>13 DEF IdentitiesFit
    <2>4. \A n \in Machines : n # m /\ eTx[n] # NoTx => eTx[n].id # id
      BY <1>0, <1>3, <1>13 DEF IdentitiesFit
    <2>5. (\A a \in eAgents' : a.id < eNext') /\ (\A c \in eCommits' : c.id < eNext')
      BY <1>0, <1>2, <1>5, <1>6, <1>8, <2>3 DEF IdentitiesFit
    <2>6. \A n \in Machines : Busy(n)' => /\ \A a \in eAgents' : a.id # eTx'[n].id
                                         /\ \A c \in eCommits' : c.id # eTx'[n].id
      BY <1>0, <1>5, <1>6, <1>8, <2>2, <2>4 DEF IdentitiesFit
    <2>7. \A n, o \in Machines : eTx'[n] # NoTx => eTx'[n].id # eCred'[o]
      BY <1>0, <1>2, <2>1 DEF IdentitiesFit
    <2>8. \A n \in Machines : eTx'[n] # NoTx => eTx'[n].id < eNext'
      BY <1>0, <1>2, <2>1 DEF IdentitiesFit
    <2>9. \A n, o \in Machines : eTx'[n] # NoTx /\ eTx'[o] # NoTx /\ eTx'[n].id = eTx'[o].id => n = o
      BY <1>0, <2>1 DEF IdentitiesFit
    <2>. QED
      BY <1>0, <1>2, <2>5, <2>6, <2>7, <2>8, <2>9 DEF IdentitiesFit
  <1>17. eTrusted => ip # Loop
    BY <1>0, <1>3, <1>13, EnrolmentAssumption DEF HostsFit, clientIP
  <1>18. \A a \in eAgents : a.host \in 1 .. MaxHosts
    BY <1>0 DEF EnrolmentTypes, AgentRow
  \* No host but h loses its credentials.
  <1>19. ASSUME NEW a \in eAgents, a.host # h PROVE a.ip # ip
    <2>1. eHost[a.host].ip # ip /\ (a.ip = eHost[a.host].ip \/ a.ip = Loop)
      BY <1>0, <1>1, <1>3, <1>18, <1>19 DEF HostsFit
    <2>2. CASE a.ip = eHost[a.host].ip
      BY <2>1, <2>2
    <2>3. CASE a.ip # eHost[a.host].ip
      <3>1. Lags(a) /\ a.ip = Loop
        BY <2>1, <2>3 DEF Lags
      <3>2. eTrusted
        BY <1>0, <3>1 DEF HostsFit
      <3>. QED
        BY <1>17, <3>1, <3>2
    <2>. QED
      BY <2>2, <2>3
  <1>20. HostsFit'
    <2>1. \A g \in 1 .. MaxHosts : eHost'[g] \in HostRow => g = h \/ eHost[g] \in HostRow
      BY <1>10
    <2>2. \A g, f \in 1 .. MaxHosts :
            eHost'[g] \in HostRow /\ eHost'[f] \in HostRow /\ eHost'[g].ip = eHost'[f].ip => g = f
      BY <1>0, <1>1, <1>3, <1>4, <1>10 DEF HostsFit
    <2>3. \A a \in eAgents' : a = b \/ (a \in eAgents /\ a.host # h /\ a.ip # ip)
      BY <1>8
    <2>4. ASSUME NEW a \in eAgents'
          PROVE  /\ eHost'[a.host] \in HostRow
                 /\ eHost'[a.host].agent = a.id /\ eHost'[a.host].tenant = a.tenant
                 /\ a.ip = eHost'[a.host].ip \/ a.ip = Loop
      BY <1>0, <1>4, <1>5, <1>10, <1>18, <2>3 DEF HostsFit
    <2>5. ASSUME NEW g \in 1 .. MaxHosts, eHost'[g] \in HostRow
          PROVE  \E a \in eAgents' : a.id = eHost'[g].agent /\ a.host = g
      <3>1. CASE g = h
        BY <1>4, <1>5, <1>8, <1>10, <3>1
      <3>2. CASE g # h
        <4>1. PICK a \in eAgents : a.id = eHost[g].agent /\ a.host = g
          BY <1>0, <1>10, <2>5, <3>2 DEF HostsFit
        <4>2. a \in eAgents'
          BY <1>8, <1>19, <3>2, <4>1
        <4>. QED
          BY <1>10, <3>2, <4>1, <4>2
      <3>. QED
        BY <3>1, <3>2
    <2>6. \A a, c \in eAgents' : a.host = c.host \/ a.ip = c.ip \/ a.id = c.id => a = c
      <3>1. \A a, c \in eAgents : a.host = c.host \/ a.ip = c.ip \/ a.id = c.id => a = c
        BY <1>0 DEF HostsFit
      <3>. QED
        BY <1>5, <1>14, <2>3, <3>1
    <2>7. ASSUME NEW a \in eAgents', Lags(a)'
          PROVE  /\ eTrusted'
                 /\ \A g \in 1 .. MaxHosts : eHost'[g].ip # Loop
                 /\ \A n \in Machines : eCred'[n] = a.id => eHost'[a.host].ip = n
                 /\ \A n \in Machines : eTx'[n] # NoTx => eTx'[n].id # a.id
      <3>1. a # b
        BY <1>4, <1>5, <1>10, <2>7 DEF Lags
      <3>2. a \in eAgents /\ a.host # h /\ eHost'[a.host] = eHost[a.host]
        BY <1>10, <1>18, <2>3, <3>1
      <3>3. Lags(a)
        BY <2>7, <3>2 DEF Lags
      <3>4. /\ eTrusted
            /\ \A g \in 1 .. MaxHosts : eHost[g].ip # Loop
            /\ \A n \in Machines : eCred[n] = a.id => eHost[a.host].ip = n
            /\ \A n \in Machines : eTx[n] # NoTx => eTx[n].id # a.id
        BY <1>0, <3>2, <3>3 DEF HostsFit
      <3>5. \A g \in 1 .. MaxHosts : eHost'[g].ip # Loop
        BY <1>4, <1>10, <1>17, <3>4
      <3>6. \A n \in Machines : eTx'[n] # NoTx => eTx'[n].id # a.id
        BY <1>7, <1>11, <1>14, <3>2, <3>4
      <3>. QED
        BY <1>2, <3>2, <3>4, <3>5, <3>6
    <2>8. \A n \in Machines : eTx'[n] # NoTx => eTx'[n].ip = clientIP(n)'
      BY <1>0, <1>2, <1>3, <1>7, <1>11, <1>13 DEF HostsFit, clientIP
    <2>. QED
      BY <2>2, <2>4, <2>5, <2>6, <2>7, <2>8 DEF HostsFit
  <1>. QED
    BY <1>12, <1>15, <1>16, <1>20 DEF EnrolmentIInv

LEMMA EnrolmentStep == EnrolmentIInv /\ [EnrolmentNext]_eVars => EnrolmentIInv'
  <1>. SUFFICES ASSUME EnrolmentIInv, [EnrolmentNext]_eVars PROVE EnrolmentIInv'
    OBVIOUS
  <1>0. DOMAIN eHost = 1 .. MaxHosts
    BY DEF EnrolmentIInv, EnrolmentTypes
  <1>1. ASSUME NEW t \in EnrolTokens, AgentEnrollToken(t) \/ AutomationEnrollTokenCreate(t)
        PROVE  EnrolmentIInv'
    BY <1>1, InsertKeeps DEF AgentEnrollToken, AutomationEnrollTokenCreate
  <1>2. ASSUME NEW t \in EnrolTokens, NEW new \in EnrolTokens, AutomationEnrollTokenRotate(t, new)
        PROVE  EnrolmentIInv'
    BY <1>2, RotateKeeps
  <1>3. ASSUME NEW t \in EnrolTokens,
               AutomationEnrollTokenRevoke(t) \/ AutomationEnrollTokenBatchDelete(t) \/ Expire(t)
        PROVE  EnrolmentIInv'
    BY <1>3, RevokeKeeps, BatchDeleteKeeps, ExpireKeeps
  <1>4. ASSUME NEW t \in EnrolTokens, NEW m \in Machines, AgentRegister(m, t)
        PROVE  EnrolmentIInv'
    BY <1>4, RegisterKeeps
  <1>5. ASSUME NEW h \in DOMAIN eHost, HostDelete(h)
        PROVE  EnrolmentIInv'
    BY <1>5, HostDeleteKeeps
  <1>6. ASSUME NEW m \in Machines,
               consumeEnrollTokenTx(m) \/ CommitRegister(m) \/ RollbackRegister(m) \/ Answer(m)
        PROVE  EnrolmentIInv'
    BY <1>6, ConsumeKeeps, CommitKeeps, RollbackKeeps, AnswerKeeps
  <1>7. ASSUME NEW m \in Machines, MoveHost(m) \/ MoveCredentials(m)
        PROVE  EnrolmentIInv'
    BY <1>7, MoveHostKeeps, MoveCredentialsKeeps
  <1>8. CASE TrustProxy
    BY <1>8, TrustKeeps
  <1>9. CASE UNCHANGED eVars
    <2>. USE <1>9 DEF eVars, EnrolmentIInv
    <2>1. EnrolmentTypes'
      BY DEF EnrolmentTypes
    <2>2. TokensFit'
      BY DEF TokensFit, CommitsOf, Locked
    <2>3. IdentitiesFit'
      BY DEF IdentitiesFit, Busy
    <2>4. HostsFit'
      BY DEF HostsFit, Lags, clientIP
    <2>. QED
      BY <2>1, <2>2, <2>3, <2>4
  <1>. QED
    BY <1>1, <1>2, <1>3, <1>4, <1>5, <1>6, <1>7, <1>8, <1>9 DEF EnrolmentNext

-----------------------------------------------------------------------------
(* Tunnel addresses *)

TunnelTypes ==
  /\ tOver \in AddrOrNone /\ tExternal \in AddrOrNone
  /\ tVerdict \in [addr : AddrOrNone, source : {"nobody", "platform", "agent"}, tried : BOOLEAN]
  /\ tReq \in {"none", "fresh", "stale"}
  /\ tProbes \in SUBSET [id : Nat, addr : AddrOrNone \cup {"due", "unread"}]
  /\ tTests \in [Testers -> [addr : AddrOrNone, tried : BOOLEAN]]
  /\ tBeat \in [over : AddrOrNone, req : {"off", "none", "fresh", "stale"},
                check : AddrOrNone, url : BOOLEAN]
  /\ tAgentRun \in AddrOrNone /\ tAgentPend \in AddrOrNone
  /\ tActs \in 0 .. MaxActs
  /\ tRaced \in BOOLEAN

(* Without a race every check that is under way, and every result on its way,
   is about the address of now; a heartbeat has read that address.  Only the
   test of a candidate is free, and a reset that is due leaves the verdict. *)
ChecksAreCurrent ==
  ~tRaced =>
    /\ StaleVerdictNeedsRace
    /\ \A p \in tProbes : p.addr \in {"due", "unread", tOver}
    /\ \A t \in Testers : tTests[t].addr \in {NoAddr, tOver} \/ tTests[t].tried
    /\ tAgentRun \in {NoAddr, tOver} /\ tAgentPend \in {NoAddr, tOver}
    /\ tBeat.req = "off" => tBeat = NoBeat
    /\ tBeat.req # "off" => tBeat.check \in {NoAddr, tOver} /\ tBeat.over = tOver

TunnelIInv == TunnelTypes /\ ChecksAreCurrent

LEMMA TunnelBegins == TunnelInit => TunnelIInv
<1> SUFFICES ASSUME TunnelInit PROVE TunnelIInv
  OBVIOUS
<1>1. TunnelTypes
  <2>1. tActs \in 0 .. MaxActs
    BY TunnelAssumption DEF TunnelInit
  <2> QED
    BY <2>1 DEF TunnelInit, TunnelTypes, AddrOrNone, NoVerdict, NoBeat, NoTest
<1>2. ChecksAreCurrent
  BY DEF TunnelInit, ChecksAreCurrent, StaleVerdictNeedsRace, NoVerdict, NoBeat, NoTest
<1> QED
  BY <1>1, <1>2 DEF TunnelIInv

LEMMA TunnelStep == TunnelIInv /\ [TunnelNext]_tVars => TunnelIInv'
<1> SUFFICES ASSUME TunnelIInv, [TunnelNext]_tVars PROVE TunnelIInv'
  OBVIOUS
<1> USE DEF TunnelIInv
<1>a. MaxActs \in Nat
  BY TunnelAssumption
<1>0. /\ NoVerdict \in [addr : AddrOrNone, source : {"nobody", "platform", "agent"}, tried : BOOLEAN]
      /\ NoVerdict.source = "nobody"
  BY DEF NoVerdict, AddrOrNone
<1>1. CASE UNCHANGED tVars
  BY <1>1 DEF tVars, TunnelTypes, ChecksAreCurrent, StaleVerdictNeedsRace, NoBeat
<1>2. ASSUME NEW a \in AddrOrNone, HostUpdate(a) PROVE TunnelIInv'
  <2>0. LET p == [id |-> tActs + 1, addr |-> "due"] IN p \in tProbes' /\ p.addr = "due"
    BY <1>2 DEF HostUpdate
  <2>1. TunnelTypes'
    <3>1. tActs' \in 0 .. MaxActs /\ tRaced' \in BOOLEAN
      BY <1>a, <1>2 DEF HostUpdate, Change, TunnelTypes
    <3>2. tProbes' \in SUBSET [id : Nat, addr : AddrOrNone \cup {"due", "unread"}]
      BY <1>a, <1>2 DEF HostUpdate, TunnelTypes
    <3> QED
      BY <1>2, <3>1, <3>2 DEF HostUpdate, Change, TunnelTypes
  <2>2. ChecksAreCurrent'
    <3>1. ~tRaced' => ~tRaced /\ (a = tOver \/ ~InFlight)
      BY <1>2 DEF HostUpdate, Change
    <3>2. \A p \in tProbes' : p \in tProbes \/ p.addr = "due"
      BY <1>2 DEF HostUpdate
    <3>3. tOver' = a /\ UNCHANGED << tVerdict, tTests, tBeat, tAgentRun, tAgentPend >>
      BY <1>2 DEF HostUpdate, Change
    <3> QED
      BY <2>0, <3>1, <3>2, <3>3 DEF TunnelTypes, ChecksAreCurrent, StaleVerdictNeedsRace, InFlight, NoBeat
  <2> QED
    BY <2>1, <2>2
<1>3. ASSUME NEW a \in AddrOrNone, HostBatchUpdate(a) PROVE TunnelIInv'
  <2>1. TunnelTypes'
    <3>1. tRaced' \in BOOLEAN
      BY <1>3, Zenon DEF HostBatchUpdate, Change, TunnelTypes
    <3>2. tActs' \in 0 .. MaxActs
      BY <1>a, <1>3 DEF HostBatchUpdate, TunnelTypes
    <3> QED
      BY <1>3, <3>1, <3>2 DEF HostBatchUpdate, Change, TunnelTypes
  <2>2. ChecksAreCurrent'
    BY <1>3 DEF HostBatchUpdate, Change, TunnelTypes, ChecksAreCurrent, StaleVerdictNeedsRace, InFlight, NoBeat
  <2> QED
    BY <2>1, <2>2
<1>4. ASSUME NEW a \in AddrOrNone, NEW s \in BOOLEAN, UpdateSettings(a, s) PROVE TunnelIInv'
  <2>0. NoAddr \in AddrOrNone
    BY DEF AddrOrNone
  <2>1. /\ \/ UNCHANGED << tOver, tRaced, tVerdict, tReq >>
           \/ /\ tVerdict' = NoVerdict /\ tReq' \in {"none", "fresh"}
              /\ tOver' \in {NoAddr, a} /\ tRaced' = (tRaced \/ (tOver' # tOver /\ InFlight))
        /\ tExternal' = a /\ tActs' = tActs + 1 /\ tActs < MaxActs
        /\ UNCHANGED << tProbes, tTests, tBeat, tAgentRun, tAgentPend, tAgentLast >>
    BY <1>4 DEF UpdateSettings, SyncExternalURLToAgents, Change
  <2>2. TunnelTypes'
    <3>0. tActs' \in 0 .. MaxActs
      BY <1>a, <2>1 DEF TunnelTypes
    <3>1. tRaced' \in BOOLEAN
      BY <2>1, Zenon DEF TunnelTypes
    <3>2. tOver' \in AddrOrNone /\ tReq' \in {"none", "fresh", "stale"}
      BY <2>0, <2>1 DEF TunnelTypes
    <3> QED
      BY <1>0, <2>1, <3>0, <3>1, <3>2 DEF TunnelTypes
  <2>3. ChecksAreCurrent'
    <3>1. CASE UNCHANGED << tOver, tRaced, tVerdict, tReq >>
      BY <2>1, <3>1 DEF TunnelTypes, ChecksAreCurrent, StaleVerdictNeedsRace, NoBeat
    <3>2. CASE /\ tVerdict' = NoVerdict
               /\ tRaced' = (tRaced \/ (tOver' # tOver /\ InFlight))
      BY <1>0, <2>1, <3>2 DEF TunnelTypes, ChecksAreCurrent, StaleVerdictNeedsRace, InFlight, NoBeat
    <3> QED
      BY <2>1, <3>1, <3>2
  <2> QED
    BY <2>2, <2>3
<1>5. ASSUME NEW p \in tProbes, runPlatformTunnelCheck(p) \/ triggerTunnelCheck(p) PROVE TunnelIInv'
  BY <1>0, <1>5
  DEF runPlatformTunnelCheck, triggerTunnelCheck, TunnelTypes, ChecksAreCurrent, StaleVerdictNeedsRace, NoBeat
<1>6. ASSUME NEW p \in tProbes, savePlatformTunnelCheck(p) PROVE TunnelIInv'
  BY <1>0, <1>6
  DEF savePlatformTunnelCheck, TunnelTypes, ChecksAreCurrent, StaleVerdictNeedsRace, NoBeat, AddrOrNone
<1>7. CASE BeatReads
  BY <1>7 DEF BeatReads, TunnelTypes, ChecksAreCurrent, StaleVerdictNeedsRace, NoBeat
<1>8. CASE BeatAnswers
  <2>1. TunnelTypes'
    <3>1. tVerdict' \in [addr : AddrOrNone, source : {"nobody", "platform", "agent"}, tried : BOOLEAN]
      <4>1. \/ tVerdict' = tVerdict
            \/ tVerdict' = [addr |-> tBeat.check, source |-> "agent", tried |-> FALSE]
        BY <1>8, Zenon DEF BeatAnswers, saveAgentTunnelCheck
      <4>2. tVerdict \in [addr : AddrOrNone, source : {"nobody", "platform", "agent"}, tried : BOOLEAN]
        BY DEF TunnelTypes
      <4>3. tBeat.check \in AddrOrNone
        BY DEF TunnelTypes
      <4>4. [addr |-> tBeat.check, source |-> "agent", tried |-> FALSE]
              \in [addr : AddrOrNone, source : {"nobody", "platform", "agent"}, tried : BOOLEAN]
        BY <4>3
      <4> QED
        BY <4>1, <4>2, <4>4, Zenon
    <3>2. tBeat' \in [over : AddrOrNone, req : {"off", "none", "fresh", "stale"},
                      check : AddrOrNone, url : BOOLEAN]
      BY <1>8 DEF BeatAnswers, NoBeat, AddrOrNone
    <3> QED
      BY <1>8, <3>1, <3>2 DEF BeatAnswers, TunnelTypes, AddrOrNone
  <2>2. ChecksAreCurrent'
    BY <1>8 DEF BeatAnswers, saveAgentTunnelCheck, TunnelTypes, ChecksAreCurrent, StaleVerdictNeedsRace, NoBeat
  <2> QED
    BY <2>1, <2>2
<1>9. CASE AgentProbed \/ AgentForgets \/ WindowPasses
  BY <1>9
  DEF AgentProbed, AgentForgets, WindowPasses, TunnelTypes, ChecksAreCurrent, StaleVerdictNeedsRace, NoBeat, AddrOrNone
<1>10. ASSUME NEW p \in tProbes, TunnelCheckLost(p) PROVE TunnelIInv'
  <2>1. tRaced' \in BOOLEAN
    BY <1>10, Zenon DEF TunnelCheckLost, TunnelTypes
  <2>2. TunnelTypes'
    BY <1>10, <2>1 DEF TunnelCheckLost, TunnelTypes
  <2>3. ~tRaced' => ~tRaced /\ p.addr # "due"
    BY <1>10 DEF TunnelCheckLost
  <2>4. ChecksAreCurrent'
    BY <1>10, <2>3 DEF TunnelCheckLost, TunnelTypes, ChecksAreCurrent, StaleVerdictNeedsRace, NoBeat
  <2> QED
    BY <2>2, <2>4
<1>11. ASSUME NEW t \in Testers, NEW a \in AddrOrNone, HostTunnelTest(t, a) PROVE TunnelIInv'
  <2> DEFINE addr == IF a = NoAddr THEN tOver ELSE a
             new == [addr |-> addr, tried |-> a # NoAddr]
  <2>1. new \in [addr : AddrOrNone, tried : BOOLEAN] /\ (new.addr = tOver \/ new.tried)
    BY DEF TunnelTypes
  <2> HIDE DEF new
  <2>2. tTests' = [tTests EXCEPT ![t] = new] /\ UNCHANGED << tVerdict, testFrame >>
    BY <1>11 DEF HostTunnelTest, new
  <2>3. TunnelTypes'
    <3>1. tActs' \in 0 .. MaxActs
      BY <1>a, <1>11 DEF HostTunnelTest, TunnelTypes
    <3> QED
      BY <2>1, <2>2, <3>1 DEF testFrame, TunnelTypes
  <2>4. ChecksAreCurrent'
    BY <2>1, <2>2 DEF testFrame, TunnelTypes, ChecksAreCurrent, StaleVerdictNeedsRace, NoBeat
  <2> QED
    BY <2>3, <2>4
<1>12. ASSUME NEW t \in Testers, HostTunnelTestSaves(t) PROVE TunnelIInv'
  <2>1. tTests[t].addr # NoAddr \/ tTests[t].tried
    BY <1>12 DEF HostTunnelTestSaves, NoTest, TunnelTypes
  <2>2. TunnelTypes'
    BY <1>12 DEF HostTunnelTestSaves, testFrame, NoTest, TunnelTypes, AddrOrNone
  <2>3. ChecksAreCurrent'
    BY <1>12, <2>1
    DEF HostTunnelTestSaves, testFrame, NoTest, TunnelTypes, ChecksAreCurrent, StaleVerdictNeedsRace, NoBeat
  <2> QED
    BY <2>2, <2>3
<1> QED
  BY <1>1, <1>2, <1>3, <1>4, <1>5, <1>6, <1>7, <1>8, <1>9, <1>10, <1>11, <1>12
  DEF TunnelNext, TunnelBeat, HostImportCSV

LEMMA TunnelHolds == TunnelIInv => TunnelInv
BY DEF TunnelIInv, TunnelInv, TunnelTypes, TunnelTypeOK, ChecksAreCurrent, StaleVerdictNeedsRace

-----------------------------------------------------------------------------
(* Agent updates *)

UpdateCommand == [sha : Builds, status : {"pending", "dispatched", "lapsed"}]

UpdateIInv ==
  /\ qTarget \in Builds \cup {NoBuild}
  /\ qRun \in [UpAgents -> Builds]
  /\ qBuild \in [UpAgents -> Builds \cup {NoBuild}]
  /\ qRan \in [UpAgents -> SUBSET Builds]
  /\ qCmds \in [UpAgents -> Seq(UpdateCommand)]
  /\ qBusy \in [UpAgents -> Builds \cup {NoBuild}]
  /\ qWins \in [UpAgents -> SUBSET Builds]
  /\ \A h \in qOrder.left : h.agent \in UpAgents
  /\ qMishaps \in 0 .. MaxMishaps
  /\ \A a \in UpAgents : Len(qCmds[a]) <= 1 /\ qRun[a] \in qRan[a] /\ qWins[a] \subseteq qRan[a]

LEMMA UpdateBegins == AgentUpdateInit => UpdateIInv
<1> SUFFICES ASSUME AgentUpdateInit PROVE UpdateIInv
  OBVIOUS
<1>1. qMishaps \in 0 .. MaxMishaps
  BY AgentUpdateAssumption DEF AgentUpdateInit
<1>2. \A h \in qOrder.left : h.agent \in UpAgents
  BY DEF AgentUpdateInit, NoOrder
<1> QED
  BY <1>1, <1>2 DEF AgentUpdateInit, UpdateIInv

\* An agent with a command gets no second one.
LEMMA InsertCommand ==
  ASSUME UpdateIInv, NEW a \in UpAgents, ResolveOS # NoBuild, insertCommand(a)
  PROVE  /\ qCmds' \in [UpAgents -> Seq(UpdateCommand)]
         /\ \A b \in UpAgents : Len(qCmds'[b]) <= 1
<1>1. CASE BusyAgent(a)
  BY <1>1 DEF insertCommand, UpdateIInv
<1>2. CASE ~BusyAgent(a)
  <2> DEFINE new == [sha |-> ResolveOS, status |-> "pending"]
  <2>1. qCmds[a] = << >> /\ new \in UpdateCommand
    BY <1>2 DEF BusyAgent, ResolveOS, UpdateCommand, UpdateIInv
  <2>2. qCmds' = [qCmds EXCEPT ![a] = Append(@, new)]
    BY <1>2 DEF insertCommand
  <2> HIDE DEF new
  <2>3. Append(qCmds[a], new) \in Seq(UpdateCommand) /\ Len(Append(qCmds[a], new)) = 1
    BY <2>1
  <2> QED
    BY <2>2, <2>3 DEF UpdateIInv
<1> QED
  BY <1>1, <1>2

\* A command that ends leaves at most one.
LEMMA CommandEnds ==
  ASSUME UpdateIInv, NEW a \in UpAgents, NEW i \in DOMAIN qCmds[a], EndCommand(a, i)
  PROVE  /\ qCmds' \in [UpAgents -> Seq(UpdateCommand)]
         /\ \A b \in UpAgents : Len(qCmds'[b]) <= 1
<1>1. qCmds[a] \in Seq(UpdateCommand) /\ Len(qCmds[a]) <= 1
  BY DEF UpdateIInv
<1>2. RemoveAt(qCmds[a], i) \in Seq(UpdateCommand) /\ Len(RemoveAt(qCmds[a], i)) <= 1
  BY <1>1 DEF RemoveAt
<1> QED
  BY <1>2 DEF UpdateIInv, EndCommand

\* An agent that has at most one command has it at the head.
LEMMA OneCommand ==
  \A q \in Seq(UpdateCommand) : q # << >> /\ Len(q) <= 1 => Len(q) = 1 /\ q[1] \in UpdateCommand
OBVIOUS

LEMMA UpdateStep == UpdateIInv /\ [AgentUpdateNext]_qVars => UpdateIInv'
<1> SUFFICES ASSUME UpdateIInv, [AgentUpdateNext]_qVars PROVE UpdateIInv'
  OBVIOUS
<1>0. MaxMishaps \in Nat
  BY AgentUpdateAssumption
<1>1. CASE UNCHANGED qVars
  BY <1>1 DEF qVars, UpdateIInv
<1>2. ASSUME NEW chosen \in SUBSET UpAgents, NEW f \in BOOLEAN, Enqueue(chosen, f) PROVE UpdateIInv'
  <2>1. qCmds' \in [UpAgents -> Seq(UpdateCommand)] /\ \A b \in UpAgents : Len(qCmds'[b]) <= 1
    <3>1. CASE f
      <4>1. qCmds' = [a \in UpAgents |-> IF a \in chosen THEN << >> ELSE qCmds[a]]
        BY <1>2, <3>1 DEF Enqueue
      <4>2. << >> \in Seq(UpdateCommand) /\ Len(<< >>) <= 1
        OBVIOUS
      <4>3. \A a \in UpAgents : qCmds[a] \in Seq(UpdateCommand) /\ Len(qCmds[a]) <= 1
        BY DEF UpdateIInv
      <4>4. \A a \in UpAgents : qCmds'[a] = << >> \/ qCmds'[a] = qCmds[a]
        BY <4>1, Zenon
      <4>5. \A a \in UpAgents : qCmds'[a] \in Seq(UpdateCommand) /\ Len(qCmds'[a]) <= 1
        BY <4>2, <4>3, <4>4, Zenon
      <4> QED
        BY <4>1, <4>5, Zenon
    <3>2. CASE ~f
      BY <1>2, <3>2 DEF Enqueue, UpdateIInv
    <3> QED
      BY <3>1, <3>2
  <2>2. \A h \in qOrder'.left : h.agent \in UpAgents
    <3>1. qOrder'.left = {[agent |-> a, build |-> qBuild[a]] : a \in chosen}
      BY <1>2 DEF Enqueue
    <3>2. \A h \in qOrder'.left : \E a \in chosen : h = [agent |-> a, build |-> qBuild[a]]
      BY <3>1, Zenon
    <3>3. \A a \in chosen : [agent |-> a, build |-> qBuild[a]].agent \in UpAgents
      OBVIOUS
    <3> QED
      BY <3>2, <3>3, Zenon
  <2> QED
    BY <1>2, <2>1, <2>2 DEF Enqueue, UpdateIInv
<1>3. ASSUME NEW h \in qOrder.left, EnqueueHost(h) PROVE UpdateIInv'
  <2>1. h.agent \in UpAgents
    BY DEF UpdateIInv
  <2>2. qCmds' \in [UpAgents -> Seq(UpdateCommand)] /\ \A b \in UpAgents : Len(qCmds'[b]) <= 1
    BY <1>3, <2>1, InsertCommand DEF EnqueueHost, UpdateIInv
  <2>3. \A k \in qOrder'.left : k \in qOrder.left
    BY <1>3 DEF EnqueueHost, NoOrder
  <2> QED
    BY <1>3, <2>2, <2>3 DEF EnqueueHost, UpdateIInv
<1>4. CASE Release
  BY <1>4 DEF Release, UpdateIInv
<1>5. ASSUME NEW a \in UpAgents, markSelfUpdateSuccess(a) PROVE UpdateIInv'
  <2>1. \A i \in Confirmed(a) : qCmds[a][i].sha = qRun[a]
    BY DEF Confirmed
  <2>2. {qCmds[a][i].sha : i \in Confirmed(a)} \subseteq {qRun[a]}
    BY <2>1
  <2>3. qWins' \in [UpAgents -> SUBSET Builds] /\ \A b \in UpAgents : qWins'[b] \subseteq qRan[b]
    BY <1>5, <2>2 DEF markSelfUpdateSuccess, UpdateIInv
  <2>4. qCmds' \in [UpAgents -> Seq(UpdateCommand)] /\ \A b \in UpAgents : Len(qCmds'[b]) <= 1
    BY <1>5 DEF markSelfUpdateSuccess, UpdateIInv
  <2> QED
    BY <1>5, <2>3, <2>4 DEF markSelfUpdateSuccess, UpdateIInv
<1>6. ASSUME NEW a \in UpAgents, AutoEnqueue(a) PROVE UpdateIInv'
  BY <1>6, InsertCommand DEF AutoEnqueue, UpdateIInv
<1>7. ASSUME NEW a \in UpAgents, CoolDown(a) PROVE UpdateIInv'
  BY <1>7 DEF CoolDown, UpdateIInv
<1>8. ASSUME NEW a \in UpAgents, Fetch(a) PROVE UpdateIInv'
  <2>1. /\ qCmds[a] \in Seq(UpdateCommand) /\ qCmds[a] # << >> /\ Len(qCmds[a]) <= 1
        /\ qCmds' = [qCmds EXCEPT ![a] = [qCmds[a] EXCEPT ![1] = [qCmds[a][1] EXCEPT !.status = "dispatched"]]]
    BY <1>8 DEF Fetch, UpdateIInv
  <2>2. Len(qCmds[a]) = 1 /\ qCmds[a][1] \in UpdateCommand
    BY <2>1, OneCommand, Zenon
  <2> DEFINE new == [qCmds[a][1] EXCEPT !.status = "dispatched"]
  <2>3. new \in UpdateCommand /\ qCmds[a][1].sha \in Builds
    BY <2>2 DEF UpdateCommand
  <2> HIDE DEF new
  <2>4. [qCmds[a] EXCEPT ![1] = new] \in Seq(UpdateCommand) /\ Len([qCmds[a] EXCEPT ![1] = new]) = 1
    BY <2>1, <2>2, <2>3
  <2>5. qCmds' \in [UpAgents -> Seq(UpdateCommand)] /\ \A b \in UpAgents : Len(qCmds'[b]) <= 1
    BY <2>1, <2>4 DEF UpdateIInv, new
  <2> QED
    BY <1>8, <2>3, <2>5 DEF Fetch, UpdateIInv
<1>9. ASSUME NEW a \in UpAgents, Install(a) PROVE UpdateIInv'
  BY <1>9 DEF Install, UpdateIInv
<1>10. ASSUME NEW a \in UpAgents, InstallFails(a) PROVE UpdateIInv'
  <2>1. qCmds' \in [UpAgents -> Seq(UpdateCommand)] /\ \A b \in UpAgents : Len(qCmds'[b]) <= 1
    BY <1>10, CommandEnds DEF InstallFails, Taken, UpdateIInv
  <2> QED
    <3>1. qMishaps' \in 0 .. MaxMishaps
      BY <1>0, <1>10 DEF InstallFails, UpdateIInv
    <3>2. /\ qBusy' = [qBusy EXCEPT ![a] = NoBuild]
          /\ UNCHANGED << qTarget, qRun, qBuild, qRan, qCool, qTask, qWins, qOrder, qReleases, qOrders >>
      BY <1>10 DEF InstallFails
    <3> QED
      BY <2>1, <3>1, <3>2 DEF UpdateIInv
<1>11. ASSUME NEW a \in UpAgents, AgentDies(a) PROVE UpdateIInv'
  BY <1>0, <1>11 DEF AgentDies, UpdateIInv
<1>12. ASSUME NEW a \in UpAgents, ReapExpired(a) PROVE UpdateIInv'
  BY <1>12, CommandEnds DEF ReapExpired, Taken, UpdateIInv
<1>13. ASSUME NEW a \in UpAgents, Lapse(a) PROVE UpdateIInv'
  <2>1. /\ qCmds[a] \in Seq(UpdateCommand) /\ qCmds[a] # << >> /\ Len(qCmds[a]) <= 1
        /\ qCmds' = [qCmds EXCEPT ![a] = [qCmds[a] EXCEPT ![1] = [qCmds[a][1] EXCEPT !.status = "lapsed"]]]
    BY <1>13 DEF Lapse, UpdateIInv
  <2>2. Len(qCmds[a]) = 1 /\ qCmds[a][1] \in UpdateCommand
    BY <2>1, OneCommand, Zenon
  <2> DEFINE new == [qCmds[a][1] EXCEPT !.status = "lapsed"]
  <2>3. new \in UpdateCommand
    BY <2>2 DEF UpdateCommand
  <2> HIDE DEF new
  <2>4. [qCmds[a] EXCEPT ![1] = new] \in Seq(UpdateCommand) /\ Len([qCmds[a] EXCEPT ![1] = new]) = 1
    BY <2>1, <2>2, <2>3
  <2>5. qCmds' \in [UpAgents -> Seq(UpdateCommand)] /\ \A b \in UpAgents : Len(qCmds'[b]) <= 1
    BY <2>1, <2>4 DEF UpdateIInv, new
  <2>6. qMishaps' \in 0 .. MaxMishaps
    BY <1>0, <1>13 DEF Lapse, UpdateIInv
  <2> QED
    BY <1>13, <2>5, <2>6 DEF Lapse, UpdateIInv
<1>14. ASSUME NEW a \in UpAgents, cleanupExpiredData(a) PROVE UpdateIInv'
  BY <1>14, CommandEnds DEF cleanupExpiredData, UpdateIInv
<1>15. ASSUME NEW a \in UpAgents, TaskCommand(a) PROVE UpdateIInv'
  <2>1. qMishaps' \in 0 .. MaxMishaps
    BY <1>0, <1>15 DEF TaskCommand, UpdateIInv
  <2> QED
    BY <1>15, <2>1 DEF TaskCommand, UpdateIInv
<1> QED
  BY <1>1, <1>2, <1>3, <1>4, <1>5, <1>6, <1>7, <1>8, <1>9, <1>10, <1>11, <1>12, <1>13, <1>14, <1>15
     DEF AgentUpdateNext

LEMMA UpdateHolds == UpdateIInv => AgentUpdateInv
<1> SUFFICES ASSUME UpdateIInv PROVE AgentUpdateInv
  OBVIOUS
<1>1. ASSUME NEW a \in UpAgents, NEW i \in DOMAIN qCmds[a]
      PROVE  qCmds[a][i].status \in {"pending", "dispatched", "lapsed"} /\ qCmds[a][i].sha \in Builds
  <2>1. qCmds[a] \in Seq(UpdateCommand)
    BY DEF UpdateIInv
  <2>2. qCmds[a][i] \in UpdateCommand
    BY <1>1, <2>1
  <2> QED
    BY <2>2 DEF UpdateCommand
<1> QED
  BY <1>1 DEF UpdateIInv, AgentUpdateInv, AgentUpdateTypeOK, OneSelfUpdate, SuccessIsReal

-----------------------------------------------------------------------------
(* The removal of hosts *)

(* A finite set of ids can be listed in ascending order, each id once. *)
LEMMA AscendingLists ==
  ASSUME NEW T, T \subseteq Nat, NEW S, S \subseteq T, IsFiniteSet(S)
  PROVE  /\ Ascending(S) \in Seq(T)
         /\ \A i, j \in 1 .. Len(Ascending(S)) : i # j => Ascending(S)[i] # Ascending(S)[j]
<1> DEFINE n == Cardinality(S)
           upTo(x) == {y \in S : y <= x}
           rank == [x \in S |-> Cardinality(upTo(x))]
<1>1. n \in Nat
  BY FS_CardinalityType
<1>2. \A x \in S : IsFiniteSet(upTo(x)) /\ Cardinality(upTo(x)) \in Nat /\ Cardinality(upTo(x)) <= n
  <2>1. \A x \in S : upTo(x) \in SUBSET S
    OBVIOUS
  <2>2. \A x \in S : IsFiniteSet(upTo(x)) /\ Cardinality(upTo(x)) <= n
    BY <2>1, FS_Subset, Zenon
  <2> QED
    BY <2>2, FS_CardinalityType
<1>3. ASSUME NEW x \in S, NEW y \in S, x < y PROVE rank[x] < rank[y]
  <2>0. x \in Nat /\ y \in Nat /\ \A z \in S : z \in Nat
    OBVIOUS
  <2>1. upTo(x) \in SUBSET upTo(y) /\ y \in upTo(y) /\ y \notin upTo(x)
    <3>1. \A z \in S : z <= x => z <= y
      BY <1>3, <2>0
    <3>2. y <= y /\ ~(y <= x)
      BY <1>3, <2>0
    <3> QED
      BY <3>1, <3>2, Zenon
  <2>2. Cardinality(upTo(x)) <= Cardinality(upTo(y)) /\ Cardinality(upTo(y)) # Cardinality(upTo(x))
    <3>1. IsFiniteSet(upTo(y))
      BY <1>2
    <3>2. Cardinality(upTo(y)) = Cardinality(upTo(x)) => upTo(y) = upTo(x)
      BY <2>1, <3>1, FS_Subset, Zenon
    <3>3. Cardinality(upTo(x)) <= Cardinality(upTo(y))
      BY <2>1, <3>1, FS_Subset, Zenon
    <3> QED
      BY <2>1, <3>2, <3>3, Zenon
  <2> QED
    BY <1>2, <2>2
<1>4. rank \in Injection(S, 1 .. n)
  <2>1. \A x \in S : upTo(x) # {}
    BY \A x \in S : x \in upTo(x)
  <2>2. \A x \in S : rank[x] \in 1 .. n
    BY <1>1, <1>2, <2>1, FS_EmptySet
  <2>3. \A x, y \in S : rank[x] = rank[y] => x = y
    BY <1>1, <1>3, <2>2
  <2> QED
    BY <2>2, <2>3 DEF Injection, IsInjective
<1>5. rank \in Surjection(S, 1 .. n)
  <2>1. IsFiniteSet(1 .. n) /\ Cardinality(1 .. n) = n
    BY <1>1, FS_Interval
  <2> QED
    BY <1>4, <2>1, FS_Injection, Zenon
<1> DEFINE list == [i \in 1 .. n |-> CHOOSE x \in S : rank[x] = i]
<1>6. \A i \in 1 .. n : list[i] \in S /\ rank[list[i]] = i
  BY <1>5 DEF Surjection
<1>7. \A i, j \in 1 .. n : i < j => list[i] < list[j]
  <2> SUFFICES ASSUME NEW i \in 1 .. n, NEW j \in 1 .. n, i < j PROVE list[i] < list[j]
    OBVIOUS
  <2> HIDE DEF list, rank
  <2>1. list[i] \in Nat /\ list[j] \in Nat
    BY <1>6
  <2>2. list[i] # list[j]
    BY <1>6
  <2>3. ~(list[j] < list[i])
    <3>1. SUFFICES ASSUME list[j] < list[i] PROVE FALSE
      OBVIOUS
    <3>2. rank[list[j]] < rank[list[i]]
      BY <1>3, <1>6, <3>1
    <3> QED
      BY <1>1, <1>6, <3>2
  <2> QED
    BY <2>1, <2>2, <2>3
<1>8. list \in [1 .. n -> S] /\ \A i, j \in DOMAIN list : i < j => list[i] < list[j]
  BY <1>6, <1>7
<1> HIDE DEF list
<1>9. /\ Ascending(S) \in [1 .. n -> S]
      /\ \A i, j \in DOMAIN Ascending(S) : i < j => Ascending(S)[i] < Ascending(S)[j]
  <2>1. \E q \in [1 .. n -> S] : \A i, j \in DOMAIN q : i < j => q[i] < q[j]
    BY <1>8
  <2> QED
    BY <2>1, Zenon DEF Ascending
<1>10. Len(Ascending(S)) = n /\ Ascending(S) \in Seq(T)
  <2>1. Ascending(S) \in [1 .. n -> T]
    BY <1>9
  <2> QED
    BY <1>1, <2>1
<1>11. ASSUME NEW i \in 1 .. n, NEW j \in 1 .. n, i # j
       PROVE  Ascending(S)[i] # Ascending(S)[j]
  <2>1. DOMAIN Ascending(S) = 1 .. n /\ Ascending(S)[i] \in Nat /\ Ascending(S)[j] \in Nat
    BY <1>9
  <2>2. i < j \/ j < i
    BY <1>1, <1>11
  <2> QED
    BY <1>9, <2>1, <2>2
<1> QED
  BY <1>10, <1>11
-----------------------------------------------------------------------------
JobRow ==
  [status : {"none", "pending", "running", "done", "canceled"}, ids : Seq(RemHosts),
   processed : Nat, deleted : Nat, failed : Nat, cancel : BOOLEAN]
Chunk ==
  [job : RemJobs \cup {0}, todo : Seq(RemHosts), gone : SUBSET RemHosts, failed : SUBSET RemHosts]
NoRepeats(s) == \A i, j \in 1 .. Len(s) : i # j => s[i] # s[j]

RemovalTypes ==
  /\ hRow \in SUBSET RemHosts /\ hWork \in SUBSET RemHosts
  /\ hNew \in [todo : SUBSET RemHosts, done : SUBSET RemHosts]
  /\ hJob \in [RemJobs -> JobRow]
  /\ hTx \in [Replicas -> Chunk]
  /\ hBy \in [RemJobs -> SUBSET RemHosts]
  /\ hCreations \in Nat /\ hStops \in 0 .. MaxStops

(* The list of a job names a host once, and its progress is within it. *)
JobsSound ==
  \A j \in RemJobs :
    /\ NoRepeats(hJob[j].ids) /\ hJob[j].processed <= Len(hJob[j].ids)
    /\ hJob[j].processed = hJob[j].deleted + hJob[j].failed
    /\ hJob[j].deleted = Cardinality(hBy[j])
    /\ hBy[j] \cap hRow = {}
    /\ hJob[j].status = "done" => hJob[j].processed = Len(hJob[j].ids)

(* The hosts of a chunk are different, and this is their number. *)
HostsOnce(c) ==
  NoRepeats(c.todo) /\ \A i \in 1 .. Len(c.todo) : c.todo[i] \notin c.gone \cup c.failed
Covered(c) == Cardinality(c.gone) + Cardinality(c.failed) + Len(c.todo)

(* A chunk belongs to a job that nobody else works on; what it has dealt with
   and what it has to do together are the hosts from the job's progress on. *)
ChunkSound(r) ==
  LET c == hTx[r] IN
  c # NoChunk =>
    /\ c.job \in RemJobs /\ hJob[c.job].status \in {"pending", "running"}
    /\ hJob[c.job].processed + Covered(c) = ChunkEnd(c.job) /\ HostsOnce(c)
    /\ \A q \in Replicas \ {r} : hTx[q] # NoChunk => hTx[q].job # c.job

(* What a chunk has deleted is still there, idle, and its alone. *)
RowsHeld ==
  \A r \in Replicas :
    /\ hTx[r].gone \subseteq hRow
    /\ hTx[r].gone \cap hWork = {} /\ hTx[r].gone \cap hNew.done = {}
    /\ \A q \in Replicas \ {r} : hTx[q].gone \cap hTx[r].gone = {}

RemovalIInv ==
  RemovalTypes /\ JobsSound /\ (\A r \in Replicas : ChunkSound(r)) /\ RowsHeld

(* Steps that only take rows away from the hosts keep the jobs and chunks. *)
LEMMA JobsKept ==
  ASSUME JobsSound, UNCHANGED << hJob, hBy >>, hRow' \subseteq hRow
  PROVE  JobsSound'
BY DEF JobsSound

\* A chunk whose job and rows stay.
LEMMA ChunksKept ==
  ASSUME UNCHANGED << hJob, hTx >>, \A r \in Replicas : ChunkSound(r)
  PROVE  \A r \in Replicas : ChunkSound(r)'
BY DEF ChunkSound, ChunkEnd

LEMMA RemovalBegins == HostRemovalInit => RemovalIInv
<1> SUFFICES ASSUME HostRemovalInit PROVE RemovalIInv
  OBVIOUS
<1> USE HostRemovalAssumption DEF HostRemovalInit
<1>1. NoJob \in JobRow /\ NoChunk \in Chunk
  BY DEF NoJob, JobRow, NoChunk, Chunk
<1>2. RemovalTypes
  BY <1>1 DEF RemovalTypes
<1>3. JobsSound
  BY FS_EmptySet DEF JobsSound, NoJob, NoRepeats
<1>4. \A r \in Replicas : ChunkSound(r)
  BY DEF ChunkSound
<1>5. RowsHeld
  BY DEF RowsHeld, NoChunk
<1> QED
  BY <1>2, <1>3, <1>4, <1>5 DEF RemovalIInv

(* The transaction of a task, and work that ends. *)
LEMMA TasksKeepRemoval ==
  ASSUME RemovalIInv,
         (\E hs \in HostLists : CreateBegins(hs)) \/ CreateStep \/ \E h \in RemHosts : WorkEnds(h)
  PROVE  RemovalIInv'
<1> USE HostRemovalAssumption DEF RemovalIInv
<1>1. UNCHANGED << hRow, hJob, hTx, hBy, hStops >>
  BY DEF CreateBegins, CreateStep, CreateCommits, CreateInserts, WorkEnds
<1>2. JobsSound' /\ \A r \in Replicas : ChunkSound(r)'
  BY <1>1, JobsKept, ChunksKept
<1>3. /\ hNew' \in [todo : SUBSET RemHosts, done : SUBSET RemHosts]
      /\ hWork' \in SUBSET RemHosts /\ hCreations' \in Nat
  <2>1. CASE \E hs \in HostLists : CreateBegins(hs)
    BY <2>1 DEF CreateBegins, RemovalTypes
  <2>2. CASE CreateCommits
    BY <2>2 DEF CreateCommits, RemovalTypes
  <2>3. CASE \E h \in RemHosts : CreateInserts(h)
    BY <2>3 DEF CreateInserts, RemovalTypes
  <2>4. CASE \E h \in RemHosts : WorkEnds(h)
    BY <2>4 DEF WorkEnds, RemovalTypes
  <2> QED
    BY <2>1, <2>2, <2>3, <2>4 DEF CreateStep
<1>4. \A r \in Replicas : hTx[r].gone \cap hWork' = {} /\ hTx[r].gone \cap hNew'.done = {}
  <2>1. CASE \E hs \in HostLists : CreateBegins(hs)
    BY <2>1 DEF CreateBegins, RowsHeld
  <2>2. CASE CreateCommits
    BY <2>2 DEF CreateCommits, RowsHeld
  <2>3. CASE \E h \in RemHosts : CreateInserts(h)
    BY <2>3 DEF CreateInserts, RowsHeld, HeldBy
  <2>4. CASE \E h \in RemHosts : WorkEnds(h)
    BY <2>4 DEF WorkEnds, RowsHeld
  <2> QED
    BY <2>1, <2>2, <2>3, <2>4 DEF CreateStep
<1>5. RowsHeld'
  BY <1>1, <1>4 DEF RowsHeld
<1>6. RemovalTypes'
  BY <1>1, <1>3 DEF RemovalTypes
<1> QED
  BY <1>2, <1>5, <1>6

\* A single deletion takes a host no chunk is about to remove.
LEMMA DeleteHostKeepsRemoval ==
  ASSUME RemovalIInv, NEW h \in RemHosts, deleteHost(h)
  PROVE  RemovalIInv'
<1> USE DEF RemovalIInv, deleteHost
<1>1. JobsSound' /\ \A r \in Replicas : ChunkSound(r)'
  BY JobsKept, ChunksKept
<1>2. RemovalTypes'
  BY DEF RemovalTypes
<1>3. RowsHeld'
  BY DEF RowsHeld, HeldBy
<1> QED
  BY <1>1, <1>2, <1>3

(* Only the jobs' rows change, and none that a chunk is about. *)
LEMMA OtherJobsKeepChunks ==
  ASSUME RemovalIInv, NEW j \in RemJobs, \A r \in Replicas : hTx[r] # NoChunk => hTx[r].job # j,
         \A i \in RemJobs \ {j} : hJob'[i] = hJob[i], hTx' = hTx
  PROVE  \A r \in Replicas : ChunkSound(r)'
BY DEF ChunkSound, ChunkEnd, RemovalIInv

\* The steps of the creation of a job.
LEMMA CreateJobKeepsRemoval ==
  ASSUME RemovalIInv, NEW j \in RemJobs, NEW hs \in HostLists, HostDeleteJobCreate(j, hs)
  PROVE  RemovalIInv'
<1> USE HostRemovalAssumption DEF RemovalIInv
<1> DEFINE row == [NoJob EXCEPT !.status = "pending", !.ids = Ascending(hs)]
<1>1. /\ hJob[j] = NoJob /\ hJob' = [hJob EXCEPT ![j] = row]
      /\ UNCHANGED << hRow, hWork, hNew, hTx, hBy, hCreations, hStops >>
  BY DEF HostDeleteJobCreate
<1>2. Ascending(hs) \in Seq(RemHosts) /\ NoRepeats(Ascending(hs))
  <2>1. hs \subseteq RemHosts /\ hs \subseteq Nat
    OBVIOUS
  <2>2. IsFiniteSet(hs)
    BY <2>1, FS_Subset, Zenon
  <2>3. /\ Ascending(hs) \in Seq(RemHosts)
        /\ \A i, k \in 1 .. Len(Ascending(hs)) : i # k => Ascending(hs)[i] # Ascending(hs)[k]
    BY <2>1, <2>2, AscendingLists
  <2> QED
    BY <2>3 DEF NoRepeats
<1> HIDE DEF row
<1>3. /\ row \in JobRow /\ row.ids = Ascending(hs) /\ row.status = "pending"
      /\ row.processed = 0 /\ row.deleted = 0 /\ row.failed = 0
  BY <1>2 DEF row, JobRow, NoJob
<1>4. RemovalTypes'
  BY <1>1, <1>3 DEF RemovalTypes
<1>5. JobsSound'
  <2>1. hJob[j].deleted = 0 /\ hJob'[j] = row /\ \A i \in RemJobs \ {j} : hJob'[i] = hJob[i]
    BY <1>1 DEF RemovalTypes, NoJob
  <2>2. Len(row.ids) \in Nat
    BY <1>2, <1>3
  <2>3. Cardinality(hBy[j]) = 0
    BY <2>1 DEF JobsSound
  <2> QED
    BY <1>1, <1>2, <1>3, <2>1, <2>2, <2>3 DEF JobsSound
<1>6. \A r \in Replicas : ChunkSound(r)'
  <2>1. \A r \in Replicas : hTx[r] # NoChunk => hTx[r].job # j
    BY <1>1 DEF ChunkSound, NoJob
  <2> QED
    BY <1>1, <2>1, OtherJobsKeepChunks DEF RemovalTypes
<1>7. RowsHeld'
  BY <1>1 DEF RowsHeld
<1> QED
  BY <1>4, <1>5, <1>6, <1>7

(* What is said of a job whose row is free. *)
LEMMA FreeJob ==
  ASSUME NEW j \in RemJobs, ~JobLocked(j)
  PROVE  \A r \in Replicas : hTx[r] # NoChunk => hTx[r].job # j
BY DEF JobLocked

\* A cancellation takes no chunk away.
LEMMA CancelKeepsRemoval ==
  ASSUME RemovalIInv, NEW j \in RemJobs, HostDeleteJobCancel(j)
  PROVE  RemovalIInv'
<1> USE DEF RemovalIInv, HostDeleteJobCancel
<1>1. RemovalTypes'
  BY DEF RemovalTypes, JobRow
<1>2. hJob[j] \in JobRow /\ hJob' = [hJob EXCEPT ![j] = [hJob[j] EXCEPT !.cancel = TRUE]]
  BY DEF RemovalTypes
<1>3. \A i \in RemJobs :
        /\ hJob'[i].ids = hJob[i].ids /\ hJob'[i].processed = hJob[i].processed
        /\ hJob'[i].deleted = hJob[i].deleted /\ hJob'[i].failed = hJob[i].failed
        /\ hJob'[i].status = hJob[i].status
  BY <1>2 DEF RemovalTypes, JobRow
<1>4. JobsSound'
  BY <1>3 DEF JobsSound
<1>5. \A r \in Replicas : ChunkSound(r)'
  BY FreeJob, OtherJobsKeepChunks DEF RemovalTypes
<1>6. RowsHeld'
  BY DEF RowsHeld
<1> QED
  BY <1>1, <1>4, <1>5, <1>6

\* A chunk ends within the list, beyond what is processed.
LEMMA EndType ==
  ASSUME RemovalIInv, NEW j \in RemJobs
  PROVE  /\ ChunkEnd(j) \in Nat /\ hJob[j].processed \in Nat
         /\ hJob[j].processed <= ChunkEnd(j) /\ ChunkEnd(j) <= Len(hJob[j].ids)
         /\ hJob[j].processed < Len(hJob[j].ids) => hJob[j].processed < ChunkEnd(j)
<1>1. hJob[j].processed \in Nat /\ hJob[j].ids \in Seq(RemHosts) /\ hJob[j].processed <= Len(hJob[j].ids)
  BY DEF RemovalIInv, RemovalTypes, JobRow, JobsSound
<1>2. Len(hJob[j].ids) \in Nat
  BY <1>1
<1> QED
  BY <1>1, <1>2, HostRemovalAssumption DEF ChunkEnd

(* The chunk that a replica begins. *)
LEMMA NewChunk ==
  ASSUME RemovalIInv, NEW j \in RemJobs, ~JobOver(j)
  PROVE  LET todo == SubSeq(hJob[j].ids, hJob[j].processed + 1, ChunkEnd(j))
         IN  /\ todo \in Seq(RemHosts) /\ NoRepeats(todo)
             /\ Len(todo) = ChunkEnd(j) - hJob[j].processed
<1> DEFINE p == hJob[j].processed
           e == ChunkEnd(j)
           ids == hJob[j].ids
           todo == SubSeq(ids, p + 1, e)
<1>1. p \in Nat /\ e \in Nat /\ p < e /\ e <= Len(ids)
  <2>1. p \in Nat /\ ids \in Seq(RemHosts)
    BY DEF RemovalIInv, RemovalTypes, JobRow
  <2>2. p < Len(ids)
    BY <2>1 DEF JobOver
  <2> QED
    BY <2>2, EndType
<1>2. ids \in Seq(RemHosts) /\ NoRepeats(ids)
  BY DEF RemovalIInv, RemovalTypes, JobRow, JobsSound
<1> HIDE DEF p, e, ids
<1>3. /\ Len(todo) = e - p /\ todo \in Seq(RemHosts)
      /\ \A i \in 1 .. Len(todo) : todo[i] = ids[p + i]
  BY <1>1, <1>2
<1>4. NoRepeats(todo)
  <2> SUFFICES ASSUME NEW i \in 1 .. Len(todo), NEW k \in 1 .. Len(todo), i # k
               PROVE  todo[i] # todo[k]
    BY DEF NoRepeats
  <2>1. p + i \in 1 .. Len(ids) /\ p + k \in 1 .. Len(ids) /\ p + i # p + k
    BY <1>1, <1>2, <1>3
  <2> QED
    BY <1>2, <1>3, <2>1 DEF NoRepeats
<1> QED
  BY <1>3, <1>4 DEF p, e, ids

\* A replica takes the next chunk of the list.
LEMMA JobRunsKeepsRemoval ==
  ASSUME RemovalIInv, NEW r \in Replicas, runHostDeleteJobOnce(r)
  PROVE  RemovalIInv'
<1> USE DEF RemovalIInv
<1>1. PICK j \in Waiting :
        IF JobOver(j)
        THEN /\ hJob' = [hJob EXCEPT ![j].status =
                  IF hJob[j].processed < Len(hJob[j].ids) THEN "canceled" ELSE "done"]
             /\ UNCHANGED hTx
        ELSE /\ hTx' = [hTx EXCEPT ![r] = [NoChunk EXCEPT !.job = j,
                  !.todo = SubSeq(hJob[j].ids, hJob[j].processed + 1, ChunkEnd(j))]]
             /\ UNCHANGED hJob
  BY DEF runHostDeleteJobOnce
<1>2. /\ hTx[r] = NoChunk
      /\ UNCHANGED << hRow, hWork, hNew, hBy, hCreations, hStops >>
  BY DEF runHostDeleteJobOnce
<1>3. /\ j \in RemJobs /\ ~JobLocked(j) /\ hJob[j].status \in {"pending", "running"}
      /\ hJob[j] \in JobRow
  BY DEF Waiting, RemovalTypes
<1>4. \A q \in Replicas : hTx[q] # NoChunk => hTx[q].job # j
  BY <1>3, FreeJob
<1>5. CASE JobOver(j)
  <2> DEFINE st == IF hJob[j].processed < Len(hJob[j].ids) THEN "canceled" ELSE "done"
  <2>1. RemovalTypes'
    <3>1. st \in {"none", "pending", "running", "done", "canceled"}
      OBVIOUS
    <3>2. hJob' = [hJob EXCEPT ![j] = [hJob[j] EXCEPT !.status = st]] /\ hTx' = hTx
      BY <1>1, <1>5 DEF RemovalTypes
    <3> HIDE DEF st
    <3>3. [hJob[j] EXCEPT !.status = st] \in JobRow
      BY <1>3, <3>1 DEF JobRow
    <3> QED
      BY <1>2, <3>2, <3>3 DEF RemovalTypes
  <2>2. JobsSound'
    <3>1. \A i \in RemJobs :
            /\ hJob'[i].ids = hJob[i].ids /\ hJob'[i].processed = hJob[i].processed
            /\ hJob'[i].deleted = hJob[i].deleted /\ hJob'[i].failed = hJob[i].failed
            /\ i # j => hJob'[i].status = hJob[i].status
      BY <1>1, <1>3, <1>5 DEF RemovalTypes, JobRow
    <3>2. hJob'[j].status = "done" => hJob[j].processed = Len(hJob[j].ids)
      <4>1. hJob[j].processed \in Nat /\ Len(hJob[j].ids) \in Nat /\ hJob[j].processed <= Len(hJob[j].ids)
        BY <1>3 DEF JobRow, JobsSound
      <4> QED
        BY <1>1, <1>3, <1>5, <4>1 DEF RemovalTypes, JobRow
    <3> QED
      BY <1>2, <3>1, <3>2 DEF JobsSound
  <2>3. \A q \in Replicas : ChunkSound(q)'
    BY <1>1, <1>3, <1>4, <1>5, OtherJobsKeepChunks DEF RemovalTypes
  <2>4. RowsHeld'
    BY <1>1, <1>2, <1>5 DEF RowsHeld
  <2> QED
    BY <2>1, <2>2, <2>3, <2>4
<1>6. CASE ~JobOver(j)
  <2> DEFINE todo == SubSeq(hJob[j].ids, hJob[j].processed + 1, ChunkEnd(j))
             new == [NoChunk EXCEPT !.job = j, !.todo = todo]
  <2>1. todo \in Seq(RemHosts) /\ NoRepeats(todo) /\ Len(todo) = ChunkEnd(j) - hJob[j].processed
    BY <1>3, <1>6, NewChunk
  <2>2. hTx' = [hTx EXCEPT ![r] = new] /\ hJob' = hJob
    BY <1>1, <1>6
  <2> HIDE DEF todo
  <2>3. new.job = j /\ new.todo = todo /\ new.gone = {} /\ new.failed = {} /\ new \in Chunk
    BY <1>3, <2>1 DEF Chunk, NoChunk
  <2> HIDE DEF new
  <2>4. hTx'[r] = new /\ \A q \in Replicas \ {r} : hTx'[q] = hTx[q]
    BY <2>2 DEF RemovalTypes
  <2>5. RemovalTypes'
    BY <1>2, <2>2, <2>3 DEF RemovalTypes
  <2>6. JobsSound'
    BY <1>2, <2>2 DEF JobsSound
  <2>7. ChunkSound(r)'
    <3>1. Covered(new) = ChunkEnd(j) - hJob[j].processed /\ HostsOnce(new)
      <4>1. Cardinality(new.gone) = 0 /\ Cardinality(new.failed) = 0 /\ Len(new.todo) \in Nat
        BY <2>1, <2>3, FS_EmptySet
      <4> QED
        BY <2>1, <2>3, <4>1 DEF Covered, HostsOnce
    <3>2. hJob[j].processed + Covered(new) = ChunkEnd(j)
      BY <1>3, <3>1, EndType
    <3> QED
      BY <1>3, <1>4, <2>2, <2>3, <2>4, <3>1, <3>2 DEF ChunkSound, ChunkEnd
  <2>8. \A q \in Replicas \ {r} : ChunkSound(q)'
    BY <1>4, <2>2, <2>3, <2>4 DEF ChunkSound, ChunkEnd
  <2>9. RowsHeld'
    BY <1>2, <2>3, <2>4 DEF RowsHeld
  <2> QED
    BY <2>5, <2>6, <2>7, <2>8, <2>9
<1> QED
  BY <1>5, <1>6

(* A chunk deals with its next host: the host joins those deleted or failed. *)
DealsWithHost(c, d) ==
  /\ d = [job |-> c.job, todo |-> Tail(c.todo), gone |-> d.gone, failed |-> d.failed]
  /\ \/ d.gone = c.gone \cup {Head(c.todo)} /\ d.failed = c.failed
     \/ d.gone = c.gone /\ d.failed = c.failed \cup {Head(c.todo)}

\* One host of a chunk is dealt with.
LEMMA ChunkGoesOn ==
  ASSUME NEW c \in Chunk, c.todo # << >>, HostsOnce(c), NEW d, DealsWithHost(c, d)
  PROVE  d \in Chunk /\ HostsOnce(d) /\ Covered(d) = Covered(c) /\ Covered(c) \in Nat
<1> DEFINE n == Len(c.todo)
           h == Head(c.todo)
           rest == Tail(c.todo)
           g == d.gone
           f == d.failed
<1>0. /\ d = [job |-> c.job, todo |-> rest, gone |-> g, failed |-> f]
      /\ (g = c.gone \cup {h} /\ f = c.failed) \/ (g = c.gone /\ f = c.failed \cup {h})
  BY DEF DealsWithHost
<1>1. c.todo \in Seq(RemHosts) /\ n \in Nat \ {0}
  BY DEF Chunk
<1>2. /\ h \in RemHosts /\ h = c.todo[1] /\ rest \in Seq(RemHosts)
      /\ Len(rest) = n - 1 /\ \A i \in 1 .. (n - 1) : rest[i] = c.todo[i + 1]
  BY <1>1
<1> HIDE DEF h, rest, g, f
<1>3. g \in SUBSET RemHosts /\ f \in SUBSET RemHosts /\ g \cup f = c.gone \cup c.failed \cup {h}
  BY <1>0, <1>2 DEF Chunk
<1>4. /\ \A i, k \in 1 .. n : i # k => c.todo[i] # c.todo[k]
      /\ \A i \in 1 .. n : c.todo[i] \notin c.gone \cup c.failed
  BY DEF HostsOnce, NoRepeats
<1> HIDE DEF n
<1>5. h \notin c.gone /\ h \notin c.failed
  <2>1. 1 \in 1 .. n
    BY <1>1
  <2> QED
    BY <1>2, <1>4, <2>1, Zenon
<1>6. IsFiniteSet(c.gone) /\ IsFiniteSet(c.failed)
  <2>1. c.gone \in SUBSET RemHosts /\ c.failed \in SUBSET RemHosts
    BY DEF Chunk
  <2> QED
    BY <2>1, FS_Subset, HostRemovalAssumption, Zenon
<1>7. /\ Cardinality(c.gone) \in Nat /\ Cardinality(c.failed) \in Nat
      /\ Cardinality(c.gone \cup {h}) = Cardinality(c.gone) + 1
      /\ Cardinality(c.failed \cup {h}) = Cardinality(c.failed) + 1
  BY <1>5, <1>6, FS_AddElement, FS_CardinalityType, Zenon
<1>8. Covered(d) = Covered(c) /\ Covered(c) \in Nat
  <2>1. /\ Covered(d) = Cardinality(g) + Cardinality(f) + Len(rest)
        /\ Covered(c) = Cardinality(c.gone) + Cardinality(c.failed) + n
    BY <1>0 DEF Covered, n
  <2>2. CASE g = c.gone \cup {h} /\ f = c.failed
    BY <1>1, <1>2, <1>7, <2>1, <2>2
  <2>3. CASE g = c.gone /\ f = c.failed \cup {h}
    BY <1>1, <1>2, <1>7, <2>1, <2>3
  <2> QED
    BY <1>0, <2>2, <2>3
<1>9. NoRepeats(rest) /\ \A i \in 1 .. Len(rest) : rest[i] \notin g \cup f
  <2>1. \A i \in 1 .. (n - 1) : i + 1 \in 1 .. n /\ i + 1 # 1 /\ 1 \in 1 .. n
    BY <1>1
  <2>2. \A i \in 1 .. (n - 1) : c.todo[i + 1] # h /\ c.todo[i + 1] \notin c.gone \cup c.failed
    BY <1>2, <1>4, <2>1
  <2>3. \A i \in 1 .. (n - 1) : rest[i] \notin g \cup f
    BY <1>2, <1>3, <2>2
  <2>4. \A i, k \in 1 .. (n - 1) : i # k => i + 1 # k + 1
    BY <1>1
  <2>5. \A i, k \in 1 .. (n - 1) : i # k => rest[i] # rest[k]
    BY <1>2, <1>4, <2>1, <2>4
  <2> QED
    BY <1>2, <2>3, <2>5, Zenon DEF NoRepeats
<1>10. d \in Chunk /\ d.todo = rest
  BY <1>0, <1>2, <1>3 DEF Chunk
<1> QED
  BY <1>8, <1>9, <1>10, Zenon DEF HostsOnce, g, f

\* The host at the head of a chunk is deleted or failed.
LEMMA HostDealtWith ==
  ASSUME RemovalIInv, NEW r \in Replicas, hTx[r].todo # << >>,
         NEW new, DealsWithHost(hTx[r], new), hTx' = [hTx EXCEPT ![r] = new], hJob' = hJob
  PROVE  /\ hTx' \in [Replicas -> Chunk] /\ hTx'[r] = new
         /\ \A q \in Replicas \ {r} : hTx'[q] = hTx[q]
         /\ \A q \in Replicas : ChunkSound(q)'
<1> DEFINE c == hTx[r]
           p == hJob[c.job].processed
           end == ChunkEnd(c.job)
<1>1. c \in Chunk /\ c # NoChunk /\ hTx \in [Replicas -> Chunk]
  BY DEF RemovalIInv, RemovalTypes, NoChunk
<1>2. /\ c.job \in RemJobs /\ hJob[c.job].status \in {"pending", "running"}
      /\ p + Covered(c) = end /\ HostsOnce(c)
      /\ \A q \in Replicas \ {r} : hTx[q] # NoChunk => hTx[q].job # c.job
  BY <1>1, Zenon DEF RemovalIInv, ChunkSound
<1>3. new.job = c.job
  BY DEF DealsWithHost
<1>4. new \in Chunk /\ HostsOnce(new) /\ Covered(new) = Covered(c)
  BY <1>1, <1>2, ChunkGoesOn, Zenon
<1>5. /\ hTx' \in [Replicas -> Chunk] /\ hTx'[r] = new
      /\ \A q \in Replicas \ {r} : hTx'[q] = hTx[q]
  BY <1>1, <1>4
<1>6. ChunkSound(r)'
  <2> HIDE DEF c
  <2>1. /\ hJob'[c.job].processed + Covered(new) = ChunkEnd(c.job)
        /\ \A q \in Replicas \ {r} : hTx'[q] # NoChunk => hTx'[q].job # c.job
    BY <1>2, <1>4, <1>5
  <2> QED
    BY <1>2, <1>3, <1>4, <1>5, <2>1 DEF ChunkSound, ChunkEnd
<1>7. \A q \in Replicas \ {r} : ChunkSound(q)'
  BY <1>1, <1>2, <1>3, <1>5 DEF ChunkSound, ChunkEnd, RemovalIInv
<1> QED
  BY <1>5, <1>6, <1>7

(* What a chunk deletes is a row that exists, is idle and is nobody else's. *)
LEMMA DeleteTxKeepsRemoval ==
  ASSUME RemovalIInv, NEW r \in Replicas, deleteHostTx(r)
  PROVE  RemovalIInv'
<1> DEFINE c == hTx[r]
           h == Head(c.todo)
           g == IF Deletable(h, r) THEN c.gone \cup {h} ELSE c.gone
           f == IF Deletable(h, r) THEN c.failed ELSE c.failed \cup {h}
           rest == Tail(c.todo)
           new == [job |-> c.job, todo |-> rest, gone |-> g, failed |-> f]
<1>1. /\ c.todo # << >> /\ (h \in hRow => HostFree(h, r))
      /\ UNCHANGED << hRow, hWork, hNew, hJob, hBy, hCreations, hStops >>
  BY DEF deleteHostTx
<1>2. c \in Chunk /\ hTx \in [Replicas -> Chunk]
  BY DEF RemovalIInv, RemovalTypes
<1>3. hTx' = [hTx EXCEPT ![r] = new]
  BY DEF deleteHostTx
<1>4. DealsWithHost(c, new)
  BY DEF DealsWithHost
<1>5. \/ g = c.gone
      \/ g = c.gone \cup {h} /\ h \in hRow /\ h \notin hWork /\ h \notin hNew.done
         /\ \A q \in Replicas \ {r} : h \notin hTx[q].gone
  BY <1>1 DEF Deletable, HostFree, HeldBy
<1>6. new.gone = g
  OBVIOUS
<1> HIDE DEF new, g, h
<1>7. /\ hTx' \in [Replicas -> Chunk] /\ hTx'[r] = new
      /\ \A q \in Replicas \ {r} : hTx'[q] = hTx[q]
      /\ \A q \in Replicas : ChunkSound(q)'
  BY <1>1, <1>3, <1>4, HostDealtWith
<1>8. RemovalTypes'
  BY <1>1, <1>7 DEF RemovalIInv, RemovalTypes
<1>9. JobsSound'
  BY <1>1 DEF RemovalIInv, JobsSound
<1>10. RowsHeld'
  BY <1>1, <1>5, <1>6, <1>7 DEF RemovalIInv, RowsHeld
<1> QED
  BY <1>7, <1>8, <1>9, <1>10 DEF RemovalIInv

\* A deadlock costs one of two chunks its host or the chunk.
LEMMA DeadlockKeepsRemoval ==
  ASSUME RemovalIInv, NEW r \in Replicas, BreakDeadlock(r)
  PROVE  RemovalIInv'
<1>1. CASE hNew' = [todo |-> {}, done |-> {}] /\ UNCHANGED hTx
  <2>1. UNCHANGED << hRow, hWork, hJob, hTx, hBy, hCreations, hStops >>
    BY <1>1 DEF BreakDeadlock
  <2>2. RemovalTypes' /\ JobsSound' /\ RowsHeld'
    BY <1>1, <2>1 DEF RemovalIInv, RemovalTypes, JobsSound, RowsHeld
  <2> QED
    BY <2>1, <2>2, ChunksKept DEF RemovalIInv
<1>2. CASE /\ hTx' = [hTx EXCEPT ![r] = [job |-> @.job, todo |-> Tail(@.todo), gone |-> @.gone,
                                          failed |-> @.failed \cup {Head(@.todo)}]]
           /\ UNCHANGED hNew
  <2> DEFINE c == hTx[r]
             new == [job |-> c.job, todo |-> Tail(c.todo), gone |-> c.gone,
                     failed |-> c.failed \cup {Head(c.todo)}]
  <2>1. c.todo # << >> /\ UNCHANGED << hRow, hWork, hNew, hJob, hBy, hCreations, hStops >>
    BY <1>2 DEF BreakDeadlock
  <2>2. c \in Chunk /\ hTx \in [Replicas -> Chunk]
    BY DEF RemovalIInv, RemovalTypes
  <2>3. hTx' = [hTx EXCEPT ![r] = new]
    BY <1>2
  <2>4. DealsWithHost(c, new) /\ new.gone = c.gone
    BY DEF DealsWithHost
  <2> HIDE DEF new
  <2>5. /\ hTx' \in [Replicas -> Chunk] /\ hTx'[r] = new
        /\ \A q \in Replicas \ {r} : hTx'[q] = hTx[q]
        /\ \A q \in Replicas : ChunkSound(q)'
    BY <2>1, <2>3, <2>4, HostDealtWith
  <2>6. RemovalTypes'
    BY <2>1, <2>5 DEF RemovalIInv, RemovalTypes
  <2>7. JobsSound'
    BY <2>1 DEF RemovalIInv, JobsSound
  <2>8. RowsHeld'
    BY <2>1, <2>4, <2>5 DEF RemovalIInv, RowsHeld
  <2> QED
    BY <2>5, <2>6, <2>7, <2>8 DEF RemovalIInv
<1> QED
  BY <1>1, <1>2 DEF BreakDeadlock

\* A replica stops in the middle of a chunk.
LEMMA StopKeepsRemoval ==
  ASSUME RemovalIInv, NEW r \in Replicas, StopReplica(r)
  PROVE  RemovalIInv'
<1>1. /\ hTx' = [hTx EXCEPT ![r] = NoChunk] /\ hStops' = hStops + 1 /\ hStops < MaxStops
      /\ UNCHANGED << hRow, hWork, hNew, hJob, hBy, hCreations >>
  BY DEF StopReplica
<1>2. NoChunk \in Chunk /\ NoChunk.gone = {}
  BY DEF NoChunk, Chunk
<1>3. hTx'[r] = NoChunk /\ \A q \in Replicas \ {r} : hTx'[q] = hTx[q]
  BY <1>1 DEF RemovalIInv, RemovalTypes
<1>4. RemovalTypes'
  BY <1>1, <1>2, HostRemovalAssumption DEF RemovalIInv, RemovalTypes
<1>5. JobsSound'
  BY <1>1 DEF RemovalIInv, JobsSound
<1>6. \A q \in Replicas : ChunkSound(q)'
  BY <1>1, <1>3 DEF RemovalIInv, ChunkSound, ChunkEnd
<1>7. RowsHeld'
  BY <1>1, <1>2, <1>3 DEF RemovalIInv, RowsHeld
<1> QED
  BY <1>4, <1>5, <1>6, <1>7 DEF RemovalIInv

(* The deletions of a chunk and the progress of its job come together. *)
LEMMA CommitKeepsRemoval ==
  ASSUME RemovalIInv, NEW r \in Replicas, CommitChunk(r)
  PROVE  RemovalIInv'
<1> DEFINE c == hTx[r]
           j == c.job
           end == ChunkEnd(j)
           st == IF end >= Len(hJob[j].ids) THEN "done" ELSE "running"
           del == hJob[j].deleted + Cardinality(c.gone)
           fai == hJob[j].failed + Cardinality(c.failed)
           row == [hJob[j] EXCEPT !.processed = end, !.deleted = del, !.failed = fai, !.status = st]
           by == hBy[j] \cup c.gone
<1>1. /\ c # NoChunk /\ c.todo = << >>
      /\ hBy' = [hBy EXCEPT ![j] = by]
      /\ hRow' = hRow \ c.gone /\ hWork' = hWork \ c.gone
      /\ hTx' = [hTx EXCEPT ![r] = NoChunk]
      /\ UNCHANGED << hNew, hCreations, hStops >>
  BY DEF CommitChunk
<1>2. /\ c \in Chunk /\ j \in RemJobs /\ hJob[j] \in JobRow /\ hJob[j].status \in {"pending", "running"}
      /\ hJob[j].processed + Covered(c) = end
      /\ \A q \in Replicas \ {r} : hTx[q] # NoChunk => hTx[q].job # j
  BY <1>1 DEF RemovalIInv, RemovalTypes, ChunkSound
<1>3. hJob' = [hJob EXCEPT ![j] = row]
  BY <1>2 DEF CommitChunk, RemovalIInv, RemovalTypes, JobRow
<1>4. /\ end \in Nat /\ hJob[j].processed \in Nat /\ end <= Len(hJob[j].ids)
      /\ Len(hJob[j].ids) \in Nat /\ hJob[j].deleted \in Nat /\ hJob[j].failed \in Nat
  <2>1. hJob[j].ids \in Seq(RemHosts)
    BY <1>2 DEF JobRow
  <2> QED
    BY <1>2, <2>1, EndType DEF JobRow
<1>5. /\ IsFiniteSet(c.gone) /\ IsFiniteSet(c.failed) /\ IsFiniteSet(hBy[j])
      /\ Cardinality(c.gone) \in Nat /\ Cardinality(c.failed) \in Nat
  <2>1. c.gone \in SUBSET RemHosts /\ c.failed \in SUBSET RemHosts /\ hBy[j] \in SUBSET RemHosts
    BY <1>2 DEF Chunk, RemovalIInv, RemovalTypes
  <2> QED
    BY <2>1, FS_Subset, FS_CardinalityType, HostRemovalAssumption, Zenon
<1>6. /\ hBy[j] \cap c.gone = {} /\ c.gone \subseteq hRow
      /\ hJob[j].processed = hJob[j].deleted + hJob[j].failed
      /\ hJob[j].deleted = Cardinality(hBy[j])
      /\ NoRepeats(hJob[j].ids)
  BY <1>2 DEF RemovalIInv, JobsSound, RowsHeld
<1>7. Cardinality(by) = del
  <2>1. Cardinality(by) = Cardinality(hBy[j]) + Cardinality(c.gone) - Cardinality(hBy[j] \cap c.gone)
    BY <1>5, FS_Union, Zenon
  <2>2. Cardinality(hBy[j] \cap c.gone) = 0
    BY <1>6, FS_EmptySet, Zenon
  <2> HIDE DEF by, c, j
  <2> QED
    BY <1>4, <1>5, <1>6, <2>1, <2>2
<1>8. end = del + fai
  <2>1. Covered(c) = Cardinality(c.gone) + Cardinality(c.failed)
    <3>1. Len(c.todo) = 0
      BY <1>1
    <3> HIDE DEF c
    <3> QED
      BY <1>5, <3>1 DEF Covered
  <2> HIDE DEF c, j, end
  <2> QED
    BY <1>2, <1>4, <1>5, <1>6, <2>1
<1>9. /\ row \in JobRow /\ row.ids = hJob[j].ids /\ row.processed = end /\ row.deleted = del
      /\ row.failed = fai /\ row.status = st
  <2>1. del \in Nat /\ fai \in Nat /\ st \in {"running", "done"}
    BY <1>4, <1>5
  <2> HIDE DEF del, fai, st, end, c, j
  <2> QED
    BY <1>2, <1>4, <2>1 DEF JobRow
<1>10. st = "done" => end = Len(hJob[j].ids)
  BY <1>4
<1> HIDE DEF row, del, fai, st, end, by, j, c
<1>11. /\ hJob'[j] = row /\ \A i \in RemJobs \ {j} : hJob'[i] = hJob[i]
       /\ hBy'[j] = by /\ \A i \in RemJobs \ {j} : hBy'[i] = hBy[i]
  BY <1>1, <1>2, <1>3 DEF RemovalIInv, RemovalTypes
<1>12. NoChunk \in Chunk /\ NoChunk.gone = {}
  BY DEF NoChunk, Chunk
<1>13. hTx'[r] = NoChunk /\ \A q \in Replicas \ {r} : hTx'[q] = hTx[q]
  BY <1>1 DEF RemovalIInv, RemovalTypes
<1>14. RemovalTypes'
  <2>1. by \in SUBSET RemHosts
    BY <1>2 DEF RemovalIInv, RemovalTypes, Chunk, by
  <2> QED
    BY <1>1, <1>3, <1>9, <1>12, <2>1 DEF RemovalIInv, RemovalTypes
<1>15. JobsSound'
  <2>1. by \cap hRow' = {}
    BY <1>1, <1>2 DEF RemovalIInv, JobsSound, by
  <2>2. end <= Len(hJob[j].ids)
    BY <1>4
  <2>3. \A i \in RemJobs \ {j} : hBy'[i] \cap hRow' = {}
    BY <1>1, <1>11 DEF RemovalIInv, JobsSound
  <2> QED
    BY <1>6, <1>7, <1>8, <1>9, <1>10, <1>11, <2>1, <2>2, <2>3 DEF RemovalIInv, JobsSound
<1>16. \A q \in Replicas : ChunkSound(q)'
  <2> SUFFICES ASSUME NEW q \in Replicas \ {r}, hTx[q] # NoChunk PROVE ChunkSound(q)'
    BY <1>13 DEF ChunkSound
  <2>1. hTx[q].job # j /\ ChunkSound(q)
    BY <1>2 DEF RemovalIInv
  <2>2. hTx[q].job \in RemJobs
    BY <2>1 DEF ChunkSound
  <2> QED
    BY <1>11, <1>13, <2>1, <2>2 DEF ChunkSound, ChunkEnd
<1>17. RowsHeld'
  <2>1. \A q \in Replicas \ {r} : hTx[q].gone \cap c.gone = {}
    BY DEF RemovalIInv, RowsHeld, c
  <2> QED
    BY <1>1, <1>12, <1>13, <2>1 DEF RemovalIInv, RowsHeld
<1> QED
  BY <1>14, <1>15, <1>16, <1>17 DEF RemovalIInv

LEMMA RemovalStep == RemovalIInv /\ [HostRemovalNext]_hVars => RemovalIInv'
<1> SUFFICES ASSUME RemovalIInv, [HostRemovalNext]_hVars PROVE RemovalIInv'
  OBVIOUS
<1>1. CASE UNCHANGED hVars
  BY <1>1 DEF hVars, RemovalIInv, RemovalTypes, JobsSound, ChunkSound, RowsHeld, ChunkEnd
<1>2. CASE (\E hs \in HostLists : CreateBegins(hs)) \/ CreateStep \/ \E h \in RemHosts : WorkEnds(h)
  BY <1>2, TasksKeepRemoval
<1>3. CASE \E hs \in HostLists, j \in RemJobs : HostDeleteJobCreate(j, hs)
  BY <1>3, CreateJobKeepsRemoval
<1>4. CASE HostBatchDelete
  BY <1>4, DeleteHostKeepsRemoval DEF HostBatchDelete
<1>5. CASE \E j \in RemJobs : HostDeleteJobCancel(j)
  BY <1>5, CancelKeepsRemoval
<1>6. CASE \E r \in Replicas : ReplicaStep(r) \/ StopReplica(r)
  BY <1>6, JobRunsKeepsRemoval, DeleteTxKeepsRemoval, CommitKeepsRemoval, DeadlockKeepsRemoval,
     StopKeepsRemoval DEF ReplicaStep
<1> QED
  BY <1>1, <1>2, <1>3, <1>4, <1>5, <1>6 DEF HostRemovalNext

LEMMA RemovalHolds == RemovalIInv => HostJobsInv
<1> SUFFICES ASSUME RemovalIInv PROVE HostJobsInv
  OBVIOUS
<1>1. HostRemovalTypeOK
  BY DEF RemovalIInv, RemovalTypes, JobRow, RowsHeld, HostRemovalTypeOK
<1>2. JobCountsOnce
  BY DEF RemovalIInv, JobsSound, JobCountsOnce
<1> QED
  BY <1>1, <1>2 DEF HostJobsInv

\* Only a chunk and a single deletion remove rows, and both look at the work
\* of a host in the transaction that removes it.
LEMMA WorkIsKept ==
  RemovalIInv /\ [HostRemovalNext]_hVars => [\A h \in hRow \cap hWork : h \in hRow']_hVars
<1> SUFFICES ASSUME RemovalIInv, HostRemovalNext, NEW h \in hRow \cap hWork PROVE h \in hRow'
  BY DEF hVars
<1>1. CASE \E r \in Replicas : CommitChunk(r)
  BY <1>1 DEF CommitChunk, RemovalIInv, RowsHeld
<1>2. CASE \E k \in RemHosts : deleteHost(k)
  BY <1>2 DEF deleteHost
<1>3. CASE ~(\E r \in Replicas : CommitChunk(r)) /\ ~(\E k \in RemHosts : deleteHost(k))
  BY <1>3 DEF HostRemovalNext, CreateBegins, HostDeleteJobCreate, CreateStep, CreateCommits,
     CreateInserts, WorkEnds, HostBatchDelete, HostDeleteJobCancel, ReplicaStep,
     runHostDeleteJobOnce, deleteHostTx, BreakDeadlock, StopReplica
<1> QED
  BY <1>1, <1>2, <1>3

-----------------------------------------------------------------------------
(* The fleet *)

\* What every step of the fleet keeps, part by part.
FleetIInv ==
  /\ EnrolmentIInv /\ TunnelIInv /\ UpdateIInv /\ RemovalIInv
  /\ ExecutorIInv /\ SwapIInv /\ StateIInv /\ ChunkIInv /\ LogIInv

\* A step of the fleet is a step of one part and leaves the others alone.
LEMMA PartsStep ==
  [FleetNext]_fleetVars =>
    /\ [EnrolmentNext]_eVars /\ [TunnelNext]_tVars /\ [AgentUpdateNext]_qVars
    /\ [HostRemovalNext]_hVars /\ [ExecutorNext]_xVars /\ [SelfUpdateNext]_uVars
    /\ [StateFileNext]_fVars /\ [CommandOutputNext]_oVars /\ [LogNext]_lVars
<1> SUFFICES ASSUME [FleetNext]_fleetVars
             PROVE  /\ [EnrolmentNext]_eVars /\ [TunnelNext]_tVars /\ [AgentUpdateNext]_qVars
                    /\ [HostRemovalNext]_hVars /\ [ExecutorNext]_xVars /\ [SelfUpdateNext]_uVars
                    /\ [StateFileNext]_fVars /\ [CommandOutputNext]_oVars /\ [LogNext]_lVars
  OBVIOUS
<1>1. CASE UNCHANGED fleetVars
  <2>1. UNCHANGED << eVars, tVars, qVars, hVars, xVars, uVars, fVars, outVars >>
    BY <1>1 DEF fleetVars, serverVars, agentVars
  <2> QED
    BY <2>1 DEF outVars
<1>2. CASE ServerNext
  <2>1. UNCHANGED << xVars, uVars, fVars, oVars, lVars >>
    BY <1>2 DEF ServerNext, agentVars, outVars
  <2>2. [EnrolmentNext]_eVars /\ [TunnelNext]_tVars /\ [AgentUpdateNext]_qVars /\ [HostRemovalNext]_hVars
    BY <1>2 DEF ServerNext
  <2> QED
    BY <2>1, <2>2
<1>3. CASE HostNext
  <2>1. UNCHANGED << eVars, tVars, qVars, hVars >>
    BY <1>3 DEF HostNext, serverVars
  <2>2. [ExecutorNext]_xVars /\ [SelfUpdateNext]_uVars /\ [StateFileNext]_fVars
    BY <1>3 DEF HostNext
  <2>3. CommandOutputNext => UNCHANGED lVars
    BY Zenon DEF CommandOutputNext, ExecuteCommand, ChunkWrite, Post, FlushRest, executeRunCommand
  <2>4. LogNext => UNCHANGED oVars
    BY Zenon DEF LogNext, LogWrite, RotateShift, RotateCopy, RotateFails, RotateTruncate, LogReopen,
       TailRestart, TailRead
  <2>5. [CommandOutputNext]_oVars /\ [LogNext]_lVars
    BY <1>3, <2>3, <2>4 DEF HostNext, outVars
  <2> QED
    BY <2>1, <2>2, <2>5
<1> QED
  BY <1>1, <1>2, <1>3 DEF FleetNext

\* Each part begins in its invariant and every step keeps all of them.
LEMMA FleetKeeps == FleetSpec => []FleetIInv
<1>1. FleetInit => FleetIInv
  BY EnrolmentBegins, TunnelBegins, UpdateBegins, RemovalBegins, ExecutorBegins, SwapBegins,
     StateBegins, ChunksBegin, LogBegins DEF FleetInit, FleetIInv
<1>2. FleetIInv /\ [FleetNext]_fleetVars => FleetIInv'
  <2> SUFFICES ASSUME FleetIInv, [FleetNext]_fleetVars PROVE FleetIInv'
    OBVIOUS
  <2>1. EnrolmentIInv' /\ TunnelIInv' /\ UpdateIInv' /\ RemovalIInv'
    BY PartsStep, EnrolmentStep, TunnelStep, UpdateStep, RemovalStep DEF FleetIInv
  <2>2. ExecutorIInv' /\ SwapIInv' /\ StateIInv' /\ ChunkIInv' /\ LogIInv'
    BY PartsStep, ExecutorKeeps, SwapStep, StateStep, ChunkStep, LogStep DEF FleetIInv
  <2> QED
    BY <2>1, <2>2 DEF FleetIInv
<1> QED
  BY <1>1, <1>2, PTL DEF FleetSpec

\* A token admits what it may and no more, nobody registers with a revoked one,
\* and hosts, addresses and credentials stay in step through registrations that
\* meet, roll back or lose their answer, moves from the loopback address and
\* deletions (consumeEnrollTokenTx, AgentRegister, migrateLoopbackHostIP).
THEOREM EnrolmentIsSound == FleetSpec => []EnrolmentInv
<1>1. FleetIInv => EnrolmentInv
  BY EnrolmentHolds DEF FleetIInv
<1> QED
  BY <1>1, FleetKeeps, PTL

\* A verdict on a connection address that is not about the address of now has a
\* race, a candidate that was tested or a reset still to come behind it
\* (triggerTunnelCheck, saveAgentTunnelCheck, HostTunnelTest);
\* an agent never has two self updates, and a success is reported only for a
\* build the agent ran (insertCommand, markSelfUpdateSuccess).
THEOREM ServerViewIsSound == FleetSpec => []ServerViewInv
<1>1. FleetIInv => ServerViewInv
  BY TunnelHolds, UpdateHolds DEF FleetIInv, ServerViewInv
<1> QED
  BY <1>1, FleetKeeps, PTL

\* A delete job counts every host of its list once, as deleted or as failed,
\* whichever replicas, stops, deadlocks and single deletions it meets.
THEOREM JobsReportWhatTheyDid == FleetSpec => []HostJobsInv
<1>1. FleetIInv => HostJobsInv
  BY RemovalHolds DEF FleetIInv
<1> QED
  BY <1>1, FleetKeeps, PTL

\* On the host: a command that fails leaves the program that was there, one
\* that succeeds leaves the requested version and no stopped service, the
\* program and the state file are torn only by a cut backup and by writers
\* that met, the output of an ended command was posted once and in full, and
\* the log has no gap and its reader repeats no line (executor.go, run.go,
\* agentlog.go).
THEOREM HostIsSound == FleetSpec => []HostInv
<1>1. FleetIInv => HostInv
  BY ExecutorHolds, SwapHolds, StateHolds, OutputHolds DEF FleetIInv, HostInv, HostFilesInv
<1> QED
  BY <1>1, FleetKeeps, PTL

\* No step removes a host that has work: not a chunk of a delete job, whatever
\* began since the job was made, and not a single deletion (deleteHostTx).
THEOREM WorkKeepsHosts == FleetSpec => ActiveWorkSurvives
<1>1. FleetIInv /\ [FleetNext]_fleetVars => [\A h \in hRow \cap hWork : h \in hRow']_hVars
  BY WorkIsKept, PartsStep DEF FleetIInv
<1> QED
  BY <1>1, FleetKeeps, PTL DEF FleetSpec, ActiveWorkSurvives

\* The watchdog judges an agent dead only after three silent readings, though
\* its counter is a file other steps reset (watchdog.go).
THEOREM RollbacksAreLate == FleetSpec => RollbackNeedsSilence
<1>1. FleetIInv /\ [FleetNext]_fleetVars
        => [uDog = "idle" /\ uDog' = "judge" /\ uSeen' >= 3 => uSilent' >= 3]_uVars
  BY RollbackIsLate, PartsStep DEF FleetIInv
<1> QED
  BY <1>1, FleetKeeps, PTL DEF FleetSpec, RollbackNeedsSilence

\* While writers of the state file never meet, the identity on the disk is
\* never replaced by another one (saveState, updateState, writeInitialState).
THEOREM IdentityIsKeptByAll == FleetSpec => IdentityStays
<1>1. FleetIInv /\ [FleetNext]_fleetVars
        => [Disk.id # 0 /\ Disk'.id \notin {0, Disk.id} => fMeets' > 0]_fVars
  BY IdentityIsKept, PartsStep DEF FleetIInv
<1> QED
  BY <1>1, FleetKeeps, PTL DEF FleetSpec, IdentityStays
=============================================================================
