------------------------------- MODULE Catalog -------------------------------
(***************************************************************************)
(* Components and their artifacts: a row for each version, a file in the   *)
(* storage, and the advisory locks under which several replicas upload and *)
(* remove them.  An upload shares the lock of its component and has that   *)
(* of its version for itself; a removal has the component's for itself.    *)
(* The locks belong to one database session, which may break while the     *)
(* request goes on; a replica may die between any two steps.               *)
(*                                                                         *)
(* A version stands for version, architecture and system together.  A file *)
(* is known by the upload that wrote it, which is its checksum too.        *)
(***************************************************************************)
EXTENDS Integers, FiniteSets

CONSTANTS
  CatComps, Versions, FileNames,
  Requests,       \* requests under way, on any replica
  MaxUploads,     \* bound: files written
  MaxBreaks,      \* bound: broken sessions, crashes and failed statements
  MaxCatTasks     \* bound: tasks created

Artifacts == CatComps \X Versions
NoName == ""      \* no file

ASSUME CatalogAssumption ==
  /\ MaxUploads \in Nat /\ MaxBreaks \in Nat /\ MaxCatTasks \in Nat
  /\ NoName \notin FileNames

NoRow == [id |-> 0, name |-> NoName, sum |-> 0]
IdleRequest == [pc |-> "idle"]

VARIABLES
  cComp,      \* components that exist
  cRow,       \* artifacts, by component and version
  cFile,      \* storage: under each key, the upload it is from, or 0
  cTask,      \* the task of a version: none, draft, running (or paused), over
  cCmd,       \* the artifact an unfinished command of the task names, or 0
  cReq,       \* the requests
  cSession,   \* requests whose lock connection is alive
  cTorn,      \* history: versions whose file a failure may have spoilt
  cLeft,      \* history: keys a known cause left without a row
  cStolen,    \* history: artifacts removed while in use, unless a task was started
              \* between the look and the removal
  cUps, cBreaks, cTasks   \* bounds

cVars == << cComp, cRow, cFile, cTask, cCmd, cReq, cSession, cTorn, cLeft, cStolen,
            cUps, cBreaks, cTasks >>
rows == << cComp, cRow, cTask, cCmd >>
notes == << cTorn, cLeft, cStolen >>
counts == << cUps, cBreaks, cTasks >>

CatalogInit ==
  /\ cComp = CatComps
  /\ cRow = [a \in Artifacts |-> NoRow]
  /\ cFile = [k \in Artifacts \X FileNames |-> 0]
  /\ cTask = [a \in Artifacts |-> "none"] /\ cCmd = [a \in Artifacts |-> 0]
  /\ cReq = [w \in Requests |-> IdleRequest] /\ cSession = {}
  /\ cTorn = {} /\ cLeft = {} /\ cStolen = {}
  /\ cUps = 0 /\ cBreaks = 0 /\ cTasks = 0

\* Where a request with locks stands.
Goto(w, pc) == cReq' = [cReq EXCEPT ![w].pc = pc]

\* A request ends; its locks go with its session.
Ends(w) ==
  /\ cReq' = [cReq EXCEPT ![w] = IdleRequest]
  /\ cSession' = cSession \ {w}

Others(w) == {x \in cSession : x # w}

\* No exclusive lock of the component elsewhere; the version's own is forgotten.
UploadLocksFreeMutant(w) ==
  \A x \in Others(w) :
    cReq[x].art[1] = cReq[w].art[1] => cReq[x].op = "upload"

\* Both locks of an upload are free: shared ones get along.
UploadLocksFree(w) ==
  \A x \in Others(w) :
    cReq[x].art[1] = cReq[w].art[1] =>
      cReq[x].op = "upload" /\ cReq[x].art # cReq[w].art

\* The component's lock is free for a removal.
RemovalLockFree(w) == \A x \in Others(w) : cReq[x].art[1] # cReq[w].art[1]
-----------------------------------------------------------------------------
(* Upload: Save *)

\* The component is looked up before the locks are asked for.
SaveBegins(w, a, name) ==
  /\ cReq[w] = IdleRequest /\ a[1] \in cComp /\ cUps < MaxUploads
  /\ cReq' = [cReq EXCEPT ![w] = [pc |-> "wait", op |-> "upload", art |-> a,
                                  name |-> name, sum |-> cUps + 1]]
  /\ cUps' = cUps + 1
  /\ UNCHANGED << rows, cFile, cSession, notes, cBreaks, cTasks >>

\* acquireArtifactDBLocks: all of the locks or none, tried again and again.
acquireArtifactDBLocks(w) ==
  /\ cReq[w].pc = "wait"
  /\ IF cReq[w].op = "upload" THEN UploadLocksFree(w) ELSE RemovalLockFree(w)
  /\ cSession' = cSession \cup {w}
  /\ Goto(w, "locked")
  /\ UNCHANGED << rows, cFile, notes, counts >>

\* The time to wait for the locks is over, or what was sent cannot be read.
GivesUp(w) ==
  /\ cReq[w].pc = "wait" \/ cReq[w].pc = "locked"
  /\ Ends(w)
  /\ UNCHANGED << rows, cFile, notes, counts >>

\* The backend writes the file beside and renames it.
BackendSaves(w) ==
  /\ cReq[w].pc = "locked" /\ cReq[w].op = "upload"
  /\ cFile' = [cFile EXCEPT ![<< cReq[w].art, cReq[w].name >>] = cReq[w].sum]
  /\ cTorn' = IF w \in cSession THEN cTorn ELSE cTorn \cup {cReq[w].art}
  /\ Goto(w, "stored")
  /\ UNCHANGED << rows, cSession, cLeft, cStolen, counts >>

\* The row is written on the connection of the locks; a version that was there
\* keeps its id, and the file of its old name stays where it is.
RowSaved(w) ==
  LET a == cReq[w].art IN
  /\ cReq[w].pc = "stored" /\ w \in cSession /\ a[1] \in cComp
  /\ cRow' = [cRow EXCEPT ![a] =
       [id |-> IF @ = NoRow THEN cReq[w].sum ELSE @.id,
        name |-> cReq[w].name, sum |-> cReq[w].sum]]
  /\ cLeft' = IF cRow[a].name \in {NoName, cReq[w].name} THEN cLeft
              ELSE cLeft \cup {<< a, cRow[a].name >>}
  /\ Ends(w)
  /\ UNCHANGED << cComp, cTask, cCmd, cFile, cTorn, cStolen, counts >>

\* It is refused: the session is gone, the component is, or the statement fails.
RowFails(w) ==
  /\ cReq[w].pc = "stored"
  /\ \/ w \notin cSession \/ cReq[w].art[1] \notin cComp
     \/ cBreaks < MaxBreaks
  /\ cBreaks' = IF w \in cSession /\ cReq[w].art[1] \in cComp THEN cBreaks + 1 ELSE cBreaks
  /\ Goto(w, "undo")
  /\ UNCHANGED << rows, cFile, cSession, notes, cUps, cTasks >>

\* The file is taken back, although it may have replaced that of the row, and
\* although the locks may be another's by now.
Undo(w) ==
  LET a == cReq[w].art IN
  /\ cReq[w].pc = "undo"
  /\ cFile' = [cFile EXCEPT ![<< a, cReq[w].name >>] = 0]
  /\ cTorn' = IF w \in cSession /\ cRow[a].name # cReq[w].name THEN cTorn ELSE cTorn \cup {a}
  /\ Ends(w)
  /\ UNCHANGED << rows, cLeft, cStolen, counts >>
-----------------------------------------------------------------------------
(* Removal of an artifact: Delete *)

GetArtifact(w, a) ==
  /\ cReq[w] = IdleRequest /\ cRow[a] # NoRow
  /\ cReq' = [cReq EXCEPT ![w] = [pc |-> "wait", op |-> "delete", art |-> a,
                                  name |-> {}, sum |-> cRow[a].id, late |-> FALSE]]
  /\ UNCHANGED << rows, cFile, cSession, notes, counts >>

\* A task of the version that may go on, or a command that names the artifact.
InUse(a, id) == cTask[a] = "running" \/ \E b \in Artifacts : cCmd[b] = id

CheckInUse(w) ==
  /\ cReq[w].pc = "locked" /\ cReq[w].op = "delete"
  /\ IF InUse(cReq[w].art, cReq[w].sum)
     THEN Ends(w) ELSE Goto(w, "checked") /\ UNCHANGED cSession
  /\ UNCHANGED << rows, cFile, notes, counts >>

\* The row is deleted by its id, whatever it holds by now.
DeleteRow(w) ==
  LET a == cReq[w].art IN
  /\ cReq[w].pc = "checked"
  /\ IF cRow[a].id = cReq[w].sum
     THEN /\ cRow' = [cRow EXCEPT ![a] = NoRow]
          /\ cReq' = [cReq EXCEPT ![w].pc = "remove", ![w].name = {<< a, cRow[a].name >>}]
          /\ cStolen' = IF InUse(a, cReq[w].sum) /\ ~cReq[w].late
                        THEN cStolen \cup {cReq[w].sum} ELSE cStolen
          /\ UNCHANGED cSession
     ELSE Ends(w) /\ UNCHANGED << cRow, cStolen >>
  /\ UNCHANGED << cComp, cTask, cCmd, cFile, cTorn, cLeft, counts >>

\* Files go after their rows; one that cannot be removed stays, with a warning.
RemoveObjects(w) ==
  /\ cReq[w].pc = "remove"
  /\ \E kept \in {{}} \cup {{k} : k \in cReq[w].name} :
       /\ kept # {} => cBreaks < MaxBreaks
       /\ cBreaks' = IF kept = {} THEN cBreaks ELSE cBreaks + 1
       /\ cFile' = [k \in DOMAIN cFile |-> IF k \in cReq[w].name \ kept THEN 0 ELSE cFile[k]]
       /\ cLeft' = cLeft \cup kept
  /\ cTorn' = IF w \in cSession THEN cTorn ELSE cTorn \cup {k[1] : k \in cReq[w].name}
  /\ Ends(w)
  /\ UNCHANGED << rows, cStolen, cUps, cTasks >>
-----------------------------------------------------------------------------
(* Removal of a component: deleteComponent *)

\* What CheckDelete and the transaction ask of the tasks and commands.
Removable(c, cascade) ==
  /\ c \in cComp
  /\ \A v \in Versions :
       IF cascade THEN cTask[<< c, v >>] # "running" /\ cCmd[<< c, v >>] = 0 ELSE cTask[<< c, v >>] = "none"

CheckDelete(w, c, cascade) ==
  /\ cReq[w] = IdleRequest /\ Removable(c, cascade)
  /\ \E v \in Versions :
       cReq' = [cReq EXCEPT ![w] = [pc |-> "wait", op |-> IF cascade THEN "cascade" ELSE "drop",
                                    art |-> << c, v >>, name |-> {}, sum |-> 0]]
  /\ UNCHANGED << rows, cFile, cSession, notes, counts >>

\* The paths are read first; the removal goes on without them if that fails.
PathsByComponent(w) ==
  LET known == {<< a, cRow[a].name >> : a \in {b \in Artifacts :
                   b[1] = cReq[w].art[1] /\ cRow[b] # NoRow}}
  IN
  /\ cReq[w].pc = "locked" /\ cReq[w].op \in {"cascade", "drop"}
  /\ \E read \in {known, {}} :
       /\ read # known => cBreaks < MaxBreaks
       /\ cBreaks' = IF read = known THEN cBreaks ELSE cBreaks + 1
       /\ cLeft' = cLeft \cup (known \ read)
       /\ cReq' = [cReq EXCEPT ![w].pc = "paths", ![w].name = read]
  /\ UNCHANGED << rows, cFile, cSession, cTorn, cStolen, cUps, cTasks >>

\* The transaction locks the component and its tasks and asks again; tasks and
\* artifacts go with the component.
DropComponent(w) ==
  LET c == cReq[w].art[1] IN
  /\ cReq[w].pc = "paths"
  /\ IF Removable(c, cReq[w].op = "cascade")
     THEN /\ cComp' = cComp \ {c}
          /\ cRow' = [a \in Artifacts |-> IF a[1] = c THEN NoRow ELSE cRow[a]]
          /\ cTask' = [a \in Artifacts |-> IF a[1] = c THEN "none" ELSE cTask[a]]
          /\ cTorn' = IF w \in cSession THEN cTorn ELSE cTorn \cup {a \in Artifacts : a[1] = c}
          /\ Goto(w, "remove")
          /\ UNCHANGED cSession
     ELSE Ends(w) /\ UNCHANGED << cComp, cRow, cTask, cTorn >>
  /\ UNCHANGED << cCmd, cFile, cLeft, cStolen, counts >>
-----------------------------------------------------------------------------
(* Tasks, as far as they use artifacts, and failures *)

TaskCreated(a) ==
  /\ a[1] \in cComp /\ cTask[a] = "none" /\ cTasks < MaxCatTasks
  /\ cTask' = [cTask EXCEPT ![a] = "draft"]
  /\ cTasks' = cTasks + 1
  /\ UNCHANGED << cComp, cRow, cCmd, cFile, cReq, cSession, notes, cUps, cBreaks >>

\* A start or a retry, which may fall between the look of a removal and its
\* statement.
TaskStarts(a) ==
  /\ cTask[a] \in {"draft", "over"}
  /\ cTask' = [cTask EXCEPT ![a] = "running"]
  /\ cReq' = [w \in Requests |->
       IF cReq[w].pc = "checked" /\ cReq[w].art = a THEN [cReq[w] EXCEPT !.late = TRUE]
       ELSE cReq[w]]
  /\ UNCHANGED << cComp, cRow, cCmd, cFile, cSession, notes, counts >>

\* The orchestrator finds the artifact and writes the command.
TaskDispatches(a) ==
  /\ cTask[a] = "running" /\ cRow[a] # NoRow /\ cCmd[a] = 0
  /\ cCmd' = [cCmd EXCEPT ![a] = cRow[a].id]
  /\ UNCHANGED << cComp, cRow, cTask, cFile, cReq, cSession, notes, counts >>

CommandEnds(a) ==
  /\ cCmd[a] # 0 /\ cCmd' = [cCmd EXCEPT ![a] = 0]
  /\ UNCHANGED << cComp, cRow, cTask, cFile, cReq, cSession, notes, counts >>

\* A task ends, or is cancelled while its command is with the agent.
TaskOver(a) ==
  /\ cTask[a] = "running"
  /\ cTask' = [cTask EXCEPT ![a] = "over"]
  /\ UNCHANGED << cComp, cRow, cCmd, cFile, cReq, cSession, notes, counts >>

SessionBreaks(w) ==
  /\ w \in cSession /\ cBreaks < MaxBreaks
  /\ cSession' = cSession \ {w}
  /\ cBreaks' = cBreaks + 1
  /\ UNCHANGED << rows, cFile, cReq, notes, cUps, cTasks >>

\* The replica of a request dies.
Crash(w) ==
  LET k == cReq[w] IN
  /\ k.pc \in {"stored", "undo", "checked", "paths", "remove"} /\ cBreaks < MaxBreaks
  /\ cBreaks' = cBreaks + 1
  /\ IF k.pc \in {"stored", "undo"}
     THEN /\ cLeft' = cLeft \cup {<< k.art, k.name >>}
          /\ cTorn' = IF cRow[k.art].name = k.name THEN cTorn \cup {k.art} ELSE cTorn
     ELSE /\ cLeft' = IF k.pc = "remove" THEN cLeft \cup k.name ELSE cLeft
          /\ UNCHANGED cTorn
  /\ Ends(w)
  /\ UNCHANGED << rows, cFile, cStolen, cUps, cTasks >>

CatalogNext ==
  \/ \E w \in Requests :
       \/ \E a \in Artifacts : (\E f \in FileNames : SaveBegins(w, a, f)) \/ GetArtifact(w, a)
       \/ \E c \in CatComps, cascade \in BOOLEAN : CheckDelete(w, c, cascade)
       \/ acquireArtifactDBLocks(w) \/ GivesUp(w)
       \/ BackendSaves(w) \/ RowSaved(w) \/ RowFails(w) \/ Undo(w)
       \/ CheckInUse(w) \/ DeleteRow(w) \/ RemoveObjects(w)
       \/ PathsByComponent(w) \/ DropComponent(w)
       \/ SessionBreaks(w) \/ Crash(w)
  \/ \E a \in Artifacts :
       TaskCreated(a) \/ TaskStarts(a) \/ TaskDispatches(a) \/ CommandEnds(a) \/ TaskOver(a)
-----------------------------------------------------------------------------
(* Properties *)

CatalogTypeOK ==
  /\ cComp \subseteq CatComps
  /\ \A a \in Artifacts : cRow[a].id \in 0..MaxUploads /\ cRow[a].sum \in 0..MaxUploads
  /\ \A k \in DOMAIN cFile : cFile[k] \in 0..MaxUploads
  /\ cSession \subseteq Requests
  /\ \A a \in Artifacts : cTask[a] \in {"none", "draft", "running", "over"}

Writing(a, name) ==
  \E w \in Requests : cReq[w].pc \in {"stored", "undo"} /\ cReq[w].op = "upload"
                      /\ cReq[w].art = a /\ cReq[w].name = name

\* A row's file is there and is the one it has the checksum of, except while
\* an upload replaces it and where a failure in between has spoilt it.
FileMatchesRow ==
  \A a \in Artifacts \ cTorn :
    cRow[a] # NoRow /\ ~Writing(a, cRow[a].name) => cFile[<< a, cRow[a].name >>] = cRow[a].sum

\* A file without a row is about to be removed or known to be left over.
NoStrayFile ==
  \A k \in DOMAIN cFile :
    (cFile[k] # 0 /\ k[1] \notin cTorn /\ cRow[k[1]].name # k[2]) =>
      \/ k \in cLeft \/ Writing(k[1], k[2])
      \/ \E w \in Requests : cReq[w].pc = "remove" /\ k \in cReq[w].name

\* An artifact goes while a task or a command uses it only if the task was
\* started between the look and the deletion.
InUseStays == cStolen = {}

\* A task never loses its component.
TaskHasComponent == \A a \in Artifacts : cTask[a] # "none" => a[1] \in cComp

\* Rows, files, tasks and components agree, whatever uploads and removals meet
\* and wherever one of them breaks off (Save, Delete and deleteComponent).
CatalogInv ==
  /\ CatalogTypeOK /\ FileMatchesRow /\ NoStrayFile /\ InUseStays /\ TaskHasComponent

\* Deliberately not checked, the code does not keep it: a file is always that
\* of its row.
FileAlwaysMatches ==
  \A a \in Artifacts :
    cRow[a] # NoRow /\ ~Writing(a, cRow[a].name) => cFile[<< a, cRow[a].name >>] = cRow[a].sum
=============================================================================
