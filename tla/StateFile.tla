----------------------------- MODULE StateFile ------------------------------
(***************************************************************************)
(* The agent's state file and its three writers: the agent (saveState),    *)
(* the watchdog (updateState) and the installer (writeInitialState).  Each *)
(* computes the new contents, opens <path>.tmp with truncation, writes it  *)
(* and renames it over the file; all three use the same temporary name and *)
(* nothing keeps them apart.                                               *)
(*                                                                         *)
(* Names refer to inodes: a writer keeps writing to the file it opened     *)
(* after another one has renamed it.  Contents are the identity they       *)
(* hold: 0 is a state with a token and no identity yet.                    *)
(***************************************************************************)
EXTENDS Integers

CONSTANTS
  MaxIdentity,    \* bound: registrations
  MaxDeaths,      \* bound: processes that die while they write
  MaxMeets        \* bound: writers that begin while another one is at work

ASSUME StateFileAssumption == MaxIdentity \in Nat \ {0} /\ MaxDeaths \in Nat /\ MaxMeets \in Nat

Writers == {"agent", "watchdog", "installer"}
Inodes == 1 .. 5                \* the file, the temporary one and open ones
Empty == [kind |-> "empty", id |-> 0]
Garbage == [kind |-> "garbage", id |-> 0]
Good(n) == [kind |-> "good", id |-> n]

VARIABLES
  fPath, fTmp,    \* the inodes of the two names; 0 for a name that is free
  fData,          \* the contents of each inode
  fPc, fFd, fBuf, \* of each writer: its step, its open file, what it writes
  fMem,           \* the identity the agent runs with
  fAlive,         \* the agent runs
  fWait,          \* the identity a second process loaded before it waits; -1 for none
  fReg,           \* the newest identity the server gave out
  fMeets,         \* history: how often a writer began beside another
  fDeaths         \* bound

fVars == << fPath, fTmp, fData, fPc, fFd, fBuf, fMem, fAlive, fWait, fReg,
            fMeets, fDeaths >>

Disk == fData[fPath]

StateFileInit ==
  /\ fPath = 1 /\ fTmp = 0
  /\ fData = [i \in Inodes |-> IF i = 1 THEN Good(0) ELSE Empty]
  /\ fPc = [w \in Writers |-> "idle"]
  /\ fFd = [w \in Writers |-> 0]
  /\ fBuf = [w \in Writers |-> Empty]
  /\ fMem = 0
  /\ fAlive = TRUE
  /\ fWait = -1
  /\ fReg = 0
  /\ fMeets = 0
  /\ fDeaths = 0

\* A writer has its contents ready.
Begin(w, contents) ==
  /\ fBuf' = [fBuf EXCEPT ![w] = contents]
  /\ fPc' = [fPc EXCEPT ![w] = "open"]
  /\ LET met == IF \E x \in Writers \ {w} : fPc[x] # "idle" THEN 1 ELSE 0
     IN  fMeets + met <= MaxMeets /\ fMeets' = fMeets + met
-----------------------------------------------------------------------------
(* The agent *)

\* The server gives out an identity; the save follows.
Register ==
  /\ fAlive /\ fPc["agent"] = "idle"
  /\ fMem = 0 /\ fReg < MaxIdentity
  /\ fMem' = fReg + 1
  /\ fReg' = fReg + 1
  /\ UNCHANGED << fPath, fTmp, fData, fPc, fFd, fBuf, fAlive, fWait, fMeets,
                  fDeaths >>

\* Saves without looking at the file.
saveStateMutant ==
  /\ fAlive /\ fPc["agent"] = "idle" /\ fMem # 0
  /\ Begin("agent", Good(fMem))
  /\ UNCHANGED << fPath, fTmp, fData, fFd, fMem, fAlive, fReg, fWait, fDeaths >>

\* An identity on disk that is not the agent's own makes it exit.
saveState ==
  /\ fAlive /\ fPc["agent"] = "idle" /\ fMem # 0
  /\ IF Disk.kind = "good" /\ Disk.id \notin {0, fMem}
     THEN fAlive' = FALSE /\ UNCHANGED << fPc, fBuf, fMeets >>
     ELSE Begin("agent", Good(fMem)) /\ UNCHANGED fAlive
  /\ UNCHANGED << fPath, fTmp, fData, fFd, fMem, fReg, fWait, fDeaths >>

\* The service manager starts the agent again; an empty or a broken file is
\* the same as a host that was never registered.
LoadState ==
  /\ ~fAlive
  /\ fAlive' = TRUE
  /\ fMem' = IF Disk.kind = "good" THEN Disk.id ELSE 0
  /\ UNCHANGED << fPath, fTmp, fData, fPc, fFd, fBuf, fReg, fMeets, fWait, fDeaths >>
\* A second process reads the file, waits for the lock and goes on with what
\* it read when the first one ends (cmd/agent/main.go 97, 168-175).
SecondLoads ==
  /\ fAlive /\ fWait = -1
  /\ fWait' = IF Disk.kind = "good" THEN Disk.id ELSE 0
  /\ UNCHANGED << fPath, fTmp, fData, fPc, fFd, fBuf, fMem, fAlive, fReg,
                  fMeets, fDeaths >>

SecondTakesOver ==
  /\ ~fAlive /\ fWait # -1
  /\ fAlive' = TRUE
  /\ fMem' = fWait
  /\ fWait' = -1
  /\ UNCHANGED << fPath, fTmp, fData, fPc, fFd, fBuf, fReg, fMeets, fDeaths >>
-----------------------------------------------------------------------------
(* The watchdog and the installer *)

\* Reads the file as a map, changes the crash counter and writes all of it.
updateState ==
  /\ fPc["watchdog"] = "idle"
  /\ Disk.kind = "good" /\ Disk.id # 0
  /\ Begin("watchdog", Disk)
  /\ UNCHANGED << fPath, fTmp, fData, fFd, fMem, fAlive, fReg, fWait, fDeaths >>

\* An existing identity is kept, and rewritten when TLS options are given;
\* --force, or a file without one, is replaced by a state with the token.
writeInitialState(force) ==
  /\ fPc["installer"] = "idle"
  /\ Begin("installer", IF ~force /\ Disk.kind = "good" /\ Disk.id # 0
                        THEN Disk ELSE Good(0))
  /\ UNCHANGED << fPath, fTmp, fData, fFd, fMem, fAlive, fReg, fWait, fDeaths >>

\* The installer restarts the service when its state is written.
InstallerRestarts ==
  /\ fPc["installer"] = "restart"
  /\ fPc' = [fPc EXCEPT !["agent"] = "idle", !["installer"] = "idle"]
  /\ fFd' = [fFd EXCEPT !["agent"] = 0]
  /\ fBuf' = [fBuf EXCEPT !["agent"] = Empty]
  /\ fAlive' = FALSE
  /\ UNCHANGED << fPath, fTmp, fData, fMem, fReg, fMeets, fWait, fDeaths >>
-----------------------------------------------------------------------------
(* The three steps of a write *)

InUse == {fPath, fTmp} \cup {fFd[w] : w \in Writers}
FreeInode == CHOOSE i \in Inodes : i \notin InUse

\* Opens the state file itself.
OpenMutant(w) ==
  /\ fPc[w] = "open"
  /\ fData' = [fData EXCEPT ![fPath] = Empty]
  /\ fFd' = [fFd EXCEPT ![w] = fPath]
  /\ fPc' = [fPc EXCEPT ![w] = "write"]
  /\ UNCHANGED << fPath, fTmp, fBuf, fMem, fAlive, fReg, fMeets, fWait, fDeaths >>

Open(w) ==
  /\ fPc[w] = "open"
  /\ LET i == IF fTmp = 0 THEN FreeInode ELSE fTmp
     IN  /\ fTmp' = i
         /\ fData' = [fData EXCEPT ![i] = Empty]
         /\ fFd' = [fFd EXCEPT ![w] = i]
  /\ fPc' = [fPc EXCEPT ![w] = "write"]
  /\ UNCHANGED << fPath, fBuf, fMem, fAlive, fReg, fMeets, fWait, fDeaths >>

\* Over contents that another writer put there since, the end of the longer
\* of the two may remain.
Write(w) ==
  /\ fPc[w] = "write"
  /\ \E c \in {fBuf[w]} \cup (IF fData[fFd[w]] = Empty THEN {} ELSE {Garbage}) :
       fData' = [fData EXCEPT ![fFd[w]] = c]
  /\ fPc' = [fPc EXCEPT ![w] = "rename"]
  /\ fFd' = [fFd EXCEPT ![w] = 0]
  /\ fBuf' = [fBuf EXCEPT ![w] = Empty]
  /\ UNCHANGED << fPath, fTmp, fMem, fAlive, fReg, fMeets, fWait, fDeaths >>

\* Renames whatever has the temporary name by now; what no name and no open
\* file refers to any more is gone.
Rename(w) ==
  /\ fPc[w] = "rename"
  /\ IF fTmp # 0 THEN fPath' = fTmp ELSE UNCHANGED fPath
  /\ fTmp' = 0
  /\ fPc' = [fPc EXCEPT ![w] = IF w = "installer" THEN "restart" ELSE "idle"]
  /\ fData' = [i \in Inodes |-> IF i = fPath' \/ \E x \in Writers : fFd[x] = i
                                THEN fData[i] ELSE Empty]
  /\ UNCHANGED << fFd, fBuf, fMem, fAlive, fReg, fMeets, fWait, fDeaths >>

WriterDies(w) ==
  /\ fPc[w] # "idle"
  /\ fDeaths < MaxDeaths
  /\ fDeaths' = fDeaths + 1
  /\ fPc' = [fPc EXCEPT ![w] = "idle"]
  /\ fFd' = [fFd EXCEPT ![w] = 0]
  /\ fBuf' = [fBuf EXCEPT ![w] = Empty]
  /\ fAlive' = (fAlive /\ w # "agent")
  /\ UNCHANGED << fPath, fTmp, fData, fMem, fReg, fMeets, fWait >>

StateFileNext ==
  \/ Register \/ saveState \/ LoadState \/ SecondLoads \/ SecondTakesOver
  \/ updateState \/ InstallerRestarts
  \/ \E force \in BOOLEAN : writeInitialState(force)
  \/ \E w \in Writers : Open(w) \/ Write(w) \/ Rename(w) \/ WriterDies(w)
-----------------------------------------------------------------------------
StateFileTypeOK ==
  /\ fPath \in Inodes /\ fTmp \in Inodes \cup {0}
  /\ fData \in [Inodes -> [kind : {"empty", "garbage", "good"}, id : 0 .. MaxIdentity]]
  /\ fPc \in [Writers -> {"idle", "open", "write", "rename", "restart"}]
  /\ fFd \in [Writers -> Inodes \cup {0}]
  /\ fMem \in 0 .. fReg /\ fWait \in -1 .. fReg /\ fReg \in 0 .. MaxIdentity
  /\ fAlive \in BOOLEAN /\ fMeets \in 0 .. MaxMeets
  /\ fDeaths \in 0 .. MaxDeaths

\* A process that dies while it writes leaves the old or the new state: the
\* file is empty or broken only when two writers met (run.go 816-829).
TornNeedsMeeting == Disk.kind # "good" => fMeets > 0

\* One identity gives way to another on disk only through a state without
\* one, that of an installation, unless two writers met: neither a process
\* that loaded the file long ago nor the watchdog brings another one
\* (run.go 796-806, watchdog.go 138-161).
IdentityStays ==
  [][Disk.id # 0 /\ Disk'.id \notin {0, Disk.id} => fMeets' > 0]_fVars

\* "so that a process killed while it writes leaves no state file of 0 bytes"
\* (run.go 788-790), whoever else writes.
NeverTorn == Disk.kind = "good"
=============================================================================
