---------------------------- MODULE AgentOutput -----------------------------
(***************************************************************************)
(* What the agent puts out: the output of a command, posted in chunks      *)
(* while it runs (executor/command.go), and the agent's own log, rotated   *)
(* by copying and truncating, with a reader that follows it (agentlog).    *)
(*                                                                         *)
(* Lines are numbers in the order they are written.  The two parts share   *)
(* no state; a behaviour may interleave them.                              *)
(***************************************************************************)
EXTENDS Naturals, Sequences, SequencesExt, FiniteSets

CONSTANTS
  MaxPieces,      \* bound: pieces each stream of the command writes
  MaxLines,       \* bound: lines of the log
  LogMax,         \* maxBytes, in lines
  Backups,        \* number of rotated files kept
  MaxRotateFails  \* bound: rotations that fail

ASSUME AgentOutputAssumption ==
  /\ MaxPieces \in Nat /\ MaxLines \in Nat /\ MaxRotateFails \in Nat
  /\ LogMax \in Nat \ {0} /\ Backups \in Nat \ {0}

Streams == {"stdout", "stderr"}

VARIABLES
  oLeft,          \* pieces each stream still writes
  oBuf,           \* the shared buffer of the chunk writer
  oHand,          \* the chunk each stream took out and has not posted yet
  oPosted,        \* pieces posted to the server, in order
  oPc,            \* the command: new, run, refused, done, staged, over
  oTold,          \* how the server learns of its end: "stage", "report", "pending"
  lNext,          \* the next line of the log
  lFile,          \* the log file
  lBaks,          \* its rotated files; lBaks[1] is the newest
  lPc,            \* the writer: idle, or inside a rotation
  lFails,         \* bound
  lOff, lFp,      \* the reader: its offset and the last line it saw (0: none)
  lOut            \* what the reader printed

oVars == << oLeft, oBuf, oHand, oPosted, oPc, oTold >>
lVars == << lNext, lFile, lBaks, lPc, lFails, lOff, lFp, lOut >>
outVars == << oVars, lVars >>

AgentOutputInit ==
  /\ oLeft = [s \in Streams |-> MaxPieces]
  /\ oBuf = << >>
  /\ oHand = [s \in Streams |-> << >>]
  /\ oPosted = << >>
  /\ oPc = "new"
  /\ oTold = {}
  /\ lNext = 1
  /\ lFile = << >>
  /\ lBaks = [i \in 1 .. Backups |-> << >>]
  /\ lPc = "idle"
  /\ lFails = 0
  /\ lOff = 0 /\ lFp = 0
  /\ lOut = << >>
-----------------------------------------------------------------------------
(* Chunks: the copying goroutines of stdout and stderr share one buffer.   *)

\* An empty or oversized script, an interpreter that is not on the list, or
\* a script file that cannot be written end the command with no output.
ExecuteCommand(valid) ==
  /\ oPc = "new"
  /\ oPc' = IF valid THEN "run" ELSE "refused"
  /\ UNCHANGED << oLeft, oBuf, oHand, oPosted, oTold, lVars >>

Piece(s) == << s, MaxPieces - oLeft[s] + 1 >>

\* Under the mutex: append, and take the buffer out when it is large or old.
ChunkWrite(s, needFlush) ==
  /\ oPc = "run" /\ oLeft[s] > 0 /\ oHand[s] = << >>
  /\ oLeft' = [oLeft EXCEPT ![s] = @ - 1]
  /\ LET buf == Append(oBuf, Piece(s))
     IN  IF needFlush
         THEN oHand' = [oHand EXCEPT ![s] = buf] /\ oBuf' = << >>
         ELSE oBuf' = buf /\ UNCHANGED oHand
  /\ UNCHANGED << oPosted, oPc, oTold, lVars >>

\* After the unlock: the callback posts the chunk.
Post(s) ==
  /\ oHand[s] # << >>
  /\ oPosted' = oPosted \o oHand[s]
  /\ oHand' = [oHand EXCEPT ![s] = << >>]
  /\ UNCHANGED << oLeft, oBuf, oPc, oTold, lVars >>

\* The command has ended and both goroutines are done: the rest is flushed,
\* then the final stage is posted.
FlushRest ==
  /\ oPc = "run"
  /\ \A s \in Streams : oLeft[s] = 0 /\ oHand[s] = << >>
  /\ oPosted' = oPosted \o oBuf
  /\ oBuf' = << >>
  /\ oPc' = "done"
  /\ UNCHANGED << oLeft, oHand, oTold, lVars >>

\* However it ended: first the final stage, which may be lost, then the report,
\* which waits in the state file when it cannot be sent.
executeRunCommand(heard) ==
  /\ \/ /\ oPc \in {"done", "refused"}
        /\ oPc' = "staged"
        /\ oTold' = oTold \cup IF heard THEN {"stage"} ELSE {}
     \/ /\ oPc = "staged"
        /\ oPc' = "over"
        /\ oTold' = oTold \cup IF heard THEN {"report"} ELSE {"pending"}
  /\ UNCHANGED << oLeft, oBuf, oHand, oPosted, lVars >>
-----------------------------------------------------------------------------
(* The log writer *)

LogWrite ==
  /\ lPc \in {"idle", "rotated"}
  /\ lNext <= MaxLines
  /\ lPc = "idle" => Len(lFile) = 0 \/ Len(lFile) + 1 <= LogMax
  /\ lFile' = Append(lFile, lNext)
  /\ lNext' = lNext + 1
  /\ lPc' = "idle"
  /\ UNCHANGED << oVars, lBaks, lFails, lOff, lFp, lOut >>

\* The backups move up by one before anything is copied.
RotateShift ==
  /\ lPc = "idle"
  /\ lNext <= MaxLines
  /\ Len(lFile) > 0 /\ Len(lFile) + 1 > LogMax
  /\ lBaks' = [i \in 1 .. Backups |-> IF i = 1 THEN << >> ELSE lBaks[i - 1]]
  /\ lPc' = "copy"
  /\ UNCHANGED << oVars, lNext, lFile, lFails, lOff, lFp, lOut >>

\* The copy under the temporary name becomes the newest backup.
RotateCopy ==
  /\ lPc = "copy"
  /\ lBaks' = [lBaks EXCEPT ![1] = lFile]
  /\ lPc' = "truncate"
  /\ UNCHANGED << oVars, lNext, lFile, lFails, lOff, lFp, lOut >>

\* Goes on to truncate although the copy failed.
RotateFailsMutant ==
  /\ lPc = "copy"
  /\ lFails < MaxRotateFails
  /\ lFails' = lFails + 1
  /\ lPc' = "truncate"
  /\ UNCHANGED << oVars, lNext, lFile, lBaks, lOff, lFp, lOut >>

\* Writing the copy fails; the line is written to the file as it is.
RotateFails ==
  /\ lPc = "copy"
  /\ lFails < MaxRotateFails
  /\ lFails' = lFails + 1
  /\ lPc' = "rotated"
  /\ UNCHANGED << oVars, lNext, lFile, lBaks, lOff, lFp, lOut >>

RotateTruncate ==
  /\ lPc = "truncate"
  /\ lFile' = << >>
  /\ lPc' = "rotated"
  /\ UNCHANGED << oVars, lNext, lBaks, lFails, lOff, lFp, lOut >>

\* The agent dies during a rotation and opens the log again.
LogReopen ==
  /\ lPc \in {"copy", "truncate"}
  /\ lFails < MaxRotateFails
  /\ lFails' = lFails + 1
  /\ lPc' = "idle"
  /\ UNCHANGED << oVars, lNext, lFile, lBaks, lOff, lFp, lOut >>
-----------------------------------------------------------------------------
(* The reader *)
Truncated ==
  \/ lOff > Len(lFile)
  \/ lFp # 0 /\ lOff <= Len(lFile) /\ lFile[lOff] # lFp

TailRestart ==
  /\ Truncated
  /\ lOff' = 0 /\ lFp' = 0
  /\ UNCHANGED << oVars, lNext, lFile, lBaks, lPc, lFails, lOut >>

\* Reads from the offset to the end, also when the file was truncated and
\* grew again after the look at it.
TailRead ==
  /\ Len(lFile) > lOff
  /\ lOut' = lOut \o SubSeq(lFile, lOff + 1, Len(lFile))
  /\ lOff' = Len(lFile)
  /\ lFp' = Last(lFile)
  /\ UNCHANGED << oVars, lNext, lFile, lBaks, lPc, lFails >>

CommandOutputNext ==
  \/ \E s \in Streams : Post(s) \/ \E f \in BOOLEAN : ChunkWrite(s, f)
  \/ FlushRest \/ \E b \in BOOLEAN : ExecuteCommand(b) \/ executeRunCommand(b)

LogNext ==
  \/ LogWrite \/ RotateShift \/ RotateCopy \/ RotateFails \/ RotateTruncate
  \/ LogReopen \/ TailRestart \/ TailRead
-----------------------------------------------------------------------------
AgentOutputTypeOK ==
  /\ oLeft \in [Streams -> 0 .. MaxPieces]
  /\ oPc \in {"new", "run", "refused", "done", "staged", "over"}
  /\ lNext \in 1 .. MaxLines + 1
  /\ lPc \in {"idle", "copy", "truncate", "rotated"}
  /\ DOMAIN lBaks = 1 .. Backups
  /\ lOff \in 0 .. MaxLines /\ lFp \in 0 .. MaxLines
  /\ lFails \in 0 .. MaxRotateFails

\* When the server hears that a command ended, every piece of its output was
\* posted before, and none twice, however the two streams interleave
\* (command.go 128-136, 186-215, run.go 417-446).
OutputComplete ==
  oPc = "done" \/ (oTold # {} /\ \E s \in Streams : oLeft[s] < MaxPieces) =>
    ToSet(oPosted) = Streams \X (1 .. MaxPieces) /\ Len(oPosted) = 2 * MaxPieces

\* A line is dropped only when all older lines are: rotating, failing to
\* rotate and dying while rotating leave no gap (agentlog.go 112-166).
KeptLines == ToSet(lFile) \cup UNION {ToSet(lBaks[i]) : i \in 1 .. Backups}
NoGap == \A n \in KeptLines : n .. lNext - 1 \subseteq KeptLines

\* A reader that follows the log prints no line twice and none after a newer
\* one, although the file is truncated under it (tail.go 52-124).
TailNeverRepeats ==
  \A i \in 1 .. Len(lOut) - 1 : lOut[i] < lOut[i + 1]

\* What the agent shows of itself is complete and in order.
OutputInv == AgentOutputTypeOK /\ OutputComplete /\ NoGap /\ TailNeverRepeats

\* "kept in the script's original layout" (run.go 405-406): each stream's
\* pieces arrive in the order in which it wrote them.
StreamOrder ==
  \A i, j \in 1 .. Len(oPosted) :
    i < j /\ oPosted[i][1] = oPosted[j][1] => oPosted[i][2] < oPosted[j][2]
=============================================================================
