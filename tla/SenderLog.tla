------------------------------ MODULE SenderLog ------------------------------
(***************************************************************************)
(* The sender's diagnostic log (internal/sender/diagnostics.go): one file  *)
(* with two backups in the user's cache directory.  record holds the mutex *)
(* of its own process only, and several senders share the files, so their  *)
(* system calls interleave.  Every call may fail.                          *)
(*                                                                         *)
(* A line has length 1 and is its place in the order of the writes.  The   *)
(* last 200 lines, which record also keeps in memory, are left out.        *)
(***************************************************************************)
EXTENDS Naturals, Sequences, SequencesExt

CONSTANTS
  Sender,         \* processes that log
  LogMax,         \* 2<<20
  MaxLines,       \* bound of an instance: lines
  NoFile

ASSUME SenderLogAssumption ==
  /\ {LogMax, MaxLines} \subseteq Nat \ {0}
  /\ IsFiniteSet(Sender) /\ NoFile \notin Seq(Nat)

VARIABLES
  logs,           \* the files: 0 is path, 1 and 2 its backups ".1" and ".2"
  step,           \* where each process is in record
  writeError,     \* senderDiagnostics.writeError # ""
  lines,          \* lines written so far
  raced           \* whether files were renamed under a process in record (history)

logVars == <<logs, step, writeError, lines, raced>>

LogInit ==
  /\ logs = [i \in 0 .. 2 |-> NoFile] /\ step = [p \in Sender |-> "idle"]
  /\ writeError = [p \in Sender |-> FALSE] /\ lines = 0 /\ raced = FALSE

LogTo(p, s) == step' = [step EXCEPT ![p] = s]
Returns(p, failed) == LogTo(p, "idle") /\ writeError' = [writeError EXCEPT ![p] = failed]
Lines(f) == IF f = NoFile THEN << >> ELSE f

\* A bug to be caught: the line that is to be written is left out of the sum.
AlreadyFull == Len(Lines(logs[0])) > LogMax
TooLong == Len(Lines(logs[0])) + 1 > LogMax

\* MkdirAll, which may fail, and Stat.
Record(p) ==
  /\ step[p] = "idle" /\ lines < MaxLines
  /\ \/ LogTo(p, IF TooLong THEN "remove" ELSE "append") /\ UNCHANGED writeError
     \/ Returns(p, TRUE)
  /\ UNCHANGED <<logs, lines, raced>>

Rotating(p) == raced' = (raced \/ \E q \in Sender \ {p} : step[q] # "idle")

\* os.Remove of ".2", whose error is ignored.
RemoveSecond(p) ==
  /\ step[p] = "remove" /\ LogTo(p, "backup") /\ Rotating(p)
  /\ logs' \in {logs, [logs EXCEPT ![2] = NoFile]} /\ UNCHANGED <<writeError, lines>>

\* os.Rename of ".1" to ".2", whose error is ignored.
RenameFirst(p) ==
  /\ step[p] = "backup" /\ LogTo(p, "rotate") /\ Rotating(p)
  /\ \/ logs[1] # NoFile /\ logs' = [logs EXCEPT ![2] = logs[1], ![1] = NoFile]
     \/ UNCHANGED logs
  /\ UNCHANGED <<writeError, lines>>

Kept == [logs EXCEPT ![1] = logs[0], ![0] = NoFile]

\* os.Rename of the file to ".1", over what is there.  If it fails, nothing is
\* written.
RenameFile(p) ==
  /\ step[p] = "rotate" /\ Rotating(p)
  /\ \/ logs[0] # NoFile /\ LogTo(p, "append") /\ logs' = Kept /\ UNCHANGED writeError
     \/ Returns(p, TRUE) /\ UNCHANGED logs
  /\ UNCHANGED lines

\* Open, Write and Close.
AppendLine(p) ==
  /\ step[p] = "append"
  /\ \/ /\ lines' = lines + 1 /\ logs' = [logs EXCEPT ![0] = Append(Lines(@), lines')]
        /\ Returns(p, FALSE)
     \/ Returns(p, TRUE) /\ UNCHANGED <<logs, lines>>
  /\ UNCHANGED raced

LogNext ==
  \E p \in Sender :
    Record(p) \/ RemoveSecond(p) \/ RenameFirst(p) \/ RenameFile(p) \/ AppendLine(p)

LogSpec == LogInit /\ [][LogNext]_logVars

-----------------------------------------------------------------------------
Logged == Lines(logs[2]) \o Lines(logs[1]) \o Lines(logs[0])

\* "One current file plus two 2 MiB backups": whatever fails and however the calls
\* of the senders interleave, no file exceeds its limit by more than one line of
\* each other sender.  And unless a sender renames the files under another, the
\* newest lines, a file's worth, are always on disk.
SenderLogKept ==
  /\ \A i \in 0 .. 2 : Len(Lines(logs[i])) <= LogMax + Cardinality(Sender) - 1
  /\ ~raced => \A n \in 0 .. LogMax - 1 : n < lines => Contains(Logged, lines - n)
=============================================================================
