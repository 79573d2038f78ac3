------------------------------ MODULE AuditLog ------------------------------
(***************************************************************************)
(* The receiver's diagnostic log (internal/scanner/audit.go).  Events of   *)
(* one key are sampled; a line goes to a ring in memory and to a file, and *)
(* the file is rotated.  Every call holds Audit.mu, so a call is a step.   *)
(* Writing, renaming and opening a file may fail, and the receiver may be  *)
(* closed, or die, and be started again on the same file.                  *)
(*                                                                         *)
(* A line is its number and has length 1.                                  *)
(***************************************************************************)
EXTENDS Naturals, Sequences, SequencesExt

CONSTANTS
  AuditKey,            \* auditKey: region and reason; one of them is AppStart
  AppStart,            \* the key of the "app.start" line
  RingMax,             \* auditRingMax
  Flush,               \* auditFlush
  MaxBytes,            \* maxBytes
  MaxTime, MaxCalls    \* bounds of an instance: the clock; events and restarts

ASSUME AuditAssumption ==
  /\ {RingMax, Flush, MaxBytes, MaxTime, MaxCalls} \subseteq Nat \ {0}
  /\ AppStart \in AuditKey

VARIABLES
  now,        \* the clock
  seen,       \* of each key: occurrences not told yet; 0 or the time of its last line
  ring,       \* the newest entries
  logFile,    \* open: a.f # nil; size: a.size; cur, old: the lines in the file and in
              \* its predecessor; line: the lines written so far (history)
  entries,    \* every line of this run (history)
  events,     \* of each key: its occurrences in this run (history)
  renames,    \* whether every rename has succeeded (history)
  calls       \* events and restarts

auditVars == <<now, seen, ring, logFile, entries, events, renames, calls>>

NoLog == [open |-> FALSE, size |-> 0, cur |-> << >>, old |-> << >>, line |-> 0]

-----------------------------------------------------------------------------
\* A bug to be caught: the rename is left out.
KeepsOld(f) == f.old
TakesOver(f) == f.cur
Told(n) == 0

\* rotateLocked.  The error of the rename is ignored; the open truncates.
Rotate(f) ==
  \E renamed \in BOOLEAN, opened \in BOOLEAN :
    /\ logFile' = [f EXCEPT !.open = opened,
                            !.size = IF opened THEN 0 ELSE @,
                            !.cur = IF opened \/ renamed THEN << >> ELSE @,
                            !.old = IF renamed THEN TakesOver(f) ELSE @]
    /\ renames' = (renames /\ renamed)

\* emitLocked writes to the file, if there is one; a failed write closes it.
WriteLine(f) ==
  LET w == [f EXCEPT !.line = @ + 1, !.cur = Append(@, f.line + 1), !.size = @ + 1]
  IN \/ logFile' = [f EXCEPT !.open = FALSE] /\ UNCHANGED renames
     \/ f.open /\ w.size <= MaxBytes /\ logFile' = w /\ UNCHANGED renames
     \/ f.open /\ w.size > MaxBytes /\ Rotate(w)

Newest(s) == SubSeq(s, IF Len(s) > RingMax THEN Len(s) - RingMax + 1 ELSE 1, Len(s))

Emit(f, k, repeat, force, oldRing, oldEntries) ==
  LET e == [key |-> k, at |-> now, repeat |-> repeat, force |-> force] IN
  /\ ring' = Newest(Append(oldRing, e)) /\ entries' = Append(oldEntries, e)
  /\ WriteLine(f)

-----------------------------------------------------------------------------
Folded(n) == n.last # 0 /\ now - n.last < Flush

\* note.
Note(k, force) ==
  LET n == [seen[k] EXCEPT !.count = @ + 1] IN
  /\ events' = [events EXCEPT ![k] = @ + 1]
  /\ IF ~force /\ Folded(n)
     THEN seen' = [seen EXCEPT ![k] = n] /\ UNCHANGED <<ring, logFile, entries, renames>>
     ELSE /\ seen' = [seen EXCEPT ![k] = [count |-> Told(n), last |-> now]]
          /\ Emit(logFile, k, n.count, force, ring, entries)
  /\ calls' = calls + 1 /\ UNCHANGED now

\* OpenAudit of a new receiver, and its first line (New).
StartAudit(f) ==
  /\ seen' = [k \in AuditKey |-> IF k = AppStart THEN [count |-> 0, last |-> now]
                                                  ELSE [count |-> 0, last |-> 0]]
  /\ events' = [k \in AuditKey |-> IF k = AppStart THEN 1 ELSE 0]
  /\ \E opened \in BOOLEAN :
       Emit([f EXCEPT !.open = opened, !.size = IF opened THEN Len(f.cur) ELSE 0],
            AppStart, 1, TRUE, << >>, << >>)

AuditInit ==
  /\ now = 1 /\ ring = << >> /\ logFile = NoLog /\ entries = << >>
  /\ renames = TRUE /\ calls = 0
  /\ seen = [k \in AuditKey |-> [count |-> 0, last |-> 0]] /\ events = [k \in AuditKey |-> 0]

\* The receiver is closed or dies, and is started again.
Restart == calls < MaxCalls /\ StartAudit(logFile) /\ calls' = calls + 1 /\ UNCHANGED now

\* Close.  Later lines go to the ring only.
CloseAudit ==
  /\ logFile.open /\ logFile' = [logFile EXCEPT !.open = FALSE]
  /\ UNCHANGED <<now, seen, ring, entries, events, renames, calls>>

Occurs ==
  entries # << >> /\ calls < MaxCalls /\ \E k \in AuditKey : Note(k, FALSE) \/ Note(k, TRUE)

TimePasses ==
  /\ now < MaxTime /\ now' = now + 1
  /\ UNCHANGED <<seen, ring, logFile, entries, events, renames, calls>>

AuditNext == Occurs \/ Restart \/ CloseAudit \/ TimePasses
AuditSpec == AuditInit /\ [][AuditNext]_auditVars

-----------------------------------------------------------------------------
\* The occurrences of k that the lines of q tell of; their number is the sum of the
\* repeats.
ToldOf(q, k) == UNION {{i} \X (1 .. q[i].repeat) : i \in {j \in DOMAIN q : q[j].key = k}}

\* The lines on disk, in order.
OnDisk == logFile.old \o logFile.cur

\* What a rotation promises ("keeps one previous generation so the log cannot
\* grow without bound while still preserving the state right before the
\* problem"): of the lines written, the newest MaxBytes are on disk.
RotationPreserves ==
  \A n \in 1 .. MaxBytes : n <= logFile.line => Contains(OnDisk, logFile.line + 1 - n)

\* The log is a timeline that accounts for every event: the repeats that the
\* lines of a key tell of, and those still held back, are its occurrences; a
\* sampled line comes Flush after the one before it; and the ring, from which the
\* window answers "why", holds the newest lines.  The file is within its bound,
\* and as long as no rename has failed, whatever else fails and however often the
\* receiver restarts, the newest lines are on disk, in order.
AuditKept ==
  /\ \A k \in AuditKey : Cardinality(ToldOf(entries, k)) + seen[k].count = events[k]
  /\ ring = Newest(entries)
  /\ \A i, j \in DOMAIN entries :
       i < j /\ entries[i].key = entries[j].key /\ ~entries[j].force
         => entries[j].at - entries[i].at >= Flush
  /\ logFile.open => logFile.size = Len(logFile.cur) /\ logFile.size <= MaxBytes
  /\ renames => RotationPreserves /\ \A i \in 2 .. Len(OnDisk) : OnDisk[i] = OnDisk[i-1] + 1
=============================================================================
