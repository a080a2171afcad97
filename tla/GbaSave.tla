------------------------------ MODULE GbaSave ------------------------------
(***************************************************************************)
(* Battery saves of GBA games (GbaCore.cpp): mGBA writes into memory without    *)
(* telling anyone, so the core compares it with its last copy every 60 frames    *)
(* and gives SaveFile what has changed.                                            *)
(*                                                                                  *)
(* A content of the save memory is the number of the write that made it; SaveFile  *)
(* (see there) is its buffer and the snapshots on their way to the file.             *)
(***************************************************************************)
EXTENDS Naturals, Sequences

CONSTANT MaxWrites   \* bound: what a game writes, or a state loaded brings back

VARIABLES
  at,         \* "none", "playing", "flushing", "closing"
  memory,     \* the save memory of mGBA, 0 while the game has none
  lastSave,
  buffer, dirty,   \* of SaveFile
  queue,      \* snapshots at the I/O worker
  file,
  writes,     \* the contents so far
  flushed,    \* history: a flush has returned and nothing was written since
  failed      \* history: the last write to the file has failed

saveVars == <<buffer, dirty, queue, file, failed>>
vars == <<at, memory, lastSave, saveVars, writes, flushed>>

Init ==
  /\ at = "none"
  /\ memory = 0 /\ lastSave = 0 /\ buffer = 0 /\ dirty = FALSE
  /\ queue = << >>
  /\ file = 0
  /\ writes = 0
  /\ flushed = FALSE /\ failed = FALSE

\* LoadGame; a file of another length than the game's memory looks changed.
LoadGame ==
  /\ at = "none"
  /\ at' = "playing"
  /\ memory' = file
  /\ lastSave' \in {file, 0}
  /\ buffer' = 0 /\ dirty' = FALSE
  /\ flushed' = FALSE
  /\ UNCHANGED <<queue, file, failed, writes>>

\* The game saves, or a state is loaded with the memory it was made with.
Write ==
  /\ at = "playing"
  /\ writes < MaxWrites
  /\ writes' = writes + 1
  /\ memory' = writes + 1
  /\ flushed' = FALSE
  /\ UNCHANGED <<at, lastSave, saveVars>>

\* Slip: only the length is compared.
ChangedLength == memory # 0 /\ lastSave = 0

Changed == memory # 0 /\ memory # lastSave

\* SnapshotSave of a frame.
Snapshot ==
  /\ at = "playing" /\ Changed
  /\ lastSave' = memory /\ buffer' = memory /\ dirty' = TRUE
  /\ UNCHANGED <<at, memory, queue, file, failed, writes, flushed>>

\* SaveFile::CheckFlush, two seconds after the last change.
CheckFlush ==
  /\ at = "playing" /\ dirty
  /\ queue' = Append(queue, buffer) /\ dirty' = FALSE
  /\ UNCHANGED <<at, memory, lastSave, buffer, file, failed, writes, flushed>>

\* Slip: what SaveFile had is flushed before the memory is looked at.
FlushBeforeSnapshot(next) ==
  /\ at = "playing"
  /\ at' = next
  /\ IF Changed THEN lastSave' = memory /\ buffer' = memory ELSE UNCHANGED <<lastSave, buffer>>
  /\ dirty' = Changed
  /\ queue' = IF dirty THEN Append(queue, buffer) ELSE queue
  /\ UNCHANGED <<memory, file, failed, writes, flushed>>

\* SnapshotSave(true) and FlushNow, of FlushSaves and of Shutdown; a game that
\* has no save memory yet has nothing to flush.
Flush(next) ==
  /\ at = "playing"
  /\ at' = next
  /\ IF Changed THEN lastSave' = memory /\ buffer' = memory ELSE UNCHANGED <<lastSave, buffer>>
  /\ dirty' = FALSE
  /\ queue' = IF Changed \/ dirty THEN Append(queue, buffer') ELSE queue
  /\ UNCHANGED <<memory, file, failed, writes, flushed>>

\* Run or Drain of the worker returns.
Flushed ==
  /\ at \in {"flushing", "closing"} /\ queue = << >>
  /\ at' = IF at = "flushing" THEN "playing" ELSE "none"
  /\ flushed' = TRUE
  /\ UNCHANGED <<memory, lastSave, saveVars, writes>>

\* WriteFileAtomic on the worker.
WorkerWrites ==
  /\ queue # << >>
  /\ queue' = Tail(queue)
  /\ \/ file' = Head(queue) /\ failed' = FALSE
     \/ failed' = TRUE /\ UNCHANGED file
  /\ UNCHANGED <<at, memory, lastSave, buffer, dirty, writes, flushed>>

\* Android ends the process.
Kill ==
  /\ at # "none"
  /\ at' = "none" /\ dirty' = FALSE /\ queue' = << >>
  /\ memory' = 0 /\ lastSave' = 0 /\ buffer' = 0 /\ flushed' = FALSE
  /\ UNCHANGED <<file, failed, writes>>

Next ==
  \/ LoadGame \/ Write \/ Snapshot \/ CheckFlush
  \/ \E next \in {"flushing", "closing"} : Flush(next)
  \/ Flushed \/ WorkerWrites \/ Kill

Spec == Init /\ [][Next]_vars

-----------------------------------------------------------------------------
(* Properties                                                               *)

\* A flush that has returned, when a pause or the end of the game asked for it,
\* has the whole memory in the file unless that last write failed
\* (GbaCore.cpp:359).
FlushIsWhole == flushed /\ memory # 0 => file = memory \/ failed

Unsaved == at # "none" /\ memory # file /\ ~failed

\* What the game wrote is in the file in the end, if it goes on playing and the
\* writes succeed, also when it never says that it has saved (GbaCore.cpp:337).
EventuallyInFile == Unsaved ~> ~Unsaved
=============================================================================
