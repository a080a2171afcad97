------------------------------ MODULE SaveFile ------------------------------
(***************************************************************************)
(* Battery saves (SaveFile.cpp) from the console's save memory to the disk:  *)
(* the emulation thread keeps a copy of the memory up to date and hands         *)
(* snapshots of it to the I/O worker (IoWorker), which writes each with           *)
(* WriteFileAtomic (AtomicFile).  A game opens the file (DsCore::LoadGame),          *)
(* plays, is paused, and is closed (DsCore::Shutdown); the process may be             *)
(* killed and the power may go at any moment.                                           *)
(*                                                                                        *)
(* A byte of the memory is the number of the write that stored it.  The versions            *)
(* of the memory, and which of them the file holds, are history variables.                    *)
(***************************************************************************)
EXTENDS Integers, Sequences

CONSTANTS
  Size,          \* SRAMLength
  Transfers,     \* what a console writes in one go: <<address, bytes>>
  NoBuffer,      \* SaveFile::buffer before the first write
  NoFile, Partial, Failures,  \* see AtomicFile
  Nothing, NoJob, Nobody,     \* see IoWorker
  MaxVersions    \* bound: states of the save memory in a session

\* What follows a failed fsync, which nobody notices, is left to AtomicFile.
ASSUME SaveAssumption ==
  /\ Size \in Nat \ {0}
  /\ Transfers \subseteq (0 .. Size - 1) \X (1 .. Size)
  /\ MaxVersions \in Nat \ {0}
  /\ "fsync" \notin Failures

Addresses == 0 .. Size - 1
Memories  == [Addresses -> 0 .. MaxVersions]
Snapshots == [memory : Memories, version : 1 .. MaxVersions]
Blank     == [a \in Addresses |-> 0]

ASSUME BufferAssumption ==
  /\ {NoBuffer, NoFile, Partial} \cap Memories = {} /\ NoFile # Partial
  /\ Nothing \notin Snapshots /\ Nobody # "emulation"
  /\ NoJob \notin [do : Snapshots \cup {Nothing}, by : {"emulation", Nobody}]

VARIABLES
  emulation, \* where the emulation thread is: see Phases
  memory,    \* the cartridge's save memory
  buffer,    \* SaveFile::buffer
  dirty,     \* SaveFile::dirty
  settled,   \* kFlushDelay has passed since lastWrite
  jobs, running, blocked, ahead,                           \* IoWorker
  target, durable, synced, tmp, tmpSynced, fsyncFailed, call, data, \* AtomicFile
  versions, onDisk, onStorage,                             \* history: see SaveHistory
  lost,      \* history: the last write of this session that ended has failed
  swapped    \* history: a GBA cart was put in in this session

\* Between games, playing, or inside a StartFlush(true): that of a pause, that of
\* DsCore::Shutdown, that of the destructor, or that of a replaced GBA save.
Phases == {"closed", "playing", "pausing", "closing", "destroying", "swapping"}

IO == INSTANCE IoWorker WITH Jobs <- Snapshots, Callers <- {"emulation"},
                             MaxJobs <- MaxVersions + 1
F  == INSTANCE AtomicFile WITH Contents <- Memories

saveVars    == <<buffer, dirty, settled>>
workerVars  == <<jobs, running, blocked, ahead>>
fileVars    == <<target, durable, synced, tmp, tmpSynced, fsyncFailed, call, data>>
historyVars == <<versions, onDisk, onStorage, lost, swapped>>
vars == <<emulation, memory, saveVars, workerVars, fileVars, historyVars>>

\* What a game finds when it starts: a missing file is a fresh memory.
Read(file) == IF file = NoFile THEN Blank ELSE file

Init ==
  /\ emulation = "closed"
  /\ memory = Blank
  /\ buffer = NoBuffer
  /\ dirty = FALSE
  /\ settled = FALSE
  /\ IO!Init
  /\ F!Init
  /\ target \in {NoFile, Blank}
  /\ versions = <<Blank>>
  /\ onDisk = 1
  /\ onStorage = 1
  /\ lost = FALSE
  /\ swapped = FALSE

-----------------------------------------------------------------------------
(* The console writes                                                       *)

\* n bytes from address on, wrapping around the end of the memory.
Span(address, n) == {(address + i) % Size : i \in 0 .. n - 1}

\* Slip: the part that wraps around is left out.
OnWriteNoWrap(m, offset, n) ==
  /\ buffer' = IF buffer = NoBuffer \/ n = 0
               THEN m
               ELSE [a \in Addresses |-> IF a \in offset .. offset + n - 1 THEN m[a] ELSE buffer[a]]
  /\ dirty' = TRUE
  /\ settled' = FALSE

OnWrite(m, offset, n) ==
  /\ buffer' = IF buffer = NoBuffer \/ n = 0
               THEN m
               ELSE [a \in Addresses |-> IF a \in Span(offset, n) THEN m[a] ELSE buffer[a]]
  /\ dirty' = TRUE
  /\ settled' = FALSE

NewVersion(m) ==
  /\ Len(versions) < MaxVersions
  /\ memory' = m
  /\ versions' = Append(versions, m)

\* The cartridge masks what it reports with the memory's size, so that a write of
\* the whole memory is reported as one of 0 bytes (CartRetail::SPIRelease).
ConsoleWrite(t) ==
  /\ emulation = "playing"
  /\ NewVersion([a \in Addresses |-> IF a \in Span(t[1], t[2]) THEN Len(versions) ELSE memory[a]])
  /\ OnWrite(memory', t[1] % Size, t[2] % Size)
  /\ UNCHANGED <<emulation, workerVars, fileVars, onDisk, onStorage, lost, swapped>>

\* A state load puts an older memory back and reports it whole
\* (CartRetail::DoSavestate).
LoadState(v) ==
  /\ emulation = "playing"
  /\ v \in 1 .. Len(versions) - 1
  /\ NewVersion(versions[v])
  /\ OnWrite(memory', 0, Size)
  /\ UNCHANGED <<emulation, workerVars, fileVars, onDisk, onStorage, lost, swapped>>

Settle ==
  /\ dirty
  /\ ~settled
  /\ settled' = TRUE
  /\ UNCHANGED <<emulation, memory, buffer, dirty, workerVars, fileVars, historyVars>>

-----------------------------------------------------------------------------
(* Flushing                                                                 *)

Snapshot == [memory |-> buffer, version |-> Len(versions)]

\* Slip: no Drain, though an earlier flush may still be running.
StartFlushNoDrain ==
  IF dirty
  THEN IO!Run("emulation", Snapshot)
  ELSE UNCHANGED workerVars

\* SaveFile::StartFlush(true): a snapshot of the copy is written, or there is
\* none to write and an earlier one may still be.
StartFlush ==
  IF dirty
  THEN IO!Run("emulation", Snapshot)
  ELSE IO!Drain("emulation")

\* Slip: the snapshot is never written.
CheckFlushDropped ==
  /\ emulation = "playing"
  /\ dirty
  /\ settled
  /\ dirty' = FALSE
  /\ UNCHANGED <<emulation, memory, buffer, settled, workerVars, fileVars, historyVars>>

\* SaveFile::CheckFlush, once per frame.
CheckFlush ==
  /\ emulation = "playing"
  /\ dirty
  /\ settled
  /\ IO!Post(Snapshot)
  /\ dirty' = FALSE
  /\ UNCHANGED <<emulation, memory, buffer, settled, fileVars, historyVars>>

\* EmuSession::SetPaused(true) and FlushSaves.
Pause ==
  /\ emulation = "playing"
  /\ StartFlush
  /\ emulation' = "pausing"
  /\ dirty' = FALSE
  /\ UNCHANGED <<memory, buffer, settled, fileVars, historyVars>>

\* DsCore::Shutdown flushes, and the destructor of SaveFile flushes again.
Close ==
  /\ \/ emulation = "playing" /\ emulation' = "closing"
     \/ emulation = "closing" /\ emulation' = "destroying" /\ blocked = {}
  /\ StartFlush
  /\ dirty' = FALSE
  /\ UNCHANGED <<memory, buffer, settled, fileVars, historyVars>>

\* DsCore::InsertGbaCart reads the file, and only then does the new SaveFile
\* replace the old one, whose destructor flushes it.
InsertGbaCart ==
  /\ emulation = "playing"
  /\ Len(versions) < MaxVersions
  /\ memory' = Read(target)
  /\ versions' = Append(versions, memory')
  /\ StartFlush
  /\ emulation' = "swapping"
  /\ buffer' = NoBuffer
  /\ dirty' = FALSE
  /\ swapped' = TRUE
  /\ UNCHANGED <<settled, fileVars, onDisk, onStorage, lost>>

\* The future is resolved and the emulation thread goes on.
FlushReturns ==
  /\ blocked = {}
  /\ \/ emulation \in {"pausing", "swapping"} /\ emulation' = "playing"
     \/ emulation = "destroying" /\ emulation' = "closed"
  /\ UNCHANGED <<memory, saveVars, workerVars, fileVars, historyVars>>

\* DsCore::LoadGame: the save is read into the new console.
Open ==
  /\ emulation = "closed"
  /\ emulation' = "playing"
  /\ memory' = Read(target)
  /\ buffer' = NoBuffer
  /\ versions' = SubSeq(versions, 1, onDisk)
  /\ lost' = FALSE /\ swapped' = FALSE
  /\ UNCHANGED <<dirty, settled, workerVars, fileVars, onDisk, onStorage>>

-----------------------------------------------------------------------------
(* The I/O thread                                                           *)

\* The job of Drain has nothing to write.
WorkerTake ==
  /\ IO!Take
  /\ IF running'.do = Nothing THEN UNCHANGED fileVars ELSE F!Begin(running'.do.memory)
  /\ UNCHANGED <<emulation, memory, saveVars, historyVars>>

WorkerStep ==
  /\ F!Open \/ F!Write \/ F!Fsync \/ F!Fail
  /\ UNCHANGED <<emulation, memory, saveVars, workerVars, historyVars>>

WorkerRename ==
  /\ F!Rename
  /\ onDisk' = running.do.version
  /\ UNCHANGED <<emulation, memory, saveVars, workerVars, versions, onStorage, lost, swapped>>

\* WriteFileAtomic returns and with it the job; its result is only logged.
WorkerFinish ==
  /\ IO!Finish
  /\ IF running.do = Nothing THEN UNCHANGED <<fileVars, lost>>
                             ELSE F!Return /\ lost' = (call = "failed")
  /\ UNCHANGED <<emulation, memory, saveVars, versions, onDisk, onStorage, swapped>>

Worker == WorkerTake \/ WorkerStep \/ WorkerRename \/ WorkerFinish

-----------------------------------------------------------------------------
(* The system                                                               *)

Writeback ==
  /\ F!Writeback
  /\ onStorage' = onDisk
  /\ UNCHANGED <<emulation, memory, saveVars, workerVars, versions, onDisk, lost, swapped>>

\* What the process kept in memory is gone.
ProcessEnds ==
  /\ emulation' = "closed"
  /\ memory' = Blank
  /\ buffer' = NoBuffer
  /\ dirty' = FALSE
  /\ settled' = FALSE
  /\ jobs' = << >>
  /\ running' = NoJob
  /\ blocked' = {}
  /\ ahead' = [c \in {"emulation"} |-> 0]

Kill ==
  /\ F!Kill
  /\ ProcessEnds
  /\ versions' = SubSeq(versions, 1, onDisk)
  /\ UNCHANGED <<onDisk, onStorage, lost, swapped>>

PowerCut ==
  /\ F!PowerCut
  /\ ProcessEnds
  /\ versions' = SubSeq(versions, 1, onStorage)
  /\ onDisk' = onStorage
  /\ UNCHANGED <<onStorage, lost, swapped>>

Play ==
  \/ Open
  \/ \E t \in Transfers : ConsoleWrite(t)
  \/ \E v \in 1 .. MaxVersions : LoadState(v)
  \/ Settle \/ CheckFlush \/ Pause \/ Close \/ InsertGbaCart \/ FlushReturns

\* The process or the power may end at any moment.
Next == Play \/ Worker \/ Writeback \/ Kill \/ PowerCut

Spec == Init /\ [][Next]_vars

\* Time passes, frames are run while the game plays, and the worker is never
\* stopped; what the player and the console do is up to them.
FairSpec == Spec /\ WF_vars(Settle) /\ WF_vars(CheckFlush) /\ WF_vars(Worker) /\ WF_vars(FlushReturns)

-----------------------------------------------------------------------------
(* Properties                                                               *)

\* The file holds one whole state the save memory was in, and so does what a
\* power cut would leave of it, through failures, kills and power cuts
\* ("Written crash-safely", features.md:68).
FileIsOneVersion == Read(target) = versions[onDisk] /\ Read(durable) = versions[onStorage]

\* SaveFile implements SaveHistory: the file never goes back to an older state,
\* whatever snapshots are queued, written, lost with the process or retried.
History == INSTANCE SaveHistory
HistoryKept == History!Spec

\* "Writes any pending data and waits until it is on disk" (SaveFile.h:29): when
\* a flush returns, the newest state is in the file, unless the last write has
\* failed: nobody tries again then (SaveFile::StartFlush).  (A cart that was put in has
\* read the file before the flush of its predecessor.)
FlushedMeansSaved ==
  emulation \in {"pausing", "closing", "destroying"} /\ blocked = {} => onDisk = Len(versions) \/ lost \/ swapped

\* The file is one whole state of the save memory, and has the newest one when
\* a flush returns.
SavedFileIsSound == FileIsOneVersion /\ FlushedMeansSaved

\* Every state of the save memory reaches the file or is superseded.
EventuallySaved ==
  \A v \in 1 .. MaxVersions :
    Len(versions) = v ~> onDisk = v \/ Len(versions) # v \/ lost \/ swapped
=============================================================================
