---------------------------- MODULE RewindSession ---------------------------
(***************************************************************************)
(* Rewind as the session runs it (EmuSession.cpp): the emulation thread     *)
(* captures a snapshot every few frames into rewindCapture, and a worker     *)
(* thread takes it from there and pushes it into the rewind buffer.  Both    *)
(* use rewindLock.  The worker takes the snapshot and packs it in two         *)
(* separate critical sections; loading a game, a reset and a state load        *)
(* empty the buffer but know nothing of a snapshot on its way there.           *)
(*                                                                             *)
(* The buffer itself is the abstract RewindHistory, which RewindBuffer          *)
(* implements.  A console state is a moment: the game it belongs to, the         *)
(* line of play (a new one starts at every boot, reset and state load) and       *)
(* the number of frames on that line.  A snapshot also carries the epoch in       *)
(* which it was taken: the number of times the buffer had been emptied.           *)
(***************************************************************************)
EXTENDS Integers, Sequences

CONSTANTS
  Games,       \* games that can be loaded
  NoGame,      \* no core
  NoMoment,    \* no console, or an empty undo backup
  NoSnapshot,
  Interval,    \* rewind.interval
  MaxFrame,    \* bound: frames played on one line (a step back runs one more)
  MaxEpoch     \* bound: how often the buffer is emptied

ASSUME SessionAssumption ==
  /\ NoGame \notin Games
  /\ Interval \in Nat \ {0}
  /\ MaxFrame \in Nat
  /\ MaxEpoch \in Nat

Moments == [game : Games, line : 1 .. MaxEpoch, frame : 0 .. MaxFrame + 1]
Snapshots == [epoch : 0 .. MaxEpoch, at : Moments]

ASSUME SentinelAssumption == NoMoment \notin Moments /\ NoSnapshot \notin Snapshots

VARIABLES
  game,       \* core: the game it runs, or NoGame
  now,        \* the console's moment, or NoMoment
  epoch,      \* history variable: times the buffer was emptied
  backup,     \* undoLoadBackup
  counter,    \* rewindFrameCounter
  paused,     \* paused, or the console stopped itself: at most a frame step runs
  rewinding,  \* the rewind button, set from the UI thread
  capture,    \* rewindCapture: the last snapshot captured
  pending,    \* rewindPending
  worker,     \* where the worker is: "waiting", "holding" or "packing"
  work,       \* the worker's own vector
  history,    \* the rewind buffer
  handed      \* what its last Pop handed out

H == INSTANCE RewindHistory WITH moments <- history, popped <- handed,
                                 States <- Snapshots, NoState <- NoSnapshot

consoleVars == <<game, now, epoch, backup, counter>>
workerVars  == <<pending, worker, work>>
historyVars == <<history, handed>>
uiVars      == <<paused, rewinding>>
vars == <<game, now, epoch, backup, counter, paused, rewinding, capture, pending, worker, work,
          history, handed>>

\* rewindLock is held for the whole of RewindBuffer::Push; every other critical
\* section is one step.
LockFree == worker # "packing"

Init ==
  /\ game = NoGame
  /\ now = NoMoment
  /\ epoch = 0
  /\ backup = NoMoment
  /\ counter = 0
  /\ paused = TRUE
  /\ rewinding = FALSE
  /\ capture = NoSnapshot
  /\ pending = FALSE
  /\ worker = "waiting"
  /\ work = NoSnapshot
  /\ H!Init

-----------------------------------------------------------------------------
(* The worker thread                                                        *)

\* First critical section: the capture buffer changes hands.
WorkerTake ==
  /\ worker = "waiting"
  /\ pending
  /\ work' = capture
  /\ pending' = FALSE
  /\ worker' = "holding"
  /\ UNCHANGED <<consoleVars, uiVars, capture, historyVars>>

\* Second critical section: the lock again, then the push.
WorkerLock ==
  /\ worker = "holding"
  /\ worker' = "packing"
  /\ UNCHANGED <<consoleVars, uiVars, capture, pending, work, historyVars>>

\* Slip: push_front where push_back is meant.
WorkerPushInFront ==
  /\ worker = "packing"
  /\ history' = <<work>> \o history
  /\ worker' = "waiting"
  /\ UNCHANGED <<consoleVars, uiVars, capture, pending, work, handed>>

WorkerPush ==
  /\ worker = "packing"
  /\ H!Snapshot(work)
  /\ worker' = "waiting"
  /\ UNCHANGED <<consoleVars, uiVars, capture, pending, work>>

-----------------------------------------------------------------------------
(* The emulation thread: frames                                             *)

\* The console one frame on.
Later(m) == [m EXCEPT !.frame = @ + 1]

\* CaptureRewind for the frame that just ended at m.  `enabled` is the setting,
\* `captured` whether the core produced a state at all.
CaptureRewind(m, enabled, captured) ==
  /\ IF enabled
     THEN counter' = IF counter + 1 < Interval THEN counter + 1 ELSE 0
     ELSE UNCHANGED counter
  /\ IF enabled /\ counter + 1 >= Interval /\ LockFree /\ ~pending /\ captured
     THEN capture' = [epoch |-> epoch, at |-> m] /\ pending' = TRUE
     ELSE UNCHANGED <<capture, pending>>

RunOneFrame ==
  /\ game # NoGame
  /\ ~rewinding
  /\ now.frame < MaxFrame
  /\ now' = Later(now)
  /\ \E enabled, captured \in BOOLEAN : CaptureRewind(now', enabled, captured)
  /\ UNCHANGED <<game, epoch, backup, uiVars, worker, work, historyVars>>

\* A core that is handed another game's state rejects it or takes it over.
Restored(m) == IF m.game = game THEN {m} ELSE {m, now}

\* Slip: the frame run after a step back is captured like any other.
DoRewindStepCapturing ==
  /\ game # NoGame
  /\ rewinding
  /\ LockFree
  /\ ~pending
  /\ \/ /\ H!StepBack
        /\ \E m \in Restored(handed'.at) : m.frame <= MaxFrame /\ now' = Later(m)
        /\ CaptureRewind(now', TRUE, TRUE)
     \/ (H!Refuse \/ H!Lose) /\ UNCHANGED <<now, counter, capture, pending>>
  /\ UNCHANGED <<game, epoch, backup, uiVars, worker, work>>

\* DoRewindStep: sleeps while a snapshot waits to be taken, otherwise pops,
\* loads what it got and runs one frame of it.
DoRewindStep ==
  /\ game # NoGame
  /\ rewinding
  /\ LockFree
  /\ ~pending
  /\ \/ /\ H!StepBack
        /\ \E m \in Restored(handed'.at) : m.frame <= MaxFrame /\ now' = Later(m)
     \/ (H!Refuse \/ H!Lose) /\ UNCHANGED now
  /\ UNCHANGED <<game, epoch, backup, counter, uiVars, capture, workerVars>>

-----------------------------------------------------------------------------
(* The emulation thread: commands                                           *)

\* Slip: the buffer is not emptied.
ClearRewindNot(m) ==
  /\ LockFree
  /\ epoch < MaxEpoch
  /\ epoch' = epoch + 1
  /\ now' = m
  /\ UNCHANGED <<uiVars, capture, workerVars, historyVars>>

\* ClearRewind, on the emulation thread, after the console changed to m.
ClearRewind(m) ==
  /\ LockFree
  /\ epoch < MaxEpoch
  /\ epoch' = epoch + 1
  /\ now' = m
  /\ H!Forget
  /\ UNCHANGED <<uiVars, capture, workerVars>>

NewLine(g) == [game |-> g, line |-> epoch + 1, frame |-> 0]

SwapCore(next) ==
  /\ ClearRewind(IF next = NoGame THEN NoMoment ELSE NewLine(next))
  /\ game' = next
  /\ backup' = NoMoment
  /\ counter' = 0

Reset ==
  /\ game # NoGame
  /\ ClearRewind(NewLine(game))
  /\ UNCHANGED <<game, backup, counter>>

LoadState ==
  /\ game # NoGame
  /\ ClearRewind(NewLine(game))
  /\ backup' = now
  /\ UNCHANGED <<game, counter>>

UndoLoadState ==
  /\ game # NoGame
  /\ backup # NoMoment
  /\ \E m \in {backup, now} : ClearRewind(m)   \* the core may reject it
  /\ backup' = NoMoment
  /\ UNCHANGED <<game, counter>>

-----------------------------------------------------------------------------
(* The UI thread                                                            *)

SetPaused(p) ==
  /\ paused' = p
  /\ UNCHANGED <<consoleVars, rewinding, capture, workerVars, historyVars>>

SetRewinding(active) ==
  /\ rewinding' = active
  /\ UNCHANGED <<consoleVars, paused, capture, workerVars, historyVars>>

Worker == WorkerTake \/ WorkerLock \/ WorkerPush

Next ==
  \/ Worker
  \/ RunOneFrame
  \/ DoRewindStep
  \/ \E next \in Games \union {NoGame} : SwapCore(next)
  \/ Reset
  \/ LoadState
  \/ UndoLoadState
  \/ \E p \in BOOLEAN : SetPaused(p)
  \/ \E active \in BOOLEAN : SetRewinding(active)

Spec == Init /\ [][Next]_vars

\* The worker thread never stops, and the emulation thread keeps looping while
\* a game is on and not paused; nothing is assumed of the player.
FairSpec == Spec /\ WF_vars(Worker) /\ WF_vars(~paused /\ DoRewindStep)

-----------------------------------------------------------------------------
(* Properties                                                               *)

\* The types of the session's rewind fields (EmuSession.h).
TypeOK ==
  /\ game \in Games \union {NoGame}
  /\ now \in Moments \union {NoMoment}
  /\ epoch \in 0 .. MaxEpoch
  /\ backup \in Moments \union {NoMoment}
  /\ counter \in 0 .. Interval - 1
  /\ paused \in BOOLEAN
  /\ rewinding \in BOOLEAN
  /\ capture \in Snapshots \union {NoSnapshot}
  /\ pending \in BOOLEAN
  /\ worker \in {"waiting", "holding", "packing"}
  /\ work \in Snapshots \union {NoSnapshot}
  /\ history \in Seq(Snapshots)
  /\ handed \in Snapshots \union {NoSnapshot}

\* The snapshots on their way to the buffer, next one first.
InFlight ==
  LET taken == IF worker = "waiting" THEN <<>> ELSE <<work>>
  IN  IF pending THEN Append(taken, capture) ELSE taken

\* The damage of a snapshot that outlives ClearRewind is bounded: counting the
\* buffer and what is on its way to it, only the two oldest places can hold a
\* snapshot from before the last reset, load or change of game.
StaleOnlyOldest ==
  LET line == history \o InFlight
  IN  \A i \in 3 .. Len(line) : line[i].epoch = epoch

\* Snapshots reach the buffer in the order they were taken: never one from an
\* older epoch above one from a newer.
EpochsInOrder ==
  LET line == history \o InFlight
  IN  \A i, j \in 1 .. Len(line) : i < j => line[i].epoch <= line[j].epoch

\* Holding the rewind button walks to the oldest snapshot and stays there: no
\* snapshot on its way to the buffer can keep the steps waiting for ever.
HeldRewindReachesOldest ==
  (<>[](rewinding /\ ~paused /\ game # NoGame)) => <>[](Len(history) <= 1)
=============================================================================
