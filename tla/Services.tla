------------------------------ MODULE Services ------------------------------
(***************************************************************************)
(* The session's services, side by side: in a behaviour a single component      *)
(* runs, the rewind buffer (whose module this one extends) or one of the          *)
(* instances below.  What the modules' own specifications say of one component     *)
(* is said here of all of them, for any constants.                                  *)
(***************************************************************************)
EXTENDS RewindBuffer

CONSTANTS
  Callers, ThreeDsGames, OtherGames, NoCore, Nobody, MaxRequests,   \* Session; also
  Jobs, Nothing, NoJob, MaxJobs,                                    \* IoWorker's Callers
  Contents, NoFile, Partial, Failures,                              \* AtomicFile
  MaxMicRequests,                                                   \* Microphone
  MaxCores, MaxStreams,                                             \* AudioOutput
  Size, Batch, Numbers,                                             \* AudioRing
  Games, NoGame, MaxMoments,                                        \* SaveStates
  MaxWrites                                                         \* GbaSave

VARIABLES
  component,   \* the one that runs in this behaviour
  call, commands, todo, loop, generation, bootLock, core, running, paused, frameStep,
  rewinding, unsaved, requests, answered, quiet,
  jobs, ioRunning, blocked, ahead,
  target, durable, synced, tmp, tmpSynced, fsyncFailed, fileCall, data,
  listening, emulation, allowed, wanted, stream, failed, interface, micRequests, mode,
  permission,
  audioCore, swap, cores, alive, source, reading, audioRunning, audioPaused, wasActive,
  outStream, streams, playing, lost, audioWanted,
  mic, ring, readAt, writeAt, level, last, unread,
  console, made, slot, undo, save, loadUndo, lastSaved, kept, raced,
  at, memory, lastSave, buffer, dirty, queue, file, writes, flushed, gbaFailed,
  object, romFd, romLink, handle, active, useVulkan, inits, games, requested, fbo,
  image, haveFrame

Calls == INSTANCE Session
Io == INSTANCE IoWorker WITH running <- ioRunning
Atomic == INSTANCE AtomicFile WITH call <- fileCall
Mic == INSTANCE Microphone WITH MaxRequests <- MaxMicRequests, requests <- micRequests
Audio == INSTANCE AudioOutput WITH core <- audioCore, running <- audioRunning, paused <-
  audioPaused, wanted <- audioWanted
Ring == INSTANCE AudioRing
Saved == INSTANCE SaveStates
Gba == INSTANCE GbaSave WITH failed <- gbaFailed
Engine == INSTANCE ThreeDs

ASSUME ServicesAssumption ==
  Calls!CallersAssumption /\ Io!WorkerAssumption /\ Atomic!FileAssumption /\ Ring!RingAssumption

CallsVars == <<call, commands, todo, loop, generation, bootLock, core, running, paused,
  frameStep, rewinding, unsaved, requests, answered, quiet>>
IoVars == <<jobs, ioRunning, blocked, ahead>>
AtomicVars == <<target, durable, synced, tmp, tmpSynced, fsyncFailed, fileCall, data>>
MicVars == <<listening, emulation, allowed, wanted, stream, failed, interface, micRequests,
  mode, permission>>
AudioVars == <<audioCore, swap, cores, alive, source, reading, audioRunning, audioPaused,
  wasActive, outStream, streams, playing, lost, audioWanted>>
RingVars == <<mic, ring, readAt, writeAt, level, last, unread>>
SavedVars == <<console, made, slot, undo, save, loadUndo, lastSaved, kept, raced>>
GbaVars == <<at, memory, lastSave, buffer, dirty, queue, file, writes, flushed, gbaFailed>>
EngineVars == <<object, romFd, romLink, handle, active, useVulkan, inits, games, requested,
  fbo, image, haveFrame>>

all == <<component, vars, CallsVars, IoVars, AtomicVars, MicVars, AudioVars, RingVars,
  SavedVars, GbaVars, EngineVars>>

\* Parts that do not run have no state.
RewindRests == Init /\ budget = CHOOSE b \in Budgets : TRUE
CallsRests == call = 0 /\ commands = 0 /\ todo = 0 /\ loop = 0 /\ generation = 0 /\
  bootLock = 0 /\ core = 0 /\ running = 0 /\ paused = 0 /\ frameStep = 0 /\ rewinding = 0 /\
  unsaved = 0 /\ requests = 0 /\ answered = 0 /\ quiet = 0
IoRests == jobs = 0 /\ ioRunning = 0 /\ blocked = 0 /\ ahead = 0
AtomicRests == target = 0 /\ durable = 0 /\ synced = 0 /\ tmp = 0 /\ tmpSynced = 0 /\
  fsyncFailed = 0 /\ fileCall = 0 /\ data = 0
MicRests == listening = 0 /\ emulation = 0 /\ allowed = 0 /\ wanted = 0 /\ stream = 0 /\
  failed = 0 /\ interface = 0 /\ micRequests = 0 /\ mode = 0 /\ permission = 0
AudioRests == audioCore = 0 /\ swap = 0 /\ cores = 0 /\ alive = 0 /\ source = 0 /\
  reading = 0 /\ audioRunning = 0 /\ audioPaused = 0 /\ wasActive = 0 /\ outStream = 0 /\
  streams = 0 /\ playing = 0 /\ lost = 0 /\ audioWanted = 0
RingRests == mic = 0 /\ ring = 0 /\ readAt = 0 /\ writeAt = 0 /\ level = 0 /\ last = 0 /\
  unread = 0
SavedRests == console = 0 /\ made = 0 /\ slot = 0 /\ undo = 0 /\ save = 0 /\ loadUndo = 0 /\
  lastSaved = 0 /\ kept = 0 /\ raced = 0
GbaRests == at = 0 /\ memory = 0 /\ lastSave = 0 /\ buffer = 0 /\ dirty = 0 /\ queue = 0 /\
  file = 0 /\ writes = 0 /\ flushed = 0 /\ gbaFailed = 0
EngineRests == object = 0 /\ romFd = 0 /\ romLink = 0 /\ handle = 0 /\ active = 0 /\
  useVulkan = 0 /\ inits = 0 /\ games = 0 /\ requested = 0 /\ fbo = 0 /\ image = 0 /\
  haveFrame = 0

InitAll ==
  /\ component \in {"Rewind", "Calls", "Io", "Atomic", "Mic", "Audio", "Ring", "Saved",
       "Gba", "Engine"}
  /\ IF component = "Rewind" THEN Init ELSE RewindRests
  /\ IF component = "Calls" THEN Calls!Init ELSE CallsRests
  /\ IF component = "Io" THEN Io!Init ELSE IoRests
  /\ IF component = "Atomic" THEN Atomic!Init ELSE AtomicRests
  /\ IF component = "Mic" THEN Mic!Init ELSE MicRests
  /\ IF component = "Audio" THEN Audio!Init ELSE AudioRests
  /\ IF component = "Ring" THEN Ring!Init ELSE RingRests
  /\ IF component = "Saved" THEN Saved!Init ELSE SavedRests
  /\ IF component = "Gba" THEN Gba!Init ELSE GbaRests
  /\ IF component = "Engine" THEN Engine!Init ELSE EngineRests

\* The parts that do not run stay as they are.
OthersRest ==
  /\ UNCHANGED component
  /\ IF component = "Rewind" THEN TRUE ELSE UNCHANGED vars
  /\ IF component = "Calls" THEN TRUE ELSE UNCHANGED CallsVars
  /\ IF component = "Io" THEN TRUE ELSE UNCHANGED IoVars
  /\ IF component = "Atomic" THEN TRUE ELSE UNCHANGED AtomicVars
  /\ IF component = "Mic" THEN TRUE ELSE UNCHANGED MicVars
  /\ IF component = "Audio" THEN TRUE ELSE UNCHANGED AudioVars
  /\ IF component = "Ring" THEN TRUE ELSE UNCHANGED RingVars
  /\ IF component = "Saved" THEN TRUE ELSE UNCHANGED SavedVars
  /\ IF component = "Gba" THEN TRUE ELSE UNCHANGED GbaVars
  /\ IF component = "Engine" THEN TRUE ELSE UNCHANGED EngineVars

NextAll ==
  /\ \/ component = "Rewind" /\ Next
     \/ component = "Calls" /\ Calls!Next
     \/ component = "Io" /\ Io!Next
     \/ component = "Atomic" /\ Atomic!Next
     \/ component = "Mic" /\ Mic!Next
     \/ component = "Audio" /\ Audio!Next
     \/ component = "Ring" /\ Ring!Next
     \/ component = "Saved" /\ Saved!Next
     \/ component = "Gba" /\ Gba!Next
     \/ component = "Engine" /\ Engine!Next
  /\ OthersRest

SpecAll == InitAll /\ [][NextAll]_all
\* What the components' own specifications assume: see FairSpec in each.
FairAll ==
  /\ SpecAll
  /\ WF_CallsVars(component = "Calls" /\ Calls!Emulation)
  /\ \A c \in Callers : WF_CallsVars(component = "Calls" /\ Calls!GoOn(c))
  /\ WF_IoVars(component = "Io" /\ Io!Take)
  /\ WF_IoVars(component = "Io" /\ Io!Finish)
  /\ WF_MicVars(component = "Mic" /\ Mic!EmulationFinishes)
  /\ WF_MicVars(component = "Mic" /\ Mic!Interface)
  /\ WF_GbaVars(component = "Gba" /\ Gba!Snapshot)
  /\ WF_GbaVars(component = "Gba" /\ Gba!CheckFlush)
  /\ WF_GbaVars(component = "Gba" /\ Gba!Flushed)
  /\ WF_GbaVars(component = "Gba" /\ Gba!WorkerWrites)

-----------------------------------------------------------------------------
(* The properties of the components, under their names there; those of the     *)
(* rewind buffer are its own.                                                    *)

\* There is never a second ThreeDsCore, installed or on its way (EmuSession::LoadRom).
OneEngine                == component = "Calls" => Calls!OneEngine

\* A 3DS game that a newer load or a stop has superseded is not installed.
SupersededNeverInstalled == component = "Calls" => Calls!SupersededNeverInstalled

\* While a pause that has returned lasts, what the game wrote is flushed.
PausedMeansFlushed       == component = "Calls" => Calls!PausedMeansFlushed

\* A caller has not returned, from the session or from waiting for the I/O worker.
Waiting(c) ==
  \/ component = "Calls" /\ Calls!InCall(c)
  \/ component = "Io" /\ Io!Waits(c)

\* A call into the session returns, and so does a caller that waits for the I/O worker.
EveryCallReturns == \A c \in Callers : Waiting(c) ~> ~Waiting(c)

\* Drain and Run return after every job posted before them.
DrainWaits               == [][component = "Io" => Io!DrainStepWaits]_all

\* A reader, and the machine after a power cut, finds whole content in a file
\* that WriteFileAtomic writes.
WholeFile                == component = "Atomic" => Atomic!WholeFile

\* A game that listens is heard once the player has allowed it and leaves the
\* settings alone.
EventuallyHeard ==
  [](component = "Mic" => Mic!LeftAlone)
    => ((component = "Mic" /\ Mic!ToBeHeard) ~> (component = "Mic" => ~Mic!ToBeHeard))

\* The callback of a stream reads a core that lives and a single output plays;
\* a microphone that is forbidden is closed.
AudioIsSafe ==
  (component = "Audio" => Audio!ReadsAndPlaysOne) /\ (component = "Mic" => Mic!ForbiddenIsClosed)

\* What is read from an audio ring is what was put in and not dropped, in order.
RingIsQueue              == component = "Ring" => Ring!RingIsQueue

\* The last save that succeeded is a file, slot or backup; the backup of a load is
\* one of the game that runs.
StatesAreKept            == component = "Saved" => Saved!SavedIsKept /\ Saved!BackupFitsTheGame

\* A GBA flush that has returned has the whole memory in the file.
FlushIsWhole             == component = "Gba" => Gba!FlushIsWhole

\* What a GBA game saves comes to the file in the end.
EventuallyInFile ==
  (component = "Gba" /\ Gba!Unsaved) ~> (component = "Gba" => ~Gba!Unsaved)

\* No part of a 3DS game outlives its core, and the image shown is live.
EngineIsKept             == component = "Engine" => Engine!EngineIsKept
=============================================================================
