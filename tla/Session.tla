------------------------------ MODULE Session ------------------------------
(***************************************************************************)
(* The emulation session (EmuSession.cpp): any thread may call it; commands   *)
(* go to the emulation thread, which runs them between frames, and the caller   *)
(* waits.  A 3DS game boots on its caller's thread while the emulation thread     *)
(* serves others, and tells by a generation whether it was superseded.              *)
(*                                                                                   *)
(* Loads, stops and pauses are modelled; what they do inside a core is in the          *)
(* modules of the cores, rewind and its undo buffer in RewindSession.                    *)
(***************************************************************************)
EXTENDS Naturals, Sequences, FiniteSets

CONSTANTS
  Callers,       \* threads that call the session
  ThreeDsGames,  \* games for LoadThreeDs
  OtherGames,    \* DS and GBA games
  NoCore,        \* no core is there
  Nobody,        \* nobody holds threeDsLoadLock
  MaxRequests    \* bound: loads and stops

AllGames == ThreeDsGames \cup OtherGames

\* What the theorems suppose of the constants: a game is for one of the two loads, and
\* the lock's owner is a thread.
CallersAssumption == ThreeDsGames \cap OtherGames = {} /\ Nobody \notin Callers

VARIABLES
  call,        \* where each caller is in its call, and the call's variables
  commands,    \* the queue
  todo,        \* what RunCommands took from it and has not run yet
  loop,        \* the emulation thread: "commands", "running", "playing", "stepping"
  generation,  \* loadGeneration
  bootLock,    \* threeDsLoadLock
  core,        \* the core: its game and generation
  running, paused, frameStep, rewinding,
  unsaved,     \* the core has writes that were not flushed
  requests,    \* how many loads and stops were asked for: bound
  answered,    \* history: the latest generation of those that took effect and returned
  quiet        \* history: a pause has returned and nothing let the game go on

callerVars  == <<call, commands, generation, bootLock>>
consoleVars == <<core, running, unsaved>>
switchVars  == <<paused, frameStep, rewinding>>
loopVars    == <<loop, todo>>
historyVars == <<requests, answered, quiet>>
vars == <<callerVars, consoleVars, switchVars, loopVars, historyVars>>

NoCall == [at |-> "idle", game |-> NoCore, generation |-> 0, error |-> FALSE, next |-> FALSE]

Init ==
  /\ call = [c \in Callers |-> NoCall]
  /\ commands = << >> /\ todo = << >>
  /\ loop = "commands"
  /\ generation = 0
  /\ bootLock = Nobody
  /\ core = NoCore
  /\ running = FALSE /\ paused = TRUE /\ frameStep = FALSE /\ rewinding = FALSE
  /\ unsaved = FALSE
  /\ requests = 0
  /\ answered = 0
  /\ quiet = FALSE

-----------------------------------------------------------------------------
(* The callers                                                              *)

\* Post(fn, true): the caller waits until the command has been run.
Post(c, what) == commands' = Append(commands, [do |-> what, by |-> c])

Ask(c, g, at) ==
  /\ call[c].at = "idle"
  /\ requests < MaxRequests
  /\ requests' = requests + 1
  /\ call' = [call EXCEPT ![c] = [NoCall EXCEPT !.at = at, !.game = g]]
  /\ UNCHANGED <<commands, generation, bootLock, consoleVars, switchVars, loopVars, answered, quiet>>

LoadGame(c, g) == Ask(c, g, "loading")

LoadThreeDs(c, g) == Ask(c, g, "locking")

Stop(c) == Ask(c, NoCore, "stopping")

\* ++loadGeneration, of a load or a stop; of a 3DS load only with the lock.
NextGeneration(c) ==
  /\ \/ call[c].at = "loading" /\ call' = [call EXCEPT ![c].at = "load", ![c].generation = generation + 1]
     \/ call[c].at = "stopping" /\ call' = [call EXCEPT ![c].at = "stop", ![c].generation = generation + 1]
     \/ call[c].at = "locked" /\ call' = [call EXCEPT ![c].at = "prepare", ![c].generation = generation + 1]
  /\ generation' = generation + 1
  /\ UNCHANGED <<commands, bootLock, consoleVars, switchVars, loopVars, historyVars>>

\* Slip: a load does not wait for another one's boot.
TakeBootLockFree(c) ==
  /\ call[c].at = "locking"
  /\ bootLock' = c
  /\ call' = [call EXCEPT ![c].at = "locked"]
  /\ UNCHANGED <<commands, generation, consoleVars, switchVars, loopVars, historyVars>>

TakeBootLock(c) ==
  /\ call[c].at = "locking"
  /\ bootLock = Nobody
  /\ bootLock' = c
  /\ call' = [call EXCEPT ![c].at = "locked"]
  /\ UNCHANGED <<commands, generation, consoleVars, switchVars, loopVars, historyVars>>

\* The caller's next command is queued.
PostNext(c) ==
  /\ call[c].at \in {"load", "stop", "prepare", "install"}
  /\ Post(c, call[c].at)
  /\ call' = [call EXCEPT ![c].at = "waiting"]
  /\ UNCHANGED <<generation, bootLock, consoleVars, switchVars, loopVars, historyVars>>

\* ThreeDsCore::Boot on the caller's thread.
Boot(c) ==
  /\ call[c].at = "booting"
  /\ \E failed \in BOOLEAN : call' = [call EXCEPT ![c].at = "install", ![c].error = failed]
  /\ UNCHANGED <<commands, generation, bootLock, consoleVars, switchVars, loopVars, historyVars>>

\* SetPaused(true), which flushes.
Pause(c) ==
  /\ call[c].at = "idle"
  /\ paused' = TRUE
  /\ Post(c, "flush")
  /\ call' = [call EXCEPT ![c].at = "waiting"]
  /\ UNCHANGED <<generation, bootLock, consoleVars, frameStep, rewinding, loopVars, historyVars>>

\* Start, SetPaused(false).
Start ==
  /\ paused' = FALSE
  /\ quiet' = FALSE
  /\ UNCHANGED <<callerVars, consoleVars, frameStep, rewinding, loopVars, requests, answered>>

FrameAdvance ==
  /\ frameStep' = TRUE
  /\ quiet' = FALSE
  /\ UNCHANGED <<callerVars, consoleVars, paused, rewinding, loopVars, requests, answered>>

SetRewinding(active) ==
  /\ rewinding' = active
  /\ UNCHANGED <<callerVars, consoleVars, paused, frameStep, loopVars, historyVars>>

-----------------------------------------------------------------------------
(* The emulation thread: commands                                           *)

\* RunCommands takes the whole queue first.
TakeCommands ==
  /\ loop = "commands"
  /\ loop' = "running"
  /\ todo' = commands
  /\ commands' = << >>
  /\ UNCHANGED <<call, generation, bootLock, consoleVars, switchVars, historyVars>>

\* SwapCore: the old core's saves are written when it shuts down.
SwapCore(next) ==
  /\ core' = next
  /\ unsaved' = FALSE

CoreOf(c) == [game |-> call[c].game, generation |-> call[c].generation]

Later(a, b) == IF a > b THEN a ELSE b

TookEffect(c) == answered' = Later(answered, call[c].generation)

Return(c) == call' = [call EXCEPT ![c] = NoCall]

\* LoadGame's command: a file that cannot be read leaves everything as it is.
RunLoad(c) ==
  /\ Return(c)
  /\ \/ UNCHANGED <<consoleVars, answered>>
     \/ SwapCore(NoCore) /\ running' = FALSE /\ TookEffect(c)
     \/ SwapCore(CoreOf(c)) /\ running' = TRUE /\ TookEffect(c)
  /\ UNCHANGED <<bootLock, quiet>>

\* LoadThreeDs, first command: it may fail, boot right here, or leave the boot to
\* the caller's thread.
RunPrepare(c) ==
  /\ SwapCore(NoCore)
  /\ running' = FALSE
  /\ \/ call' = [call EXCEPT ![c].at = "booting", ![c].next = TRUE]
     \/ \E failed \in BOOLEAN :
          call' = [call EXCEPT ![c].at = "install", ![c].next = TRUE, ![c].error = failed]
  /\ UNCHANGED <<bootLock, answered, quiet>>

\* Slip: the generation is not looked at.
RunInstallAny(c) ==
  /\ Return(c)
  /\ bootLock' = Nobody
  /\ IF call[c].error THEN UNCHANGED <<core, unsaved>> ELSE SwapCore(CoreOf(c))
  /\ running' = ~call[c].error
  /\ TookEffect(c)
  /\ UNCHANGED quiet

\* Slip: a load whose boot failed keeps the lock.
RunInstallKeepLock(c) ==
  /\ Return(c)
  /\ bootLock' = IF call[c].error THEN bootLock ELSE Nobody
  /\ \/ /\ generation # call[c].generation
        /\ UNCHANGED <<consoleVars, answered>>
     \/ /\ generation = call[c].generation
        /\ IF call[c].error THEN UNCHANGED <<core, unsaved>> ELSE SwapCore(CoreOf(c))
        /\ running' = ~call[c].error
        /\ TookEffect(c)
  /\ UNCHANGED quiet

\* Its second command.
RunInstall(c) ==
  /\ Return(c)
  /\ bootLock' = Nobody
  /\ \/ /\ generation # call[c].generation
        /\ UNCHANGED <<consoleVars, answered>>
     \/ /\ generation = call[c].generation
        /\ IF call[c].error THEN UNCHANGED <<core, unsaved>> ELSE SwapCore(CoreOf(c))
        /\ running' = ~call[c].error
        /\ TookEffect(c)
  /\ UNCHANGED quiet

RunStop(c) ==
  /\ Return(c)
  /\ SwapCore(NoCore)
  /\ running' = FALSE
  /\ TookEffect(c)
  /\ UNCHANGED <<bootLock, quiet>>

RunFlush(c) ==
  /\ Return(c)
  /\ unsaved' = FALSE
  /\ quiet' = (paused /\ ~frameStep)
  /\ UNCHANGED <<bootLock, core, running, answered>>

RunCommand ==
  /\ loop = "running"
  /\ todo # << >>
  /\ todo' = Tail(todo)
  /\ LET c == Head(todo).by
     IN \/ Head(todo).do = "load" /\ RunLoad(c)
        \/ Head(todo).do = "prepare" /\ RunPrepare(c)
        \/ Head(todo).do = "install" /\ RunInstall(c)
        \/ Head(todo).do = "stop" /\ RunStop(c)
        \/ Head(todo).do = "flush" /\ RunFlush(c)
  /\ UNCHANGED <<commands, generation, switchVars, loop, requests>>

-----------------------------------------------------------------------------
(* The emulation thread: frames                                             *)

\* Slip: whether the game is paused was looked at before the commands ran.
DecideEarly ==
  /\ loop = "running"
  /\ todo = << >>
  /\ loop' = IF running /\ core # NoCore THEN IF frameStep THEN "stepping" ELSE "playing" ELSE "commands"
  /\ UNCHANGED <<todo, callerVars, consoleVars, switchVars, historyVars>>

\* ThreadMain looks at its switches once.
Decide ==
  /\ loop = "running"
  /\ todo = << >>
  /\ LET active == running /\ core # NoCore /\ (~paused \/ frameStep)
     IN loop' = IF ~active THEN "commands" ELSE IF frameStep THEN "stepping" ELSE "playing"
  /\ UNCHANGED <<todo, callerVars, consoleVars, switchVars, historyVars>>

\* Frames, or a step back: the game may write its save, CheckFlush may write it
\* to the disk, and the console may switch itself off (OnCoreStopped).
PlayFrame ==
  /\ loop \in {"playing", "stepping"}
  /\ loop' = "commands"
  /\ unsaved' \in BOOLEAN
  /\ running' \in {running, FALSE}
  /\ frameStep' = IF loop = "stepping" /\ ~rewinding THEN FALSE ELSE frameStep
  /\ UNCHANGED <<callerVars, core, paused, rewinding, todo, historyVars>>

Emulation == TakeCommands \/ RunCommand \/ Decide \/ PlayFrame

\* What a caller does once it has begun.
GoOn(c) == NextGeneration(c) \/ TakeBootLock(c) \/ PostNext(c) \/ Boot(c)

Next ==
  \/ \E c \in Callers : \/ \E g \in OtherGames : LoadGame(c, g)
                        \/ \E g \in ThreeDsGames : LoadThreeDs(c, g)
                        \/ Stop(c) \/ Pause(c) \/ GoOn(c)
  \/ Start \/ FrameAdvance \/ \E active \in BOOLEAN : SetRewinding(active)
  \/ Emulation

Spec == Init /\ [][Next]_vars

\* The emulation thread never rests, callers go on with what they have begun,
\* and a boot ends; nothing is assumed of the player.
FairSpec == Spec /\ WF_vars(Emulation) /\ \A c \in Callers : WF_vars(GoOn(c))

-----------------------------------------------------------------------------
(* Properties                                                               *)

IsThreeDs == core # NoCore /\ core.game \in ThreeDsGames

\* The 3DS engine is one global instance (EmuSession.cpp:287): at no time are
\* there two ThreeDsCore objects, installed or on their way, whoever loads what.
OneEngine == Cardinality({c \in Callers : call[c].next}) + (IF IsThreeDs THEN 1 ELSE 0) <= 1

\* A 3DS game is not there any more, and is not installed, once something that
\* took its generation later has taken effect and returned (EmuSession.h:175).
SupersededNeverInstalled == IsThreeDs => core.generation >= answered

\* When SetPaused(true) has returned and nobody lets the game go on, what the
\* game wrote has been flushed and no frame writes more ("save right away",
\* EmuSession.cpp:386).
PausedMeansFlushed == quiet => ~unsaved

InCall(c) == call[c].at # "idle"

\* Every call comes back, through the boot lock and two commands if need be.
EveryCallReturns == \A c \in Callers : InCall(c) ~> ~InCall(c)
=============================================================================
