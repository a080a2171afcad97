---------------------------- MODULE AudioOutput ----------------------------
(***************************************************************************)
(* Audio output (AudioEngine.cpp) and the emulation thread that drives it      *)
(* (EmuSession.cpp): the audio thread pulls samples from the core through the    *)
(* source pointer, the device may take the stream away at any time, and the core   *)
(* is replaced while all that goes on.                                              *)
(*                                                                                   *)
(* Cores and streams are numbered as they are made, 0 is none.  outLock covers whole *)
(* operations, which are one step each; sourceLock is held while a core is read.      *)
(***************************************************************************)
EXTENDS Naturals

CONSTANTS
  MaxCores,    \* bound: cores loaded
  MaxStreams   \* bound: streams opened

VARIABLES
  core,       \* the core, and the emulation thread's step in SwapCore
  swap,
  cores,      \* the cores made so far
  alive,      \* the cores not shut down
  source,     \* what the audio thread reads from
  reading,    \* the core it is reading, under sourceLock
  running, paused,
  wasActive,
  outStream,
  streams,    \* the streams made so far
  playing,    \* the streams that call back
  lost,       \* streams taken away, whose error callback is still to come
  wanted      \* history: the emulation thread last asked for the output, or gave it up

coreVars   == <<core, swap, cores, alive, source>>
switchVars == <<running, paused, wasActive>>
streamVars == <<outStream, streams, playing, lost, wanted>>
vars == <<coreVars, reading, switchVars, streamVars>>

-----------------------------------------------------------------------------
(* The stream                                                               *)

\* It may fail to open or to start.
OpenOutput ==
  /\ streams < MaxStreams
  /\ \E opened \in BOOLEAN :
       /\ outStream' = IF opened THEN streams + 1 ELSE 0
       /\ playing' = IF opened THEN playing \cup {streams + 1} ELSE playing
       /\ streams' = streams + 1

StartOutput ==
  /\ wanted' = TRUE
  /\ IF outStream # 0 THEN UNCHANGED <<outStream, streams, playing>> ELSE OpenOutput
  /\ UNCHANGED lost

StopOutput ==
  /\ wanted' = FALSE
  /\ playing' = playing \ {outStream}
  /\ outStream' = 0
  /\ UNCHANGED <<streams, lost>>

\* The device goes away, headphones are plugged in: the stream is closed and the
\* error callback is started on a thread of its own.
Disconnect(s) ==
  /\ s \in playing
  /\ playing' = playing \ {s}
  /\ lost' = lost \cup {s}
  /\ UNCHANGED <<coreVars, reading, switchVars, outStream, streams, wanted>>

\* Slip: whatever stream was lost, another is opened.
ReopenAny(s) ==
  /\ s \in lost
  /\ lost' = lost \ {s}
  /\ OpenOutput
  /\ UNCHANGED <<coreVars, reading, switchVars, wanted>>

\* onErrorAfterClose
Reopen(s) ==
  /\ s \in lost
  /\ lost' = lost \ {s}
  /\ IF s = outStream THEN OpenOutput ELSE UNCHANGED <<outStream, streams, playing>>
  /\ UNCHANGED <<coreVars, reading, switchVars, wanted>>

-----------------------------------------------------------------------------
(* The audio thread                                                         *)

BeginRead ==
  /\ playing # {} /\ reading = 0 /\ source # 0
  /\ reading' = source
  /\ UNCHANGED <<coreVars, switchVars, streamVars>>

EndRead ==
  /\ reading # 0
  /\ reading' = 0
  /\ UNCHANGED <<coreVars, switchVars, streamVars>>

\* SetSource, which waits for sourceLock.
SetSource(c) ==
  /\ reading = 0
  /\ source' = c

-----------------------------------------------------------------------------
(* The emulation thread and its callers                                     *)

Init ==
  /\ core = 0 /\ swap = "none" /\ cores = 0 /\ alive = {} /\ source = 0
  /\ reading = 0
  /\ running = FALSE /\ paused = TRUE /\ wasActive = FALSE
  /\ \/ outStream = 1 /\ playing = {1}     \* ThreadMain opens it first
     \/ outStream = 0 /\ playing = {}
  /\ streams = 1 /\ lost = {} /\ wanted = TRUE

\* SwapCore, and the load that follows it.
SwapCore ==
  /\ \/ /\ swap = "none" /\ cores < MaxCores
        /\ running' = FALSE
        /\ SetSource(0)
        /\ swap' = "detached"
        /\ UNCHANGED <<core, cores, alive>>
     \/ /\ swap = "detached"
        /\ alive' = alive \ {core}
        /\ \/ core' = 0 /\ UNCHANGED cores
           \/ core' = cores + 1 /\ cores' = cores + 1
        /\ swap' = "gone"
        /\ UNCHANGED <<source, running>>
     \/ /\ swap = "gone"
        /\ alive' = alive \cup ({core} \ {0})
        /\ SetSource(core)
        /\ running' = (core # 0)
        /\ swap' = "none"
        /\ UNCHANGED <<core, cores>>
  /\ UNCHANGED <<reading, paused, wasActive, streamVars>>

\* The loop starts or stops the output where the game starts or stops.
Loop ==
  LET active == running /\ core # 0 /\ ~paused
  IN /\ swap = "none"
     /\ active # wasActive
     /\ wasActive' = active
     /\ \/ active /\ StartOutput
        \/ ~active /\ paused /\ StopOutput
        \/ ~active /\ ~paused /\ UNCHANGED streamVars
     /\ UNCHANGED <<coreVars, reading, running, paused>>

\* Start, SetPaused, and the console that switches itself off.
Switch ==
  /\ \/ paused' = ~paused /\ UNCHANGED running
     \/ swap = "none" /\ running' = FALSE /\ UNCHANGED paused
  /\ UNCHANGED <<coreVars, reading, wasActive, streamVars>>

Next ==
  \/ SwapCore \/ Loop \/ Switch
  \/ BeginRead \/ EndRead
  \/ \E s \in playing : Disconnect(s)
  \/ \E s \in lost : Reopen(s)

Spec == Init /\ [][Next]_vars

-----------------------------------------------------------------------------
(* Properties                                                               *)

\* The audio thread never reads a core that is being replaced
\* (EmuSession.cpp:211), and hears at most one stream: the one that the emulation
\* thread asked for, not one reopened after it was given up (AudioEngine.cpp:182).
SourceIsAlive == reading # 0 => reading \in alive
OneStream == playing \subseteq {outStream} \ {0} /\ (~wanted => playing = {})

ReadsAndPlaysOne == SourceIsAlive /\ OneStream
=============================================================================
