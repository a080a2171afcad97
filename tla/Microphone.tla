----------------------------- MODULE Microphone -----------------------------
(***************************************************************************)
(* The phone's microphone (AudioEngine.cpp): the emulation thread opens and  *)
(* closes it as the game does (EmuSession::OnMicStart, OnMicStop), the UI      *)
(* thread allows or forbids it when the request reaches it                       *)
(* (EmulationActivity.onMicRequest) or the permission dialog is answered.         *)
(* Both use micLock, but not for the whole of an operation: SetMicAllowed           *)
(* decides under the lock and acts after it, and a stream is stopped and              *)
(* closed after it was taken out under the lock.                                       *)
(*                                                                                     *)
(* The console's microphone is external: the game, or a state that is loaded,           *)
(* starts it, also when it was on, and stops it; and a game that ends is closed          *)
(* without a word to the microphone.                                                       *)
(***************************************************************************)
EXTENDS Naturals

CONSTANT MaxRequests   \* bound: requests on their way to the UI thread

VARIABLES
  listening,  \* the game has its microphone open
  emulation,  \* the emulation thread: "idle", "starting" or "closing"
  allowed,    \* micAllowed
  wanted,     \* micWanted
  stream,     \* micStream is there
  failed,     \* history: opening failed since the game last asked
  interface,  \* the UI thread: "idle", "starting", "stopping" or "closing"
  requests,   \* onMicRequest runnables posted to the UI thread
  mode,       \* audio.micMode is 0: the phone's microphone
  permission  \* RECORD_AUDIO: "unasked", "asked", "granted" or "denied"

engineVars == <<allowed, wanted, stream, failed>>
uiVars     == <<interface, requests, mode, permission>>
vars == <<listening, emulation, engineVars, uiVars>>

Init ==
  /\ listening = FALSE
  /\ emulation = "idle"
  /\ allowed = FALSE /\ wanted = FALSE /\ stream = FALSE /\ failed = FALSE
  /\ interface = "idle"
  /\ requests = 0
  /\ mode \in BOOLEAN
  /\ permission \in {"unasked", "granted"}

-----------------------------------------------------------------------------
(* AudioEngine                                                              *)

\* Oboe opens the stream, or cannot.
OpenStream ==
  \/ stream' = TRUE /\ UNCHANGED failed
  \/ failed' = TRUE /\ UNCHANGED stream

\* StartMic, all of it under micLock.
StartMic ==
  /\ wanted' = TRUE
  /\ \/ (stream \/ ~allowed) /\ UNCHANGED <<stream, failed>>
     \/ ~stream /\ allowed /\ OpenStream
  /\ UNCHANGED allowed

\* The locked part of StopMic; the stream it took out is closed after it.
StopMic ==
  /\ wanted' = FALSE
  /\ stream' = FALSE
  /\ UNCHANGED <<allowed, failed>>

AfterStop == IF stream THEN "closing" ELSE "idle"

\* Slip: a microphone that is allowed waits for the game to ask again.
SetMicAllowedNoStart(yes) ==
  /\ allowed' = yes
  /\ interface' = IF yes THEN "idle" ELSE "stopping"
  /\ UNCHANGED <<wanted, stream, failed>>

\* SetMicAllowed decides here, and acts in InterfaceStart or InterfaceStop.
SetMicAllowed(yes) ==
  /\ allowed' = yes
  /\ interface' = IF ~yes THEN "stopping" ELSE IF wanted /\ ~stream THEN "starting" ELSE "idle"
  /\ UNCHANGED <<wanted, stream, failed>>

-----------------------------------------------------------------------------
(* The emulation thread                                                     *)

\* EmuSession::OnMicStart: the activity is asked first, then the microphone opened.
OnMicStart ==
  /\ emulation = "idle"
  /\ requests < MaxRequests
  /\ listening' = TRUE
  /\ requests' = requests + 1
  /\ emulation' = "starting"
  /\ failed' = FALSE
  /\ UNCHANGED <<allowed, wanted, stream, interface, mode, permission>>

EmulationStart ==
  /\ emulation = "starting"
  /\ StartMic
  /\ emulation' = "idle"
  /\ UNCHANGED <<listening, uiVars>>

\* EmuSession::OnMicStop; and SwapCore, when a game ends.
OnMicStop ==
  /\ emulation = "idle"
  /\ listening' = FALSE
  /\ StopMic
  /\ emulation' = AfterStop
  /\ UNCHANGED uiVars

EmulationClose ==
  /\ emulation = "closing"
  /\ emulation' = "idle"
  /\ UNCHANGED <<listening, engineVars, uiVars>>

-----------------------------------------------------------------------------
(* The UI thread                                                            *)

\* EmulationActivity.onMicRequest, the part that runs on the UI thread.
HandleRequest ==
  /\ interface = "idle"
  /\ requests > 0
  /\ requests' = requests - 1
  /\ \/ ~mode /\ SetMicAllowed(FALSE) /\ UNCHANGED permission
     \/ mode /\ permission = "granted" /\ SetMicAllowed(TRUE) /\ UNCHANGED permission
     \/ mode /\ permission = "unasked" /\ permission' = "asked" /\ UNCHANGED <<engineVars, interface>>
     \/ mode /\ permission \in {"asked", "denied"} /\ UNCHANGED <<engineVars, interface, permission>>
  /\ UNCHANGED <<listening, emulation, mode>>

\* The permission dialog is answered.
AnswerPermission ==
  /\ interface = "idle"
  /\ permission = "asked"
  /\ \E yes \in BOOLEAN : /\ permission' = IF yes THEN "granted" ELSE "denied"
                          /\ SetMicAllowed(yes)
  /\ UNCHANGED <<listening, emulation, requests, mode>>

InterfaceStart ==
  /\ interface = "starting"
  /\ StartMic
  /\ interface' = "idle"
  /\ UNCHANGED <<listening, emulation, requests, mode, permission>>

InterfaceStop ==
  /\ interface = "stopping"
  /\ StopMic
  /\ interface' = AfterStop
  /\ UNCHANGED <<listening, emulation, requests, mode, permission>>

InterfaceClose ==
  /\ interface = "closing"
  /\ interface' = "idle"
  /\ UNCHANGED <<listening, emulation, engineVars, requests, mode, permission>>

\* The player changes the setting.
ChangeMode ==
  /\ interface = "idle"
  /\ mode' = ~mode
  /\ UNCHANGED <<listening, emulation, engineVars, interface, requests, permission>>

EmulationFinishes == EmulationStart \/ EmulationClose

Interface == HandleRequest \/ InterfaceStart \/ InterfaceStop \/ InterfaceClose

Next == OnMicStart \/ OnMicStop \/ EmulationFinishes \/ Interface \/ AnswerPermission \/ ChangeMode

Spec == Init /\ [][Next]_vars

\* Both threads go on with what they have begun, and the UI thread runs what was
\* posted to it.  What the game and the player do is up to them.
FairSpec == Spec /\ WF_vars(EmulationFinishes) /\ WF_vars(Interface)

-----------------------------------------------------------------------------

\* Once SetMicAllowed(false) has returned the microphone is closed, and nothing
\* opens it until it is allowed again: the thread it races with looks at
\* micAllowed under the same lock (AudioEngine::StartMic).
ForbiddenIsClosed == interface # "stopping" /\ ~allowed => ~stream

LeftAlone == mode
ToBeHeard == listening /\ permission = "granted" /\ ~stream /\ ~failed

\* For a player who leaves the setting alone, a game that goes on listening is
\* heard unless opening fails, in whatever order the request, the permission and
\* the game's own calls arrive (AudioEngine::SetMicAllowed,
\* EmulationActivity.onMicRequest).
EventuallyHeard == []LeftAlone => (ToBeHeard ~> ~ToBeHeard)

\* "The phone microphone, opened only while a game is actually listening"
\* (AudioEngine.h:15): when neither thread is in the middle of anything and the
\* game does not listen, the microphone is closed.
OpenOnlyWhileListening == emulation = "idle" /\ interface = "idle" /\ ~listening => ~stream
=============================================================================
