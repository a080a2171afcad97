----------------------------- MODULE SaveStates -----------------------------
(***************************************************************************)
(* Save states (EmuSession.cpp): a save keeps the file it replaces, and a load *)
(* keeps the console it replaces, so that either can be undone.  Saves and loads *)
(* run on the emulation thread between frames; undoing a save renames files on    *)
(* the interface's thread, whatever the other one does.                            *)
(*                                                                                  *)
(* One slot per game is modelled.  A state is the number of the moment it was made  *)
(* at, 0 where there is none.  WriteFileAtomic is one step here (see AtomicFile),   *)
(* and a rename within the directory does not fail.                                  *)
(***************************************************************************)
EXTENDS Naturals

CONSTANTS
  Games,       \* the games with a slot
  NoGame,
  MaxMoments   \* bound: the moments of play that are told apart

Moments == 1 .. MaxMoments

VARIABLES
  console,    \* the game that runs and its moment
  made,       \* the moments reached so far
  slot,       \* the file of each game's slot
  undo,       \* the same with ".undo"
  save,       \* the call of SaveState: where it is, its game and state, how it went
  loadUndo,   \* undoLoadBackup, with the game it is a state of
  lastSaved,  \* lastSavedSlot of the interface: the slot, or not
  kept,       \* history: the last save that succeeded or was brought back, as the player
              \* was told if the process lived on
  raced       \* history: then a save and an undo met

files == <<slot, undo>>
playerVars == <<lastSaved, kept, raced>>
vars == <<console, made, files, save, loadUndo, playerVars>>

NoSave == [at |-> "idle", game |-> NoGame, state |-> 0, ok |-> FALSE, raced |-> FALSE]
NoBackup == [game |-> NoGame, moment |-> 0]

Init ==
  /\ console = NoBackup
  /\ made = 0
  /\ slot = [g \in Games |-> 0] /\ undo = [g \in Games |-> 0]
  /\ save = NoSave
  /\ loadUndo = NoBackup
  /\ lastSaved = FALSE
  /\ kept = [g \in Games |-> 0] /\ raced = [g \in Games |-> FALSE]

\* The emulation thread is not inside SaveState.
Free == save.at \in {"idle", "answered"}

-----------------------------------------------------------------------------
(* The emulation thread                                                     *)

NewMoment(g) ==
  /\ made < MaxMoments
  /\ made' = made + 1
  /\ console' = [game |-> g, moment |-> made + 1]

\* undoLoadBackup.clear()
SwapCore == loadUndo' = NoBackup

\* Another game, with its own screen; the game before has no call left.
LoadGame(g) ==
  /\ save.at = "idle"
  /\ NewMoment(g)
  /\ SwapCore
  /\ lastSaved' = FALSE
  /\ UNCHANGED <<files, save, kept, raced>>

Play ==
  /\ Free /\ console.game # NoGame
  /\ NewMoment(console.game)
  /\ UNCHANGED <<files, save, loadUndo, playerVars>>

\* Slip: the file is removed.
ReplaceOnly(g) ==
  /\ slot' = [slot EXCEPT ![g] = 0]
  /\ UNCHANGED undo

\* The file in the slot becomes the undo file.
KeepReplaced(g) ==
  /\ undo' = [undo EXCEPT ![g] = IF slot[g] # 0 THEN slot[g] ELSE @]
  /\ slot' = [slot EXCEPT ![g] = 0]

\* core->SaveState may fail.
SaveState ==
  /\ save.at = "idle" /\ console.game # NoGame
  /\ \/ /\ save' = [NoSave EXCEPT !.at = "answered", !.game = console.game]
        /\ UNCHANGED files
     \/ /\ save' = [NoSave EXCEPT !.at = "writing", !.game = console.game, !.state = console.moment]
        /\ KeepReplaced(console.game)
  /\ UNCHANGED <<console, made, loadUndo, playerVars>>

WriteState ==
  /\ save.at = "writing"
  /\ \E ok \in BOOLEAN :
       /\ save' = [save EXCEPT !.at = "answered", !.ok = ok]
       /\ slot' = IF ok THEN [slot EXCEPT ![save.game] = save.state] ELSE slot
  /\ UNCHANGED <<console, made, undo, loadUndo, playerVars>>

\* A state that does not load is followed by the one taken before it, and keeps
\* nothing.
LoadState ==
  /\ Free /\ console.game # NoGame /\ slot[console.game] # 0
  /\ \/ UNCHANGED <<console, loadUndo>>
     \/ /\ loadUndo' = console
        /\ console' = [console EXCEPT !.moment = slot[console.game]]
  /\ UNCHANGED <<made, files, save, playerVars>>

UndoLoadState ==
  /\ Free /\ console.game # NoGame /\ loadUndo # NoBackup
  /\ console' \in {console, [console EXCEPT !.moment = loadUndo.moment]}
  /\ loadUndo' = NoBackup
  /\ UNCHANGED <<made, files, save, playerVars>>

-----------------------------------------------------------------------------
(* The interface                                                            *)

\* How the save went counts from now on.
Settle ==
  /\ kept' = IF save.ok THEN [kept EXCEPT ![save.game] = save.state] ELSE kept
  /\ raced' = IF save.ok THEN [raced EXCEPT ![save.game] = save.raced] ELSE raced

\* The coroutine of saveState goes on.
Told ==
  /\ save.at = "answered"
  /\ save' = NoSave
  /\ lastSaved' = save.ok
  /\ Settle
  /\ UNCHANGED <<console, made, files, loadUndo>>

\* undoSave; nativeUndoSaveState renames at once.
UndoSaveState ==
  /\ lastSaved
  /\ LET g == console.game
         back == undo[g] # 0
     IN /\ slot' = [slot EXCEPT ![g] = IF back THEN undo[g] ELSE @]
        /\ undo' = [undo EXCEPT ![g] = 0]
        /\ kept' = [kept EXCEPT ![g] = IF back THEN undo[g] ELSE @]
        /\ raced' = [raced EXCEPT ![g] = save.at # "idle" \/ (@ /\ ~back)]
  /\ save' = [save EXCEPT !.raced = save.at # "idle"]
  /\ lastSaved' = FALSE
  /\ UNCHANGED <<console, made, loadUndo>>

\* Android ends the process.
Kill ==
  /\ console' = NoBackup /\ save' = NoSave /\ loadUndo' = NoBackup /\ lastSaved' = FALSE
  /\ Settle
  /\ UNCHANGED <<made, files>>

Next ==
  \/ \E g \in Games : LoadGame(g)
  \/ Play \/ SaveState \/ WriteState \/ LoadState \/ UndoLoadState
  \/ Told \/ UndoSaveState \/ Kill

Spec == Init /\ [][Next]_vars

-----------------------------------------------------------------------------
(* Properties                                                               *)

\* The last save that succeeded, or that an undo brought back, is a file, whatever
\* failed since and wherever the process was killed, unless a save was undone
\* while the next was written (EmuSession.cpp:582).
SavedIsKept ==
  \A g \in Games : kept[g] # 0 /\ ~raced[g] => kept[g] \in {slot[g], undo[g]}

\* "Keep the file being replaced so "undo save state" can restore it"
\* (EmuSession.cpp:582): once the player knows how the save went, the one it
\* replaced is in the slot or can be brought back there.
ReplacedCanComeBack ==
  \A g \in Games :
    (console.game = g /\ save.at = "idle" /\ kept[g] # 0 /\ ~raced[g])
      => kept[g] = slot[g] \/ (kept[g] = undo[g] /\ lastSaved)

\* What undoing a load would put into the console is a state of the game that
\* runs (EmuSession.cpp:225).
BackupFitsTheGame == loadUndo # NoBackup => loadUndo.game = console.game
=============================================================================
