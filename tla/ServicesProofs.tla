--------------------------- MODULE ServicesProofs ---------------------------
(***************************************************************************)
(* Proofs about the session's services, for any constants.  Each part has its   *)
(* inductive invariant, proved for its own steps, and its theorems, which are      *)
(* about SpecAll: a behaviour of one part, while the others rest.                   *)
(***************************************************************************)
EXTENDS Services, SequenceTheorems, FiniteSetTheorems, WellFoundedInduction, TLAPS

\* The part that runs remains the one that runs, and takes its own steps.
LEMMA StepOfOne ==
  ASSUME [NextAll]_all
  PROVE  /\ component' = component
         /\ component = "Calls"  => [Calls!Next]_CallsVars
         /\ component = "Io"     => [Io!Next]_IoVars
         /\ component = "Atomic" => [Atomic!Next]_AtomicVars
         /\ component = "Mic"    => [Mic!Next]_MicVars
         /\ component = "Audio"  => [Audio!Next]_AudioVars
         /\ component = "Ring"   => [Ring!Next]_RingVars
         /\ component = "Saved"  => [Saved!Next]_SavedVars
         /\ component = "Gba"    => [Gba!Next]_GbaVars
         /\ component = "Engine" => [Engine!Next]_EngineVars
<1>1. CASE UNCHANGED all
  BY <1>1 DEF all
<1>2. CASE NextAll
  BY <1>2 DEF NextAll, OthersRest
<1>. QED
  BY <1>1, <1>2

\* And so it began.
LEMMA BeginningOfOne ==
  ASSUME InitAll
  PROVE  /\ component = "Calls"  => Calls!Init
         /\ component = "Io"     => Io!Init
         /\ component = "Atomic" => Atomic!Init
         /\ component = "Mic"    => Mic!Init
         /\ component = "Audio"  => Audio!Init
         /\ component = "Ring"   => Ring!Init
         /\ component = "Saved"  => Saved!Init
         /\ component = "Gba"    => Gba!Init
         /\ component = "Engine" => Engine!Init
BY DEF InitAll

-----------------------------------------------------------------------------
(* The session and its callers                                              *)

-----------------------------------------------------------------------------
(* The inductive invariant                                                  *)

CallPlaces == {"idle", "loading", "load", "locking", "locked", "prepare", "booting", "install",
           "stopping", "stop", "waiting"}
CallStates == [at : CallPlaces, game : Calls!AllGames \cup {NoCore}, generation : Nat, error : BOOLEAN,
          next : BOOLEAN]
Entries == [do : {"load", "prepare", "install", "stop", "flush"}, by : Callers]

\* The commands still to be run, next one first.
CommandLine == todo \o commands

CallTypes ==
  /\ call \in [Callers -> CallStates]
  /\ commands \in Seq(Entries) /\ todo \in Seq(Entries)
  /\ generation \in Nat /\ requests \in Nat
  /\ answered \in Nat

\* Whose command is in the line waits for it, and has no other there.
LineInv ==
  /\ loop # "running" => todo = << >>
  /\ \A i \in 1 .. Len(CommandLine) : call[CommandLine[i].by].at = "waiting"
  /\ \A i, j \in 1 .. Len(CommandLine) : CommandLine[i].by = CommandLine[j].by => i = j

\* From taking the lock to its second command, a 3DS load is the lock's owner, with a
\* core of its own after the first; DS and GBA games are loaded by the others.
LockInv ==
  /\ \A c \in Callers : call[c].at \in {"locked", "prepare", "booting", "install"} => bootLock = c
  /\ \A i \in 1 .. Len(CommandLine) : CommandLine[i].do \in {"prepare", "install"} => bootLock = CommandLine[i].by
  /\ \A c \in Callers : call[c].at \in {"loading", "load"} => call[c].game \in OtherGames
  /\ \A i \in 1 .. Len(CommandLine) : CommandLine[i].do = "load" => call[CommandLine[i].by].game \in OtherGames
  /\ \A c \in Callers : call[c].at \in {"booting", "install"} => call[c].next
  /\ \A i \in 1 .. Len(CommandLine) : CommandLine[i].do = "install" => call[CommandLine[i].by].next

\* While a core is on its way, its load has the lock and no 3DS core is installed.
EngineInv == \A c \in Callers : call[c].next => bootLock = c /\ ~Calls!IsThreeDs

\* No generation is ahead of the session's own.
GenerationInv ==
  /\ \A c \in Callers : call[c].generation <= generation
  /\ answered <= generation
  /\ Calls!SupersededNeverInstalled

\* A quiet session runs no frame.
PauseInv == quiet => paused /\ ~frameStep /\ loop \notin {"playing", "stepping"} /\ ~unsaved

LineFacts == CallTypes /\ LineInv /\ LockInv

-----------------------------------------------------------------------------
(* The line                                                                 *)

\* A command queued goes to its end.
LEMMA LineAppend ==
  ASSUME todo \in Seq(Entries), commands \in Seq(Entries), NEW e \in Entries,
         commands' = Append(commands, e), UNCHANGED todo
  PROVE  /\ Len(CommandLine') = Len(CommandLine) + 1 /\ Len(CommandLine) \in Nat
         /\ \A i \in 1 .. Len(CommandLine) : CommandLine'[i] = CommandLine[i]
         /\ CommandLine'[Len(CommandLine) + 1] = e
  BY DEF CommandLine

\* The command run was its first.
LEMMA LineTail ==
  ASSUME todo \in Seq(Entries), commands \in Seq(Entries), todo # << >>,
         todo' = Tail(todo), UNCHANGED commands
  PROVE  /\ Len(CommandLine) = Len(CommandLine') + 1 /\ Len(CommandLine') \in Nat
         /\ \A i \in 1 .. Len(CommandLine') : CommandLine'[i] = CommandLine[i + 1]
         /\ CommandLine[1] = Head(todo)
  BY DEF CommandLine

\* RunCommands moves it.
LEMMA LineMoved ==
  ASSUME todo = << >>, commands \in Seq(Entries), todo' = commands, commands' = << >>
  PROVE  CommandLine' = CommandLine
  BY DEF CommandLine

-----------------------------------------------------------------------------
(* Types, the line and the lock                                             *)

LEMMA FactsInit ==
  ASSUME Calls!CallersAssumption, Calls!Init
  PROVE  LineFacts
<1>1. CommandLine = << >>
  BY DEF Calls!Init, CommandLine
<1>2. Calls!NoCall \in CallStates /\ Calls!NoCall.at = "idle"
  BY DEF Calls!NoCall, CallStates, CallPlaces
<1>3. CallTypes
  BY <1>2 DEF Calls!Init, CallTypes
<1>4. \A c \in Callers : call[c].at = "idle"
  BY <1>2 DEF Calls!Init
<1>5. LineInv /\ LockInv
  BY <1>1, <1>4 DEF Calls!Init, LineInv, LockInv
<1>. QED
  BY <1>3, <1>5 DEF LineFacts

\* A caller that goes on by itself is not one that waits.
LEMMA CallerKeepsFacts ==
  ASSUME Calls!CallersAssumption, LineFacts, NEW c \in Callers, NEW k \in CallStates,
         call[c].at # "waiting", k.at # "waiting", call' = [call EXCEPT ![c] = k],
         k.at \in {"locked", "prepare", "booting", "install"} => bootLock' = c,
         k.at \in {"loading", "load"} => k.game \in OtherGames,
         k.at \in {"booting", "install"} => k.next,
         bootLock' = bootLock \/ bootLock = Nobody,
         generation' \in Nat, requests' \in Nat,
         UNCHANGED <<commands, Calls!loopVars, answered>>
  PROVE  LineFacts'
<1>1. CallTypes'
  BY DEF LineFacts, CallTypes, Calls!loopVars
<1>2. CommandLine' = CommandLine
  BY DEF CommandLine, Calls!loopVars
<1>3. \A i \in 1 .. Len(CommandLine) : CommandLine[i].by # c /\ CommandLine[i].by \in Callers
  <2>1. CommandLine \in Seq(Entries)
    BY DEF LineFacts, CallTypes, CommandLine
  <2>2. \A i \in 1 .. Len(CommandLine) : CommandLine[i] \in Entries
    BY <2>1
  <2>. QED
    BY <2>2 DEF LineFacts, LineInv, Entries
<1>4. \A d \in Callers : call'[d] = IF d = c THEN k ELSE call[d]
  BY DEF LineFacts, CallTypes
<1>5. LineInv'
  BY <1>2, <1>3, <1>4 DEF LineFacts, LineInv, Calls!loopVars
<1>6. bootLock = Nobody => \A d \in Callers : bootLock # d
  BY DEF Calls!CallersAssumption
<1>7. LockInv'
  BY <1>2, <1>3, <1>4, <1>6 DEF LineFacts, LockInv
<1>. QED
  BY <1>1, <1>5, <1>7 DEF LineFacts

\* A caller that queues its command waits.
LEMMA PostKeepsFacts ==
  ASSUME LineFacts, NEW c \in Callers, NEW what \in {"load", "prepare", "install", "stop", "flush"},
         call[c].at # "waiting", Calls!Post(c, what), call' = [call EXCEPT ![c].at = "waiting"],
         what \in {"prepare", "install"} => bootLock = c,
         what = "load" => call[c].game \in OtherGames,
         what = "install" => call[c].next,
         UNCHANGED <<generation, bootLock, Calls!loopVars, requests, answered>>
  PROVE  LineFacts'
<1>. DEFINE e == [do |-> what, by |-> c]
<1>1. e \in Entries
  BY DEF Entries
<1>2. CallTypes'
  <2>1. call' \in [Callers -> CallStates]
    <3>1. call \in [Callers -> CallStates]
      BY DEF LineFacts, CallTypes
    <3>2. [call[c] EXCEPT !.at = "waiting"] \in CallStates
      BY <3>1 DEF CallStates, CallPlaces
    <3>. QED
      BY <3>1, <3>2
  <2>2. commands' \in Seq(Entries)
    BY <1>1 DEF LineFacts, CallTypes, Calls!Post
  <2>. QED
    BY <2>1, <2>2 DEF LineFacts, CallTypes, Calls!loopVars
<1>3. /\ Len(CommandLine') = Len(CommandLine) + 1 /\ Len(CommandLine) \in Nat
      /\ \A i \in 1 .. Len(CommandLine) : CommandLine'[i] = CommandLine[i]
      /\ CommandLine'[Len(CommandLine) + 1] = e
  BY <1>1, LineAppend DEF LineFacts, CallTypes, Calls!Post, Calls!loopVars
<1>4. \A i \in 1 .. Len(CommandLine) : CommandLine[i].by # c /\ CommandLine[i].by \in Callers
  <2>1. CommandLine \in Seq(Entries)
    BY DEF LineFacts, CallTypes, CommandLine
  <2>2. \A i \in 1 .. Len(CommandLine) : CommandLine[i] \in Entries
    BY <2>1
  <2>. QED
    BY <2>2 DEF LineFacts, LineInv, Entries
<1>5. /\ \A d \in Callers : d # c => call'[d] = call[d]
      /\ call'[c].at = "waiting" /\ call'[c].game = call[c].game /\ (call[c].next => call'[c].next)
  BY DEF LineFacts, CallTypes, CallStates
<1>6. e.by = c /\ e.do = what
  OBVIOUS
<1>7. \A i \in 1 .. Len(CommandLine') : i \in 1 .. Len(CommandLine) \/ i = Len(CommandLine) + 1
  BY <1>3
<1>. HIDE DEF e
<1>8. LineInv'
  BY <1>3, <1>4, <1>5, <1>6, <1>7 DEF LineFacts, LineInv, Calls!loopVars
<1>9. LockInv'
  BY <1>3, <1>4, <1>5, <1>6, <1>7 DEF LineFacts, LockInv
<1>. QED
  BY <1>2, <1>8, <1>9 DEF LineFacts

\* Who ran a command has none left in the line; only its owner gives the lock back.
LEMMA RunKeepsFacts ==
  ASSUME Calls!CallersAssumption, LineFacts, NEW c \in Callers, NEW k \in CallStates,
         loop = "running", todo # << >>, todo' = Tail(todo), c = Head(todo).by,
         call' = [call EXCEPT ![c] = k],
         \/ k.at = "idle" /\ (bootLock' = bootLock \/ bootLock = c)
         \/ k.at \in {"booting", "install"} /\ bootLock' = bootLock /\ bootLock = c /\ k.next,
         answered' \in Nat,
         UNCHANGED <<commands, generation, loop, requests>>
  PROVE  LineFacts'
<1>1. CallTypes'
  BY DEF LineFacts, CallTypes
<1>2. /\ Len(CommandLine) = Len(CommandLine') + 1 /\ Len(CommandLine') \in Nat
      /\ \A i \in 1 .. Len(CommandLine') : CommandLine'[i] = CommandLine[i + 1]
      /\ CommandLine[1] = Head(todo)
  BY LineTail DEF LineFacts, CallTypes
<1>3. \A i \in 1 .. Len(CommandLine) : CommandLine[i].by \in Callers
  <2>1. CommandLine \in Seq(Entries)
    BY DEF LineFacts, CallTypes, CommandLine
  <2>2. \A i \in 1 .. Len(CommandLine) : CommandLine[i] \in Entries
    BY <2>1
  <2>. QED
    BY <2>2 DEF Entries
<1>4. \A i \in 1 .. Len(CommandLine') : i + 1 \in 1 .. Len(CommandLine) /\ CommandLine'[i].by # c /\ CommandLine'[i].by \in Callers
  <2>1. ASSUME NEW i \in 1 .. Len(CommandLine')
        PROVE  i + 1 \in 1 .. Len(CommandLine) /\ i + 1 # 1 /\ 1 \in 1 .. Len(CommandLine)
    BY <1>2
  <2>2. \A i, j \in 1 .. Len(CommandLine) : CommandLine[i].by = CommandLine[j].by => i = j
    BY DEF LineFacts, LineInv
  <2>3. CommandLine[1].by = c
    BY <1>2
  <2>4. ASSUME NEW i \in 1 .. Len(CommandLine')
        PROVE  CommandLine'[i].by # c /\ CommandLine'[i].by \in Callers
    <3>1. CommandLine'[i] = CommandLine[i + 1]
      BY <1>2
    <3>. QED
      BY <1>3, <2>1, <2>2, <2>3, <3>1, Zenon
  <2>. QED
    BY <2>1, <2>4
<1>5. \A d \in Callers : call'[d] = IF d = c THEN k ELSE call[d]
  BY DEF LineFacts, CallTypes
<1>6. LineInv'
  <2>1. \A i \in 1 .. Len(CommandLine') : call'[CommandLine'[i].by].at = "waiting"
    <3>1. \A i \in 1 .. Len(CommandLine) : call[CommandLine[i].by].at = "waiting"
      BY DEF LineFacts, LineInv
    <3>2. ASSUME NEW i \in 1 .. Len(CommandLine')
          PROVE  call'[CommandLine'[i].by].at = "waiting"
      <4>1. CommandLine'[i] = CommandLine[i + 1] /\ i + 1 \in 1 .. Len(CommandLine)
        BY <1>2, <1>4
      <4>2. call'[CommandLine'[i].by] = call[CommandLine'[i].by]
        BY <1>4, <1>5
      <4>. QED
        BY <3>1, <4>1, <4>2
    <3>. QED
      BY <3>2
  <2>2. ASSUME NEW i \in 1 .. Len(CommandLine'), NEW j \in 1 .. Len(CommandLine'), CommandLine'[i].by = CommandLine'[j].by
        PROVE  i = j
    <3>1. i \in Int /\ j \in Int
      BY <1>2
    <3>2. i + 1 \in 1 .. Len(CommandLine) /\ j + 1 \in 1 .. Len(CommandLine)
      BY <1>4
    <3>3. CommandLine[i + 1].by = CommandLine[j + 1].by
      BY <1>2, <2>2
    <3>4. \A m, n \in 1 .. Len(CommandLine) : CommandLine[m].by = CommandLine[n].by => m = n
      BY DEF LineFacts, LineInv
    <3>5. i + 1 = j + 1
      BY <3>2, <3>3, <3>4
    <3>. QED
      BY <3>1, <3>5
  <2>. QED
    BY <2>1, <2>2 DEF LineInv
<1>12. \A i \in 1 .. Len(CommandLine') : i + 1 \in 1 .. Len(CommandLine) /\ CommandLine'[i] = CommandLine[i + 1]
  BY <1>2, <1>4, Zenon
<1>7. \A i \in 1 .. Len(CommandLine') : CommandLine'[i].do \in {"prepare", "install"} => bootLock = CommandLine'[i].by
  BY <1>12, Zenon DEF LineFacts, LockInv
<1>8. \A d \in Callers : d # c /\ call[d].at \in {"locked", "prepare", "booting", "install"} => bootLock = d
  BY DEF LineFacts, LockInv
<1>9. \A i \in 1 .. Len(CommandLine') : CommandLine'[i].do = "load" => call[CommandLine'[i].by].game \in OtherGames
  BY <1>12, Zenon DEF LineFacts, LockInv
<1>10. \A i \in 1 .. Len(CommandLine') : CommandLine'[i].do = "install" => call[CommandLine'[i].by].next
  BY <1>12, Zenon DEF LineFacts, LockInv
<1>11. LockInv'
  <2>1. \A d \in Callers : call'[d].at \in {"locked", "prepare", "booting", "install"} => bootLock' = d
    BY <1>5, <1>8
  <2>2. \A i \in 1 .. Len(CommandLine') : CommandLine'[i].do \in {"prepare", "install"} => bootLock' = CommandLine'[i].by
    BY <1>4, <1>7
  <2>3. \A d \in Callers : call'[d].at \in {"loading", "load"} => call'[d].game \in OtherGames
    BY <1>5 DEF LineFacts, LockInv
  <2>4. \A d \in Callers : call'[d].at \in {"booting", "install"} => call'[d].next
    BY <1>5 DEF LineFacts, LockInv
  <2>5. \A i \in 1 .. Len(CommandLine') : call'[CommandLine'[i].by] = call[CommandLine'[i].by]
    BY <1>4, <1>5
  <2>. QED
    BY <2>1, <2>2, <2>3, <2>4, <2>5, <1>9, <1>10 DEF LockInv
<1>. QED
  BY <1>1, <1>6, <1>11 DEF LineFacts

\* Each command's effect on its caller, as RunKeepsFacts has it.
LEMMA RunCommandKeepsFacts ==
  ASSUME Calls!CallersAssumption, LineFacts, Calls!RunCommand
  PROVE  LineFacts'
<1>. DEFINE c == Head(todo).by
            what == Head(todo).do
            old == call[c]
            booting == [old EXCEPT !.at = "booting", !.next = TRUE]
            prepared(failure) == [old EXCEPT !.at = "install", !.next = TRUE, !.error = failure]
<1>1. /\ loop = "running" /\ todo # << >> /\ todo' = Tail(todo)
      /\ UNCHANGED <<commands, generation, loop, requests>>
  BY DEF Calls!RunCommand
<1>2. Head(todo) \in Entries /\ c \in Callers /\ what \in {"load", "prepare", "install", "stop", "flush"}
  <2>1. Head(todo) \in Entries
    BY <1>1 DEF LineFacts, CallTypes
  <2>. QED
    BY <2>1 DEF Entries
<1>3. old \in CallStates /\ Calls!NoCall \in CallStates /\ Calls!NoCall.at = "idle"
  BY <1>2 DEF LineFacts, CallTypes, Calls!NoCall, CallStates, CallPlaces
<1>4. what \in {"prepare", "install"} => bootLock = c
  <2>1. CommandLine[1] = Head(todo) /\ 1 \in 1 .. Len(CommandLine)
    BY <1>1, LineTail DEF LineFacts, CallTypes
  <2>. QED
    BY <2>1 DEF LineFacts, LockInv
<1>5. answered \in Nat
  BY DEF LineFacts, CallTypes
<1>6. Calls!TookEffect(c) => answered' \in Nat
  BY <1>3, <1>5 DEF Calls!TookEffect, Calls!Later, CallStates
<1>7. \/ what = "load" /\ Calls!RunLoad(c)
      \/ what = "prepare" /\ Calls!RunPrepare(c)
      \/ what = "install" /\ Calls!RunInstall(c)
      \/ what = "stop" /\ Calls!RunStop(c)
      \/ what = "flush" /\ Calls!RunFlush(c)
  BY DEF Calls!RunCommand
<1>8. CASE what = "prepare" /\ Calls!RunPrepare(c)
  <2>1. bootLock' = bootLock /\ answered' = answered /\ bootLock = c
    BY <1>4, <1>8 DEF Calls!RunPrepare
  <2>2. ASSUME NEW k \in CallStates, k.at \in {"booting", "install"}, k.next,
               call' = [call EXCEPT ![c] = k]
        PROVE  LineFacts'
    <3>. HIDE DEF c, what, old, booting, prepared
    <3>. QED
      BY <1>1, <1>2, <1>5, <2>1, <2>2, RunKeepsFacts DEF c
  <2>3. CASE call' = [call EXCEPT ![c].at = "booting", ![c].next = TRUE]
    <3>1. call' = [call EXCEPT ![c] = booting] /\ booting \in CallStates /\ booting.at = "booting" /\ booting.next
      BY <1>3, <2>3 DEF CallStates, CallPlaces
    <3>. HIDE DEF booting, c
    <3>. QED
      BY <2>2, <3>1
  <2>4. ASSUME NEW failure \in BOOLEAN,
               call' = [call EXCEPT ![c].at = "install", ![c].next = TRUE, ![c].error = failure]
        PROVE  LineFacts'
    <3>. DEFINE k == prepared(failure)
    <3>1. call' = [call EXCEPT ![c] = k] /\ k \in CallStates /\ k.at = "install" /\ k.next
      BY <1>3, <2>4 DEF CallStates, CallPlaces
    <3>. HIDE DEF k, c
    <3>. QED
      BY <2>2, <3>1
  <2>. QED
    BY <1>8, <2>3, <2>4 DEF Calls!RunPrepare
<1>9. CASE ~(what = "prepare" /\ Calls!RunPrepare(c))
  <2>1. call' = [call EXCEPT ![c] = Calls!NoCall]
    BY <1>7, <1>9 DEF Calls!RunLoad, Calls!RunInstall, Calls!RunStop, Calls!RunFlush, Calls!Return
  <2>2. bootLock' = bootLock \/ bootLock = c
    BY <1>4, <1>7, <1>9 DEF Calls!RunLoad, Calls!RunInstall, Calls!RunStop, Calls!RunFlush
  <2>3. answered' \in Nat
    BY <1>5, <1>6, <1>7, <1>9 DEF Calls!RunLoad, Calls!RunInstall, Calls!RunStop, Calls!RunFlush
  <2>. HIDE DEF c, what, old, booting, prepared
  <2>. QED
    BY <1>1, <1>2, <1>3, <2>1, <2>2, <2>3, RunKeepsFacts DEF c
<1>. QED
  BY <1>8, <1>9

LEMMA FactsNext ==
  ASSUME Calls!CallersAssumption, LineFacts, [Calls!Next]_CallsVars
  PROVE  LineFacts'
<1>. USE DEF Calls!consoleVars, Calls!switchVars, Calls!loopVars, Calls!historyVars
<1>1. ASSUME NEW c \in Callers, NEW g \in Calls!AllGames \cup {NoCore}, NEW place \in {"loading", "locking", "stopping"},
             place = "loading" => g \in OtherGames, Calls!Ask(c, g, place)
      PROVE  LineFacts'
  <2>. DEFINE k == [Calls!NoCall EXCEPT !.at = place, !.game = g]
  <2>1. k \in CallStates /\ k.at = place /\ k.game = g
    <3>1. requests + 1 \in Nat
      BY DEF LineFacts, CallTypes
    <3>2. Calls!NoCall \in CallStates
      BY DEF Calls!NoCall, CallStates, CallPlaces
    <3>. QED
      BY <3>1, <3>2 DEF CallStates, CallPlaces
  <2>2. /\ call[c].at = "idle" /\ call' = [call EXCEPT ![c] = k] /\ requests' = requests + 1
        /\ UNCHANGED <<commands, generation, bootLock, Calls!loopVars, answered>>
    BY <1>1 DEF Calls!Ask
  <2>3. requests' \in Nat /\ generation' \in Nat
    BY <2>2 DEF LineFacts, CallTypes
  <2>. HIDE DEF k
  <2>. QED
    BY <1>1, <2>1, <2>2, <2>3, CallerKeepsFacts
<1>2. ASSUME NEW c \in Callers, Calls!NextGeneration(c) PROVE LineFacts'
  <2>1. PICK place \in {"load", "stop", "prepare"} :
          /\ call' = [call EXCEPT ![c] = [call[c] EXCEPT !.at = place, !.generation = generation + 1]]
          /\ place = "load" => call[c].at = "loading"
          /\ place = "prepare" => call[c].at = "locked"
    BY <1>2 DEF Calls!NextGeneration
  <2>. DEFINE k == [call[c] EXCEPT !.at = place, !.generation = generation + 1]
  <2>2. k \in CallStates /\ k.at = place /\ k.game = call[c].game
    <3>1. generation + 1 \in Nat /\ call[c] \in CallStates
      BY DEF LineFacts, CallTypes
    <3>. QED
      BY <3>1 DEF CallStates, CallPlaces
  <2>3. k.at = "load" => k.game \in OtherGames
    BY <2>1, <2>2 DEF LineFacts, LockInv
  <2>4. k.at = "prepare" => bootLock = c
    BY <2>1, <2>2 DEF LineFacts, LockInv
  <2>5. /\ call[c].at # "waiting" /\ generation' \in Nat /\ requests' \in Nat
        /\ UNCHANGED <<commands, bootLock, Calls!loopVars, answered>>
    BY <1>2 DEF Calls!NextGeneration, LineFacts, CallTypes
  <2>6. call' = [call EXCEPT ![c] = k]
    BY <2>1
  <2>. HIDE DEF k
  <2>. QED
    BY <2>2, <2>3, <2>4, <2>5, <2>6, CallerKeepsFacts
<1>3. ASSUME NEW c \in Callers, Calls!TakeBootLock(c) PROVE LineFacts'
  <2>. DEFINE k == [call[c] EXCEPT !.at = "locked"]
  <2>1. k \in CallStates /\ k.at = "locked"
    BY DEF LineFacts, CallTypes, CallStates, CallPlaces
  <2>2. /\ call[c].at # "waiting" /\ call' = [call EXCEPT ![c] = k]
        /\ bootLock = Nobody /\ bootLock' = c /\ generation' \in Nat /\ requests' \in Nat
        /\ UNCHANGED <<commands, Calls!loopVars, answered>>
    BY <1>3 DEF Calls!TakeBootLock, LineFacts, CallTypes
  <2>. HIDE DEF k
  <2>. QED
    BY <2>1, <2>2, CallerKeepsFacts
<1>4. ASSUME NEW c \in Callers, Calls!PostNext(c) PROVE LineFacts'
  <2>1. call[c].at \in {"prepare", "install"} => bootLock = c
    BY DEF LineFacts, LockInv
  <2>2. call[c].at = "load" => call[c].game \in OtherGames
    BY DEF LineFacts, LockInv
  <2>3. call[c].at = "install" => call[c].next
    BY DEF LineFacts, LockInv
  <2>. QED
    BY <1>4, <2>1, <2>2, <2>3, PostKeepsFacts DEF Calls!PostNext
<1>5. ASSUME NEW c \in Callers, Calls!Boot(c) PROVE LineFacts'
  <2>1. PICK failure \in BOOLEAN : call' = [call EXCEPT ![c] = [call[c] EXCEPT !.at = "install", !.error = failure]]
    BY <1>5 DEF Calls!Boot
  <2>. DEFINE k == [call[c] EXCEPT !.at = "install", !.error = failure]
  <2>2. k \in CallStates /\ k.at = "install" /\ (call[c].next => k.next)
    BY DEF LineFacts, CallTypes, CallStates, CallPlaces
  <2>5. call[c].next
    BY <1>5 DEF Calls!Boot, LineFacts, LockInv
  <2>3. /\ call[c].at # "waiting" /\ bootLock' = bootLock /\ bootLock = c
        /\ generation' \in Nat /\ requests' \in Nat /\ UNCHANGED <<commands, Calls!loopVars, answered>>
    BY <1>5 DEF Calls!Boot, LineFacts, CallTypes, LockInv
  <2>4. call' = [call EXCEPT ![c] = k]
    BY <2>1
  <2>. HIDE DEF k
  <2>. QED
    BY <2>2, <2>3, <2>4, <2>5, CallerKeepsFacts
<1>6. ASSUME NEW c \in Callers, Calls!Pause(c) PROVE LineFacts'
  BY <1>6, PostKeepsFacts DEF Calls!Pause
<1>7. CASE Calls!TakeCommands
  <2>1. todo = << >>
    BY <1>7 DEF Calls!TakeCommands, LineFacts, LineInv
  <2>2. CommandLine' = CommandLine
    BY <1>7, <2>1, LineMoved DEF Calls!TakeCommands, LineFacts, CallTypes
  <2>. QED
    BY <1>7, <2>1, <2>2 DEF Calls!TakeCommands, LineFacts, CallTypes, LineInv, LockInv
<1>8. CASE Calls!RunCommand
  BY <1>8, RunCommandKeepsFacts
<1>9. ASSUME UNCHANGED <<call, commands, generation, bootLock, todo, requests, answered>>,
             loop' = loop \/ todo = << >> \/ loop # "running"
      PROVE  LineFacts'
  <2>1. CommandLine' = CommandLine
    BY <1>9 DEF CommandLine
  <2>2. loop' # "running" => todo' = << >>
    BY <1>9 DEF LineFacts, LineInv
  <2>. QED
    BY <1>9, <2>1, <2>2 DEF LineFacts, CallTypes, LineInv, LockInv
<1>10. CASE Calls!Start \/ Calls!FrameAdvance \/ \E switch \in BOOLEAN : Calls!SetRewinding(switch)
  BY <1>9, <1>10 DEF Calls!Start, Calls!FrameAdvance, Calls!SetRewinding, Calls!callerVars
<1>11. CASE Calls!Decide \/ Calls!PlayFrame
  BY <1>9, <1>11 DEF Calls!Decide, Calls!PlayFrame, Calls!callerVars
<1>12. CASE UNCHANGED CallsVars
  BY <1>9, <1>12 DEF CallsVars, Calls!callerVars
<1>. QED
  BY <1>1, <1>2, <1>3, <1>4, <1>5, <1>6, <1>7, <1>8, <1>10, <1>11, <1>12
     DEF Calls!Next, Calls!AllGames, Calls!LoadGame, Calls!LoadThreeDs, Calls!Stop, Calls!GoOn, Calls!Emulation

-----------------------------------------------------------------------------
(* Engines, generations and the pause                                       *)

\* What RunCommand knows of the command it runs.
LEMMA HeadFacts ==
  ASSUME Calls!CallersAssumption, LineFacts, Calls!RunCommand
  PROVE  /\ Head(todo).by \in Callers
         /\ Head(todo).do \in {"prepare", "install"} => bootLock = Head(todo).by
         /\ Head(todo).do = "load" => call[Head(todo).by].game \in OtherGames
         /\ Head(todo).do = "install" => call[Head(todo).by].next
<1>1. todo # << >> /\ todo' = Tail(todo) /\ UNCHANGED commands
  BY DEF Calls!RunCommand
<1>2. CommandLine[1] = Head(todo) /\ 1 \in 1 .. Len(CommandLine)
  BY <1>1, LineTail DEF LineFacts, CallTypes
<1>3. Head(todo) \in Entries
  BY <1>1 DEF LineFacts, CallTypes
<1>. QED
  BY <1>2, <1>3 DEF Entries, LineFacts, LockInv

\* Callers leave the core alone, begin without a core of their own, and give no
\* lock back.
KeepsEngine ==
  /\ UNCHANGED <<core, answered>>
  /\ bootLock' = bootLock \/ bootLock = Nobody
  /\ \A d \in Callers : call'[d].next => call[d].next
  /\ \A d \in Callers : call[d].generation <= generation => call'[d].generation <= generation'
  /\ generation' \in Nat /\ generation <= generation'

LEMMA AskKeepsEngine ==
  ASSUME LineFacts, NEW c \in Callers, NEW g, NEW place, Calls!Ask(c, g, place)
  PROVE  KeepsEngine
<1>. DEFINE k == [Calls!NoCall EXCEPT !.at = place, !.game = g]
<1>1. call' = [call EXCEPT ![c] = k] /\ ~k.next /\ k.generation = 0
  BY DEF Calls!Ask, Calls!NoCall
<1>2. call \in [Callers -> CallStates] /\ generation \in Nat
  BY DEF LineFacts, CallTypes
<1>3. UNCHANGED <<core, answered, bootLock, generation>>
  BY DEF Calls!Ask, Calls!consoleVars
<1>. HIDE DEF k
<1>4. \A d \in Callers : call'[d] = IF d = c THEN k ELSE call[d]
  BY <1>1, <1>2
<1>. QED
  BY <1>1, <1>2, <1>3, <1>4 DEF KeepsEngine

LEMMA GoOnKeepsEngine ==
  ASSUME LineFacts, NEW c \in Callers, Calls!Pause(c) \/ Calls!GoOn(c)
  PROVE  KeepsEngine
<1>1. call \in [Callers -> CallStates] /\ generation \in Nat
  BY DEF LineFacts, CallTypes
<1>2. ASSUME NEW k \in CallStates, call' = [call EXCEPT ![c] = k], k.next => call[c].next,
             k.generation \in {call[c].generation, generation'},
             generation' \in {generation, generation + 1},
             UNCHANGED <<core, answered>>, bootLock' = bootLock \/ bootLock = Nobody
      PROVE  KeepsEngine
  <2>1. \A d \in Callers : call'[d] = IF d = c THEN k ELSE call[d]
    BY <1>1, <1>2
  <2>2. \A d \in Callers : call[d].generation \in Nat
    BY <1>1 DEF CallStates
  <2>3. \A d \in Callers : call'[d].next => call[d].next
    BY <1>2, <2>1
  <2>4. \A d \in Callers : call[d].generation <= generation => call'[d].generation <= generation'
    BY <1>1, <1>2, <2>1, <2>2
  <2>. QED
    BY <1>1, <1>2, <2>3, <2>4 DEF KeepsEngine
<1>3. ASSUME NEW place \in CallPlaces, call' = [call EXCEPT ![c].at = place], UNCHANGED <<core, answered, generation>>,
             bootLock' = bootLock \/ bootLock = Nobody
      PROVE  KeepsEngine
  <2>. DEFINE k == [call[c] EXCEPT !.at = place]
  <2>1. call' = [call EXCEPT ![c] = k] /\ k \in CallStates /\ k.generation = call[c].generation
    BY <1>1, <1>3 DEF CallStates
  <2>2. k.next => call[c].next
    BY <1>1 DEF CallStates
  <2>. HIDE DEF k
  <2>. QED
    BY <1>2, <1>3, <2>1, <2>2
<1>4. CASE Calls!NextGeneration(c)
  <2>. DEFINE k(place) == [call[c] EXCEPT !.at = place, !.generation = generation + 1]
  <2>1. PICK place \in {"load", "stop", "prepare"} : call' = [call EXCEPT ![c] = k(place)]
    BY <1>4 DEF Calls!NextGeneration
  <2>2. k(place) \in CallStates /\ k(place).generation = generation + 1
    <3>1. generation + 1 \in Nat /\ call[c] \in CallStates
      BY <1>1
    <3>. QED
      BY <3>1 DEF CallStates, CallPlaces
  <2>3. k(place).next => call[c].next
    BY <1>1 DEF CallStates
  <2>4. UNCHANGED <<core, answered, bootLock>> /\ generation' = generation + 1
    BY <1>4 DEF Calls!NextGeneration, Calls!consoleVars, Calls!historyVars
  <2>. HIDE DEF k
  <2>. QED
    BY <1>2, <2>1, <2>2, <2>3, <2>4
<1>5. CASE Calls!Boot(c)
  <2>. DEFINE k(failure) == [call[c] EXCEPT !.at = "install", !.error = failure]
  <2>1. PICK failure \in BOOLEAN : call' = [call EXCEPT ![c] = k(failure)]
    BY <1>5 DEF Calls!Boot
  <2>2. k(failure) \in CallStates /\ k(failure).generation = call[c].generation
    BY <1>1 DEF CallStates, CallPlaces
  <2>3. k(failure).next => call[c].next
    BY <1>1 DEF CallStates
  <2>4. UNCHANGED <<core, answered, bootLock, generation>>
    BY <1>5 DEF Calls!Boot, Calls!consoleVars, Calls!historyVars
  <2>. HIDE DEF k
  <2>. QED
    BY <1>2, <2>1, <2>2, <2>3, <2>4
<1>6. CASE Calls!TakeBootLock(c) \/ Calls!PostNext(c) \/ Calls!Pause(c)
  BY <1>3, <1>6 DEF Calls!TakeBootLock, Calls!PostNext, Calls!Pause, CallPlaces, Calls!consoleVars, Calls!historyVars
<1>. QED
  BY <1>4, <1>5, <1>6 DEF Calls!GoOn

\* The rest of the steps but RunCommand leave all of it alone.
LEMMA OthersKeepEngine ==
  ASSUME \/ Calls!Start \/ Calls!FrameAdvance \/ \E switch \in BOOLEAN : Calls!SetRewinding(switch)
         \/ Calls!TakeCommands \/ Calls!Decide \/ Calls!PlayFrame \/ UNCHANGED CallsVars
  PROVE  UNCHANGED <<core, bootLock, call, generation, answered>>
BY DEF Calls!Start, Calls!FrameAdvance, Calls!SetRewinding, Calls!TakeCommands, Calls!Decide, Calls!PlayFrame, CallsVars, Calls!callerVars, Calls!consoleVars, Calls!historyVars

\* Next, as the lemmas above have it.
LEMMA NextCases ==
  ASSUME LineFacts, [Calls!Next]_CallsVars
  PROVE  \/ KeepsEngine
         \/ Calls!RunCommand
         \/ UNCHANGED <<core, bootLock, call, generation, answered>>
<1>1. ASSUME NEW c \in Callers, NEW g, Calls!LoadGame(c, g) \/ Calls!LoadThreeDs(c, g) \/ Calls!Stop(c)
      PROVE  KeepsEngine
  BY <1>1, AskKeepsEngine DEF Calls!LoadGame, Calls!LoadThreeDs, Calls!Stop
<1>2. ASSUME NEW c \in Callers, Calls!Pause(c) \/ Calls!GoOn(c)
      PROVE  KeepsEngine
  BY <1>2, GoOnKeepsEngine
<1>3. \/ \E c \in Callers : \/ \E g \in OtherGames : Calls!LoadGame(c, g)
                            \/ \E g \in ThreeDsGames : Calls!LoadThreeDs(c, g)
                            \/ Calls!Stop(c) \/ Calls!Pause(c) \/ Calls!GoOn(c)
      \/ Calls!RunCommand
      \/ \/ Calls!Start \/ Calls!FrameAdvance \/ \E switch \in BOOLEAN : Calls!SetRewinding(switch)
         \/ Calls!TakeCommands \/ Calls!Decide \/ Calls!PlayFrame \/ UNCHANGED CallsVars
  BY DEF Calls!Next, Calls!Emulation
<1>. QED
  BY <1>1, <1>2, <1>3, OthersKeepEngine

LEMMA EngineNext ==
  ASSUME Calls!CallersAssumption, LineFacts, EngineInv, [Calls!Next]_CallsVars
  PROVE  EngineInv'
<1>1. CASE KeepsEngine
  BY <1>1 DEF KeepsEngine, EngineInv, Calls!IsThreeDs, Calls!CallersAssumption
<1>2. CASE Calls!RunCommand
  <2>. DEFINE c == Head(todo).by
  <2>1. /\ c \in Callers
        /\ Head(todo).do \in {"prepare", "install"} => bootLock = c
        /\ Head(todo).do = "load" => call[c].game \in OtherGames
    BY <1>2, HeadFacts
  <2>2. call \in [Callers -> CallStates]
    BY DEF LineFacts, CallTypes
  <2>3. Calls!Return(c) => \A d \in Callers : call'[d].next => d # c /\ call[d].next
    BY <2>2 DEF Calls!Return, Calls!NoCall
  <2>4. CASE Head(todo).do = "load" /\ Calls!RunLoad(c)
    <3>1. ~Calls!IsThreeDs' \/ core' = core
      BY <2>1, <2>4 DEF Calls!RunLoad, Calls!SwapCore, Calls!CoreOf, Calls!IsThreeDs, Calls!CallersAssumption, Calls!consoleVars
    <3>. QED
      BY <2>3, <2>4, <3>1 DEF Calls!RunLoad, EngineInv, Calls!IsThreeDs
  <2>5. CASE Head(todo).do = "prepare" /\ Calls!RunPrepare(c)
    <3>1. ~Calls!IsThreeDs' /\ bootLock' = bootLock
      BY <2>5 DEF Calls!RunPrepare, Calls!SwapCore, Calls!IsThreeDs
    <3>2. \A d \in Callers : d # c => call'[d] = call[d]
      BY <2>2, <2>5 DEF Calls!RunPrepare
    <3>. QED
      BY <2>1, <2>5, <3>1, <3>2 DEF EngineInv
  <2>6. CASE Head(todo).do = "install" /\ Calls!RunInstall(c)
    <3>1. \A d \in Callers : ~call'[d].next
      BY <2>1, <2>3, <2>6 DEF Calls!RunInstall, EngineInv
    <3>. QED
      BY <3>1 DEF EngineInv
  <2>7. CASE Head(todo).do = "stop" /\ Calls!RunStop(c)
    BY <2>3, <2>7 DEF Calls!RunStop, Calls!SwapCore, Calls!IsThreeDs, EngineInv
  <2>8. CASE Head(todo).do = "flush" /\ Calls!RunFlush(c)
    BY <2>3, <2>8 DEF Calls!RunFlush, Calls!IsThreeDs, EngineInv
  <2>. HIDE DEF c
  <2>. QED
    BY <1>2, <2>4, <2>5, <2>6, <2>7, <2>8 DEF Calls!RunCommand, c
<1>3. CASE UNCHANGED <<core, bootLock, call, generation, answered>>
  BY <1>3 DEF EngineInv, Calls!IsThreeDs
<1>. QED
  BY <1>1, <1>2, <1>3, NextCases

LEMMA GenerationNext ==
  ASSUME Calls!CallersAssumption, LineFacts, EngineInv, GenerationInv, [Calls!Next]_CallsVars
  PROVE  GenerationInv'
<1>1. /\ call \in [Callers -> CallStates] /\ generation \in Nat
      /\ answered \in Nat
  BY DEF LineFacts, CallTypes
<1>2. CASE KeepsEngine
  <2>1. \A d \in Callers : call'[d].generation <= generation'
    BY <1>2 DEF KeepsEngine, GenerationInv
  <2>2. answered' <= generation'
    <3>1. answered' = answered /\ generation' \in Nat /\ generation <= generation'
      BY <1>2 DEF KeepsEngine
    <3>. QED
      BY <1>1, <3>1 DEF GenerationInv
  <2>3. Calls!SupersededNeverInstalled'
    <3>1. core' = core /\ answered' = answered
      BY <1>2 DEF KeepsEngine
    <3>. QED
      BY <3>1 DEF GenerationInv, Calls!SupersededNeverInstalled, Calls!IsThreeDs
  <2>. QED
    BY <2>1, <2>2, <2>3 DEF GenerationInv
<1>3. CASE UNCHANGED <<core, bootLock, call, generation, answered>>
  BY <1>3 DEF GenerationInv, Calls!SupersededNeverInstalled, Calls!IsThreeDs
<1>4. CASE Calls!RunCommand
  <2>. DEFINE c == Head(todo).by
  <2>1. /\ c \in Callers /\ UNCHANGED generation
        /\ Head(todo).do = "load" => call[c].game \in OtherGames
        /\ Head(todo).do = "install" => ~Calls!IsThreeDs
    BY <1>4, HeadFacts DEF Calls!RunCommand, EngineInv
  <2>2. call[c] \in CallStates /\ call[c].generation \in Nat
        /\ call[c].generation <= generation
    BY <1>1, <2>1 DEF CallStates, GenerationInv
  <2>3. Calls!TookEffect(c) => /\ answered' = Calls!Later(answered, call[c].generation)
                         /\ answered' <= generation
    BY <1>1, <2>2 DEF Calls!TookEffect, Calls!Later, GenerationInv
  <2>4. Calls!Return(c) => \A d \in Callers : call'[d].generation <= generation
    BY <1>1 DEF Calls!Return, Calls!NoCall, GenerationInv
  <2>5. CASE Head(todo).do = "load" /\ Calls!RunLoad(c)
    <3>1. CASE UNCHANGED <<Calls!consoleVars, answered>>
      BY <2>1, <2>4, <2>5, <3>1 DEF Calls!RunLoad, GenerationInv, Calls!SupersededNeverInstalled, Calls!IsThreeDs, Calls!consoleVars
    <3>2. CASE (Calls!SwapCore(NoCore) \/ Calls!SwapCore(Calls!CoreOf(c))) /\ Calls!TookEffect(c)
      <4>1. ~Calls!IsThreeDs'
        BY <2>1, <2>5, <3>2 DEF Calls!SwapCore, Calls!CoreOf, Calls!IsThreeDs, Calls!CallersAssumption
      <4>. QED
        BY <2>1, <2>3, <2>4, <2>5, <3>2, <4>1 DEF Calls!RunLoad, GenerationInv, Calls!SupersededNeverInstalled
    <3>. QED
      BY <2>5, <3>1, <3>2 DEF Calls!RunLoad
  <2>6. CASE Head(todo).do = "prepare" /\ Calls!RunPrepare(c)
    <3>1. ~Calls!IsThreeDs' /\ answered' = answered
      BY <2>6 DEF Calls!RunPrepare, Calls!SwapCore, Calls!IsThreeDs
    <3>2. \A d \in Callers : call'[d].generation = call[d].generation
      <4>1. ASSUME NEW k, call' = [call EXCEPT ![c] = k], k.generation = call[c].generation
            PROVE  \A d \in Callers : call'[d].generation = call[d].generation
        BY <1>1, <4>1
      <4>2. CASE call' = [call EXCEPT ![c].at = "booting", ![c].next = TRUE]
        <5>. DEFINE k == [call[c] EXCEPT !.at = "booting", !.next = TRUE]
        <5>1. call' = [call EXCEPT ![c] = k] /\ k.generation = call[c].generation
          BY <2>2, <4>2 DEF CallStates
        <5>. HIDE DEF k
        <5>. QED
          BY <4>1, <5>1
      <4>3. ASSUME NEW failure \in BOOLEAN,
                   call' = [call EXCEPT ![c].at = "install", ![c].next = TRUE, ![c].error = failure]
            PROVE  \A d \in Callers : call'[d].generation = call[d].generation
        <5>. DEFINE k == [call[c] EXCEPT !.at = "install", !.next = TRUE, !.error = failure]
        <5>1. call' = [call EXCEPT ![c] = k] /\ k.generation = call[c].generation
          BY <2>2, <4>3 DEF CallStates
        <5>. HIDE DEF k
        <5>. QED
          BY <4>1, <5>1
      <4>. QED
        BY <2>6, <4>2, <4>3 DEF Calls!RunPrepare
    <3>. QED
      BY <2>1, <3>1, <3>2 DEF GenerationInv, Calls!SupersededNeverInstalled
  <2>7. CASE Head(todo).do = "install" /\ Calls!RunInstall(c)
    <3>1. CASE UNCHANGED <<Calls!consoleVars, answered>>
      <4>1. core' = core /\ answered' = answered
        BY <3>1 DEF Calls!consoleVars
      <4>2. \A d \in Callers : call'[d].generation <= generation'
        BY <2>1, <2>4, <2>7 DEF Calls!RunInstall
      <4>. QED
        BY <2>1, <4>1, <4>2 DEF GenerationInv, Calls!SupersededNeverInstalled, Calls!IsThreeDs
    <3>2. CASE generation = call[c].generation /\ call[c].error /\ UNCHANGED core /\ Calls!TookEffect(c)
      <4>1. ~Calls!IsThreeDs'
        BY <2>1, <2>7, <3>2 DEF Calls!IsThreeDs
      <4>. QED
        BY <2>1, <2>3, <2>4, <2>7, <3>2, <4>1 DEF Calls!RunInstall, GenerationInv, Calls!SupersededNeverInstalled
    <3>3. CASE generation = call[c].generation /\ Calls!SwapCore(Calls!CoreOf(c)) /\ Calls!TookEffect(c)
      <4>1. core'.generation = generation
        BY <3>3 DEF Calls!SwapCore, Calls!CoreOf
      <4>. QED
        BY <2>1, <2>3, <2>4, <2>7, <3>3, <4>1 DEF Calls!RunInstall, GenerationInv, Calls!SupersededNeverInstalled
    <3>. QED
      BY <2>7, <3>1, <3>2, <3>3 DEF Calls!RunInstall
  <2>8. CASE Head(todo).do = "stop" /\ Calls!RunStop(c)
    <3>1. ~Calls!IsThreeDs'
      BY <2>8 DEF Calls!RunStop, Calls!SwapCore, Calls!IsThreeDs
    <3>. QED
      BY <2>1, <2>3, <2>4, <2>8, <3>1 DEF Calls!RunStop, GenerationInv, Calls!SupersededNeverInstalled
  <2>9. CASE Head(todo).do = "flush" /\ Calls!RunFlush(c)
    BY <2>1, <2>4, <2>9 DEF Calls!RunFlush, GenerationInv, Calls!SupersededNeverInstalled, Calls!IsThreeDs
  <2>. HIDE DEF c
  <2>. QED
    BY <1>4, <2>5, <2>6, <2>7, <2>8, <2>9 DEF Calls!RunCommand, c
<1>. QED
  BY <1>2, <1>3, <1>4, NextCases

-----------------------------------------------------------------------------
(* A pause                                                                  *)

LEMMA PauseNext ==
  ASSUME PauseInv, [Calls!Next]_CallsVars
  PROVE  PauseInv'
<1>1. ASSUME NEW c \in Callers,
             \/ \E g \in OtherGames : Calls!LoadGame(c, g)
             \/ \E g \in ThreeDsGames : Calls!LoadThreeDs(c, g)
             \/ Calls!Stop(c) \/ Calls!Pause(c) \/ Calls!GoOn(c)
      PROVE  PauseInv'
  BY <1>1 DEF PauseInv, Calls!LoadGame, Calls!LoadThreeDs, Calls!Stop, Calls!Ask, Calls!Pause, Calls!GoOn, Calls!NextGeneration, Calls!TakeBootLock,
              Calls!PostNext, Calls!Boot, Calls!consoleVars, Calls!switchVars, Calls!loopVars, Calls!historyVars
<1>2. CASE Calls!Start \/ Calls!FrameAdvance
  BY <1>2 DEF PauseInv, Calls!Start, Calls!FrameAdvance
<1>3. CASE \E switch \in BOOLEAN : Calls!SetRewinding(switch)
  BY <1>3 DEF PauseInv, Calls!SetRewinding, Calls!consoleVars, Calls!loopVars, Calls!historyVars
<1>4. CASE Calls!TakeCommands
  BY <1>4 DEF PauseInv, Calls!TakeCommands, Calls!consoleVars, Calls!switchVars, Calls!historyVars
<1>5. CASE Calls!RunCommand
  <2>1. loop = "running" /\ UNCHANGED <<Calls!switchVars, loop>>
    BY <1>5 DEF Calls!RunCommand
  <2>2. \/ UNCHANGED quiet /\ (unsaved' = unsaved \/ unsaved' = FALSE)
        \/ quiet' = (paused /\ ~frameStep) /\ unsaved' = FALSE
    BY <1>5 DEF Calls!RunCommand, Calls!RunLoad, Calls!RunPrepare, Calls!RunInstall, Calls!RunStop, Calls!RunFlush, Calls!SwapCore, Calls!consoleVars
  <2>. QED
    BY <2>1, <2>2 DEF PauseInv, Calls!switchVars
<1>6. CASE Calls!Decide
  BY <1>6 DEF PauseInv, Calls!Decide, Calls!consoleVars, Calls!switchVars, Calls!historyVars
<1>7. CASE Calls!PlayFrame
  BY <1>7 DEF PauseInv, Calls!PlayFrame, Calls!historyVars
<1>8. CASE UNCHANGED CallsVars
  BY <1>8 DEF PauseInv, CallsVars, Calls!consoleVars, Calls!switchVars, Calls!loopVars, Calls!historyVars
<1>. QED
  BY <1>1, <1>2, <1>3, <1>4, <1>5, <1>6, <1>7, <1>8 DEF Calls!Next, Calls!Emulation

-----------------------------------------------------------------------------
(* The theorems                                                             *)

LEMMA EngineInit ==
  ASSUME Calls!Init
  PROVE  EngineInv /\ GenerationInv /\ PauseInv
<1>1. \A c \in Callers : ~call[c].next /\ call[c].generation = 0
  BY DEF Calls!Init, Calls!NoCall
<1>2. ~Calls!IsThreeDs /\ generation = 0 /\ answered = 0 /\ ~quiet
  BY DEF Calls!Init, Calls!IsThreeDs
<1>. QED
  BY <1>1, <1>2 DEF EngineInv, GenerationInv, Calls!SupersededNeverInstalled, PauseInv

\* Session counts with the Cardinality that it extends, which is the one of here.
LEMMA SameCardinality == \A S : Calls!Cardinality(S) = Cardinality(S)
BY Zenon DEF Calls!Cardinality, Cardinality

LEMMA OneEngineOfInv ==
  ASSUME Calls!CallersAssumption, EngineInv
  PROVE  Calls!OneEngine
<1>. DEFINE Coming == {c \in Callers : call[c].next}
<1>1. Cardinality({}) = 0
  BY FS_EmptySet
<1>2. CASE Coming = {}
  <2>1. Cardinality(Coming) = 0
    BY <1>1, <1>2
  <2>. HIDE DEF Coming
  <2>2. Cardinality(Coming) + (IF Calls!IsThreeDs THEN 1 ELSE 0) <= 1
    BY <2>1
  <2>. QED
    BY <2>2, SameCardinality DEF Calls!OneEngine, Coming
<1>3. CASE Coming # {}
  <2>1. Coming = {bootLock} /\ ~Calls!IsThreeDs
    BY <1>3 DEF EngineInv
  <2>2. Cardinality({bootLock}) = 1
    BY FS_Singleton
  <2>. HIDE DEF Coming
  <2>3. Cardinality(Coming) + (IF Calls!IsThreeDs THEN 1 ELSE 0) <= 1
    BY <2>1, <2>2
  <2>. QED
    BY <2>3, SameCardinality DEF Calls!OneEngine, Coming
<1>. QED
  BY <1>2, <1>3

\* What the three theorems rest on.
CallsInv == component = "Calls" => LineFacts /\ EngineInv /\ GenerationInv /\ PauseInv

LEMMA CallsInvAlways == SpecAll => []CallsInv
<1>1. InitAll => CallsInv
  BY BeginningOfOne, FactsInit, EngineInit, ServicesAssumption DEF CallsInv
<1>2. CallsInv /\ [NextAll]_all => CallsInv'
  <2>. SUFFICES ASSUME CallsInv, [NextAll]_all, component' = "Calls" PROVE CallsInv'
    BY DEF CallsInv
  <2>1. LineFacts /\ EngineInv /\ GenerationInv /\ PauseInv /\ [Calls!Next]_CallsVars
    BY StepOfOne DEF CallsInv
  <2>2. LineFacts' /\ EngineInv' /\ GenerationInv' /\ PauseInv'
    BY <2>1, FactsNext, EngineNext, GenerationNext, PauseNext, ServicesAssumption
  <2>. QED
    BY <2>2 DEF CallsInv
<1>. QED
  BY <1>1, <1>2, PTL DEF SpecAll

\* The engine of the 3DS is one global instance (EmuSession.cpp:287), and there are
\* never two cores that use it, whoever loads what and however often: threeDsLoadLock
\* is held from before the first of a load's two commands until after the second, and
\* the first has shut down what was there.
THEOREM OneEngineAlways == SpecAll => []OneEngine
<1>1. CallsInv => OneEngine
  BY OneEngineOfInv, ServicesAssumption DEF CallsInv, OneEngine
<1>. QED
  BY <1>1, CallsInvAlways, PTL

\* A 3DS boot that ends on its caller's thread after a later load or stop has returned
\* installs nothing, and one installed before is gone: the generation of the core that
\* is there is never behind that of what has taken effect (EmuSession.h:175).
THEOREM SupersededStaysOut == SpecAll => []SupersededNeverInstalled
<1>1. CallsInv => SupersededNeverInstalled
  BY DEF CallsInv, GenerationInv, SupersededNeverInstalled
<1>. QED
  BY <1>1, CallsInvAlways, PTL

\* After SetPaused(true) has returned, and until somebody lets the game go on, no frame
\* writes to a save that was just flushed: the switch is thrown before the flush is
\* queued, and the thread looks at it after it has run its commands (EmuSession.cpp:386).
THEOREM PauseFlushes == SpecAll => []PausedMeansFlushed
<1>1. CallsInv => PausedMeansFlushed
  BY DEF CallsInv, PauseInv, PausedMeansFlushed, Calls!PausedMeansFlushed
<1>. QED
  BY <1>1, CallsInvAlways, PTL

-----------------------------------------------------------------------------
(* The I/O worker                                                           *)

IoInv == Io!TypeOK /\ Io!JobOfEachCaller

\* What Take and Finish do to the line: the first leaves it alone, the second
\* takes off its head.
LEMMA JobLineIsSeq ==
  ASSUME Io!TypeOK
  PROVE  /\ Io!Line \in Seq(Io!Posted)
         /\ ioRunning # NoJob => Len(Io!Line) = Len(jobs) + 1 /\ Io!Line[1] = ioRunning
                               /\ \A i \in 1 .. Len(jobs) : Io!Line[i + 1] = jobs[i]
         /\ ioRunning = NoJob => Io!Line = jobs
<1>1. CASE ioRunning = NoJob
  BY <1>1 DEF Io!Line, Io!TypeOK
<1>2. CASE ioRunning # NoJob
  <2>1. ioRunning \in Io!Posted /\ jobs \in Seq(Io!Posted)
    BY <1>2 DEF Io!TypeOK
  <2>2. Io!Line = <<ioRunning>> \o jobs
    BY <1>2 DEF Io!Line
  <2>. QED
    BY <1>2, <2>1, <2>2
<1>. QED
  BY <1>1, <1>2

\* Posting a job adds it at the end of the line.
LEMMA EnqueueExtends ==
  ASSUME Io!TypeOK, NEW j \in Io!Posted, Io!Enqueue(j), UNCHANGED ioRunning
  PROVE  /\ jobs' \in Seq(Io!Posted)
         /\ Len(Io!Line') = Len(Io!Line) + 1
         /\ \A i \in 1 .. Len(Io!Line) : Io!Line'[i] = Io!Line[i]
         /\ Io!Line'[Len(Io!Line) + 1] = j
<1>1. jobs \in Seq(Io!Posted) /\ jobs' = Append(jobs, j) /\ ioRunning' = ioRunning
  BY DEF Io!TypeOK, Io!Enqueue
<1>2. CASE ioRunning = NoJob
  <2>1. Io!Line = jobs /\ Io!Line' = jobs'
    BY <1>1, <1>2 DEF Io!Line
  <2>. QED
    BY <1>1, <2>1
<1>3. CASE ioRunning # NoJob
  <2>1. ioRunning \in Io!Posted
    BY <1>3 DEF Io!TypeOK
  <2>2. Io!Line = <<ioRunning>> \o jobs /\ Io!Line' = <<ioRunning>> \o jobs'
    BY <1>1, <1>3 DEF Io!Line
  <2>3. Io!Line' = Append(Io!Line, j)
    BY <1>1, <2>1, <2>2
  <2>4. Io!Line \in Seq(Io!Posted)
    BY <1>1, <2>1, <2>2
  <2>5. jobs' \in Seq(Io!Posted)
    BY <1>1
  <2>. QED
    BY <2>3, <2>4, <2>5
<1>. QED
  BY <1>2, <1>3

LEMMA IoInit == Io!Init => IoInv
<1>. SUFFICES ASSUME Io!Init PROVE IoInv
  OBVIOUS
<1>1. Io!TypeOK
  BY DEF Io!Init, Io!TypeOK
<1>2. Io!Line = << >> /\ blocked = {}
  BY DEF Io!Init, Io!Line
<1>. QED
  BY <1>1, <1>2 DEF IoInv, Io!JobOfEachCaller

LEMMA PostInv ==
  ASSUME IoInv, NEW do \in Jobs, Io!Post(do)
  PROVE  IoInv'
<1>. DEFINE j == [do |-> do, by |-> Nobody]
<1>1. j \in Io!Posted
  BY DEF Io!Posted
<1>2. Io!Enqueue(j) /\ UNCHANGED <<ioRunning, blocked, ahead>>
  BY DEF Io!Post
<1>3. Io!TypeOK /\ Io!JobOfEachCaller
  BY DEF IoInv
<1>. HIDE DEF j
<1>4. /\ jobs' \in Seq(Io!Posted)
      /\ Len(Io!Line') = Len(Io!Line) + 1
      /\ \A i \in 1 .. Len(Io!Line) : Io!Line'[i] = Io!Line[i]
      /\ Io!Line'[Len(Io!Line) + 1] = j
  BY <1>1, <1>2, <1>3, EnqueueExtends
<1>5. Len(Io!Line) \in Nat
  BY <1>3, JobLineIsSeq, LenProperties
<1>6. j.by = Nobody
  BY DEF j
<1>7. Io!TypeOK'
  BY <1>2, <1>3, <1>4 DEF Io!TypeOK
<1>8. Io!JobOfEachCaller'
  BY <1>2, <1>3, <1>4, <1>5, <1>6 DEF Io!JobOfEachCaller
<1>. QED
  BY <1>7, <1>8 DEF IoInv

LEMMA RunInv ==
  ASSUME Io!WorkerAssumption, IoInv, NEW c \in Callers, NEW do \in Jobs \cup {Nothing}, Io!Run(c, do)
  PROVE  IoInv'
<1>. DEFINE j == [do |-> do, by |-> c]
<1>1. j \in Io!Posted /\ j.by = c
  BY DEF Io!Posted
<1>2. /\ Io!Enqueue(j) /\ UNCHANGED ioRunning
      /\ c \notin blocked /\ blocked' = blocked \cup {c}
      /\ ahead' = [ahead EXCEPT ![c] = Len(Io!Line) + 1]
  BY DEF Io!Run
<1>3. Io!TypeOK /\ Io!JobOfEachCaller
  BY DEF IoInv
<1>. HIDE DEF j
<1>4. /\ jobs' \in Seq(Io!Posted)
      /\ Len(Io!Line') = Len(Io!Line) + 1
      /\ \A i \in 1 .. Len(Io!Line) : Io!Line'[i] = Io!Line[i]
      /\ Io!Line'[Len(Io!Line) + 1] = j
  BY <1>1, <1>2, <1>3, EnqueueExtends
<1>5. Len(Io!Line) \in Nat
  BY <1>3, JobLineIsSeq, LenProperties
<1>6. c # Nobody
  BY DEF Io!WorkerAssumption
<1>7. Io!TypeOK'
  BY <1>2, <1>3, <1>4, <1>5 DEF Io!TypeOK
<1>8. ahead'[c] = Len(Io!Line) + 1 /\ \A d \in Callers \ {c} : ahead'[d] = ahead[d]
  BY <1>2, <1>3 DEF Io!TypeOK
<1>9. blocked \subseteq Callers
  BY <1>3 DEF Io!TypeOK
<1>10. \A d \in blocked' : ahead'[d] \in 1 .. Len(Io!Line') /\ Io!Line'[ahead'[d]].by = d
  <2>1. ASSUME NEW d \in blocked
        PROVE  ahead'[d] \in 1 .. Len(Io!Line') /\ Io!Line'[ahead'[d]].by = d
    <3>1. d # c /\ ahead'[d] = ahead[d]
      BY <1>2, <1>8, <1>9
    <3>2. ahead[d] \in 1 .. Len(Io!Line) /\ Io!Line[ahead[d]].by = d
      BY <1>3 DEF Io!JobOfEachCaller
    <3>. QED
      BY <1>4, <1>5, <3>1, <3>2
  <2>2. ahead'[c] \in 1 .. Len(Io!Line') /\ Io!Line'[ahead'[c]].by = c
    BY <1>1, <1>4, <1>5, <1>8
  <2>. QED
    BY <1>2, <2>1, <2>2
<1>11. \A i \in 1 .. Len(Io!Line') :
          Io!Line'[i].by = Nobody \/ (Io!Line'[i].by \in blocked' /\ ahead'[Io!Line'[i].by] = i)
  <2>1. ASSUME NEW i \in 1 .. Len(Io!Line)
        PROVE  Io!Line'[i].by = Nobody \/ (Io!Line'[i].by \in blocked' /\ ahead'[Io!Line'[i].by] = i)
    BY <1>2, <1>3, <1>4, <1>8, <1>9 DEF Io!JobOfEachCaller
  <2>. QED
    BY <1>1, <1>2, <1>4, <1>5, <1>8, <2>1
<1>. QED
  BY <1>7, <1>10, <1>11 DEF IoInv, Io!JobOfEachCaller

LEMMA TakeInv ==
  ASSUME Io!WorkerAssumption, IoInv, Io!Take
  PROVE  IoInv'
<1>1. Io!TypeOK /\ Io!JobOfEachCaller
  BY DEF IoInv
<1>2. /\ ioRunning = NoJob /\ jobs # << >>
      /\ ioRunning' = Head(jobs) /\ jobs' = Tail(jobs)
      /\ UNCHANGED <<blocked, ahead>>
  BY DEF Io!Take
<1>3. jobs \in Seq(Io!Posted) /\ Head(jobs) \in Io!Posted /\ Tail(jobs) \in Seq(Io!Posted)
  BY <1>1, <1>2, HeadTailProperties DEF Io!TypeOK
<1>4. Io!TypeOK'
  BY <1>1, <1>2, <1>3 DEF Io!TypeOK
<1>5. Io!Line' = Io!Line
  <2>1. ioRunning' # NoJob
    BY <1>2, <1>3 DEF Io!WorkerAssumption
  <2>2. Io!Line' = <<Head(jobs)>> \o Tail(jobs)
    BY <1>2, <2>1 DEF Io!Line
  <2>3. <<Head(jobs)>> \o Tail(jobs) = jobs
    BY <1>2, <1>3
  <2>. QED
    BY <1>2, <2>2, <2>3 DEF Io!Line
<1>6. Io!JobOfEachCaller'
  BY <1>1, <1>2, <1>5 DEF Io!JobOfEachCaller
<1>. QED
  BY <1>4, <1>6 DEF IoInv

LEMMA FinishInv ==
  ASSUME IoInv, Io!Finish
  PROVE  IoInv'
<1>1. Io!TypeOK /\ Io!JobOfEachCaller
  BY DEF IoInv
<1>2. /\ ioRunning # NoJob /\ ioRunning' = NoJob
      /\ blocked' = blocked \ {ioRunning.by}
      /\ ahead' = [c \in Callers |-> IF c \in blocked' THEN ahead[c] - 1 ELSE 0]
      /\ jobs' = jobs
  BY DEF Io!Finish
<1>3. jobs \in Seq(Io!Posted) /\ Len(jobs) \in Nat /\ blocked \subseteq Callers /\ ahead \in [Callers -> Nat]
  BY <1>1, LenProperties DEF Io!TypeOK
<1>4. Io!Line' = jobs
  BY <1>2 DEF Io!Line
<1>5. /\ Len(Io!Line) = Len(jobs) + 1 /\ Io!Line[1] = ioRunning
      /\ \A i \in 1 .. Len(jobs) : Io!Line[i + 1] = jobs[i]
  BY <1>1, <1>2, JobLineIsSeq
<1>6. ASSUME NEW d \in blocked'
      PROVE  ahead'[d] \in 1 .. Len(jobs) /\ jobs[ahead'[d]].by = d
  <2>1. d \in blocked /\ d # ioRunning.by /\ d \in Callers
    BY <1>2, <1>3
  <2>2. ahead[d] \in 1 .. Len(Io!Line) /\ Io!Line[ahead[d]].by = d
    BY <1>1, <2>1 DEF Io!JobOfEachCaller
  <2>3. ahead[d] # 1
    BY <1>5, <2>1, <2>2
  <2>4. ahead'[d] = ahead[d] - 1
    BY <1>2, <2>1
  <2>5. ahead'[d] \in 1 .. Len(jobs) /\ ahead[d] = ahead'[d] + 1
    BY <1>3, <1>5, <2>2, <2>3, <2>4
  <2>. QED
    BY <1>5, <2>2, <2>5
<1>7. \A c \in Callers : ahead'[c] \in Nat
  <2>1. ASSUME NEW c \in Callers, c \in blocked' PROVE ahead'[c] \in Nat
    BY <1>6, <2>1
  <2>2. ASSUME NEW c \in Callers, c \notin blocked' PROVE ahead'[c] = 0
    BY <1>2, <2>2
  <2>. QED
    BY <2>1, <2>2
<1>8. Io!TypeOK'
  BY <1>2, <1>3, <1>7 DEF Io!TypeOK
<1>9. ASSUME NEW i \in 1 .. Len(jobs), jobs[i].by # Nobody
      PROVE  jobs[i].by \in blocked' /\ ahead'[jobs[i].by] = i
  <2>1. i + 1 \in 1 .. Len(Io!Line) /\ Io!Line[i + 1] = jobs[i]
    BY <1>3, <1>5
  <2>2. jobs[i].by \in blocked /\ ahead[jobs[i].by] = i + 1
    BY <1>1, <1>9, <2>1 DEF Io!JobOfEachCaller
  <2>3. ioRunning.by = Nobody \/ ahead[ioRunning.by] = 1
    BY <1>1, <1>3, <1>5 DEF Io!JobOfEachCaller
  <2>4. jobs[i].by # ioRunning.by
    BY <1>9, <2>2, <2>3
  <2>5. jobs[i].by \in blocked' /\ jobs[i].by \in Callers
    BY <1>2, <1>3, <2>2, <2>4
  <2>. QED
    BY <1>2, <2>2, <2>5
<1>. QED
  BY <1>4, <1>6, <1>8, <1>9 DEF IoInv, Io!JobOfEachCaller

LEMMA IoNext ==
  ASSUME Io!WorkerAssumption, IoInv, [Io!Next]_IoVars
  PROVE  IoInv'
<1>1. ASSUME NEW j \in Jobs, Io!Post(j) PROVE IoInv'
  BY <1>1, PostInv
<1>2. ASSUME NEW c \in Callers, Io!Drain(c) PROVE IoInv'
  BY <1>2, RunInv DEF Io!Drain
<1>3. ASSUME NEW c \in Callers, NEW j \in Jobs, Io!Run(c, j) PROVE IoInv'
  BY <1>3, RunInv
<1>4. CASE Io!Take
  BY <1>4, TakeInv
<1>5. CASE Io!Finish
  BY <1>5, FinishInv
<1>6. CASE UNCHANGED IoVars
  BY <1>6 DEF IoInv, Io!TypeOK, Io!JobOfEachCaller, Io!Line, IoVars
<1>. QED
  BY <1>1, <1>2, <1>3, <1>4, <1>5, <1>6 DEF Io!Next

IoAlwaysInv == component = "Io" => IoInv

LEMMA IoInvAlways == SpecAll => []IoAlwaysInv
<1>1. InitAll => IoAlwaysInv
  BY BeginningOfOne, IoInit DEF IoAlwaysInv
<1>2. IoAlwaysInv /\ [NextAll]_all => IoAlwaysInv'
  <2>. SUFFICES ASSUME IoAlwaysInv, [NextAll]_all, component' = "Io" PROVE IoInv'
    BY DEF IoAlwaysInv
  <2>1. IoInv /\ [Io!Next]_IoVars
    BY StepOfOne DEF IoAlwaysInv
  <2>. QED
    BY <2>1, IoNext, ServicesAssumption
<1>. QED
  BY <1>1, <1>2, PTL DEF SpecAll

\* The job of a blocked caller is where the caller's count says and nowhere
\* else, whatever the callers, the jobs and the bound (IoWorker::Run).
THEOREM NoCallerIsLost == SpecAll => [](component = "Io" => Io!JobOfEachCaller)
<1>1. IoAlwaysInv => (component = "Io" => Io!JobOfEachCaller)
  BY DEF IoAlwaysInv, IoInv
<1>. QED
  BY <1>1, IoInvAlways, PTL

LEMMA JobStepWaits ==
  ASSUME Io!WorkerAssumption, IoInv, [Io!Next]_IoVars
  PROVE  Io!DrainStepWaits
<1>1. CASE Io!Finish
  <2>1. Len(Io!Line) = Len(jobs) + 1 /\ Io!Line[1] = ioRunning /\ Len(jobs) \in Nat
    BY <1>1, JobLineIsSeq, LenProperties DEF IoInv, Io!TypeOK, Io!Finish
  <2>2. ioRunning.by = Nobody \/ ahead[ioRunning.by] = 1
    BY <2>1 DEF IoInv, Io!JobOfEachCaller
  <2>. QED
    BY <1>1, <2>2 DEF Io!Finish, Io!WorkerAssumption, Io!DrainStepWaits
<1>2. CASE UNCHANGED IoVars
  BY <1>2 DEF IoVars, Io!DrainStepWaits
<1>3. ASSUME NEW j \in Jobs, Io!Post(j) PROVE Io!DrainStepWaits
  BY <1>3 DEF Io!Post, Io!DrainStepWaits
<1>4. ASSUME NEW c \in Callers, NEW j \in Jobs \cup {Nothing}, Io!Run(c, j) PROVE Io!DrainStepWaits
  BY <1>4 DEF Io!Run, Io!DrainStepWaits
<1>5. CASE Io!Take
  BY <1>5 DEF Io!Take, Io!DrainStepWaits
<1>. QED
  BY <1>1, <1>2, <1>3, <1>4, <1>5 DEF Io!Next, Io!Drain

\* Run and Drain return in the step that ends the last job posted up to their
\* own and in no other (IoWorker::Drain).
THEOREM DrainReturnsLast == SpecAll => DrainWaits
<1>1. IoAlwaysInv /\ [NextAll]_all => [component = "Io" => Io!DrainStepWaits]_all
  <2>. SUFFICES ASSUME IoAlwaysInv, [NextAll]_all, component = "Io" PROVE Io!DrainStepWaits
    OBVIOUS
  <2>1. IoInv /\ [Io!Next]_IoVars
    BY StepOfOne DEF IoAlwaysInv
  <2>. QED
    BY <2>1, JobStepWaits, ServicesAssumption
<1>. QED
  BY <1>1, IoInvAlways, PTL DEF SpecAll, DrainWaits

-----------------------------------------------------------------------------
(* A file written atomically                                                *)

\* A write under way has a content; it is all in the temporary file once the
\* write loop is done (TypeOK says so).
FileInv ==
  /\ Atomic!TypeOK
  /\ fileCall # "idle" => data \in Contents

\* While every fsync works, what is renamed is on the storage before, and so is
\* the target at any time.
SyncInv ==
  ~fsyncFailed => /\ fileCall = "rename" => tmpSynced
                  /\ synced

StorageInv == FileInv /\ SyncInv /\ Atomic!ReaderFindsWholeFile /\ Atomic!PowerCutLeavesWholeFile

LEMMA FileInit == Atomic!Init => FileInv
BY DEF Atomic!Init, FileInv, Atomic!TypeOK, Atomic!Files

LEMMA FileNext == FileInv /\ [Atomic!Next]_AtomicVars => FileInv'
<1>. SUFFICES ASSUME FileInv, [Atomic!Next]_AtomicVars PROVE FileInv'
  OBVIOUS
<1>. USE DEF FileInv, Atomic!TypeOK, Atomic!Files, Atomic!diskVars, Atomic!tmpVars
<1>1. ASSUME NEW c \in Contents, Atomic!Begin(c) PROVE FileInv'
  BY <1>1 DEF Atomic!Begin
<1>2. CASE Atomic!Open
  BY <1>2 DEF Atomic!Open
<1>3. CASE Atomic!Write
  BY <1>3 DEF Atomic!Write
<1>4. CASE Atomic!Fsync
  BY <1>4 DEF Atomic!Fsync
<1>5. CASE Atomic!Rename
  BY <1>5 DEF Atomic!Rename
<1>6. CASE Atomic!Fail
  BY <1>6 DEF Atomic!Fail
<1>7. CASE Atomic!Return
  BY <1>7 DEF Atomic!Return
<1>8. CASE Atomic!Writeback
  BY <1>8 DEF Atomic!Writeback
<1>9. CASE Atomic!Kill
  BY <1>9 DEF Atomic!Kill
<1>10. CASE Atomic!PowerCut
  BY <1>10 DEF Atomic!PowerCut
<1>11. CASE UNCHANGED AtomicVars
  BY <1>11 DEF AtomicVars
<1>. QED
  BY <1>1, <1>2, <1>3, <1>4, <1>5, <1>6, <1>7, <1>8, <1>9, <1>10, <1>11 DEF Atomic!Next, Atomic!Step

LEMMA StorageInit ==
  ASSUME Atomic!FileAssumption, Atomic!Init
  PROVE  StorageInv
<1>1. FileInv
  BY FileInit
<1>2. SyncInv /\ Atomic!ReaderFindsWholeFile /\ Atomic!PowerCutLeavesWholeFile
  BY DEF Atomic!Init, Atomic!FileAssumption, SyncInv, Atomic!ReaderFindsWholeFile, Atomic!PowerCutLeavesWholeFile
<1>. QED
  BY <1>1, <1>2 DEF StorageInv

\* Only Rename, Writeback and PowerCut touch the target or the storage.
LEMMA StorageNext ==
  ASSUME Atomic!FileAssumption, StorageInv, [Atomic!Next]_AtomicVars
  PROVE  StorageInv'
<1>1. FileInv /\ FileInv'
  BY FileNext DEF StorageInv
<1>2. SyncInv' /\ Atomic!ReaderFindsWholeFile' /\ Atomic!PowerCutLeavesWholeFile'
  <2>. USE DEF StorageInv, SyncInv, Atomic!ReaderFindsWholeFile, Atomic!PowerCutLeavesWholeFile, Atomic!diskVars, Atomic!tmpVars
  <2>1. ASSUME NEW c \in Contents, Atomic!Begin(c)
                PROVE  SyncInv' /\ Atomic!ReaderFindsWholeFile' /\ Atomic!PowerCutLeavesWholeFile'
    BY <2>1 DEF Atomic!Begin
  <2>2. CASE Atomic!Open \/ Atomic!Write \/ Atomic!Fail \/ Atomic!Return \/ Atomic!Kill
    BY <2>2 DEF Atomic!Open, Atomic!Write, Atomic!Fail, Atomic!Return, Atomic!Kill
  <2>3. CASE Atomic!Fsync
    BY <2>3 DEF Atomic!Fsync
  <2>4. CASE Atomic!Rename
    <3>1. tmp = data /\ data \in Contents /\ (~fsyncFailed => tmpSynced)
      BY <1>1, <2>4 DEF Atomic!Rename, FileInv, Atomic!TypeOK
    <3>. QED
      BY <2>4, <3>1 DEF Atomic!Rename, Atomic!FileAssumption
  <2>5. CASE Atomic!Writeback
    BY <2>5 DEF Atomic!Writeback
  <2>6. CASE Atomic!PowerCut
    BY <2>6 DEF Atomic!PowerCut
  <2>7. CASE UNCHANGED AtomicVars
    BY <2>7 DEF AtomicVars
  <2>. QED
    BY <2>1, <2>2, <2>3, <2>4, <2>5, <2>6, <2>7 DEF Atomic!Next, Atomic!Step
<1>. QED
  BY <1>1, <1>2 DEF StorageInv

\* A write replaces the old file by the whole new content in one step, or leaves
\* it alone, whichever of its system calls fail.
LEMMA FileStepIsOne ==
  ASSUME FileInv, [Atomic!Next]_AtomicVars
  PROVE  Atomic!FileStepIsWhole
<1>. SUFFICES ASSUME Atomic!Next, target' # target
              PROVE  \/ fileCall = "rename" /\ target' = data
                     \/ fileCall' = "idle" /\ target' = durable
  BY DEF AtomicVars, Atomic!FileStepIsWhole
<1>1. CASE Atomic!Rename
  BY <1>1 DEF Atomic!Rename, FileInv, Atomic!TypeOK
<1>2. CASE Atomic!PowerCut
  BY <1>2 DEF Atomic!PowerCut
<1>3. ASSUME \/ \E c \in Contents : Atomic!Begin(c)
             \/ Atomic!Open \/ Atomic!Write \/ Atomic!Fsync \/ Atomic!Fail \/ Atomic!Return
             \/ Atomic!Writeback \/ Atomic!Kill
      PROVE  target' = target
  BY <1>3 DEF Atomic!Begin, Atomic!Open, Atomic!Write, Atomic!Fsync, Atomic!Fail, Atomic!Return,
         Atomic!Writeback, Atomic!Kill, Atomic!diskVars
<1>. QED
  BY <1>1, <1>2, <1>3 DEF Atomic!Next, Atomic!Step

AtomicInv == component = "Atomic" => StorageInv

LEMMA AtomicInvAlways == SpecAll => []AtomicInv
<1>1. InitAll => AtomicInv
  BY BeginningOfOne, StorageInit, ServicesAssumption DEF AtomicInv
<1>2. AtomicInv /\ [NextAll]_all => AtomicInv'
  <2>. SUFFICES ASSUME AtomicInv, [NextAll]_all, component' = "Atomic" PROVE StorageInv'
    BY DEF AtomicInv
  <2>1. StorageInv /\ [Atomic!Next]_AtomicVars
    BY StepOfOne DEF AtomicInv
  <2>. QED
    BY <2>1, StorageNext, ServicesAssumption
<1>. QED
  BY <1>1, <1>2, PTL DEF SpecAll

\* Until an fsync fails, neither a reader, even one that reads while it is
\* written, nor the next boot after a power cut finds half a file, whatever else
\* fails and whenever the process is killed (WriteFileAtomic).
THEOREM FileIsAlwaysWhole == SpecAll => []WholeFile
<1>1. AtomicInv => WholeFile
  BY DEF AtomicInv, StorageInv, WholeFile, Atomic!WholeFile
<1>. QED
  BY <1>1, AtomicInvAlways, PTL

\* The file changes once in a write, whichever of its system calls fail, also when an
\* fsync has failed before (WriteFileAtomic).
THEOREM FileChangesAtOnce ==
  SpecAll => [][component = "Atomic" => Atomic!FileStepIsWhole]_all
<1>1. AtomicInv /\ [NextAll]_all => [component = "Atomic" => Atomic!FileStepIsWhole]_all
  <2>. SUFFICES ASSUME AtomicInv, [NextAll]_all, component = "Atomic" PROVE Atomic!FileStepIsWhole
    OBVIOUS
  <2>1. FileInv /\ [Atomic!Next]_AtomicVars
    BY StepOfOne DEF AtomicInv, StorageInv
  <2>. QED
    BY <2>1, FileStepIsOne
<1>. QED
  BY <1>1, AtomicInvAlways, PTL DEF SpecAll

-----------------------------------------------------------------------------
(* The audio output                                                         *)

-----------------------------------------------------------------------------
(* The inductive invariant                                                  *)

\* What is read is the source, and that is a core that nobody replaces.
SourceInv ==
  /\ reading = 0 \/ reading = source
  /\ source # 0 => swap = "none" /\ source \in alive
  /\ swap \in {"none", "detached", "gone"}

\* A stream that was lost does not play, the only one that may is the engine's, and
\* there is none after the output was given up: nothing lost is ever its stream again.
StreamInv ==
  /\ streams \in Nat /\ outStream \in Nat /\ outStream <= streams
  /\ \A s \in lost : s \in Nat /\ s # 0 /\ s <= streams
  /\ playing \subseteq {outStream} \ {0}
  /\ playing \cap lost = {}
  /\ ~audioWanted => outStream = 0

-----------------------------------------------------------------------------
(* The stream                                                               *)

\* A stream is opened where none plays, and its number is new.
LEMMA OpenKeepsStream ==
  ASSUME StreamInv, playing = {}, Audio!OpenOutput, lost' \subseteq lost, audioWanted'
  PROVE  StreamInv'
<1>1. streams' = streams + 1 /\ streams \in Nat /\ streams + 1 \notin lost
  BY DEF Audio!OpenOutput, StreamInv
<1>2. CASE outStream' = streams + 1 /\ playing' = {streams + 1}
  BY <1>1, <1>2 DEF StreamInv
<1>3. CASE outStream' = 0 /\ playing' = {}
  BY <1>1, <1>3 DEF StreamInv
<1>. QED
  BY <1>2, <1>3 DEF Audio!OpenOutput

LEMMA StreamNext ==
  ASSUME StreamInv, [Audio!Next]_AudioVars
  PROVE  StreamInv'
<1>1. CASE UNCHANGED Audio!streamVars
  BY <1>1 DEF Audio!streamVars, StreamInv
<1>2. CASE Audio!StartOutput
  <2>1. CASE outStream = 0
    <3>1. playing = {} /\ Audio!OpenOutput /\ lost' \subseteq lost /\ audioWanted'
      BY <1>2, <2>1 DEF Audio!StartOutput, StreamInv
    <3>. QED
      BY <3>1, OpenKeepsStream
  <2>2. CASE outStream # 0
    BY <1>2, <2>2 DEF Audio!StartOutput, StreamInv
  <2>. QED
    BY <2>1, <2>2
<1>3. CASE Audio!StopOutput
  <2>1. playing' = {} /\ outStream' = 0 /\ UNCHANGED <<streams, lost>>
    BY <1>3 DEF Audio!StopOutput, StreamInv
  <2>. QED
    BY <2>1 DEF StreamInv
<1>4. ASSUME NEW s \in playing, Audio!Disconnect(s) PROVE StreamInv'
  <2>1. s = outStream /\ s # 0 /\ playing' = {}
    BY <1>4 DEF Audio!Disconnect, StreamInv
  <2>2. lost' = lost \cup {s} /\ UNCHANGED <<outStream, streams, audioWanted>>
    BY <1>4 DEF Audio!Disconnect
  <2>. QED
    BY <2>1, <2>2 DEF StreamInv
<1>5. ASSUME NEW s \in lost, Audio!Reopen(s) PROVE StreamInv'
  <2>1. lost' \subseteq lost /\ audioWanted' = audioWanted
    BY <1>5 DEF Audio!Reopen
  <2>2. CASE s = outStream
    <3>1. playing = {}
      BY <1>5, <2>2 DEF StreamInv
    <3>2. audioWanted
      BY <1>5, <2>2 DEF StreamInv
    <3>3. audioWanted'
      BY <2>1, <3>2
    <3>4. Audio!OpenOutput
      BY <1>5, <2>2 DEF Audio!Reopen
    <3>. QED
      BY <2>1, <3>1, <3>3, <3>4, OpenKeepsStream
  <2>3. CASE s # outStream
    <3>1. UNCHANGED <<outStream, streams, playing>>
      BY <1>5, <2>3 DEF Audio!Reopen
    <3>2. ~audioWanted' => outStream' = 0
      <4>1. ~audioWanted => outStream = 0
        BY DEF StreamInv
      <4>. QED
        BY <2>1, <3>1, <4>1, Zenon
    <3>. QED
      BY <2>1, <3>1, <3>2 DEF StreamInv
  <2>. QED
    BY <2>2, <2>3
<1>. QED
  BY <1>1, <1>2, <1>3, <1>4, <1>5 DEF Audio!Next, Audio!SwapCore, Audio!Loop, Audio!Switch, Audio!BeginRead, Audio!EndRead, Audio!streamVars, AudioVars

-----------------------------------------------------------------------------
(* The source                                                               *)

LEMMA SourceNext ==
  ASSUME SourceInv, [Audio!Next]_AudioVars
  PROVE  SourceInv'
<1>1. CASE Audio!SwapCore
  <2>1. CASE swap = "none" /\ Audio!SetSource(0) /\ swap' = "detached" /\ UNCHANGED reading
    BY <2>1 DEF SourceInv, Audio!SetSource
  <2>2. CASE swap = "detached" /\ swap' = "gone" /\ UNCHANGED <<source, reading>>
    BY <2>2 DEF SourceInv
  <2>3. CASE /\ alive' = alive \cup ({audioCore} \ {0}) /\ Audio!SetSource(audioCore)
             /\ swap' = "none" /\ UNCHANGED reading
    BY <2>3 DEF SourceInv, Audio!SetSource
  <2>. QED
    BY <1>1, <2>1, <2>2, <2>3 DEF Audio!SwapCore
<1>2. CASE Audio!BeginRead
  BY <1>2 DEF Audio!BeginRead, Audio!coreVars, SourceInv
<1>3. CASE Audio!EndRead
  BY <1>3 DEF Audio!EndRead, Audio!coreVars, SourceInv
<1>4. CASE UNCHANGED <<Audio!coreVars, reading>>
  BY <1>4 DEF Audio!coreVars, SourceInv
<1>5. Audio!Loop \/ Audio!Switch \/ UNCHANGED AudioVars => UNCHANGED <<Audio!coreVars, reading>>
  <2>1. Audio!Loop => UNCHANGED <<Audio!coreVars, reading>>
    BY DEF Audio!Loop
  <2>2. Audio!Switch => UNCHANGED <<Audio!coreVars, reading>>
    BY DEF Audio!Switch
  <2>. QED
    BY <2>1, <2>2 DEF Audio!coreVars, AudioVars
<1>6. ASSUME NEW s, Audio!Disconnect(s) \/ Audio!Reopen(s) PROVE UNCHANGED <<Audio!coreVars, reading>>
  BY <1>6 DEF Audio!Disconnect, Audio!Reopen
<1>. QED
  BY <1>1, <1>2, <1>3, <1>4, <1>5, <1>6 DEF Audio!Next

AudioInv == component = "Audio" => SourceInv /\ StreamInv

LEMMA AudioInvAlways == SpecAll => []AudioInv
<1>1. InitAll => AudioInv
  BY BeginningOfOne DEF AudioInv, Audio!Init, SourceInv, StreamInv
<1>2. AudioInv /\ [NextAll]_all => AudioInv'
  <2>. SUFFICES ASSUME AudioInv, [NextAll]_all, component' = "Audio" PROVE SourceInv' /\ StreamInv'
    BY DEF AudioInv
  <2>1. SourceInv /\ StreamInv /\ [Audio!Next]_AudioVars
    BY StepOfOne DEF AudioInv
  <2>. QED
    BY <2>1, SourceNext, StreamNext
<1>. QED
  BY <1>1, <1>2, PTL DEF SpecAll

-----------------------------------------------------------------------------
(* The microphone                                                           *)

\* Whatever the two threads are doing, the microphone is opened only where it is allowed,
\* and what forbids it goes on to close it.
LEMMA MicNext ==
  ASSUME Mic!ForbiddenIsClosed, [Mic!Next]_MicVars
  PROVE  Mic!ForbiddenIsClosed'
<1>. USE DEF Mic!ForbiddenIsClosed, Mic!engineVars, Mic!uiVars
<1>1. CASE Mic!OnMicStart \/ Mic!EmulationClose \/ Mic!ChangeMode \/ Mic!InterfaceClose
  BY <1>1 DEF Mic!OnMicStart, Mic!EmulationClose, Mic!ChangeMode, Mic!InterfaceClose
<1>2. CASE Mic!EmulationStart \/ Mic!InterfaceStart
  BY <1>2 DEF Mic!EmulationStart, Mic!InterfaceStart, Mic!StartMic, Mic!OpenStream
<1>3. CASE Mic!OnMicStop \/ Mic!InterfaceStop
  BY <1>3 DEF Mic!OnMicStop, Mic!InterfaceStop, Mic!StopMic
<1>4. CASE Mic!HandleRequest \/ Mic!AnswerPermission
  BY <1>4 DEF Mic!HandleRequest, Mic!AnswerPermission, Mic!SetMicAllowed
<1>5. CASE UNCHANGED MicVars
  BY <1>5 DEF MicVars
<1>. QED
  BY <1>1, <1>2, <1>3, <1>4, <1>5 DEF Mic!Next, Mic!EmulationFinishes, Mic!Interface

MicInv == component = "Mic" => Mic!ForbiddenIsClosed

LEMMA MicInvAlways == SpecAll => []MicInv
<1>1. InitAll => MicInv
  BY BeginningOfOne DEF MicInv, Mic!Init, Mic!ForbiddenIsClosed
<1>2. MicInv /\ [NextAll]_all => MicInv'
  BY StepOfOne, MicNext DEF MicInv
<1>. QED
  BY <1>1, <1>2, PTL DEF SpecAll

\* However often the device takes the stream away, the output is stopped and started, and
\* cores are replaced: the audio thread reads a core that is alive, since SwapCore takes
\* the source away under sourceLock before the core is shut down (EmuSession.cpp:211), and
\* hears one stream, none after the output was given up, since an error callback that comes
\* late finds that its stream is not the engine's any more (AudioEngine.cpp:182).  And no
\* thread leaves the microphone open after SetMicAllowed(false) has returned, in whatever
\* order the game, the permission dialog and the setting come.
THEOREM AudioStaysSafe == SpecAll => []AudioIsSafe
<1>1. AudioInv /\ MicInv => AudioIsSafe
  BY DEF AudioInv, MicInv, SourceInv, StreamInv, AudioIsSafe, Audio!ReadsAndPlaysOne,
         Audio!SourceIsAlive, Audio!OneStream
<1>. QED
  BY <1>1, AudioInvAlways, MicInvAlways, PTL

-----------------------------------------------------------------------------
(* Save states                                                              *)

\* The file of the last save is in the slot, or it is the undo file while nothing is in the
\* slot or a later save that the player has not been told of is.
KeptInv ==
  \A g \in Games : kept[g] # 0 /\ ~raced[g] =>
    \/ kept[g] = slot[g]
    \/ kept[g] = undo[g] /\ (slot[g] = 0 \/ (save.at = "answered" /\ save.ok /\ save.game = g))

\* A call of SaveState is about the game that runs; its state is in the slot once it has
\* succeeded, and nothing is while it writes, unless it met an undo.
SaveInv ==
  /\ save.at # "idle" => save.game \in Games /\ save.game = console.game
  /\ save.ok => save.at = "answered" /\ (save.raced \/ save.state = slot[save.game])
  /\ save.at = "writing" => raced[save.game] \/ slot[save.game] = 0
  /\ lastSaved => console.game \in Games

SavedTypes ==
  /\ slot \in [Games -> Nat] /\ undo \in [Games -> Nat] /\ kept \in [Games -> Nat]
  /\ raced \in [Games -> BOOLEAN] /\ lastSaved \in BOOLEAN /\ made \in Nat
  /\ console \in [game : Games \cup {NoGame}, moment : Nat]
  /\ loadUndo \in [game : Games \cup {NoGame}, moment : Nat]
  /\ save \in [at : {"idle", "writing", "answered"}, game : Games \cup {NoGame},
               state : Nat, ok : BOOLEAN, raced : BOOLEAN]

StatesInv == SavedTypes /\ SaveInv /\ KeptInv /\ Saved!BackupFitsTheGame

LEMMA SavedTypesNext ==
  ASSUME SavedTypes, SaveInv, [Saved!Next]_SavedVars
  PROVE  SavedTypes'
<1>. USE DEF SavedTypes, Saved!files, Saved!playerVars, Saved!NoSave, Saved!NoBackup
<1>1. ASSUME NEW g \in Games, Saved!LoadGame(g) PROVE SavedTypes'
  <2>. USE <1>1 DEF Saved!LoadGame, Saved!NewMoment, Saved!SwapCore
  <2>1. console' \in [game : Games \cup {NoGame}, moment : Nat]
    OBVIOUS
  <2>2. loadUndo' \in [game : Games \cup {NoGame}, moment : Nat]
    OBVIOUS
  <2>. QED
    BY <2>1, <2>2
<1>2. CASE Saved!Play
  BY <1>2 DEF Saved!Play, Saved!NewMoment
<1>3. CASE Saved!SaveState
  <2>. USE <1>3 DEF Saved!SaveState
  <2>1. slot' \in [Games -> Nat] /\ undo' \in [Games -> Nat]
    BY DEF Saved!KeepReplaced
  <2>2. console.game \in Games /\ console.moment \in Nat
    OBVIOUS
  <2>3. save' \in [at : {"idle", "writing", "answered"}, game : Games \cup {NoGame},
                   state : Nat, ok : BOOLEAN, raced : BOOLEAN]
    <3>1. CASE save' = [Saved!NoSave EXCEPT !.at = "answered", !.game = console.game]
      BY <2>2, <3>1
    <3>2. CASE save' = [Saved!NoSave EXCEPT !.at = "writing", !.game = console.game,
                                            !.state = console.moment]
      BY <2>2, <3>2
    <3>. QED
      BY <3>1, <3>2
  <2>. QED
    BY <2>1, <2>3
<1>4. CASE Saved!WriteState
  BY <1>4 DEF Saved!WriteState, SaveInv
<1>5. CASE Saved!LoadState
  BY <1>5 DEF Saved!LoadState
<1>6. CASE Saved!UndoLoadState
  BY <1>6 DEF Saved!UndoLoadState
<1>7. CASE Saved!Told
  BY <1>7 DEF Saved!Told, Saved!Settle
<1>8. CASE Saved!UndoSaveState
  BY <1>8 DEF Saved!UndoSaveState, SaveInv
<1>9. CASE Saved!Kill
  BY <1>9 DEF Saved!Kill, Saved!Settle
<1>10. CASE UNCHANGED SavedVars
  BY <1>10 DEF SavedVars
<1>. QED
  BY <1>1, <1>2, <1>3, <1>4, <1>5, <1>6, <1>7, <1>8, <1>9, <1>10 DEF Saved!Next

LEMMA StatesNext ==
  ASSUME StatesInv, [Saved!Next]_SavedVars
  PROVE  StatesInv'
<1>. USE DEF Saved!files, Saved!playerVars, Saved!NoSave, Saved!NoBackup, Saved!Free
<1>a. SavedTypes /\ SaveInv /\ KeptInv /\ Saved!BackupFitsTheGame
  BY DEF StatesInv
<1>t. SavedTypes'
  BY SavedTypesNext, <1>a
<1>. DEFINE Rest == SaveInv' /\ KeptInv' /\ Saved!BackupFitsTheGame'
<1>1. ASSUME NEW g \in Games, Saved!LoadGame(g) PROVE Rest
  <2>. USE DEF Saved!LoadGame, Saved!NewMoment, Saved!SwapCore
  <2>1. SaveInv'
    BY <1>1, <1>a, <1>t DEF SavedTypes, SaveInv
  <2>2. KeptInv'
    BY <1>1, <1>a DEF SavedTypes, SaveInv, KeptInv
  <2>3. Saved!BackupFitsTheGame'
    BY <1>1, <1>a DEF SavedTypes, Saved!BackupFitsTheGame
  <2>. QED
    BY <2>1, <2>2, <2>3
<1>2. ASSUME Saved!Play PROVE Rest
  <2>. USE DEF Saved!Play, Saved!NewMoment
  <2>1. SaveInv'
    BY <1>2, <1>a, <1>t DEF SavedTypes, SaveInv
  <2>2. KeptInv'
    BY <1>2, <1>a DEF SavedTypes, SaveInv, KeptInv
  <2>3. Saved!BackupFitsTheGame'
    BY <1>2, <1>a DEF SavedTypes, Saved!BackupFitsTheGame
  <2>. QED
    BY <2>1, <2>2, <2>3
<1>3. ASSUME Saved!SaveState PROVE Rest
  <2>. USE DEF Saved!SaveState, Saved!KeepReplaced
  <2>1. SaveInv'
    <3>1. console' = console /\ lastSaved' = lastSaved /\ console.game \in Games
      BY <1>3, <1>a DEF SavedTypes
    <3>2. CASE save' = [Saved!NoSave EXCEPT !.at = "answered", !.game = console.game]
      BY <1>a, <3>1, <3>2 DEF SaveInv
    <3>3. CASE save' = [Saved!NoSave EXCEPT !.at = "writing", !.game = console.game,
                                            !.state = console.moment] /\ Saved!KeepReplaced(console.game)
      <4>1. save'.at = "writing" /\ save'.game = console.game /\ ~save'.ok
        BY <3>3
      <4>2. raced'[console.game] \/ slot'[console.game] = 0
        BY <1>a, <3>1, <3>3 DEF SavedTypes
      <4>. QED
        BY <1>a, <3>1, <4>1, <4>2 DEF SaveInv
    <3>. QED
      BY <1>3, <3>2, <3>3
  <2>2. KeptInv'
    BY <1>3, <1>a DEF SavedTypes, SaveInv, KeptInv
  <2>3. Saved!BackupFitsTheGame'
    BY <1>3, <1>a DEF SavedTypes, Saved!BackupFitsTheGame
  <2>. QED
    BY <2>1, <2>2, <2>3
<1>4. ASSUME Saved!WriteState PROVE Rest
  <2>. USE DEF Saved!WriteState
  <2>1. SaveInv'
    BY <1>4, <1>a, <1>t DEF SavedTypes, SaveInv
  <2>2. KeptInv'
    BY <1>4, <1>a DEF SavedTypes, SaveInv, KeptInv
  <2>3. Saved!BackupFitsTheGame'
    BY <1>4, <1>a DEF SavedTypes, Saved!BackupFitsTheGame
  <2>. QED
    BY <2>1, <2>2, <2>3
<1>5. ASSUME Saved!LoadState PROVE Rest
  <2>. USE DEF Saved!LoadState
  <2>1. SaveInv'
    BY <1>5, <1>a, <1>t DEF SavedTypes, SaveInv
  <2>2. KeptInv'
    BY <1>5, <1>a DEF SavedTypes, SaveInv, KeptInv
  <2>3. Saved!BackupFitsTheGame'
    BY <1>5, <1>a DEF SavedTypes, Saved!BackupFitsTheGame
  <2>. QED
    BY <2>1, <2>2, <2>3
<1>6. ASSUME Saved!UndoLoadState PROVE Rest
  <2>. USE DEF Saved!UndoLoadState
  <2>1. SaveInv'
    BY <1>6, <1>a, <1>t DEF SavedTypes, SaveInv
  <2>2. KeptInv'
    BY <1>6, <1>a DEF SavedTypes, SaveInv, KeptInv
  <2>3. Saved!BackupFitsTheGame'
    BY <1>6, <1>a DEF SavedTypes, Saved!BackupFitsTheGame
  <2>. QED
    BY <2>1, <2>2, <2>3
<1>7. ASSUME Saved!Told PROVE Rest
  <2>. USE DEF Saved!Told, Saved!Settle
  <2>1. SaveInv'
    BY <1>7, <1>a, <1>t DEF SavedTypes, SaveInv
  <2>2. KeptInv'
    BY <1>7, <1>a DEF SavedTypes, SaveInv, KeptInv
  <2>3. Saved!BackupFitsTheGame'
    BY <1>7, <1>a DEF SavedTypes, Saved!BackupFitsTheGame
  <2>. QED
    BY <2>1, <2>2, <2>3
<1>8. ASSUME Saved!UndoSaveState PROVE Rest
  <2>. USE DEF Saved!UndoSaveState
  <2>1. SaveInv'
    BY <1>8, <1>a, <1>t DEF SavedTypes, SaveInv
  <2>2. KeptInv'
    BY <1>8, <1>a DEF SavedTypes, SaveInv, KeptInv
  <2>3. Saved!BackupFitsTheGame'
    BY <1>8, <1>a DEF SavedTypes, Saved!BackupFitsTheGame
  <2>. QED
    BY <2>1, <2>2, <2>3
<1>9. ASSUME Saved!Kill PROVE Rest
  <2>. USE DEF Saved!Kill, Saved!Settle
  <2>1. SaveInv'
    BY <1>9, <1>a, <1>t DEF SavedTypes, SaveInv
  <2>2. KeptInv'
    BY <1>9, <1>a DEF SavedTypes, SaveInv, KeptInv
  <2>3. Saved!BackupFitsTheGame'
    BY <1>9, <1>a DEF SavedTypes, Saved!BackupFitsTheGame
  <2>. QED
    BY <2>1, <2>2, <2>3
<1>10. ASSUME UNCHANGED SavedVars PROVE Rest
  BY <1>10, <1>a DEF SavedVars, SaveInv, KeptInv, Saved!BackupFitsTheGame
<1>. QED
  BY <1>t, <1>1, <1>2, <1>3, <1>4, <1>5, <1>6, <1>7, <1>8, <1>9, <1>10 DEF Saved!Next, StatesInv

SavedInv == component = "Saved" => StatesInv

LEMMA SavedInvAlways == SpecAll => []SavedInv
<1>1. InitAll => SavedInv
  <2>. SUFFICES ASSUME Saved!Init PROVE StatesInv
    BY BeginningOfOne DEF SavedInv
  <2>. USE DEF Saved!Init, Saved!NoSave, Saved!NoBackup
  <2>1. SavedTypes
    BY DEF SavedTypes
  <2>2. SaveInv /\ KeptInv /\ Saved!BackupFitsTheGame
    BY DEF SaveInv, KeptInv, Saved!BackupFitsTheGame
  <2>. QED
    BY <2>1, <2>2 DEF StatesInv
<1>2. SavedInv /\ [NextAll]_all => SavedInv'
  BY StepOfOne, StatesNext DEF SavedInv
<1>. QED
  BY <1>1, <1>2, PTL DEF SpecAll

\* Whatever fails and wherever the process is killed, the last save that succeeded is in
\* its slot or beside it with ".undo", unless a save was undone while the next was written
\* (EmuSession.cpp:582); and undoing a load never puts one game's state into another's
\* console (EmuSession.cpp:225).
THEOREM StatesAreAlwaysKept == SpecAll => []StatesAreKept
<1>1. SavedInv => StatesAreKept
  BY DEF SavedInv, StatesInv, KeptInv, StatesAreKept, Saved!SavedIsKept
<1>. QED
  BY <1>1, SavedInvAlways, PTL

-----------------------------------------------------------------------------
(* A GBA save                                                               *)

\* What SnapshotSave looked at last is on its way to the file or in it: SaveFile has it to
\* write, or it is the last snapshot at the worker, or the worker has written it or failed
\* to.  While a flush waits, and after it until something is written, that is the memory.
SnapshotInv ==
  /\ queue \in Seq(Nat) /\ memory \in Nat /\ lastSave \in Nat /\ buffer \in Nat
  /\ file \in Nat /\ writes \in Nat
  /\ at = "none" => queue = << >>
  /\ dirty => buffer = lastSave
  /\ ~dirty /\ lastSave # 0 => IF queue = << >> THEN file = lastSave \/ gbaFailed
                                               ELSE queue[Len(queue)] = lastSave
  /\ at \in {"flushing", "closing"} \/ flushed => ~dirty /\ memory \in {0, lastSave}
  /\ flushed => queue = << >>

\* What is last in the queue stays so while the worker takes from its head.
LEMMA TailKeepsLast ==
  ASSUME NEW q \in Seq(Nat), q # << >>
  PROVE  IF Tail(q) = << >> THEN Head(q) = q[Len(q)]
                            ELSE Tail(q)[Len(Tail(q))] = q[Len(q)]
<1>1. Len(q) \in Nat \ {0} /\ Len(Tail(q)) = Len(q) - 1
  OBVIOUS
<1>2. CASE Len(q) = 1
  BY <1>1, <1>2
<1>3. CASE Len(q) # 1
  <2>1. Len(Tail(q)) \in 1 .. Len(Tail(q)) /\ Len(Tail(q)) + 1 = Len(q)
    BY <1>1, <1>3
  <2>2. \A i \in 1 .. Len(Tail(q)) : Tail(q)[i] = q[i + 1]
    OBVIOUS
  <2>3. Tail(q)[Len(Tail(q))] = q[Len(q)]
    BY <2>1, <2>2
  <2>4. Tail(q) # << >>
    <3>1. Len(<< >>) = 0
      OBVIOUS
    <3>2. Len(Tail(q)) # 0
      BY <1>1, <1>3
    <3>3. Len(Tail(q)) # Len(<< >>)
      BY <3>1, <3>2, Zenon
    <3>. QED
      BY <3>3, Zenon
  <2>. QED
    BY <2>3, <2>4
<1>. QED
  BY <1>2, <1>3

LEMMA SnapshotNext ==
  ASSUME SnapshotInv, [Gba!Next]_GbaVars
  PROVE  SnapshotInv'
<1>. USE DEF SnapshotInv, Gba!saveVars
<1>1. CASE Gba!LoadGame
  BY <1>1 DEF Gba!LoadGame
<1>2. CASE Gba!Write
  BY <1>2 DEF Gba!Write
<1>3. CASE Gba!Snapshot
  BY <1>3 DEF Gba!Snapshot, Gba!Changed
<1>4. CASE Gba!CheckFlush
  BY <1>4 DEF Gba!CheckFlush
<1>5. ASSUME NEW next \in {"flushing", "closing"}, Gba!Flush(next) PROVE SnapshotInv'
  BY <1>5 DEF Gba!Flush, Gba!Changed
<1>6. CASE Gba!Flushed
  BY <1>6 DEF Gba!Flushed
<1>7. CASE Gba!WorkerWrites
  <2>1. /\ queue # << >> /\ queue' = Tail(queue) /\ queue' \in Seq(Nat)
        /\ file' \in Nat /\ (file' = Head(queue) \/ gbaFailed')
        /\ UNCHANGED <<at, memory, lastSave, buffer, dirty, writes, flushed>>
    BY <1>7 DEF Gba!WorkerWrites
  <2>2. IF queue' = << >> THEN Head(queue) = queue[Len(queue)]
                          ELSE queue'[Len(queue')] = queue[Len(queue)]
    BY <2>1, TailKeepsLast
  <2>. QED
    BY <2>1, <2>2
<1>8. CASE Gba!Kill
  BY <1>8 DEF Gba!Kill
<1>9. CASE UNCHANGED GbaVars
  BY <1>9 DEF GbaVars
<1>. QED
  BY <1>1, <1>2, <1>3, <1>4, <1>5, <1>6, <1>7, <1>8, <1>9 DEF Gba!Next

GbaInv == component = "Gba" => SnapshotInv

LEMMA GbaInvAlways == SpecAll => []GbaInv
<1>1. InitAll => GbaInv
  BY BeginningOfOne DEF GbaInv, SnapshotInv, Gba!Init
<1>2. GbaInv /\ [NextAll]_all => GbaInv'
  BY StepOfOne, SnapshotNext DEF GbaInv
<1>. QED
  BY <1>1, <1>2, PTL DEF SpecAll

\* When FlushSaves or Shutdown has returned, the whole memory is in the file or its write
\* has failed, and stays there until the game writes, however frames, earlier snapshots and
\* the worker went before (GbaCore.cpp:359).
THEOREM FlushIsAlwaysWhole == SpecAll => []FlushIsWhole
<1>1. GbaInv => FlushIsWhole
  BY DEF GbaInv, SnapshotInv, FlushIsWhole, Gba!FlushIsWhole
<1>. QED
  BY <1>1, GbaInvAlways, PTL

-----------------------------------------------------------------------------
(* The 3DS core and its engine                                              *)

\* What a core holds goes with its handle, and the engine is initialised exactly while a
\* game is loaded.
HeldInv ==
  /\ object \in {"none", "made", "prepared", "booted"}
  /\ object \in {"prepared", "booted"} => handle
  /\ object = "none" => ~romFd /\ ~romLink /\ ~handle
  /\ ~handle => ~active /\ ~fbo
  /\ inits = IF object = "booted" THEN 1 ELSE 0
  /\ games = inits
  /\ image # "gone"

LEMMA HeldNext ==
  ASSUME HeldInv, [Engine!Next]_EngineVars
  PROVE  HeldInv'
<1>. USE DEF HeldInv, Engine!holdings, Engine!engine, Engine!drawing
<1>1. CASE Engine!Prepare
  <2>1. object = "none" /\ ~handle /\ ~romFd /\ ~romLink /\ ~active /\ ~fbo
    BY <1>1 DEF Engine!Prepare
  <2>2. inits' = 0 /\ games' = 0 /\ ~fbo' /\ image' = image
    BY <1>1, <2>1 DEF Engine!Prepare
  <2>3. \/ object' = "made" /\ ~active'
        \/ object' = "prepared" /\ handle'
    BY <1>1, <2>1, Zenon DEF Engine!Prepare
  <2>. QED
    BY <2>2, <2>3
<1>2. CASE Engine!Boot
  <2>1. object = "prepared" /\ handle /\ inits = 0 /\ games = 0
    BY <1>2 DEF Engine!Boot
  <2>2. handle' = handle /\ image' = image
    BY <1>2 DEF Engine!Boot
  <2>3. handle'
    BY <2>1, <2>2, Zenon
  <2>4. \/ object' = "made" /\ inits' = inits /\ games' = games
        \/ object' = "booted" /\ inits' = inits + 1 /\ games' = games + 1
    BY <1>2, Zenon DEF Engine!Boot, Engine!Refused
  <2>. QED
    BY <2>1, <2>2, <2>3, <2>4
<1>3. CASE Engine!RunFrame
  BY <1>3 DEF Engine!RunFrame
<1>4. CASE Engine!Restart
  BY <1>4 DEF Engine!Restart, Engine!ForgetVulkanImage
<1>5. CASE Engine!Shutdown
  BY <1>5 DEF Engine!Shutdown, Engine!EndGame
<1>6. CASE UNCHANGED EngineVars
  BY <1>6 DEF EngineVars
<1>. QED
  BY <1>1, <1>2, <1>3, <1>4, <1>5, <1>6 DEF Engine!Next

CoreInv == component = "Engine" => HeldInv

LEMMA CoreInvAlways == SpecAll => []CoreInv
<1>1. InitAll => CoreInv
  BY BeginningOfOne DEF CoreInv, HeldInv, Engine!Init
<1>2. CoreInv /\ [NextAll]_all => CoreInv'
  BY StepOfOne, HeldNext DEF CoreInv
<1>. QED
  BY <1>1, <1>2, PTL DEF SpecAll

\* At whichever step Prepare or Boot fails, Shutdown leaves nothing of the core, and the
\* engine, one for all cores, is initialised and given a game at most once; and no frame
\* has an image that a restart of the engine destroyed (ThreeDsCore.cpp:406-458, 962-994).
THEOREM EngineIsAlwaysKept == SpecAll => []EngineIsKept
<1>1. CoreInv => EngineIsKept
  BY DEF CoreInv, HeldInv, EngineIsKept, Engine!EngineIsKept, Engine!NothingOutlives, Engine!FrameIsLive
<1>. QED
  BY <1>1, CoreInvAlways, PTL

-----------------------------------------------------------------------------
(* An audio ring                                                            *)

\* Places of the ring: n after place a.
Along(a, n) == (a + n) % Size

\* What a place of the second round is.
LEMMA Around ==
  ASSUME NEW x \in 0 .. 2 * Size - 1
  PROVE  x % Size = IF x < Size THEN x ELSE x - Size
<1>1. Size \in Nat \ {0}
  BY ServicesAssumption DEF Ring!RingAssumption
<1>2. x % Size \in 0 .. Size - 1
  BY <1>1
<1>. QED
  BY <1>1, <1>2

\* Along wraps around once at most.
LEMMA AlongIs ==
  ASSUME NEW a \in 0 .. Size - 1, NEW n \in 0 .. Size
  PROVE  Along(a, n) = IF a + n < Size THEN a + n ELSE a + n - Size
<1>1. Size \in Nat \ {0}
  BY ServicesAssumption DEF Ring!RingAssumption
<1>2. a + n \in 0 .. 2 * Size - 1
  BY <1>1
<1>3. (a + n) % Size = IF a + n < Size THEN a + n ELSE (a + n) - Size
  BY <1>2, Around
<1>4. Along(a, n) = (a + n) % Size
  BY Zenon DEF Along
<1>5. a + n < Size => Along(a, n) = a + n
  BY <1>3, <1>4, Zenon
<1>6. ~(a + n < Size) => Along(a, n) = a + n - Size
  BY <1>1, <1>3, <1>4
<1>. QED
  BY <1>5, <1>6

\* Going around the ring comes back; places of one round differ.
LEMMA AlongFacts ==
  ASSUME NEW a \in 0 .. Size - 1
  PROVE  /\ Along(a, 0) = a /\ Along(a, Size) = a
         /\ \A n \in 0 .. Size : Along(a, n) \in 0 .. Size - 1
         /\ \A n \in 0 .. Size - 1 : \A i \in 0 .. n - 1 : Along(a, i) # Along(a, n)
<1>1. Size \in Nat \ {0}
  BY ServicesAssumption DEF Ring!RingAssumption
<1>2. Along(a, 0) = a /\ Along(a, Size) = a
  BY <1>1, AlongIs
<1>3. ASSUME NEW n \in 0 .. Size PROVE Along(a, n) \in 0 .. Size - 1
  BY <1>1, AlongIs
<1>4. ASSUME NEW n \in 0 .. Size - 1, NEW i \in 0 .. n - 1 PROVE Along(a, i) # Along(a, n)
  <2>1. n \in 0 .. Size /\ i \in 0 .. Size
    BY <1>1
  <2>. QED
    BY <1>1, <2>1, AlongIs
<1>. QED
  BY <1>2, <1>3, <1>4

\* Two ways are one.
LEMMA AlongTwice ==
  ASSUME NEW a \in 0 .. Size - 1, NEW n \in 0 .. Size, NEW k \in 0 .. Size, n + k <= Size
  PROVE  Along(Along(a, n), k) = Along(a, n + k)
<1>1. Size \in Nat \ {0} /\ n + k \in 0 .. Size
  BY ServicesAssumption DEF Ring!RingAssumption
<1>2. Along(a, n + k) = IF a + (n + k) < Size THEN a + (n + k) ELSE a + (n + k) - Size
  BY <1>1, AlongIs
<1>3. Along(a, n) = IF a + n < Size THEN a + n ELSE a + n - Size
  BY AlongIs
<1>4. Along(a, n) \in 0 .. Size - 1
  BY AlongFacts
<1>5. Along(Along(a, n), k) = IF Along(a, n) + k < Size THEN Along(a, n) + k
                                                      ELSE Along(a, n) + k - Size
  BY <1>4, AlongIs
<1>. QED
  BY <1>1, <1>2, <1>3, <1>4, <1>5

Rings == [ring : [0 .. Size - 1 -> Nat], readAt : 0 .. Size - 1, writeAt : 0 .. Size - 1,
          level : 0 .. Size]

\* The frames q are in the ring, oldest first.
Holds(r, q) ==
  /\ r \in Rings /\ q \in Seq(Nat) /\ r.level = Len(q)
  /\ r.writeAt = Along(r.readAt, Len(q))
  /\ \A i \in 1 .. Len(q) : r.ring[Along(r.readAt, i - 1)] = q[i]

\* The parts of a ring.
LEMMA HoldsSplit ==
  ASSUME NEW r \in Rings
  PROVE  /\ r.ring \in [0 .. Size - 1 -> Nat] /\ r.readAt \in 0 .. Size - 1
         /\ r.writeAt \in 0 .. Size - 1 /\ r.level \in 0 .. Size /\ Size \in Nat \ {0}
         /\ r = [ring |-> r.ring, readAt |-> r.readAt, writeAt |-> r.writeAt, level |-> r.level]
BY ServicesAssumption DEF Rings, Ring!RingAssumption

\* A frame that finds room comes last.
LEMMA PutHolds ==
  ASSUME NEW r, NEW q, Holds(r, q), r.level < Size, NEW frame \in Nat
  PROVE  Holds(Ring!Put(r, frame), Append(q, frame))
<1>. DEFINE s == Ring!Put(r, frame)
            a == r.readAt
            n == Len(q)
<1>1. /\ r \in Rings /\ q \in Seq(Nat) /\ r.level = n /\ r.writeAt = Along(a, n)
      /\ \A i \in 1 .. n : r.ring[Along(a, i - 1)] = q[i]
  BY DEF Holds
<1>2. /\ r.ring \in [0 .. Size - 1 -> Nat] /\ a \in 0 .. Size - 1
      /\ Size \in Nat \ {0} /\ n \in 0 .. Size - 1
  BY <1>1, HoldsSplit
<1>3. Ring!After(r.writeAt) = Along(a, n + 1)
  <2>1. Ring!After(r.writeAt) = Along(r.writeAt, 1)
    BY Zenon DEF Ring!After, Along
  <2>0. n \in 0 .. Size /\ 1 \in 0 .. Size /\ n + 1 <= Size
    BY <1>2
  <2>2. Along(Along(a, n), 1) = Along(a, n + 1)
    BY <1>2, <2>0, AlongTwice
  <2>. QED
    BY <1>1, <2>1, <2>2, Zenon
<1>4. s.ring = [r.ring EXCEPT ![r.writeAt] = frame]
  BY <1>1 DEF Ring!Put, Rings
<1>9. s.readAt = a /\ s.writeAt = Along(a, n + 1) /\ s.level = n + 1
  <2>. s.readAt = r.readAt /\ s.writeAt = Ring!After(r.writeAt) /\ s.level = r.level + 1
    BY <1>1 DEF Ring!Put, Rings
  <2>. QED
    BY <1>1, <1>3, Zenon
<1>5. Along(a, n) \in 0 .. Size - 1 /\ Along(a, n + 1) \in 0 .. Size - 1 /\ n + 1 \in 0 .. Size
  <2>1. n \in 0 .. Size /\ n + 1 \in 0 .. Size
    BY <1>2
  <2>. QED
    BY <1>2, <2>1, AlongFacts, Zenon
<1>6. s \in Rings
  <2>1. Ring!After(r.writeAt) \in 0 .. Size - 1 /\ r.level + 1 \in 0 .. Size
    BY <1>1, <1>3, <1>5, Zenon
  <2>2. [r.ring EXCEPT ![r.writeAt] = frame] \in [0 .. Size - 1 -> Nat]
    BY <1>2
  <2>. QED
    BY <1>1, <2>1, <2>2 DEF Ring!Put, Rings
<1>. HIDE DEF s
<1>7. /\ Append(q, frame) \in Seq(Nat) /\ Len(Append(q, frame)) = n + 1
      /\ \A i \in 1 .. n : Append(q, frame)[i] = q[i]
      /\ Append(q, frame)[n + 1] = frame
  BY <1>1
<1>8. ASSUME NEW i \in 1 .. n + 1
      PROVE  s.ring[Along(a, i - 1)] = Append(q, frame)[i]
  <2>1. CASE i \in 1 .. n
    <3>1. Along(a, i - 1) # Along(a, n) /\ Along(a, i - 1) \in 0 .. Size - 1
      <4>1. i - 1 \in 0 .. n - 1 /\ i - 1 \in 0 .. Size
        BY <1>2, <2>1
      <4>. QED
        BY <1>2, <4>1, AlongFacts
    <3>. HIDE DEF n, a
    <3>. QED
      BY <1>1, <1>2, <1>4, <1>5, <1>7, <2>1, <3>1
  <2>2. CASE i = n + 1
    <3>1. i - 1 = n
      BY <1>2, <2>2
    <3>. HIDE DEF n, a
    <3>. QED
      BY <1>1, <1>2, <1>4, <1>5, <1>7, <2>2, <3>1
  <2>. QED
    BY <1>2, <2>1, <2>2
<1>. QED
  BY <1>6, <1>7, <1>8, <1>9 DEF Holds, s

\* A full ring that loses its oldest has room.
LEMMA DropHolds ==
  ASSUME NEW r, NEW q, Holds(r, q), r.level = Size
  PROVE  Holds(Ring!DropOldest(r), Tail(q)) /\ Ring!DropOldest(r).level < Size
<1>. DEFINE s == Ring!DropOldest(r)
            a == r.readAt
            n == Len(q)
<1>1. /\ r \in Rings /\ q \in Seq(Nat) /\ r.level = n /\ r.writeAt = Along(a, n) /\ n = Size
      /\ \A i \in 1 .. n : r.ring[Along(a, i - 1)] = q[i]
  BY DEF Holds
<1>2. /\ r.ring \in [0 .. Size - 1 -> Nat] /\ a \in 0 .. Size - 1
      /\ Size \in Nat \ {0}
  BY <1>1, HoldsSplit
<1>3. Ring!After(a) = Along(a, 1)
  BY DEF Ring!After, Along
<1>4. s = [ring |-> r.ring, readAt |-> Along(a, 1), writeAt |-> r.writeAt, level |-> n - 1]
  BY <1>1, <1>3, HoldsSplit DEF Ring!DropOldest
<1>5. Along(a, 1) \in 0 .. Size - 1 /\ n - 1 \in 0 .. Size - 1
  <2>1. 1 \in 0 .. Size /\ n - 1 \in 0 .. Size - 1
    BY <1>1, <1>2
  <2>. QED
    BY <1>2, <2>1, AlongFacts, Zenon
<1>. HIDE DEF s
<1>6. s \in Rings
  <2>1. n - 1 \in 0 .. Size /\ r.writeAt \in 0 .. Size - 1
    BY <1>1, <1>2, HoldsSplit
  <2>. QED
    BY <1>2, <1>4, <1>5, <2>1 DEF Rings
<1>7. /\ Tail(q) \in Seq(Nat) /\ Len(Tail(q)) = n - 1
      /\ \A i \in 1 .. n - 1 : Tail(q)[i] = q[i + 1]
  <2>1. q # << >>
    <3>1. Len(<< >>) = 0 /\ Len(q) # 0
      BY <1>1, <1>2
    <3>. QED
      BY <3>1, Zenon
  <2>. QED
    BY <1>1, <2>1, HeadTailProperties
<1>8. s.readAt = Along(a, 1) /\ s.writeAt = r.writeAt /\ s.level = n - 1 /\ s.ring = r.ring
  BY <1>4
<1>9. ASSUME NEW i \in 1 .. n - 1
      PROVE  s.ring[Along(s.readAt, i - 1)] = Tail(q)[i]
  <2>1. /\ i - 1 \in 0 .. Size /\ i + 1 \in 1 .. n /\ (i + 1) - 1 = i /\ 1 + (i - 1) = i
        /\ 1 \in 0 .. Size /\ i <= Size
    BY <1>1, <1>2
  <2>2. Along(s.readAt, i - 1) = Along(a, i)
    <3>1. Along(Along(a, 1), i - 1) = Along(a, 1 + (i - 1))
      BY <1>2, <2>1, AlongTwice
    <3>. QED
      BY <1>8, <2>1, <3>1, Zenon
  <2>3. r.ring[Along(a, (i + 1) - 1)] = q[i + 1]
    BY <1>1, <2>1
  <2>. QED
    BY <1>7, <1>8, <2>1, <2>2, <2>3
<1>10. Along(s.readAt, n - 1) = s.writeAt
  <2>1. n - 1 \in 0 .. Size /\ 1 \in 0 .. Size /\ 1 + (n - 1) = n /\ 1 + (n - 1) <= Size
    <3>1. n = Size /\ Size \in Nat \ {0}
      BY <1>1, <1>2, Zenon
    <3>. HIDE DEF n
    <3>. QED
      BY <3>1
  <2>. QED
    <3>1. Along(Along(a, 1), n - 1) = Along(a, 1 + (n - 1))
      BY <1>2, <2>1, AlongTwice
    <3>. QED
      BY <1>1, <1>8, <2>1, <3>1, Zenon
<1>11. n - 1 < Size
  BY <1>1, <1>2
<1>. QED
  BY <1>6, <1>7, <1>8, <1>9, <1>10, <1>11 DEF Holds, s

\* One frame more, and what is due of it and those before.
LEMMA DueNext ==
  ASSUME NEW p \in Seq(Nat), NEW frame \in Nat
  PROVE  /\ Ring!Due(p) \in Seq(Nat)
         /\ Len(p) < Size  => Ring!Due(p) = p /\ Ring!Due(Append(p, frame)) = Append(p, frame)
         /\ Len(p) >= Size => /\ Len(Ring!Due(p)) = Size
                              /\ mic => Ring!Due(Append(p, frame)) = Ring!Due(p)
                              /\ ~mic => Ring!Due(Append(p, frame)) = Append(Tail(Ring!Due(p)), frame)
<1>. DEFINE n == Len(p)
            e == Append(p, frame)
<1>1. /\ Size \in Nat \ {0} /\ n \in Nat /\ e \in Seq(Nat) /\ Len(e) = n + 1 /\ e[n + 1] = frame
      /\ \A i \in 1 .. n : e[i] = p[i]
  BY ServicesAssumption DEF Ring!RingAssumption
<1>2. CASE n < Size
  <2>. HIDE DEF e, n
  <2>1. Len(p) <= Size /\ Len(e) <= Size /\ ~(n >= Size)
    BY <1>1, <1>2 DEF n
  <2>2. Ring!Due(p) = p /\ Ring!Due(e) = e
    BY <2>1, Zenon DEF Ring!Due
  <2>. QED
    BY <2>1, <2>2 DEF e, n
<1>3. CASE n >= Size
  <2>. HIDE DEF e, n
  <2>1. Ring!Due(p) = IF mic THEN SubSeq(p, 1, Size) ELSE SubSeq(p, n - Size + 1, n)
    <3>1. CASE n = Size
      <4>1. p = SubSeq(p, 1, Size)
        BY <1>1, <3>1 DEF n
      <4>2. n - Size + 1 = 1
        BY <1>1, <3>1
      <4>. QED
        BY <1>1, <3>1, <4>1, <4>2 DEF Ring!Due, n
    <3>2. CASE n > Size
      <4>1. Len(p) > Size /\ ~(Len(p) <= Size)
        BY <1>1, <3>2 DEF n
      <4>. QED
        BY <4>1, Zenon DEF Ring!Due, n
    <3>. QED
      BY <1>1, <1>3, <3>1, <3>2
  <2>2. Ring!Due(e) = IF mic THEN SubSeq(e, 1, Size) ELSE SubSeq(e, n + 1 - Size + 1, n + 1)
    BY <1>1, <1>3 DEF Ring!Due
  <2>3. SubSeq(p, 1, Size) = SubSeq(e, 1, Size) /\ Len(SubSeq(p, 1, Size)) = Size
        /\ SubSeq(p, 1, Size) \in Seq(Nat)
    BY <1>1, <1>3 DEF n
  <2>4. LET d == SubSeq(p, n - Size + 1, n)
        IN  d \in Seq(Nat) /\ Len(d) = Size /\ \A i \in 1 .. Size : d[i] = p[n - Size + i]
    <3>1. p \in Seq(Nat) /\ Len(p) = n
      BY DEF n
    <3>. QED
      BY <1>1, <1>3, <3>1
  <2>5. LET d == SubSeq(e, n + 1 - Size + 1, n + 1)
        IN  d \in Seq(Nat) /\ Len(d) = Size /\ \A i \in 1 .. Size : d[i] = e[n + 1 - Size + i]
    BY <1>1, <1>3
  <2>6. ASSUME ~mic PROVE Ring!Due(e) = Append(Tail(Ring!Due(p)), frame)
    <3>. DEFINE b == Append(Tail(Ring!Due(p)), frame)
    <3>1. Ring!Due(p) \in Seq(Nat) /\ Len(Ring!Due(p)) = Size /\ \A i \in 1 .. Size : Ring!Due(p)[i] = p[n - Size + i]
      BY <2>1, <2>4, <2>6
    <3>2. Ring!Due(e) \in Seq(Nat) /\ Len(Ring!Due(e)) = Size /\ \A i \in 1 .. Size : Ring!Due(e)[i] = e[n + 1 - Size + i]
      BY <2>2, <2>5, <2>6
    <3>3. /\ b \in Seq(Nat) /\ Len(b) = Size /\ b[Size] = frame
          /\ \A i \in 1 .. Size - 1 : b[i] = Ring!Due(p)[i + 1]
      BY <1>1, <3>1
    <3>. HIDE DEF b
    <3>4. ASSUME NEW i \in 1 .. Size PROVE Ring!Due(e)[i] = b[i]
      <4>1. CASE i = Size
        BY <1>1, <3>2, <3>3, <4>1
      <4>2. CASE i \in 1 .. Size - 1
        <5>1. n + 1 - Size + i \in 1 .. n /\ i + 1 \in 1 .. Size /\ n - Size + (i + 1) = n + 1 - Size + i
          BY <1>1, <1>3, <4>2
        <5>2. Ring!Due(e)[i] = p[n + 1 - Size + i]
          BY <1>1, <3>2, <5>1
        <5>3. b[i] = p[n - Size + (i + 1)]
          BY <3>1, <3>3, <4>2, <5>1
        <5>. QED
          BY <5>1, <5>2, <5>3
      <4>. QED
        BY <1>1, <4>1, <4>2
    <3>5. Ring!Due(e) = b
      BY <3>2, <3>3, <3>4, SeqEqual
    <3>. QED
      BY <3>5 DEF b
  <2>. QED
    <3>1. ~(n < Size) /\ n >= Size
      BY <1>1, <1>3
    <3>2. Ring!Due(p) \in Seq(Nat) /\ Len(Ring!Due(p)) = Size
      BY <2>1, <2>3, <2>4
    <3>3. mic => Ring!Due(e) = Ring!Due(p)
      BY <2>1, <2>2, <2>3
    <3>. QED
      BY <3>1, <3>2, <3>3, <2>6 DEF e, n
<1>. QED
  BY <1>1, <1>2, <1>3

\* So Store keeps what is due.
LEMMA StoreHolds ==
  ASSUME NEW r, NEW p \in Seq(Nat), Holds(r, Ring!Due(p)), NEW frame \in Nat
  PROVE  Holds(Ring!Store(r, frame), Ring!Due(Append(p, frame)))
<1>1. Size \in Nat \ {0} /\ Len(p) \in Nat /\ r.level = Len(Ring!Due(p))
  BY ServicesAssumption DEF Ring!RingAssumption, Holds
<1>2. CASE Len(p) < Size
  <2>1. Ring!Due(p) = p /\ Ring!Due(Append(p, frame)) = Append(p, frame)
    BY <1>2, DueNext, Zenon
  <2>2. r.level < Size
    BY <1>1, <1>2, <2>1
  <2>3. Ring!Store(r, frame) = Ring!Put(r, frame)
    BY <2>2 DEF Ring!Store
  <2>. QED
    BY <2>1, <2>2, <2>3, PutHolds, Zenon
<1>3. CASE Len(p) >= Size
  <2>1. r.level = Size /\ ~(r.level < Size)
    BY <1>1, <1>3, DueNext
  <2>2. CASE mic
    BY <1>3, <2>1, <2>2, DueNext DEF Ring!Store
  <2>3. CASE ~mic
    <3>1. Holds(Ring!DropOldest(r), Tail(Ring!Due(p))) /\ Ring!DropOldest(r).level < Size
      BY <2>1, DropHolds
    <3>2. Holds(Ring!Put(Ring!DropOldest(r), frame), Append(Tail(Ring!Due(p)), frame))
      BY <3>1, PutHolds
    <3>. QED
      BY <1>3, <2>1, <2>3, <3>2, DueNext DEF Ring!Store
  <2>. QED
    BY <2>2, <2>3
<1>. QED
  BY <1>1, <1>2, <1>3

\* A set of natural numbers has a least one: the numbers are well-ordered.
LEMMA LeastOfSet ==
  ASSUME NEW T \in SUBSET Nat, T # {}
  PROVE  \E m \in T : \A k \in T : m <= k
<1>. DEFINE R == OpToRel(<, Nat)
<1>1. IsWellFoundedOn(R, Nat)
  BY NatLessThanWellFounded
<1>2. \A i, j \in Nat : i < j => <<i, j>> \in R
  BY DEF OpToRel
<1>. HIDE DEF R
<1>3. PICK m \in T : \A k \in T : ~ (<<k, m>> \in R)
  BY <1>1, WFMin, Zenon
<1>4. m \in Nat /\ \A k \in T : k \in Nat /\ ~ (<<k, m>> \in R)
  BY <1>3
<1>5. \A k \in T : m <= k
  <2>1. SUFFICES ASSUME NEW k \in T, k < m PROVE FALSE
    BY <1>4
  <2>2. <<k, m>> \in R
    BY <1>2, <1>4, <2>1, Zenon
  <2>. QED
    BY <1>4, <2>2, Zenon
<1>. QED
  BY <1>3, <1>5

\* And induction over one.
LEMMA SetInduction ==
  ASSUME NEW S \in SUBSET Nat, 0 \in S, \A k \in Nat : k \in S => k + 1 \in S
  PROVE  S = Nat
<1>1. SUFFICES ASSUME Nat \ S # {} PROVE FALSE
  OBVIOUS
<1>2. PICK m \in Nat \ S : \A k \in Nat \ S : m <= k
  <2>1. Nat \ S \in SUBSET Nat
    OBVIOUS
  <2>. QED
    BY <1>1, <2>1, LeastOfSet, Zenon
<1>3. m \in Nat \ {0} /\ m - 1 \in Nat
  BY <1>2
<1>4. m - 1 \notin Nat \ S
  BY <1>2, <1>3
<1>. QED
  BY <1>2, <1>3, <1>4

\* The function that StoreAll defines exists, and is what it says.
LEMMA StoreAllIs ==
  ASSUME NEW r, NEW frames \in Seq(Nat)
  PROVE  \E f : /\ f[0] = r /\ Ring!StoreAll(r, frames) = f[Len(frames)]
                /\ \A i \in 1 .. Len(frames) : f[i] = Ring!Store(f[i - 1], frames[i])
<1>. DEFINE Is(f, k) == f = [i \in 0 .. k |-> IF i = 0 THEN r ELSE Ring!Store(f[i - 1], frames[i])]
            Have == {k \in Nat : \E f : Is(f, k)}
<1>1. 0 \in Have
  <2>. DEFINE f == [i \in 0 .. 0 |-> r]
  <2>1. Is(f, 0)
    OBVIOUS
  <2>. QED
    BY <2>1
<1>2. ASSUME NEW k \in Nat, k \in Have PROVE k + 1 \in Have
  <2>1. PICK f : Is(f, k)
    BY <1>2
  <2>. DEFINE g == [i \in 0 .. k + 1 |-> IF i <= k THEN f[i] ELSE Ring!Store(f[k], frames[k + 1])]
  <2>2. Is(g, k + 1)
    BY <2>1
  <2>. HIDE DEF Is
  <2>. QED
    BY <2>2
<1>3. Have = Nat
  <2>. HIDE DEF Have
  <2>1. Have \in SUBSET Nat
    BY DEF Have
  <2>. QED
    BY <1>1, <1>2, <2>1, SetInduction, Zenon
<1>. DEFINE n == Len(frames)
            f == CHOOSE f : Is(f, n)
<1>4. n \in Nat
  OBVIOUS
<1>5. Is(f, n)
  BY <1>3, <1>4, Zenon
<1>6. Ring!StoreAll(r, frames) = f[n]
  BY Zenon DEF Ring!StoreAll
<1>. HIDE DEF f
<1>7. f[0] = r /\ \A i \in 1 .. n : f[i] = Ring!Store(f[i - 1], frames[i])
  BY <1>4, <1>5
<1>. QED
  BY <1>6, <1>7

\* A prefix and the next element are the next prefix.
LEMMA NextPrefix ==
  ASSUME NEW s \in Seq(Nat), NEW m \in 0 .. Len(s) - 1
  PROVE  SubSeq(s, 1, m) \in Seq(Nat) /\ SubSeq(s, 1, m + 1) = Append(SubSeq(s, 1, m), s[m + 1])
<1>1. Len(s) \in Nat /\ m + 1 \in 1 .. Len(s) /\ 1 \in 1 .. Len(s) /\ m + 1 \in 1 .. Len(s) /\ (m + 1) - 1 = m
  OBVIOUS
<1>2. s[m + 1] \in Nat
  BY <1>1
<1>3. SubSeq(s, 1, m) \in Seq(Nat)
  BY <1>1
<1>4. SubSeq(s, 1, m + 1) = SubSeq(s, 1, (m + 1) - 1) \o << s[m + 1] >>
  BY <1>1, SubSeqRecursiveSecond, Zenon
<1>. QED
  BY <1>1, <1>2, <1>3, <1>4, AppendIsConcat

\* All frames of a call, one by one: by induction over those stored.
LEMMA StoreAllHolds ==
  ASSUME NEW r, NEW q \in Seq(Nat), Len(q) <= Size, Holds(r, q), NEW frames \in Seq(Nat)
  PROVE  Holds(Ring!StoreAll(r, frames), Ring!Due(q \o frames))
<1>. DEFINE n == Len(frames)
            whole == q \o frames
            p(k) == SubSeq(whole, 1, Len(q) + k)
<1>1. PICK f : /\ f[0] = r /\ Ring!StoreAll(r, frames) = f[Len(frames)]
               /\ \A i \in 1 .. Len(frames) : f[i] = Ring!Store(f[i - 1], frames[i])
  BY StoreAllIs
<1>2. /\ n \in Nat /\ Len(q) \in Nat /\ whole \in Seq(Nat) /\ Len(whole) = Len(q) + n
      /\ \A i \in 1 .. n : whole[Len(q) + i] = frames[i] /\ frames[i] \in Nat
      /\ \A i \in 1 .. Len(q) : whole[i] = q[i]
  BY ConcatProperties
<1>3. p(0) = q
  BY <1>2
<1>4. ASSUME NEW k \in 0 .. n - 1
      PROVE  p(k) \in Seq(Nat) /\ p(k + 1) = Append(p(k), frames[k + 1])
  <2>. DEFINE m == Len(q) + k
  <2>1. m \in 0 .. Len(whole) - 1 /\ Len(q) + (k + 1) = m + 1 /\ whole[m + 1] = frames[k + 1]
    BY <1>2
  <2>. HIDE DEF whole
  <2>. HIDE DEF m
  <2>. QED
    BY <1>2, <2>1, NextPrefix DEF m
<1>5. p(n) = whole
  BY <1>2
<1>. DEFINE S == {k \in Nat : k <= n => Holds(f[k], Ring!Due(p(k)))}
<1>6. 0 \in S
  BY <1>1, <1>3 DEF Ring!Due
<1>. HIDE DEF p, whole
<1>7. ASSUME NEW k \in Nat, k \in S PROVE k + 1 \in S
  <2>1. SUFFICES ASSUME k + 1 <= n PROVE Holds(f[k + 1], Ring!Due(p(k + 1)))
    BY <1>2
  <2>2. k \in 0 .. n - 1 /\ k + 1 \in 1 .. n /\ (k + 1) - 1 = k /\ k <= n
    BY <1>2, <2>1
  <2>3. Holds(f[k], Ring!Due(p(k)))
    BY <1>7, <2>2
  <2>4. f[k + 1] = Ring!Store(f[k], frames[k + 1]) /\ frames[k + 1] \in Nat
    BY <1>1, <1>2, <2>2
  <2>. QED
    BY <1>4, <2>2, <2>3, <2>4, StoreHolds, Zenon
<1>8. S = Nat
  <2>. HIDE DEF S
  <2>1. S \in SUBSET Nat
    BY DEF S
  <2>. QED
    BY <1>6, <1>7, <2>1, SetInduction, Zenon
<1>9. Holds(f[n], Ring!Due(p(n)))
  <2>. HIDE DEF n
  <2>1. n \in Nat /\ n <= n
    BY <1>2
  <2>. QED
    BY <1>8, <2>1, Zenon
<1>. HIDE DEF n
<1>10. p(n) = q \o frames
  BY <1>5, Zenon DEF whole
<1>11. Ring!StoreAll(r, frames) = f[n]
  BY <1>1, Zenon DEF n
<1>. QED
  BY <1>9, <1>10, <1>11, Zenon

QueueInv == Holds(Ring!State, unread) /\ last \in Nat

\* Frames are numbers.
LEMMA FramesAreNumbers ==
  ASSUME last \in Nat, NEW n \in Nat
  PROVE  Ring!Frames(n) \in Seq(Nat) /\ (last + n) % Numbers \in Nat
<1>1. Numbers \in Nat \ {0}
  BY ServicesAssumption DEF Ring!RingAssumption
<1>2. ASSUME NEW i \in Nat PROVE (last + i) % Numbers \in Nat
  BY <1>1
<1>. QED
  BY <1>2 DEF Ring!Frames

\* What is left of a sequence of numbers.
LEMMA SuffixIs ==
  ASSUME NEW q \in Seq(Nat), NEW n \in 0 .. Len(q)
  PROVE  /\ SubSeq(q, n + 1, Len(q)) \in Seq(Nat) /\ Len(SubSeq(q, n + 1, Len(q))) = Len(q) - n
         /\ \A i \in 1 .. Len(q) - n : SubSeq(q, n + 1, Len(q))[i] = q[n + i]
<1>1. Len(q) \in Nat /\ n \in Nat
  OBVIOUS
<1>. QED
  BY <1>1

\* As many as the reader took are gone from the front.
LEMMA TakeHolds ==
  ASSUME NEW r, NEW q, Holds(r, q), NEW n \in 0 .. Len(q)
  PROVE  Holds([r EXCEPT !.readAt = Along(r.readAt, n), !.level = r.level - n],
               SubSeq(q, n + 1, Len(q)))
<1>. DEFINE a == r.readAt
            len == Len(q)
            d == SubSeq(q, n + 1, len)
            s == [r EXCEPT !.readAt = Along(r.readAt, n), !.level = r.level - n]
<1>1. /\ r \in Rings /\ q \in Seq(Nat) /\ r.level = len /\ r.writeAt = Along(a, len)
      /\ \A i \in 1 .. len : r.ring[Along(a, i - 1)] = q[i]
  BY DEF Holds
<1>2. /\ r.ring \in [0 .. Size - 1 -> Nat] /\ a \in 0 .. Size - 1
      /\ Size \in Nat \ {0} /\ len \in 0 .. Size /\ n \in 0 .. Size /\ len - n \in 0 .. Size
  BY <1>1, HoldsSplit
<1>3. d \in Seq(Nat) /\ Len(d) = len - n /\ \A i \in 1 .. len - n : d[i] = q[n + i]
  BY SuffixIs, <1>1, Zenon
<1>4. Along(a, n) \in 0 .. Size - 1
  BY <1>2, AlongFacts, Zenon
<1>5. s.ring = r.ring /\ s.readAt = Along(a, n) /\ s.writeAt = r.writeAt /\ s.level = len - n
  <2>. HIDE DEF len
  <2>. QED
    BY <1>1 DEF Rings
<1>6. s \in Rings
  <2>1. r.level - n \in 0 .. Size
    BY <1>1, <1>2
  <2>. QED
    BY <1>1, <1>4, <2>1 DEF Rings
<1>. HIDE DEF s
<1>7. ASSUME NEW i \in 1 .. len - n
      PROVE  s.ring[Along(s.readAt, i - 1)] = d[i]
  <2>1. /\ i - 1 \in 0 .. Size /\ n + (i - 1) = (n + i) - 1 /\ n + i \in 1 .. len
        /\ n + (i - 1) <= Size
    <3>. HIDE DEF len
    <3>. QED
      BY <1>2
  <2>2. Along(Along(a, n), i - 1) = Along(a, n + (i - 1))
    BY <1>2, <2>1, AlongTwice
  <2>3. r.ring[Along(a, (n + i) - 1)] = q[n + i]
    BY <1>1, <2>1
  <2>. QED
    BY <1>3, <1>5, <2>1, <2>2, <2>3
<1>8. s.writeAt = Along(s.readAt, len - n)
  <2>1. n + (len - n) = len /\ n + (len - n) <= Size
    BY <1>2
  <2>2. Along(Along(a, n), len - n) = Along(a, n + (len - n))
    BY <1>2, <2>1, AlongTwice
  <2>. QED
    BY <1>1, <1>5, <2>1, <2>2, Zenon
<1>. QED
  BY <1>3, <1>5, <1>6, <1>7, <1>8 DEF Holds, s

\* Every operation keeps the ring a queue.
LEMMA QueueNext ==
  ASSUME QueueInv, [Ring!Next]_RingVars
  PROVE  QueueInv'
<1>0. /\ Holds(Ring!State, unread) /\ last \in Nat /\ unread \in Seq(Nat) /\ Len(unread) = level
      /\ level \in 0 .. Size /\ Size \in Nat \ {0}
  BY HoldsSplit DEF QueueInv, Holds, Ring!State
<1>1. ASSUME NEW n \in 1 .. Batch, Ring!Fill(n) PROVE QueueInv'
  <2>1. Ring!Frames(n) \in Seq(Nat) /\ last' \in Nat
    BY <1>0, <1>1, FramesAreNumbers DEF Ring!Fill
  <2>2. Holds(Ring!StoreAll(Ring!State, Ring!Frames(n)), Ring!Due(unread \o Ring!Frames(n)))
    BY <1>0, <2>1, StoreAllHolds
  <2>3. Ring!State' = Ring!StoreAll(Ring!State, Ring!Frames(n))
    <3>1. Ring!StoreAll(Ring!State, Ring!Frames(n)) \in Rings
      BY <2>2 DEF Holds
    <3>. QED
      BY <1>1, <3>1, HoldsSplit DEF Ring!Fill, Ring!Become, Ring!State
  <2>4. unread' = Ring!Due(unread \o Ring!Frames(n))
    BY <1>1 DEF Ring!Fill
  <2>. QED
    BY <2>1, <2>2, <2>3, <2>4 DEF QueueInv
<1>2. ASSUME NEW frames \in 1 .. Size, Ring!Read(frames) PROVE QueueInv'
  <2>. DEFINE n == IF frames < level THEN frames ELSE level
  <2>1. n \in 0 .. Len(unread)
    BY <1>0
  <2>2. /\ readAt' = Along(readAt, n) /\ level' = level - n
        /\ unread' = SubSeq(unread, n + 1, Len(unread))
        /\ UNCHANGED <<ring, writeAt, last>>
    BY <1>2, Zenon DEF Ring!Read, Along
  <2>. HIDE DEF n
  <2>3. Holds([Ring!State EXCEPT !.readAt = Along(Ring!State.readAt, n), !.level = Ring!State.level - n],
              SubSeq(unread, n + 1, Len(unread)))
    BY <1>0, <2>1, TakeHolds
  <2>4. Ring!State' = [Ring!State EXCEPT !.readAt = Along(Ring!State.readAt, n), !.level = Ring!State.level - n]
    <3>. DEFINE s == [Ring!State EXCEPT !.readAt = Along(Ring!State.readAt, n), !.level = Ring!State.level - n]
    <3>1. s \in Rings
      BY <2>3 DEF Holds
    <3>2. s.ring = ring /\ s.readAt = readAt' /\ s.writeAt = writeAt /\ s.level = level'
      BY <2>2 DEF Ring!State
    <3>3. ring' = ring /\ writeAt' = writeAt
      BY <2>2
    <3>. HIDE DEF s
    <3>4. s = [ring |-> s.ring, readAt |-> s.readAt, writeAt |-> s.writeAt, level |-> s.level]
      BY <3>1 DEF Rings
    <3>5. s = [ring |-> ring', readAt |-> readAt', writeAt |-> writeAt', level |-> level']
      BY <3>2, <3>3, <3>4, Zenon
    <3>. QED
      BY <3>5 DEF Ring!State, s
  <2>. QED
    BY <1>0, <2>2, <2>3, <2>4 DEF QueueInv
<1>3. CASE Ring!Clear
  <2>1. ring' \in [0 .. Size - 1 -> Nat] /\ 0 \in 0 .. Size - 1 /\ 0 \in 0 .. Size
    BY <1>0, <1>3, HoldsSplit DEF Ring!Clear, Holds, Ring!State
  <2>2. Along(0, 0) = 0
    BY <2>1, AlongFacts
  <2>. QED
    BY <1>0, <1>3, <2>1, <2>2 DEF Ring!Clear, QueueInv, Holds, Rings, Ring!State
<1>4. CASE UNCHANGED RingVars
  BY <1>4 DEF RingVars, QueueInv, Ring!State, Holds, Along
<1>. QED
  BY <1>1, <1>2, <1>3, <1>4 DEF Ring!Next

\* An empty ring is one.
LEMMA QueueInit ==
  ASSUME Ring!Init
  PROVE  QueueInv
<1>1. Size \in Nat \ {0} /\ 0 \in 0 .. Size - 1 /\ 0 \in 0 .. Size
  BY ServicesAssumption DEF Ring!RingAssumption
<1>2. Along(0, 0) = 0
  BY <1>1, AlongFacts
<1>. QED
  BY <1>1, <1>2 DEF Ring!Init, QueueInv, Holds, Rings, Ring!State

\* What the reader would be given now.
LEMMA QueueOfInv ==
  ASSUME QueueInv
  PROVE  Ring!RingIsQueue
<1>1. /\ unread \in Seq(Nat) /\ level = Len(unread) /\ readAt \in 0 .. Size - 1
      /\ \A i \in 1 .. level : ring[Along(readAt, i - 1)] = unread[i]
  BY HoldsSplit DEF QueueInv, Holds, Ring!State
<1>2. ASSUME NEW i \in 1 .. level
      PROVE  ring[(readAt + i - 1) % Size] = unread[i]
  <2>1. readAt + i - 1 = readAt + (i - 1)
    BY <1>1
  <2>2. Along(readAt, i - 1) = (readAt + (i - 1)) % Size
    BY Zenon DEF Along
  <2>. QED
    BY <1>1, <2>1, <2>2, Zenon
<1>3. unread = [i \in 1 .. level |-> unread[i]]
  BY <1>1
<1>. QED
  BY <1>2, <1>3, Zenon DEF Ring!RingIsQueue

RingInv == component = "Ring" => QueueInv

LEMMA RingInvAlways == SpecAll => []RingInv
<1>1. InitAll => RingInv
  BY BeginningOfOne, QueueInit DEF RingInv
<1>2. RingInv /\ [NextAll]_all => RingInv'
  BY StepOfOne, QueueNext DEF RingInv
<1>. QED
  BY <1>1, <1>2, PTL DEF SpecAll

\* Whatever is put in and read, in whatever portions, and wherever the places wrap around:
\* a reader of an audio ring of any size gets the frames in the order in which they were
\* made, the newest ones of a core's ring that ran over (GbaCore.cpp:255) and the oldest
\* of the microphone's (AudioEngine.cpp:38).
THEOREM RingStaysQueue == SpecAll => []RingIsQueue
<1>1. RingInv => RingIsQueue
  BY QueueOfInv DEF RingInv, RingIsQueue
<1>. QED
  BY <1>1, RingInvAlways, PTL
=============================================================================
