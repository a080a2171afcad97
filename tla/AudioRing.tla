----------------------------- MODULE AudioRing -----------------------------
(***************************************************************************)
(* The rings between a core and the audio device.  GbaCore and ThreeDsCore     *)
(* fill theirs on the emulation thread and the audio thread reads it; a full     *)
(* one loses its oldest frames.  The microphone's is filled by the audio thread   *)
(* and read by the emulation; a full one loses what comes.  Each call is one      *)
(* step, under the ring's lock.                                                    *)
(*                                                                                  *)
(* A frame is its number among the frames made, modulo Numbers.                      *)
(***************************************************************************)
EXTENDS Naturals, Sequences

CONSTANTS
  Size,     \* kRingFrames, kAudioRingFrames, kMicRingSize
  Batch,    \* bound: the frames of one call
  Numbers   \* bound: the frames that are told apart, more than Size

RingAssumption == Size \in Nat \ {0} /\ Numbers \in Nat \ {0}

VARIABLES
  mic,      \* the ring is the microphone's
  ring, readAt, writeAt, level,
  last,     \* history: the number of the last frame made
  unread    \* history: the frames that the reader is still to get, oldest first

vars == <<mic, ring, readAt, writeAt, level, last, unread>>

After(place) == (place + 1) % Size

Init ==
  /\ mic \in BOOLEAN
  /\ ring = [p \in 0 .. Size - 1 |-> 0]
  /\ readAt = 0 /\ writeAt = 0 /\ level = 0
  /\ last = 0 /\ unread = << >>

State == [ring |-> ring, readAt |-> readAt, writeAt |-> writeAt, level |-> level]

\* Slip: the reader is not moved on.
DropOldestOnly(r) == [r EXCEPT !.level = @ - 1]

\* Full: the oldest frame is lost rather than the newest.
DropOldest(r) == [r EXCEPT !.readAt = After(@), !.level = @ - 1]

Put(r, frame) ==
  [r EXCEPT !.ring[r.writeAt] = frame, !.writeAt = After(@), !.level = @ + 1]

\* One frame of DrainAudio or AudioBatch, or of the microphone's callback.
Store(r, frame) ==
  IF r.level < Size THEN Put(r, frame)
  ELSE IF mic THEN r
  ELSE Put(DropOldest(r), frame)

\* A call's frames, one after the other.
StoreAll(r, frames) ==
  LET stored[i \in 0 .. Len(frames)] ==
        IF i = 0 THEN r ELSE Store(stored[i - 1], frames[i])
  IN stored[Len(frames)]

Frames(n) == [i \in 1 .. n |-> (last + i) % Numbers]

Become(r) == ring' = r.ring /\ readAt' = r.readAt /\ writeAt' = r.writeAt /\ level' = r.level

\* What the reader is to get of the frames that were made.
Due(frames) ==
  IF Len(frames) <= Size THEN frames
  ELSE IF mic THEN SubSeq(frames, 1, Size)
  ELSE SubSeq(frames, Len(frames) - Size + 1, Len(frames))

\* DrainAudio, AudioBatch, MicCallback::onAudioReady
Fill(n) ==
  /\ Become(StoreAll(State, Frames(n)))
  /\ last' = (last + n) % Numbers
  /\ unread' = Due(unread \o Frames(n))
  /\ UNCHANGED mic

\* ReadAudio, ReadMic: as many as there are.
Read(frames) ==
  LET n == IF frames < level THEN frames ELSE level
  IN /\ readAt' = (readAt + n) % Size
     /\ level' = level - n
     /\ unread' = SubSeq(unread, n + 1, Len(unread))
     /\ UNCHANGED <<mic, ring, writeAt, last>>

\* Shutdown of a core, StartMic
Clear ==
  /\ readAt' = 0 /\ writeAt' = 0 /\ level' = 0
  /\ unread' = << >>
  /\ UNCHANGED <<mic, ring, last>>

Next ==
  \/ \E n \in 1 .. Batch : Fill(n)
  \/ \E n \in 1 .. Size : Read(n)
  \/ Clear

Spec == Init /\ [][Next]_vars

-----------------------------------------------------------------------------
(* Properties                                                               *)

\* What the reader will get, in order, is what it has not got yet of the frames
\* that were made: all of them while they fit, and then the newest of a core's,
\* the oldest of the microphone's (GbaCore.cpp:255, AudioEngine.cpp:38).
RingIsQueue ==
  [i \in 1 .. level |-> ring[(readAt + i - 1) % Size]] = unread
=============================================================================
