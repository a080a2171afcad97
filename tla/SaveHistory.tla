----------------------------- MODULE SaveHistory ----------------------------
(***************************************************************************)
(* What battery saves promise (features.md, "In-game saves written to disk   *)
(* automatically"): the file on the disk is always one whole state the        *)
(* console's save memory has been in, and it only moves on to later ones.      *)
(* When a session ends, or the process or the power does, play goes on from     *)
(* what the disk holds, and the states after that one are lost.                  *)
(***************************************************************************)
EXTENDS Integers, Sequences

CONSTANT Memories  \* contents of the save memory

VARIABLES
  versions,  \* states of the save memory, oldest first
  onDisk,    \* which of them a reader of the file finds
  onStorage  \* which of them would survive a power cut

vars == <<versions, onDisk, onStorage>>

Init ==
  /\ \E m \in Memories : versions = <<m>>
  /\ onDisk = 1
  /\ onStorage = 1

\* The console changes its save memory.
Change ==
  /\ \E m \in Memories : versions' = Append(versions, m)
  /\ UNCHANGED <<onDisk, onStorage>>

\* A later version reaches the file.
Commit ==
  /\ onDisk' \in onDisk + 1 .. Len(versions)
  /\ UNCHANGED <<versions, onStorage>>

\* The kernel writes back.
Settle ==
  /\ onStorage' = onDisk
  /\ UNCHANGED <<versions, onDisk>>

\* The next session reads the file.
Reload ==
  /\ versions' = SubSeq(versions, 1, onDisk)
  /\ UNCHANGED <<onDisk, onStorage>>

PowerCut ==
  /\ onDisk' = onStorage
  /\ versions' = SubSeq(versions, 1, onStorage)
  /\ UNCHANGED onStorage

Next == Change \/ Commit \/ Settle \/ Reload \/ PowerCut

Spec == Init /\ [][Next]_vars
=============================================================================
