--------------------------- MODULE RewindHistory ---------------------------
(***************************************************************************)
(* What the rewind buffer promises its only client, the emulation session: *)
(* a stack of whole console states.  A snapshot goes on top, a step back    *)
(* removes the top and hands out the state below it, and the bottom of the  *)
(* stack may be forgotten at any time.  Nothing here says how the states    *)
(* are stored: RewindBuffer (one full state and a chain of page deltas)     *)
(* implements this module, and RewindSession is built on it.                *)
(***************************************************************************)
EXTENDS Naturals, Sequences

CONSTANTS
  States,   \* the console states that can be pushed
  NoState   \* result of a step back that was refused, not one of States

VARIABLES
  moments,  \* the states that can still be reached, oldest first
  popped    \* what the last step back handed out

Init ==
  /\ moments = <<>>
  /\ popped = NoState

\* A new snapshot: it is always kept, and everything older than some point
\* may go at the same time.
Snapshot(s) ==
  /\ \E first \in 1 .. Len(moments) + 1 :
       moments' = SubSeq(Append(moments, s), first, Len(moments) + 1)
  /\ UNCHANGED popped

\* One step back: the newest state goes, the one before it is handed out.
StepBack ==
  /\ Len(moments) > 1
  /\ moments' = SubSeq(moments, 1, Len(moments) - 1)
  /\ popped' = moments[Len(moments) - 1]

\* A step back that finds nothing below the newest state.
Refuse ==
  /\ Len(moments) <= 1
  /\ popped' = NoState
  /\ UNCHANGED moments

\* A step back that finds its store damaged: everything is forgotten.
Lose ==
  /\ Len(moments) > 1
  /\ moments' = <<>>
  /\ popped' = NoState

Forget ==
  /\ moments' = <<>>
  /\ UNCHANGED popped

Next ==
  \/ \E s \in States : Snapshot(s)
  \/ StepBack
  \/ Refuse
  \/ Lose
  \/ Forget

vars == <<moments, popped>>

Spec == Init /\ [][Next]_vars
=============================================================================
