------------------------------- MODULE VkPass -------------------------------
(***************************************************************************)
(* The render pass a stream keeps open (vk/VkStream.cpp): the renderer opens *)
(* a pass on a target, sets viewport and scissor, and draws; barriers and      *)
(* copies have to be outside a pass, so that the stream closes and reopens it   *)
(* behind the renderer's back, also when it moves on to another frame slot.      *)
(*                                                                                *)
(* One target stands for the list of attachments.  An area is the whole target     *)
(* or a part of it.  The areas the renderer asked for are history variables.         *)
(***************************************************************************)

CONSTANTS
  Textures,
  NoTexture  \* no pass is open; nothing was drawn

ASSUME PassAssumption == NoTexture \notin Textures

Areas   == {"whole", "part"}
Layouts == {"undefined", "target", "sampled", "transfer"}

VARIABLES
  pass,   \* the stream's state: see Init
  asked,  \* the viewport and scissor the renderer asked for
  drawn   \* what the last step drew into, and what it sampled

vars == <<pass, asked, drawn>>

Init ==
  /\ pass = [target   |-> NoTexture,
             viewport |-> "whole",
             scissor  |-> "whole",
             layout   |-> [t \in Textures |-> "undefined"],
             written  |-> [t \in Textures |-> FALSE]]   \* lastWasWrite
  /\ asked = [viewport |-> "whole", scissor |-> "whole"]
  /\ drawn = [into |-> NoTexture, from |-> NoTexture]

-----------------------------------------------------------------------------
(* Operators from one state of the stream to the next                        *)

EndRendering(p) == [p EXCEPT !.target = NoTexture]

\* A barrier before the next use of t, unless it is one more read in the same
\* layout; there is none inside a pass.
Use(p, t, layout, write) ==
  IF p.layout[t] = layout /\ ~p.written[t] /\ ~write THEN p
  ELSE [EndRendering(p) EXCEPT !.layout[t] = layout, !.written[t] = write]

BeginRendering(p, t) ==
  IF p.target = t THEN p
  ELSE [Use(EndRendering(p), t, "target", TRUE) EXCEPT !.target = t, !.viewport = "whole", !.scissor = "whole"]

\* Slip: the scissor is not set again.
ReopenOnly(p, q) == BeginRendering(q, p.target)

\* The pass p had open, opened again in q, which has ended it.
Reopen(p, q) == [BeginRendering(q, p.target) EXCEPT !.scissor = p.scissor]

RestartSlot(p) == IF p.target = NoTexture THEN p ELSE Reopen(p, EndRendering(p))

\* Draw's own barrier for a sampled texture, outside the pass.
MakeReadable(p, t) ==
  IF p.layout[t] = "sampled" /\ ~p.written[t] THEN p
  ELSE Reopen(p, Use(EndRendering(p), t, "sampled", FALSE))

-----------------------------------------------------------------------------
(* What the renderer does                                                    *)

NothingDrawn == drawn' = [into |-> NoTexture, from |-> NoTexture]

OpenPass(t) ==
  /\ pass' = BeginRendering(pass, t)
  /\ asked' = IF pass.target = t THEN asked ELSE [viewport |-> "whole", scissor |-> "whole"]
  /\ NothingDrawn

SetViewport(area) ==
  /\ pass.target # NoTexture
  /\ pass' = [pass EXCEPT !.viewport = area]
  /\ asked' = [asked EXCEPT !.viewport = area]
  /\ NothingDrawn

SetScissor(area) ==
  /\ pass.target # NoTexture
  /\ pass' = [pass EXCEPT !.scissor = area]
  /\ asked' = [asked EXCEPT !.scissor = area]
  /\ NothingDrawn

\* Slip: the texture is taken to be readable.
DrawUnprepared(t, restarts) ==
  /\ pass.target \notin {NoTexture, t}
  /\ pass' = IF restarts THEN RestartSlot(pass) ELSE pass
  /\ drawn' = [into |-> pass.target, from |-> t]
  /\ UNCHANGED asked

\* The slot is restarted when the ring or the descriptor pool is used up.
Draw(t, restarts) ==
  /\ pass.target \notin {NoTexture, t}
  /\ LET p == MakeReadable(pass, t) IN pass' = IF restarts THEN RestartSlot(p) ELSE p
  /\ drawn' = [into |-> pass.target, from |-> t]
  /\ UNCHANGED asked

UploadTexture(t, restarts) ==
  /\ pass' = Use(IF restarts THEN RestartSlot(pass) ELSE pass, t, "transfer", TRUE)
  /\ NothingDrawn
  /\ UNCHANGED asked

\* PrepareForExternalRead and Flush.
EndFrame(t) ==
  /\ pass' = EndRendering(Use(pass, t, "sampled", FALSE))
  /\ NothingDrawn
  /\ UNCHANGED asked

ReadTexture(t) ==
  /\ pass' = EndRendering(Use(pass, t, "transfer", FALSE))
  /\ NothingDrawn
  /\ UNCHANGED asked

Next ==
  \/ \E area \in Areas : SetViewport(area) \/ SetScissor(area)
  \/ \E t \in Textures : \/ OpenPass(t) \/ EndFrame(t) \/ ReadTexture(t)
                         \/ \E restarts \in BOOLEAN : Draw(t, restarts) \/ UploadTexture(t, restarts)

Spec == Init /\ [][Next]_vars

-----------------------------------------------------------------------------

TypeOK ==
  /\ pass \in [target : Textures \cup {NoTexture}, viewport : Areas, scissor : Areas,
               layout : [Textures -> Layouts], written : [Textures -> BOOLEAN]]
  /\ asked \in [viewport : Areas, scissor : Areas]
  /\ drawn \in [into : Textures \cup {NoTexture}, from : Textures \cup {NoTexture}]
  /\ pass.target # NoTexture => pass.layout[pass.target] = "target"

\* What a draw samples is readable and its last writer is waited for, and its
\* target is still the open pass, however the pass was reopened on the way ("Sampled
\* textures must be readable", VkStream.cpp:562).
SampledIsReadable ==
  drawn.into # NoTexture => /\ pass.target = drawn.into
                            /\ pass.layout[drawn.from] = "sampled"
                            /\ ~pass.written[drawn.from]

\* The stream draws inside the scissor the renderer asked for, whatever it
\* reopened (Stream::RestartSlot, Stream::Draw).
ScissorKept == pass.target # NoTexture => pass.scissor = asked.scissor

\* And in the viewport it asked for ("keeps the render pass state",
\* VkStream.cpp:205).
ViewportKept == pass.target # NoTexture => pass.viewport = asked.viewport
=============================================================================
