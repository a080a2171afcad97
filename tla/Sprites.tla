------------------------------ MODULE Sprites ------------------------------
(***************************************************************************)
(* The sprites of a 2D unit (vk/GPU2D_Vulkan.cpp): UpdateOAM picks those the    *)
(* screen can show from OAM, and RenderSprites draws a quad, or two where the     *)
(* console counts lines beyond 255 as the top again, for each section of lines.     *)
(* One sprite is followed; lines are counted in units of 8.                           *)
(***************************************************************************)
EXTENDS Integers

CONSTANTS
  Lines,     \* of the screen: 192 / 8
  Around,    \* of the console's counter: 256 / 8
  Heights    \* of a sprite's bounds: 8 to 128, in units

\* The counter goes around behind the screen, and no sprite is higher than half of it.
LinesAssumption ==
  /\ Around \in Nat \ {0} /\ Lines \in 0 .. Around
  /\ Heights \subseteq 1 .. Around \div 2

VARIABLES
  oam,      \* the sprite in OAM
  mapping,  \* DISPCNT bits 5-6: "some" or, reserved for bitmaps, "none"
  config,   \* its entry of SpriteConfig, or nothing
  last,     \* LastSpriteLine
  drawn     \* the lines of OBJLayerTex it is on in this frame

vars == <<oam, mapping, config, last, drawn>>

Oams == [y : 0 .. Around - 1, height : Heights, off : BOOLEAN,
         mode : {"tiles", "window", "bitmap"}, alpha : BOOLEAN]

Nothing == [y |-> -2 * Around, height |-> 0]

Signed(y) == IF y >= Around \div 2 THEN y - Around ELSE y

\* Slip: a sprite below the counter's half is only looked for above the screen.
OnScreenSigned(y, height, from, to) == Signed(y) + height > from /\ Signed(y) < to

\* yc0 or yc1: at its signed or at its unsigned line.
OnScreen(y, height, from, to) ==
  \/ Signed(y) + height > from /\ Signed(y) < to
  \/ (y % Around) + height > from /\ y % Around < to

Picked(o) ==
  /\ ~o.off
  /\ OnScreen(o.y, o.height, 0, Lines)
  /\ o.mode = "bitmap" => mapping # "none" /\ o.alpha

\* UpdateOAM(0, 192).
UpdateOAM(o) == IF Picked(o) THEN [y |-> Signed(o.y), height |-> o.height] ELSE Nothing

\* The sprite was there before the frame begins.
Init ==
  /\ oam \in {o \in Oams : o.mode # "bitmap" => o.alpha}
  /\ mapping \in IF oam.mode = "bitmap" THEN {"some", "none"} ELSE {"some"}
  /\ config = UpdateOAM(oam)
  /\ last = 0
  /\ drawn = {}

\* RenderSprites of the lines from .. to-1: the quads, cut off by the scissor.
RenderSprites(c, from, to) ==
  IF c = Nothing THEN {}
  ELSE LET Quad(y) == IF y + c.height > from /\ y < to THEN y .. y + c.height - 1 ELSE {}
       IN (Quad(c.y) \cup Quad(c.y % Around)) \cap from .. to - 1

\* DoRenderSprites: the lines since the last change, and what was there is cleared.
DoRenderSprites(to) == (drawn \ (last .. to - 1)) \cup RenderSprites(config, last, to)

\* OAM is dirty before a line: the lines up to there are drawn.
Update(line) ==
  /\ line > last \/ (line = 0 /\ last = 0)
  /\ drawn' = DoRenderSprites(line)
  /\ config' = UpdateOAM(oam)
  /\ last' = line
  /\ UNCHANGED <<oam, mapping>>

\* The whole frame is drawn; in the next the same sprite is drawn again.
VBlank ==
  /\ last < Lines
  /\ drawn' = DoRenderSprites(Lines)
  /\ last' = Lines
  /\ UNCHANGED <<oam, mapping, config>>

NextFrame ==
  /\ last = Lines
  /\ last' = 0
  /\ UNCHANGED <<oam, mapping, config, drawn>>

Next == (\E line \in 0 .. Lines - 1 : Update(line)) \/ VBlank \/ NextFrame

Spec == Init /\ [][Next]_vars

-----------------------------------------------------------------------------

\* The console shows a sprite on line l if l, counted around from its line, is within
\* its bounds.
ConsoleShows(l) ==
  /\ ~oam.off
  /\ (l - oam.y) % Around < oam.height
  /\ oam.mode = "bitmap" => mapping # "none" /\ oam.alpha

\* In a finished frame a sprite is on the console's lines and on no others, in
\* whatever sections the frame was drawn.
SpriteOnItsLines == last = Lines => drawn = {l \in 0 .. Lines - 1 : ConsoleShows(l)}
=============================================================================
