----------------------------- MODULE Scanlines -----------------------------
(***************************************************************************)
(* How the Vulkan renderer puts a frame together (vk/GPU_Vulkan.cpp and      *)
(* vk/GPU2D_Vulkan.cpp, one 2D unit).  The console draws line by line and a    *)
(* game may write registers, palettes, VRAM and OAM in between.  The renderer    *)
(* draws nothing until something changed: then it draws the lines since the last   *)
(* change with its copies of the old registers, and copies the new ones.  Four       *)
(* stages have sections of their own: sprites, the unit's composition, the two         *)
(* screens and the capture.                                                              *)
(*                                                                                         *)
(* A group of registers is one value, memory is a version.  The order of the calls is        *)
(* melonDS's (GPU.cpp), external.                                                              *)
(***************************************************************************)
EXTENDS Integers

CONSTANTS
  Lines,     \* of a screen: 192; at least 2
  Versions,  \* of each group of registers and of each memory
  MaxWrites  \* bound: of the game, in a behaviour

VARIABLES
  line,      \* next to be drawn; Lines at VBlank
  written,   \* how often the game has written
  now,       \* what the game has written last: the registers of composition (layers,
             \* blending), scroll (offsets, windows, mosaic), the object window (DispCnt bit
             \* 15), the mapping of the objects' VRAM, blank (forced, or unit off), display
             \* (modes, brightness), dark (brightness 16) and capture; and memory, of which
             \* palette is the objects' extended one (the standard one is read at the same
             \* moment, from the console's memory itself)
  dirty,     \* melonDS's VRAM, palette and OAM dirty bits; of those for the objects' palettes
             \* the renderer looks at none
  seen,      \* the copies of the registers
  oam,       \* OAM, VRAMTex_OBJ and SpriteDispCnt
  flat,      \* VRAMFlat_AOBJExtPal
  sprites,   \* SpriteConfig, SpriteTex and PalTex_OBJ
  spriteDirty,
  picture,   \* the textures of the layers
  unit,      \* per line: the sprites' texture, ScanlineConfig, OutputTex
  screen,    \* per line: FPOutputTex
  capture,   \* per line: CaptureOutput256Tex
  last,      \* LastSpriteLine, LastLine of unit and parent, LastCapLine
  due,       \* history: what the next line's sprites were to be made of when they were due
  unsure,    \* history: what is not promised of the objects, for the reasons below
  asked      \* history: what each line was to show

SectionsAssumption == Lines \in Nat \ {0} /\ Versions # {} /\ MaxWrites \in Nat

rendererVars == <<seen, oam, flat, sprites, spriteDirty, picture, unit, screen, capture, last>>
vars == <<line, written, now, dirty, rendererVars, due, unsure, asked>>

AllLines == 0 .. Lines - 1

Blank == [blank |-> TRUE]

Nothing == [nothing |-> TRUE]

NoVersion == -1

\* No promise is made.
Anything == -2

NoSprites == [attributes |-> NoVersion, tiles |-> NoVersion, mapping |-> NoVersion, palette |-> NoVersion]

PerLine(value) == [l \in AllLines |-> value]

\* IsScreenOn: not, VRAM is not looked at.
IsScreenOn == ~now.registers.blank /\ ~now.registers.dark

\* What is due of the objects of a line when DrawSprites looks at them: with the screen
\* off nobody looks at OBJ VRAM.
DueSprites ==
  [attributes |-> now.memory.attributes,
   tiles      |-> IF IsScreenOn \/ ~dirty.tiles THEN now.memory.tiles ELSE Anything,
   mapping    |-> now.registers.mapping]

\* Reset; the game has written before the first frame, no matter what.
Init ==
  /\ line = 0
  /\ written = 0
  /\ LET v == CHOOSE v \in Versions : TRUE IN
       now = [registers |-> [composition |-> v, scroll |-> v, window |-> FALSE, mapping |-> v, blank |-> FALSE,
                             display |-> v, dark |-> FALSE, capturing |-> v],
              memory |-> [background |-> v, attributes |-> v, tiles |-> v, palette |-> v]]
  /\ dirty = [background |-> TRUE, attributes |-> FALSE, tiles |-> FALSE]
  /\ seen = [now.registers EXCEPT !.blank = TRUE]
  /\ oam = [attributes |-> now.memory.attributes, tiles |-> now.memory.tiles, mapping |-> now.registers.mapping]
  /\ flat = NoVersion /\ sprites = NoSprites
  /\ spriteDirty = TRUE
  /\ picture = NoVersion
  /\ unit = [objects |-> PerLine(Nothing), scroll |-> PerLine(NoVersion), out |-> PerLine(Nothing)]
  /\ screen = PerLine(Nothing)
  /\ capture = PerLine(Nothing)
  /\ last = [sprite |-> 0, unit |-> 0, screen |-> 0, capture |-> 0]
  /\ due = DueSprites
  /\ unsure = [mapping |-> FALSE, palette |-> TRUE, windows |-> {}]
  /\ asked = PerLine(Nothing)

-----------------------------------------------------------------------------
(* The game                                                                 *)

\* Lines that were drawn and wait to be composed.
Waiting == {l \in AllLines : last.unit <= l /\ l < line}

WriteRegister(r, value) ==
  /\ written < MaxWrites /\ written' = written + 1
  /\ value # now.registers[r] /\ now' = [now EXCEPT !.registers[r] = value]
  /\ unsure' = IF r = "window" THEN [unsure EXCEPT !.windows = @ \cup Waiting] ELSE unsure
  /\ UNCHANGED <<line, dirty, rendererVars, due, asked>>

WriteMemory(m, value) ==
  /\ written < MaxWrites /\ written' = written + 1
  /\ now' = [now EXCEPT !.memory[m] = value]
  /\ dirty' = [d \in DOMAIN dirty |-> dirty[d] \/ d = m]
  /\ unsure' = [unsure EXCEPT !.palette = @ \/ m = "palette"]
  /\ UNCHANGED <<line, rendererVars, due, asked>>

-----------------------------------------------------------------------------
(* Drawing lines                                                            *)

\* Lines from .. to-1 of old become those of new.
Section(old, from, to, new(_)) == [l \in AllLines |-> IF l \in from .. to - 1 THEN new(l) ELSE old[l]]

\* DoRenderSprites.  Whether sprites are windows is read from the register as it is now,
\* for lines that are past as well.
RenderedSprites(from, to) ==
  Section(unit.objects, from, to, LAMBDA l : [sprites |-> sprites, window |-> now.registers.window])

\* RenderScreen of the unit.
Composed(objects, from, to) ==
  Section(unit.out, from, to,
          LAMBDA l : IF seen.blank THEN Blank
                     ELSE [blank |-> FALSE, composition |-> seen.composition, scroll |-> unit.scroll[l],
                           background |-> picture, objects |-> objects[l]])

\* RenderScreen of the parent.
Shown(out, from, to) ==
  Section(screen, from, to,
          LAMBDA l : IF seen.dark THEN Nothing ELSE [display |-> seen.display, image |-> out[l]])

\* DoCapture.
Captured(out, from, to) ==
  Section(capture, from, to, LAMBDA l : [capturing |-> seen.capturing, image |-> out[l]])

NeedCapture == now.registers.capturing # seen.capturing

NeedRender == now.registers.display # seen.display \/ now.registers.dark # seen.dark \/ NeedCapture

BackgroundChanged == IsScreenOn /\ dirty.background

\* comp_dirty.
CompositionDirty ==
  \/ \E r \in {"composition", "window", "blank"} : now.registers[r] # seen[r]
  \/ BackgroundChanged
  \/ NeedRender  \* NeedPartialRender

\* MakeVRAMFlat_AOBJExtPalCoherent.
Flattened == IF IsScreenOn THEN now.memory.palette ELSE flat

\* UpdateOAM and PrerenderSprites: OAM and VRAM are DrawSprites' copies, mapping and palette
\* are those of this moment.
MadeSprites == [attributes |-> oam.attributes, tiles |-> oam.tiles, mapping |-> now.registers.mapping,
                palette |-> Flattened]

\* The mapping of the sprites is not the one that was due if it was written between
\* DrawSprites and DrawScanline, and stays so until sprites are made again; nor is the palette
\* if it was written and no sprites have been made since with the screen on.
UnsureNow ==
  [unsure EXCEPT !.mapping = IF spriteDirty THEN now.registers.mapping # due.mapping ELSE @,
                 !.palette = @ /\ ~(spriteDirty /\ IsScreenOn)]

\* What the line is to show.  Its sprites were due when the line before was drawn.
Asked ==
  LET r == now.registers
      made == [attributes |-> due.attributes, tiles |-> due.tiles,
               mapping |-> IF UnsureNow.mapping THEN Anything ELSE due.mapping,
               palette |-> IF UnsureNow.palette THEN Anything ELSE now.memory.palette]
  IN [display   |-> r.display, dark |-> r.dark, capturing |-> r.capturing,
      image     |-> IF r.blank THEN Blank
                    ELSE [blank |-> FALSE, composition |-> r.composition, scroll |-> r.scroll,
                          background |-> now.memory.background,
                          objects |-> [sprites |-> made, window |-> r.window]]]

\* Slip: sprites that were rendered with a section are not rendered again, though
\* that began at an earlier line.
SpriteSectionStart == last.unit

SpriteStart == last.sprite

\* DrawScanline of the parent and, in it, UpdateAndRender of the unit.
DrawScanline ==
  LET objects == IF (CompositionDirty \/ spriteDirty) /\ line > 0
                 THEN RenderedSprites(SpriteStart, line) ELSE unit.objects
      out == IF CompositionDirty /\ line > 0 THEN Composed(objects, last.unit, line) ELSE unit.out
  IN /\ unit' = [objects |-> objects, scroll |-> [unit.scroll EXCEPT ![line] = now.registers.scroll], out |-> out]
     /\ screen' = IF NeedRender /\ line > 0 THEN Shown(out, last.screen, line) ELSE screen
     /\ capture' = IF NeedCapture /\ line > 0 THEN Captured(out, last.capture, line) ELSE capture
     /\ picture' = IF BackgroundChanged THEN now.memory.background ELSE picture
     /\ flat' = Flattened
     /\ sprites' = IF spriteDirty THEN MadeSprites ELSE sprites
     /\ last' = [sprite  |-> IF spriteDirty THEN line ELSE last.sprite,
                 unit    |-> IF CompositionDirty THEN line ELSE last.unit,
                 screen  |-> IF NeedRender THEN line ELSE last.screen,
                 capture |-> IF NeedCapture THEN line ELSE last.capture]
     /\ seen' = now.registers

TilesChanged == IsScreenOn /\ dirty.tiles

\* DrawSprites of a unit for a line: what it copies, and whether sprites are to be made anew.
LookedAt == [attributes |-> IF dirty.attributes THEN now.memory.attributes ELSE oam.attributes,
             tiles      |-> IF TilesChanged THEN now.memory.tiles ELSE oam.tiles,
             mapping    |-> now.registers.mapping]

DrawSprites(pending) ==
  /\ oam' = LookedAt
  /\ spriteDirty' = (pending \/ dirty.attributes \/ TilesChanged \/ now.registers.mapping # oam.mapping)
  /\ due' = DueSprites

\* The dirty bits that are left when sprites have been looked at.
Unlooked == [dirty EXCEPT !.attributes = FALSE, !.tiles = @ /\ ~TilesChanged]

\* GPU::StartHBlank of a line: it is drawn, then the sprites of the next are
\* looked at.
HBlank ==
  /\ line < Lines
  /\ DrawScanline
  /\ IF line < Lines - 1 THEN DrawSprites(FALSE) ELSE oam' = oam /\ spriteDirty' = FALSE /\ due' = due
  /\ dirty' = [(IF line < Lines - 1 THEN Unlooked ELSE dirty) EXCEPT !.background = @ /\ ~BackgroundChanged]
  /\ unsure' = UnsureNow
  /\ asked' = [asked EXCEPT ![line] = Asked]
  /\ line' = line + 1
  /\ UNCHANGED <<written, now>>

\* VBlank: what is left of the frame is drawn.
VBlank ==
  /\ line = Lines
  /\ LET objects == RenderedSprites(last.sprite, Lines)
         out == Composed(objects, last.unit, Lines)
     IN /\ unit' = [unit EXCEPT !.objects = objects, !.out = out]
        /\ screen' = Shown(out, last.screen, Lines)
        /\ capture' = Captured(out, last.capture, Lines)
  /\ last' = [sprite |-> 0, unit |-> 0, screen |-> 0, capture |-> 0]
  /\ line' = Lines + 1
  /\ UNCHANGED <<written, now, dirty, seen, oam, flat, sprites, spriteDirty, picture, due, unsure, asked>>

\* The last line of VBlank: the sprites of line 0 are looked at.  (The lines of the
\* old frame, which nothing reads again, are forgotten here.)
VBlankEnd ==
  /\ line = Lines + 1
  /\ DrawSprites(spriteDirty)
  /\ dirty' = Unlooked
  /\ line' = 0
  /\ unit' = [objects |-> PerLine(Nothing), scroll |-> PerLine(NoVersion), out |-> PerLine(Nothing)]
  /\ screen' = PerLine(Nothing) /\ capture' = PerLine(Nothing) /\ asked' = PerLine(Nothing)
  /\ unsure' = [unsure EXCEPT !.windows = {}]
  /\ UNCHANGED <<written, now, seen, flat, sprites, picture, last>>

Next ==
  \/ \E r \in {"composition", "scroll", "mapping", "display", "capturing"}, value \in Versions : WriteRegister(r, value)
  \/ \E r \in {"window", "blank", "dark"}, value \in BOOLEAN : WriteRegister(r, value)
  \/ \E m \in DOMAIN now.memory, value \in Versions : WriteMemory(m, value)
  \/ HBlank \/ VBlank \/ VBlankEnd

Spec == Init /\ [][Next]_vars

-----------------------------------------------------------------------------
(* Properties                                                               *)

Finished == line = Lines + 1

\* An image is what line l asked for, as far as that was promised.
AsAsked(image, l) ==
  LET want == asked[l].image
      made == want.objects.sprites
  IN IF want = Blank THEN image = Blank
     ELSE /\ image # Blank /\ image # Nothing
          /\ \A part \in {"composition", "scroll", "background"} : image[part] = want[part]
          /\ \A part \in DOMAIN made : made[part] \in {Anything, image.objects.sprites[part]}
          /\ l \in unsure.windows \/ image.objects.window = want.objects.window

\* A finished frame shows every line as the registers and memories were when the
\* console drew it, however late the renderer did ("if needed, composite the
\* previous screen section", GPU2D_Vulkan.cpp:346).  Not promised are: the object windows of
\* lines that wait when the object window is switched (GPU2D_Vulkan.cpp:1252); OBJ VRAM that
\* was written while the screen was off (:1376); a mapping that was written after the line's
\* sprites were due; and a palette of the objects until sprites are made anew (:430).
LinesAreTheirOwn ==
  Finished =>
    \A l \in AllLines :
      IF asked[l].dark THEN screen[l] = Nothing
      ELSE screen[l] # Nothing /\ screen[l].display = asked[l].display /\ AsAsked(screen[l].image, l)

\* The same of the capture, for lines that were not dark: of those the VRAM is
\* not looked at, though the capture shows them.
CaptureIsItsOwn ==
  Finished =>
    \A l \in AllLines :
      ~asked[l].dark => /\ capture[l] # Nothing /\ capture[l].capturing = asked[l].capturing
                        /\ AsAsked(capture[l].image, l)
=============================================================================
