------------------------------ MODULE Drawing ------------------------------
(***************************************************************************)
(* The parts of the Vulkan renderer, side by side: in a behaviour a single      *)
(* component runs, the render pass (whose module this one extends) or one of the  *)
(* instances below.  What the modules' own specifications say of one component     *)
(* is said here of all of them, for any constants.                                  *)
(***************************************************************************)
EXTENDS VkPass, Integers

CONSTANTS
  Layers, Engines, Tiles, Maps, Sizes, Modes,     \* Layers2D
  Lines, Versions, MaxWrites,                     \* Scanlines
  SpriteLines, Around, Heights,                   \* Sprites
  Width,                                          \* Windows
  MaxFrames,                                      \* Capture
  Columns, Rows, ScaleFactor, Vertices, MaxCorners, \* Spans
  Textures3D, NoTexture3D, Blends, MaxPolygons,   \* Variants
  MaxScale                                        \* Tiles3D

VARIABLES
  component,   \* the one that runs in this behaviour
  layer, engine, disp, cnt, captured, seenDisp, seenCnt, configDirty, dataDirty, config,
  texture, watched, rendered,
  line, written, now, dirty, seen, oam, flat, sprites, spriteDirty, picture, unit, screen,
  capture, last, due, unsure, scanAsked,
  objOam, mapping, objConfig, objLast, objDrawn,
  edges, active, inside, console, changed, winLine,
  truth, vram, wide, narrow, flags, ongoing, captLine, settings, frames, split, wrapped,
  polygon, left, right, y, lines, bounds,
  ram, maps, lastVariant, variants, drawnWith,
  scene, identical, frameDue, bitmap, textureDirty, clearDirty, uploaded, frameScale,
  shown,
  rest, fresh, unordered, hidden, wrong,
  scale, tileSize, coarseCountY, clearLocalSize, tilesPerLine, tileLines

Layer == INSTANCE Layers2D
Scan == INSTANCE Scanlines WITH asked <- scanAsked
Obj == INSTANCE Sprites WITH Lines <- SpriteLines, oam <- objOam, config <- objConfig, last
  <- objLast, drawn <- objDrawn
Win == INSTANCE Windows WITH line <- winLine
Capt == INSTANCE Capture WITH capture <- ongoing, line <- captLine
Edge == INSTANCE Spans
Vari == INSTANCE Variants WITH Textures <- Textures3D, NoTexture <- NoTexture3D, last <-
  lastVariant, drawn <- drawnWith
Frame == INSTANCE Frames3D WITH due <- frameDue, dirty <- textureDirty, scale <- frameScale
Order == INSTANCE Passes3D
Tile == INSTANCE Tiles3D

ASSUME DrawingAssumption ==
  /\ Layer!RegistersAssumption /\ Scan!SectionsAssumption /\ Obj!LinesAssumption
  /\ Win!WidthAssumption /\ Edge!ScreenAssumption /\ Vari!TexturesAssumption
  /\ Tile!ScaleAssumption

LayerVars == <<layer, engine, disp, cnt, captured, seenDisp, seenCnt, configDirty,
  dataDirty, config, texture, watched, rendered>>
ScanVars == <<line, written, now, dirty, seen, oam, flat, sprites, spriteDirty, picture,
  unit, screen, capture, last, due, unsure, scanAsked>>
ObjVars == <<objOam, mapping, objConfig, objLast, objDrawn>>
WinVars == <<edges, active, inside, console, changed, winLine>>
CaptVars == <<truth, vram, wide, narrow, flags, ongoing, captLine, settings, frames, split,
  wrapped>>
EdgeVars == <<polygon, left, right, y, lines, bounds>>
VariVars == <<ram, maps, lastVariant, variants, drawnWith>>
FrameVars == <<scene, identical, frameDue, bitmap, textureDirty, clearDirty, uploaded,
  frameScale, shown>>
OrderVars == <<rest, fresh, unordered, hidden, wrong>>
TileVars == <<scale, tileSize, coarseCountY, clearLocalSize, tilesPerLine, tileLines>>

all == <<component, vars, LayerVars, ScanVars, ObjVars, WinVars, CaptVars, EdgeVars,
  VariVars, FrameVars, OrderVars, TileVars>>

\* Parts that do not run have no state.
LayerRests == layer = 0 /\ engine = 0 /\ disp = 0 /\ cnt = 0 /\ captured = 0 /\ seenDisp = 0
  /\ seenCnt = 0 /\ configDirty = 0 /\ dataDirty = 0 /\ config = 0 /\ texture = 0 /\
  watched = 0 /\ rendered = 0
ScanRests == line = 0 /\ written = 0 /\ now = 0 /\ dirty = 0 /\ seen = 0 /\ oam = 0 /\
  flat = 0 /\ sprites = 0 /\ spriteDirty = 0 /\ picture = 0 /\ unit = 0 /\ screen = 0 /\ capture = 0 /\
  last = 0 /\ due = 0 /\ unsure = 0 /\ scanAsked = 0
ObjRests == objOam = 0 /\ mapping = 0 /\ objConfig = 0 /\ objLast = 0 /\ objDrawn = 0
WinRests == edges = 0 /\ active = 0 /\ inside = 0 /\ console = 0 /\ changed = 0 /\
  winLine = 0
CaptRests == truth = 0 /\ vram = 0 /\ wide = 0 /\ narrow = 0 /\ flags = 0 /\ ongoing = 0 /\
  captLine = 0 /\ settings = 0 /\ frames = 0 /\ split = 0 /\ wrapped = 0
EdgeRests == polygon = 0 /\ left = 0 /\ right = 0 /\ y = 0 /\ lines = 0 /\ bounds = 0
VariRests == ram = 0 /\ maps = 0 /\ lastVariant = 0 /\ variants = 0 /\ drawnWith = 0
FrameRests == scene = 0 /\ identical = 0 /\ frameDue = 0 /\ bitmap = 0 /\ textureDirty = 0
  /\ clearDirty = 0 /\ uploaded = 0 /\ frameScale = 0 /\ shown = 0
OrderRests == rest = 0 /\ fresh = 0 /\ unordered = 0 /\ hidden = 0 /\ wrong = 0
TileRests == scale = 0 /\ tileSize = 0 /\ coarseCountY = 0 /\ clearLocalSize = 0 /\
  tilesPerLine = 0 /\ tileLines = 0

InitAll ==
  /\ component \in {"Pass", "Layer", "Scan", "Obj", "Win", "Capt", "Edge", "Vari", "Frame",
       "Order", "Tile"}
  /\ Init
  /\ IF component = "Layer" THEN Layer!Init ELSE LayerRests
  /\ IF component = "Scan" THEN Scan!Init ELSE ScanRests
  /\ IF component = "Obj" THEN Obj!Init ELSE ObjRests
  /\ IF component = "Win" THEN Win!Init ELSE WinRests
  /\ IF component = "Capt" THEN Capt!Init ELSE CaptRests
  /\ IF component = "Edge" THEN Edge!Init ELSE EdgeRests
  /\ IF component = "Vari" THEN Vari!Init ELSE VariRests
  /\ IF component = "Frame" THEN Frame!Init ELSE FrameRests
  /\ IF component = "Order" THEN Order!Init ELSE OrderRests
  /\ IF component = "Tile" THEN Tile!Init ELSE TileRests

\* The parts that do not run stay as they are.
OthersRest ==
  /\ UNCHANGED component
  /\ IF component = "Pass" THEN TRUE ELSE UNCHANGED vars
  /\ IF component = "Layer" THEN TRUE ELSE UNCHANGED LayerVars
  /\ IF component = "Scan" THEN TRUE ELSE UNCHANGED ScanVars
  /\ IF component = "Obj" THEN TRUE ELSE UNCHANGED ObjVars
  /\ IF component = "Win" THEN TRUE ELSE UNCHANGED WinVars
  /\ IF component = "Capt" THEN TRUE ELSE UNCHANGED CaptVars
  /\ IF component = "Edge" THEN TRUE ELSE UNCHANGED EdgeVars
  /\ IF component = "Vari" THEN TRUE ELSE UNCHANGED VariVars
  /\ IF component = "Frame" THEN TRUE ELSE UNCHANGED FrameVars
  /\ IF component = "Order" THEN TRUE ELSE UNCHANGED OrderVars
  /\ IF component = "Tile" THEN TRUE ELSE UNCHANGED TileVars

NextAll ==
  /\ \/ component = "Pass" /\ Next
     \/ component = "Layer" /\ Layer!Next
     \/ component = "Scan" /\ Scan!Next
     \/ component = "Obj" /\ Obj!Next
     \/ component = "Win" /\ Win!Next
     \/ component = "Capt" /\ Capt!Next
     \/ component = "Edge" /\ Edge!Next
     \/ component = "Vari" /\ Vari!Next
     \/ component = "Frame" /\ Frame!Next
     \/ component = "Order" /\ Order!Next
     \/ component = "Tile" /\ Tile!Next
  /\ OthersRest

SpecAll == InitAll /\ [][NextAll]_all
-----------------------------------------------------------------------------
(* The properties of the components, under their names there                  *)

\* A layer watches every part of VRAM its picture is drawn from.
ReadsAreWatched  == component = "Layer" => Layer!ReadsAreWatched

\* A layer that is shown has the picture of its registers and its VRAM.
PictureIsCurrent == component = "Layer" => Layer!ConfigIsCurrent /\ Layer!PictureIsCurrent

\* Each line of the screen, and of a capture, has the registers and sprites of
\* that line, as far as Scanlines promises it.
LinesAreTheirOwn == component = "Scan" => Scan!LinesAreTheirOwn /\ Scan!CaptureIsItsOwn

\* A sprite is drawn on the lines the console draws it on.
SpriteOnItsLines == component = "Obj" => Obj!SpriteOnItsLines

\* A pixel is inside a window exactly where the console has it inside.
WindowIsExact    == component = "Win" => Win!WindowIsExact

\* What reads a capture gets what was captured, on the screen and in VRAM.
CaptureIsSound   == component = "Capt" => Capt!CaptureIsShown /\ Capt!CaptureIsRead

\* Each line of a polygon has a left and a right edge that cross it, within the columns the
\* polygon is binned by.
LinesAreBounded  == component = "Edge" => Edge!LinesAreBounded

\* A polygon is drawn with the texture, the wrapping, the blending and, but for captures of
\* unequal heights, the size it asked for.
VariantIsOwn     == component = "Vari" => Vari!VariantIsOwn

\* A 3D frame that is shown was drawn from what the console has.
FrameIsCurrent   == [][component = "Frame" => Frame!FrameStepIsCurrent]_all

\* No pass of a 3D frame reads what an earlier one has not made visible to it.
PassesInOrder    == component = "Order" => Order!PassesInOrder

\* Tiles, coarse tiles and groups of every dispatch cover the screen at every scale.
TilesCoverScreen == component = "Tile" => Tile!TilesCoverScreen
=============================================================================
