------------------------------ MODULE Tiles3D ------------------------------
(***************************************************************************)
(* The tiles the 3D renderer divides the screen into at each scale               *)
(* (vk/GPU3D_Vulkan.cpp, SetRenderSettings).  The compute shaders are started in    *)
(* whole groups: nothing is drawn where the divisions leave a remainder.  The          *)
(* numbering of tiles is that of shaders/ds3d/bin_combined.comp, external.                *)
(***************************************************************************)
EXTENDS Integers

CONSTANT MaxScale   \* the setting goes to 8; the largest tiles begin with 9

\* Up to here the numbers fit a byte where the code wants one.
ScaleAssumption == MaxScale \in 1 .. 1000

VARIABLES
  scale,            \* ScaleFactor, -1 before it is set
  tileSize,
  coarseCountY,     \* CoarseTileCountY
  clearLocalSize,   \* ClearCoarseBinMaskLocalSize
  tilesPerLine, tileLines

geometry == <<tileSize, coarseCountY, clearLocalSize, tilesPerLine, tileLines>>
vars == <<scale, geometry>>

CoarseTileCountX == 8

ScreenWidth  == 256 * scale
ScreenHeight == 192 * scale
CoarseTileW  == CoarseTileCountX * tileSize
CoarseTileH  == coarseCountY * tileSize

Powers == {1, 2, 4, 8, 16, 32, 64, 128}

\* Of a number of 8 bits.
GetMSBit(n) == IF n = 0 THEN 0 ELSE CHOOSE p \in Powers : p <= n /\ n < 2 * p

\* "Starting at 4.5x we want to double TileSize every time scale doubles".
TileScale(s) == LET t == 2 * GetMSBit((2 * s) \div 9) IN IF t = 0 THEN 1 ELSE t

TileSizeOf(s) == IF 8 * TileScale(s) < 32 THEN 8 * TileScale(s) ELSE 32

CoarseCountY(size) == IF size < 32 THEN 4 ELSE 6

\* Slip: the groups that clear the mask do not change with the coarse tiles.
ClearLocalSizeFixed(size) == 64

ClearLocalSize(size) == IF size < 32 THEN 64 ELSE 48

Init ==
  /\ scale = -1
  /\ tileSize = 8 /\ coarseCountY = 4 /\ clearLocalSize = 64
  /\ tilesPerLine = 32 /\ tileLines = 24

SetRenderSettings(s) ==
  /\ s # scale
  /\ scale' = s
  /\ tileSize' = TileSizeOf(s)
  /\ coarseCountY' = CoarseCountY(TileSizeOf(s))
  /\ clearLocalSize' = ClearLocalSize(TileSizeOf(s))
  /\ tilesPerLine' = (256 * s) \div TileSizeOf(s)
  /\ tileLines' = (192 * s) \div TileSizeOf(s)

Next == \E s \in 1 .. MaxScale : SetRenderSettings(s)

Spec == Init /\ [][Next]_vars

-----------------------------------------------------------------------------
(* Properties                                                               *)

\* linearTile of a coarse tile and a thread of its group.
LinearTile(x, y, thread) ==
  (thread % 8) + ((thread \div 8) * tilesPerLine) + (x * CoarseTileCountX) + (y * tilesPerLine * coarseCountY)

\* The tiles a binning dispatch of ScreenWidth/CoarseTileW by ScreenHeight/CoarseTileH
\* groups writes, and how many threads do.
BinnedTiles ==
  {LinearTile(x, y, thread) : x \in 0 .. (ScreenWidth \div CoarseTileW) - 1, y \in 0 .. (ScreenHeight \div CoarseTileH) - 1,
                              thread \in 0 .. (CoarseTileCountX * coarseCountY) - 1}
Binners == (ScreenWidth \div CoarseTileW) * (ScreenHeight \div CoarseTileH) * CoarseTileCountX * coarseCountY

TileCount == tilesPerLine * tileLines

\* The tiles, the coarse tiles and the groups that clear the coarse mask and draw the
\* final picture divide the screen without a remainder.
GroupsCoverScreen ==
  scale > 0 =>
    /\ tilesPerLine * tileSize = ScreenWidth
    /\ tileLines * tileSize = ScreenHeight
    /\ (ScreenWidth \div CoarseTileW) * CoarseTileW = ScreenWidth
    /\ (ScreenHeight \div CoarseTileH) * CoarseTileH = ScreenHeight
    /\ (TileCount \div clearLocalSize) * clearLocalSize = TileCount
    /\ (ScreenWidth \div 32) * 32 = ScreenWidth

\* And each tile is binned by one thread.
TilesCoverScreen ==
  GroupsCoverScreen /\ (scale > 0 => BinnedTiles = 0 .. TileCount - 1 /\ Binners = TileCount)
=============================================================================
