------------------------------ MODULE Layers2D ------------------------------
(***************************************************************************)
(* What the Vulkan 2D renderer keeps about a background layer               *)
(* (vk/GPU2D_Vulkan.cpp): its configuration, the texture it is rendered to and  *)
(* the parts of VRAM that are watched for changes.  All three are derived from     *)
(* registers, and derived again only when a register changed that is known to        *)
(* matter.  One layer is followed; the others may be changed at any time.              *)
(*                                                                                       *)
(* Addresses and lengths count units of 512 bytes, the granularity of the dirty bits.      *)
(***************************************************************************)
EXTENDS Integers

CONSTANTS
  Layers,    \* layers to follow, of 0 .. 3
  Engines,   \* of {0, 1}: engine A has 512 KB of background VRAM, B has 128 KB
  Tiles,     \* values of BGxCNT bits 2-5; an odd one is a direct colour bitmap
  Maps,      \* values of BGxCNT bits 8-12
  Sizes,     \* values of BGxCNT bits 14-15
  Modes      \* BG modes

RegistersAssumption ==
  /\ Layers \subseteq 0 .. 3 /\ Engines \subseteq {0, 1} /\ Modes \subseteq 0 .. 7 /\ 0 \in Modes
  /\ Tiles \subseteq 0 .. 15 /\ Maps \subseteq 0 .. 31 /\ Sizes \subseteq 0 .. 3

VARIABLES
  layer, engine,   \* which is followed
  disp,       \* DISPCNT: BG mode, BG0 is 3D, extended palettes, tile and map base
  cnt,        \* BGxCNT of the layer
  captured,   \* a display capture lies in the VRAM of the bitmap
  seenDisp, seenCnt,   \* the renderer's copies
  configDirty,         \* LayerConfigDirty
  dataDirty,  \* a palette, or VRAM that is watched, was written
  config,     \* LayerConfig.uBGConfig[layer]
  texture,    \* index of BGLayerTex[layer] in AllBGLayerTex, or -1
  watched,    \* BGVRAMRange[layer]: tiles and map
  rendered    \* the texture was filled since configuration and texture are these

cached == <<config, texture, watched, rendered>>
vars == <<layer, engine, disp, cnt, captured, seenDisp, seenCnt, configDirty, dataDirty, cached>>

AllDisps == [mode : Modes, is3D : BOOLEAN, extPal : BOOLEAN, base : {0, 1}]
\* Bits that mean nothing to the layer are left at 0.
Disps == {d \in AllDisps : (d.is3D => layer = 0) /\ (d.base = 1 => engine = 0)}

Cnts == [tile : Tiles, wide : BOOLEAN, map : Maps, bit13 : BOOLEAN, size : Sizes]

Nothing == [start |-> -1, length |-> 0]

NoConfig == [type |-> 0, size |-> <<0, 0>>, tile |-> 0, map |-> 0, pal |-> 0, clamp |-> FALSE]

-----------------------------------------------------------------------------
(* UpdateLayerConfig                                                        *)

\* Text, affine, extended, large or none, by BG mode.
LayerType(mode, l) ==
  LET types == << <<1, 1, 1, 1>>, <<1, 1, 1, 2>>, <<1, 1, 2, 2>>, <<1, 1, 1, 3>>, <<1, 1, 2, 3>>,
                  <<1, 1, 3, 3>>, <<0, 0, 4, 0>>, <<1, 1, 0, 0>> >>
  IN types[mode + 1][l + 1]

TextSizes   == << <<256, 256>>, <<512, 256>>, <<256, 512>>, <<512, 512>> >>
SquareSizes == << <<128, 128>>, <<256, 256>>, <<512, 512>>, <<1024, 1024>> >>
BitmapSizes == << <<128, 128>>, <<256, 256>>, <<512, 256>>, <<512, 512>> >>
LargeSizes  == << <<512, 1024>>, <<1024, 512>>, <<512, 256>>, <<512, 512>> >>

Index(t) == t + 1

ExtPal(d, c, l) == IF d.extPal THEN 1 + 16 * (IF l < 2 /\ c.bit13 THEN l + 2 ELSE l) ELSE 0

TileOffset(e, d, c) == (IF e = 0 THEN 128 * d.base ELSE 0) + 32 * c.tile
MapOffset(e, d, c)  == (IF e = 0 THEN 128 * d.base ELSE 0) + 4 * c.map

IsDirect(c) == c.tile % 2 = 1

\* Of a bitmap: a direct colour one of width 128 or 256 may be a capture.
BitmapType(c, capture) ==
  IF ~IsDirect(c) THEN 4
  ELSE IF capture /\ c.size = 0 THEN 7
  ELSE IF capture /\ c.size = 1 THEN 8
  ELSE 5

TextTextures == <<2, 10, 6, 14>>

\* [config, texture, watched] of a layer that is not switched off.
TextLayer(e, d, c, l) ==
  [config |-> [type |-> IF c.wide THEN 1 ELSE 0, size |-> TextSizes[Index(c.size)],
               tile |-> TileOffset(e, d, c), map |-> MapOffset(e, d, c),
               pal |-> IF c.wide THEN ExtPal(d, c, l) ELSE 0, clamp |-> FALSE],
   texture |-> TextTextures[Index(c.size)] + l,
   watched |-> <<[start |-> TileOffset(e, d, c), length |-> IF c.wide THEN 128 ELSE 64],
                 [start |-> MapOffset(e, d, c), length |-> (<<4, 8, 8, 16>>)[Index(c.size)]]>>]

AffineLayer(e, d, c, l) ==
  [config |-> [type |-> 2, size |-> SquareSizes[Index(c.size)],
               tile |-> TileOffset(e, d, c), map |-> MapOffset(e, d, c), pal |-> 0, clamp |-> ~c.bit13],
   texture |-> (<<0, 4, 16, 20>>)[Index(c.size)] + l - 2,
   watched |-> <<[start |-> TileOffset(e, d, c), length |-> 32],
                 [start |-> MapOffset(e, d, c), length |-> (<<0, 2, 8, 32>>)[Index(c.size)]]>>]

\* The range is that of an 8-bit bitmap: it is noted before a direct colour one is
\* found to be twice as long.
BitmapLayer(e, d, c, l, capture) ==
  LET type == BitmapType(c, capture)
  IN [config |-> [type |-> type, size |-> BitmapSizes[Index(c.size)], tile |-> 0,
                  map |-> IF type \in {4, 5} THEN 32 * c.map ELSE 0, pal |-> 0, clamp |-> ~c.bit13],
      texture |-> (<<0, 4, 12, 16>>)[Index(c.size)] + l - 2,
      watched |-> <<Nothing, [start |-> 32 * c.map, length |-> (<<32, 128, 256, 512>>)[Index(c.size)]]>>]

\* Slip: the map of a tiled layer with 16-bit entries is watched for 8-bit ones.
ExtendedMapUnitsShort == <<0, 2, 8, 32>>

ExtendedMapUnits == <<1, 4, 16, 64>>

ExtendedTiles(e, d, c, l) ==
  [config |-> [type |-> 3, size |-> SquareSizes[Index(c.size)],
               tile |-> TileOffset(e, d, c), map |-> MapOffset(e, d, c), pal |-> ExtPal(d, c, l), clamp |-> ~c.bit13],
   texture |-> (<<0, 4, 16, 20>>)[Index(c.size)] + l - 2,
   watched |-> <<[start |-> TileOffset(e, d, c), length |-> 128],
                 [start |-> MapOffset(e, d, c), length |-> ExtendedMapUnits[Index(c.size)]]>>]

\* The map offset is zeroed in the configuration and not in the range.
LargeLayer(e, d, c) ==
  [config |-> [type |-> 4, size |-> LargeSizes[Index(c.size)], tile |-> 0, map |-> 0, pal |-> 0, clamp |-> ~c.bit13],
   texture |-> (<<18, 19, 12, 16>>)[Index(c.size)],
   watched |-> <<Nothing, [start |-> MapOffset(e, d, c), length |-> (<<1024, 1024, 256, 512>>)[Index(c.size)]]>>]

\* BG0 as the 3D layer: nothing is rendered in advance, the texture is left alone.
ThreeDLayer(e, d, c, t) ==
  [config |-> [type |-> 6, size |-> <<256, 192>>, tile |-> TileOffset(e, d, c), map |-> MapOffset(e, d, c),
               pal |-> 0, clamp |-> TRUE],
   texture |-> t,
   watched |-> <<Nothing, Nothing>>]

\* UpdateLayerConfig for the layer; of a layer that is off, all is left as it was.
Derived(e, d, c, l, capture, old) ==
  CASE LayerType(d.mode, l) = 0 -> old
    [] l = 0 /\ d.is3D /\ LayerType(d.mode, l) # 0 -> ThreeDLayer(e, d, c, old.texture)
    [] ~(l = 0 /\ d.is3D) /\ LayerType(d.mode, l) = 1 -> TextLayer(e, d, c, l)
    [] LayerType(d.mode, l) = 2 -> AffineLayer(e, d, c, l)
    [] LayerType(d.mode, l) = 3 /\ c.wide -> BitmapLayer(e, d, c, l, capture)
    [] LayerType(d.mode, l) = 3 /\ ~c.wide -> ExtendedTiles(e, d, c, l)
    [] LayerType(d.mode, l) = 4 -> LargeLayer(e, d, c)

-----------------------------------------------------------------------------
(* UpdateAndRender                                                          *)

When(condition, layers) == IF condition THEN layers ELSE {}

\* Slip: the bits of the extended palettes and the bases are forgotten.
DispCntDirtyNoBase(d, seen) ==
  When(d.is3D # seen.is3D, {0}) \cup When(d.mode # seen.mode, {2, 3})

\* The layers that another DISPCNT makes another picture of.
DispCntDirty(d, seen) ==
  When(d.is3D # seen.is3D, {0}) \cup When(d.mode # seen.mode, {2, 3})
    \cup When(d.extPal # seen.extPal \/ d.base # seen.base, 0 .. 3)

\* The same of BGxCNT: bit 13 does not count for BG2 and BG3.
BgCntDirty(l, c, seen) ==
  \/ l < 2 /\ c # seen
  \/ l >= 2 /\ [c EXCEPT !.bit13 = FALSE] # [seen EXCEPT !.bit13 = FALSE]

Init ==
  /\ layer \in Layers /\ engine \in Engines
  /\ disp = [mode |-> 0, is3D |-> FALSE, extPal |-> FALSE, base |-> 0] /\ seenDisp = disp
  /\ cnt \in {c \in Cnts : c.tile = 0 /\ ~c.wide /\ ~c.bit13}
  /\ seenCnt = cnt
  /\ captured = FALSE
  /\ configDirty = TRUE
  /\ dataDirty = TRUE  \* PaletteDirty of a reset
  /\ config = NoConfig /\ texture = -1
  /\ watched = <<Nothing, Nothing>>
  /\ rendered = FALSE

\* The game writes DISPCNT or BGxCNT.
SetDispCnt(d) ==
  /\ disp' = d
  /\ UNCHANGED <<layer, engine, cnt, captured, seenDisp, seenCnt, configDirty, dataDirty, cached>>

SetBgCnt(c) ==
  /\ cnt' = c
  /\ UNCHANGED <<layer, engine, disp, captured, seenDisp, seenCnt, configDirty, dataDirty, cached>>

\* A display capture begins in the VRAM of the bitmap.
AllocCapture ==
  /\ captured' = TRUE
  /\ configDirty' = TRUE
  /\ UNCHANGED <<layer, engine, disp, cnt, seenDisp, seenCnt, dataDirty, cached>>

\* The CPU writes palettes or VRAM, perhaps where the capture was.
WriteData(insideCapture, isWatched) ==
  /\ captured' = (captured /\ ~insideCapture)
  /\ dataDirty' = (dataDirty \/ isWatched)
  /\ UNCHANGED <<layer, engine, disp, cnt, seenDisp, seenCnt, configDirty, cached>>

\* The wrapping is the compositor's business, not the picture's.
SamePicture(new) ==
  new.texture = texture /\ [new.config EXCEPT !.clamp = config.clamp] = config

\* PrerenderLayer: 3D layers and captures are not rendered in advance.
PrerenderLayer(new, dirty) ==
  rendered' = \/ dirty /\ new.config.type < 6
              \/ rendered /\ SamePicture(new)

\* A line is drawn: the registers are compared, copied and used.  One dirty layer has
\* the configuration of all derived again, but only its own picture rendered.
UpdateAndRender(otherDirty) ==
  LET byDisp == DispCntDirty(disp, seenDisp)
      dirty  == layer \in byDisp \/ BgCntDirty(layer, cnt, seenCnt) \/ dataDirty
      any    == dirty \/ byDisp # {} \/ otherDirty \/ configDirty
      old    == [config |-> config, texture |-> texture, watched |-> watched]
      new    == IF any THEN Derived(engine, disp, cnt, layer, captured, old) ELSE old
  IN /\ seenDisp' = disp /\ seenCnt' = cnt
     /\ config' = new.config /\ texture' = new.texture /\ watched' = new.watched
     /\ PrerenderLayer(new, dirty)
     /\ configDirty' = FALSE /\ dataDirty' = FALSE
     /\ UNCHANGED <<layer, engine, disp, cnt, captured>>

\* Bound: between two lines one register is written, or palettes or VRAM; besides,
\* captures begin.
Fresh == disp = seenDisp /\ cnt = seenCnt

Next ==
  \/ Fresh /\ ~dataDirty /\ \E d \in Disps : SetDispCnt(d)
  \/ Fresh /\ ~dataDirty /\ \E c \in Cnts : SetBgCnt(c)
  \/ AllocCapture
  \/ Fresh /\ \E inside, isWatched \in BOOLEAN : WriteData(inside, isWatched)
  \/ \E other \in BOOLEAN : UpdateAndRender(other)

Spec == Init /\ [][Next]_vars

-----------------------------------------------------------------------------
(* What the layer's shader reads (shaders/ds/layer_pre.frag)                *)

Area(size) == size[1] * size[2]

Units(bytes) == (bytes + 511) \div 512

Reads(f) ==
  CASE f.type \in {0, 1} ->
         {[start |-> f.tile, length |-> IF f.type = 0 THEN 64 ELSE 128],
          [start |-> f.map, length |-> Units(Area(f.size) \div 32)]}
    [] f.type = 2 -> {[start |-> f.tile, length |-> 32], [start |-> f.map, length |-> Units(Area(f.size) \div 64)]}
    [] f.type = 3 -> {[start |-> f.tile, length |-> 128], [start |-> f.map, length |-> Units(Area(f.size) \div 32)]}
    [] f.type = 4 -> {[start |-> f.map, length |-> Units(Area(f.size))]}
    [] f.type = 5 -> {[start |-> f.map, length |-> Units(2 * Area(f.size))]}
    [] OTHER -> {}

VramUnits == IF engine = 0 THEN 1024 ELSE 256

\* The dirty bits looked at for w include those of r; w may wrap around.  Length 0
\* (256 bytes) makes CheckRange shift by the width of the word, which on ARM and x86
\* leaves the mask whole: the rest of the word of 64 bits is looked at.
Covers(w, r) ==
  LET offset == (r.start - w.start) % VramUnits
      length == IF w.length = 0 THEN 64 - (w.start % 64) ELSE w.length
  IN w.start # -1 /\ (length >= VramUnits \/ offset + r.length <= length)

IsWatched(r) == \E i \in 1 .. 2 : Covers(watched[i], r)

UpToDate == Fresh /\ ~configDirty /\ ~dataDirty /\ LayerType(disp.mode, layer) # 0

-----------------------------------------------------------------------------
(* Properties                                                               *)

\* "for each layer, check if the VRAM and palettes involved are dirty"
\* (GPU2D_Vulkan.cpp:297): what a layer's shader reads is watched, but for the ranges
\* that are noted too short or in the wrong place: direct colour bitmaps and the
\* small sizes of the large layer.
ReadsAreWatched ==
  UpToDate /\ config.type # 5 /\ ~(disp.mode = 6 /\ cnt.size \in {2, 3})
    => \A r \in Reads(config) : IsWatched(r)

\* Whatever changed since it was derived, the configuration is the one the
\* registers ask for; only for BG2 and BG3 may the wrapping be an old one, and a
\* capture may have been written over where nobody watches.
ConfigIsCurrent ==
  UpToDate /\ (config.type \in {7, 8} => captured) =>
    LET new == Derived(engine, disp, cnt, layer, captured, [config |-> config, texture |-> texture, watched |-> watched])
    IN /\ watched = new.watched
       /\ config = IF layer \in {2, 3} THEN [new.config EXCEPT !.clamp = config.clamp] ELSE new.config

\* What the texture of BG2 or BG3 shows was rendered with that configuration.  (BG0
\* and BG1 may keep an older picture when BG mode 6, where they are off, is left:
\* the mode is a reason to render BG2 and BG3 only.  A direct colour bitmap may, too,
\* where a capture was written over in its second half, which is not watched.)
PictureIsCurrent ==
  UpToDate /\ layer \in {2, 3} /\ config.type < 5 => rendered
=============================================================================
