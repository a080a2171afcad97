------------------------------ MODULE Variants ------------------------------
(***************************************************************************)
(* The polygons of a 3D frame (vk/GPU3D_Vulkan.cpp, VulkanCompute3D::RenderFrame)   *)
(* that are drawn with the same texture array, or capture, the same sampler and      *)
(* blending share a variant.  The texture cache, which keeps the variant a texture     *)
(* had last, is melonDS's, external.                                                     *)
(***************************************************************************)
EXTENDS Naturals, Sequences

CONSTANTS
  Textures,     \* TexParam and TexPalette, as [kind, entry, array, layer, offset, width, height, wrap]
  NoTexture,    \* a TexParam without a texture
  Blends,       \* Attr bits 4-5; 4: shadow masks
  MaxPolygons   \* bound: of a frame

\* The entry is that of the cache, or the block that was captured.  Textures of one size are
\* in arrays of their own (TexArrays of the cache), captures of one width in one.
TexturesAssumption ==
  \A t, u \in Textures :
    /\ t.kind = u.kind /\ t.entry = u.entry => t.array = u.array /\ t.layer = u.layer
    /\ t.array = u.array => t.kind = u.kind /\ t.width = u.width
    /\ t.array = u.array /\ t.kind # "capture" => t.height = u.height
    /\ t.array # "none"

VARIABLES
  ram,      \* RenderPolygonRAM, as far as the loop over it has come
  maps,     \* RenderDispCnt bit 0: textures are on
  last,     \* LastVariant of each texture in the cache; of captures, in this frame
  variants, \* of this frame
  drawn     \* the variant and the layer of each polygon of ram

vars == <<ram, maps, last, variants, drawn>>

PolygonAttrs == [texture : Textures \cup {NoTexture}, blend : Blends]

Init ==
  /\ ram = <<>> /\ maps = FALSE
  /\ last = [t \in Textures |-> 1]
  /\ variants = <<>> /\ drawn = <<>>

-----------------------------------------------------------------------------

\* CaptureYOffset of what is not a capture.
NoOffset == 0 - 1

IsCapture(t) == t.kind = "capture"

Textured(p, on) == on /\ p.texture # NoTexture

\* What a polygon is drawn with.
Variant(p, on) ==
  LET t == p.texture IN
  IF Textured(p, on)
  THEN [array |-> t.array, wrap |-> t.wrap, blend |-> p.blend, offset |-> t.offset, width |-> t.width, height |-> t.height]
  ELSE [array |-> "none", wrap |-> "none", blend |-> p.blend, offset |-> NoOffset, width |-> t.width, height |-> t.height]

\* operator==: the size is not compared.
Equal(v, w) == v.array = w.array /\ v.wrap = w.wrap /\ v.blend = w.blend /\ v.offset = w.offset

\* The previous polygon's variant and layer are right for this one.
SameAsBefore(p, q) == p.texture = q.texture /\ p.blend = q.blend

Known(v)   == \E i \in DOMAIN variants : Equal(variants[i], v)
IndexOf(v) == CHOOSE i \in DOMAIN variants : Equal(variants[i], v)

\* Slip: the variant the texture had in the frame before is taken as it is.
FindUnchecked(v, hint) ==
  IF hint \in DOMAIN variants THEN hint ELSE IF Known(v) THEN IndexOf(v) ELSE Len(variants) + 1

\* The variant the texture had last, if it is still that one; else whichever there is, else
\* a new one.
Find(v, hint) ==
  IF hint \in DOMAIN variants /\ Equal(variants[hint], v) THEN hint
  ELSE IF Known(v) THEN IndexOf(v) ELSE Len(variants) + 1

\* One entry of the cache, or captured block: the wrap bits are not part of its key.
SharesEntry(t, u) == t.kind = u.kind /\ t.entry = u.entry

\* A frame begins: textures that changed have left the cache, and LastVariant with
\* them; the hints of captures begin anew.
BeginFrame(on, changed) ==
  /\ last' = [t \in Textures |-> IF IsCapture(t) \/ \E u \in changed : SharesEntry(t, u) THEN 1 ELSE last[t]]
  /\ maps' = on
  /\ ram' = <<>> /\ variants' = <<>> /\ drawn' = <<>>

\* One turn of the loop.
NextPolygon(p) ==
  LET n == Len(ram)
      reused == n > 0 /\ SameAsBefore(ram[n], p)
      found  == ~reused /\ Textured(p, maps)
      v == Variant(p, maps)
      i == IF reused THEN drawn[n].variant ELSE Find(v, IF found THEN last[p.texture] ELSE 0)
  IN /\ n < MaxPolygons
     /\ ram' = Append(ram, p)
     /\ variants' = IF i > Len(variants) THEN Append(variants, v) ELSE variants
     /\ drawn' = Append(drawn, [variant |-> i,
                                layer |-> IF found THEN p.texture.layer ELSE IF n = 0 THEN 0 ELSE drawn[n].layer])
     /\ last' = [t \in Textures |-> IF found /\ SharesEntry(t, p.texture) THEN i ELSE last[t]]
     /\ UNCHANGED maps

Next ==
  \/ \E on \in BOOLEAN, changed \in {{}} \cup {{t} : t \in Textures} : BeginFrame(on, changed)
  \/ \E p \in PolygonAttrs : NextPolygon(p)

Spec == Init /\ [][Next]_vars

-----------------------------------------------------------------------------

\* A capture of another height was drawn with the same variant before: it keeps that
\* one's size.
HeightIsTaken(n) ==
  \E m \in 1 .. n - 1 :
    /\ IsCapture(ram[n].texture) /\ Equal(Variant(ram[m], maps), Variant(ram[n], maps))
    /\ ram[m].texture.height # ram[n].texture.height

\* Every polygon of a frame is drawn with its own texture, layer, wrapping, blending and
\* size: a variant taken over from the polygon or from the frame before is still
\* the right one ("if the whole texture attribute matches the texture layer will also
\* match", GPU3D_Vulkan.cpp:751).  Only the height of a capture may be another's.
VariantIsOwn ==
  \A n \in DOMAIN ram :
    LET used == variants[drawn[n].variant]  own == Variant(ram[n], maps)  t == ram[n].texture IN
    /\ drawn[n].variant \in DOMAIN variants
    /\ Equal(used, own)
    /\ Textured(ram[n], maps) => /\ drawn[n].layer = t.layer
                                 /\ used.width = t.width
                                 /\ used.height = t.height \/ HeightIsTaken(n)
=============================================================================
