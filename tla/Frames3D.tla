------------------------------ MODULE Frames3D ------------------------------
(***************************************************************************)
(* When the 3D renderer draws (vk/GPU3D_Vulkan.cpp, VulkanCompute3D): a frame     *)
(* that cannot differ from the one before is left out, and the clear bitmap is       *)
(* uploaded when it is used.  GPU3D, which says whether a frame is identical, and      *)
(* the texture cache, which says what changed in texture memory, are melonDS's,          *)
(* external.  One number stands for the polygons, one for all that is in textures.         *)
(***************************************************************************)
EXTENDS Naturals

Halves == {"colour", "depth"}   \* of the clear bitmap

VARIABLES
  scene,      \* RenderPolygonRAM, RenderDispCnt bit 14: the clear bitmap is used
  identical,  \* RenderFrameIdentical
  due,        \* VBlank has latched the above: RenderFrame comes next
  bitmap,     \* the clear bitmap in VRAM
  dirty,      \* what VRAMDirty_Texture has marked since the last Update
  clearDirty, \* ClearBitmapDirty
  uploaded,   \* ClearBitmapTex
  scale,
  shown       \* Framebuffer: what it was drawn from

vars == <<scene, identical, due, bitmap, dirty, clearDirty, uploaded, scale, shown>>

Nothing == [scene |-> [polygons |-> 0, bitmap |-> FALSE], bitmap |-> [h \in Halves |-> 0], cleared |-> TRUE]

\* Reset.
Init ==
  /\ scene = [polygons |-> 0, bitmap |-> FALSE]
  /\ identical = FALSE /\ due = FALSE
  /\ bitmap = [h \in Halves |-> 1]
  /\ dirty = Halves /\ clearDirty = Halves
  /\ uploaded = [h \in Halves |-> 0]
  /\ scale = 1
  /\ shown = Nothing

WriteBitmap(h) ==
  /\ bitmap' = [bitmap EXCEPT ![h] = 3 - @]
  /\ dirty' = dirty \cup {h}
  /\ UNCHANGED <<scene, identical, due, clearDirty, uploaded, scale, shown>>

\* The game has swapped its polygon lists, or not, and set DISP3DCNT.
VBlank(swapped, useBitmap) ==
  /\ ~due /\ due' = TRUE
  /\ scene' = [polygons |-> IF swapped THEN 1 - scene.polygons ELSE scene.polygons, bitmap |-> useBitmap]
  /\ identical' = (~swapped /\ useBitmap = scene.bitmap)
  /\ UNCHANGED <<bitmap, dirty, clearDirty, uploaded, scale, shown>>

\* Nothing changed in texture memory, and nothing else: the picture stays.
SkipFrame ==
  /\ due /\ dirty = {} /\ identical
  /\ due' = FALSE
  /\ UNCHANGED <<scene, identical, bitmap, dirty, clearDirty, uploaded, scale, shown>>

\* Slip: what changed while the bitmap was not used is forgotten.
UploadedAtOnce(changed) == [tex |-> [h \in Halves |-> IF scene.bitmap /\ h \in changed THEN bitmap[h] ELSE uploaded[h]], dirty |-> {}]

\* What Update reports is kept until the bitmap is used.
Uploaded(changed) ==
  IF scene.bitmap
  THEN [tex |-> [h \in Halves |-> IF h \in changed THEN bitmap[h] ELSE uploaded[h]], dirty |-> {}]
  ELSE [tex |-> uploaded, dirty |-> changed]

RenderFrame ==
  /\ due /\ (dirty # {} \/ ~identical)
  /\ due' = FALSE
  /\ dirty' = {}
  /\ LET u == Uploaded(clearDirty \cup dirty)
     IN /\ uploaded' = u.tex
        /\ clearDirty' = u.dirty
        /\ shown' = [scene |-> scene, bitmap |-> u.tex, cleared |-> FALSE]
  /\ UNCHANGED <<scene, identical, bitmap, scale>>

\* SetRenderSettings: with another scale the picture begins anew, and it is cleared
\* until a frame is drawn.
SetRenderSettings(s) ==
  /\ s # scale
  /\ scale' = s
  /\ shown' = Nothing
  /\ UNCHANGED <<scene, identical, due, bitmap, dirty, clearDirty, uploaded>>

\* Bound: two scales stand for all.
Next ==
  \/ \E h \in Halves : WriteBitmap(h)
  \/ \E swapped, useBitmap \in BOOLEAN : VBlank(swapped, useBitmap)
  \/ SkipFrame \/ RenderFrame
  \/ \E s \in 1 .. 2 : SetRenderSettings(s)

Spec == Init /\ [][Next]_vars

-----------------------------------------------------------------------------
(* Properties                                                               *)

\* Unless the scale was set and no frame was drawn since, the picture is that of the
\* scene as latched, over the clear bitmap as it was when the last frame was due: also if
\* that changed while it was not used, and if the frame was left out.
FrameStepIsCurrent ==
  due /\ ~due' /\ ~shown'.cleared =>
    shown'.scene = scene /\ (scene.bitmap => shown'.bitmap = bitmap)
=============================================================================
