------------------------------ MODULE Passes3D ------------------------------
(***************************************************************************)
(* The commands of one 3D frame (vk/GPU3D_Vulkan.cpp, RenderFrame): uploads and  *)
(* compute shaders that hand their results to each other in buffers the GPU may      *)
(* read and write in any order, unless a barrier is in between.  Frames follow each    *)
(* other without a wait, and a buffer keeps what an earlier frame left in it.             *)
(* The shaders are those of shaders/ds3d, external.                                          *)
(***************************************************************************)
EXTENDS Naturals, Sequences

VARIABLES
  rest,      \* the commands of the frame that are still to be recorded
  fresh,     \* the buffers this frame has written
  unordered, \* accesses since the last barrier: the buffers read and those written
  hidden,    \* buffers written whose contents indirect dispatches cannot see yet
  wrong      \* history: an access that was not ordered, or found an old frame's data

vars == <<rest, fresh, unordered, hidden, wrong>>

-----------------------------------------------------------------------------
(* The shaders                                                              *)

Shader(reads, writes, count) == [kind |-> "dispatch", reads |-> reads \cup {"meta"}, writes |-> writes, count |-> count]

ClearCoarseBinMask     == Shader({}, {"coarse"}, {})
ClearIndirectWorkCount == Shader({}, {"counts"}, {})
InterpXSpans           == Shader({"ySpans", "indices", "polygons"}, {"xSpans"}, {})
BinCombined            == Shader({"polygons", "coarse", "counts"}, {"coarse", "masks", "offsets", "counts", "work"}, {})
CalculateWorkListOffset == Shader({"counts"}, {"counts", "sorting", "starts"}, {})
SortWork               == Shader({"counts", "starts", "work", "polygons"}, {"sorted"}, {"sorting"})
\* Of all variants: each has tiles of its own.
Rasterise              == Shader({"starts", "sorted", "polygons", "xSpans"}, {"tiles"}, {"counts"})
FinalPass              == Shader({"result"}, {"framebuffer"}, {})

\* Where no polygon is, the coarse mask is zero and nothing else is looked at.
DepthBlend(spans) ==
  Shader({"coarse"} \cup IF spans THEN {"masks", "offsets", "polygons", "tiles"} ELSE {}, {"result"}, {})

Upload(b)      == [kind |-> "upload", buffer |-> b]
ComputeBarrier == [kind |-> "barrier"]

\* Slip: the work is sorted as soon as its lists have their offsets.
SortUnordered == <<CalculateWorkListOffset, SortWork, ComputeBarrier>>

SortLists == <<CalculateWorkListOffset, ComputeBarrier, SortWork, ComputeBarrier>>

\* RenderFrame from its uploads on, with polygons (spans) or without.
Commands(spans) ==
  (IF spans THEN <<Upload("ySpans"), Upload("indices"), Upload("polygons")>> ELSE <<>>)
    \o <<Upload("meta"), ClearCoarseBinMask>>
    \o (IF spans THEN <<ClearIndirectWorkCount, InterpXSpans, ComputeBarrier, BinCombined, ComputeBarrier>>
                      \o SortLists \o <<Rasterise>>
        ELSE <<>>)
    \o <<ComputeBarrier, DepthBlend(spans), ComputeBarrier, FinalPass>>

-----------------------------------------------------------------------------

None == [read |-> {}, written |-> {}]

Init ==
  /\ rest = <<>> /\ fresh = {}
  /\ unordered = None /\ hidden = {}
  /\ wrong = FALSE

\* The frame before is recorded, and perhaps executed.
RenderFrame(spans) ==
  /\ rest = <<>>
  /\ rest' = Commands(spans)
  /\ fresh' = {}
  /\ UNCHANGED <<unordered, hidden, wrong>>

\* With another scale all buffers are made anew, when the GPU has finished.
SetRenderSettings ==
  /\ rest = <<>>
  /\ fresh' = {} /\ unordered' = None /\ hidden' = {}
  /\ UNCHANGED <<rest, wrong>>

\* What the shader accesses must not be under way, and what it reads must be of
\* this frame.
Conflicts(c) ==
  \/ (c.reads \cup c.writes \cup c.count) \cap unordered.written # {}
  \/ c.writes \cap unordered.read # {}
  \/ c.count \cap hidden # {}
  \/ ~(c.reads \cup c.count \subseteq fresh)

Dispatch(c) ==
  /\ c.kind = "dispatch"
  /\ wrong' = (wrong \/ Conflicts(c))
  /\ fresh' = fresh \cup c.writes
  /\ unordered' = [read |-> unordered.read \cup c.reads \cup c.count, written |-> unordered.written \cup c.writes]
  /\ hidden' = hidden \cup c.writes

\* glMemoryBarrier(GL_SHADER_STORAGE_BARRIER_BIT | GL_COMMAND_BARRIER_BIT).
Barrier(c) ==
  /\ c.kind = "barrier"
  /\ unordered' = None /\ hidden' = {}
  /\ UNCHANGED <<fresh, wrong>>

\* UploadBuffer: the copy waits for the shaders before it, and those after it for
\* the copy.
UploadBuffer(c) ==
  /\ c.kind = "upload"
  /\ unordered' = None
  /\ fresh' = fresh \cup {c.buffer}
  /\ UNCHANGED <<hidden, wrong>>

Record ==
  /\ rest # <<>>
  /\ Dispatch(Head(rest)) \/ Barrier(Head(rest)) \/ UploadBuffer(Head(rest))
  /\ rest' = Tail(rest)

Next == (\E spans \in BOOLEAN : RenderFrame(spans)) \/ SetRenderSettings \/ Record

Spec == Init /\ [][Next]_vars

-----------------------------------------------------------------------------

\* Every shader finds what the shaders and uploads of its own frame wrote, finished:
\* with and without polygons, and whatever the frame before left unfinished.
PassesInOrder == ~wrong
=============================================================================
