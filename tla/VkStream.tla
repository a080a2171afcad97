------------------------------ MODULE VkStream ------------------------------
(***************************************************************************)
(* The Vulkan renderer's stream of GPU work (vk/VkStream.cpp): commands are  *)
(* recorded into one of kSlots frame slots and submitted; a slot is used       *)
(* again once the fence of its last submission has signalled.  A slot has a     *)
(* ring buffer for uploads, a descriptor pool, and a list of images to free       *)
(* when it comes round again.                                                       *)
(*                                                                                   *)
(* The GPU is external: it works through what was submitted to the queue in            *)
(* order, and a fence signals when everything up to its submission is done, so           *)
(* that waiting for one takes the earlier work off the queue.  The presenter's own          *)
(* submissions are not part of this module.  An image is numbered by its                      *)
(* creation; a texture is a handle that stands for one image at a time.                        *)
(***************************************************************************)
EXTENDS Integers, Sequences, FiniteSets

CONSTANTS
  Slots,      \* kSlots
  RingSize,   \* kRingSize
  UniformAlign, \* uboAlign in Draw
  VertexAlign,  \* 16, the alignment of everything else
  PoolSets,   \* descriptor sets in a slot's pool
  Textures,   \* handles
  Uploads,    \* sizes of uploads
  Draws,      \* draws: sizes of their uniform blocks and of their vertices
  ReadsBack,  \* TRUE when textures are read back
  MaxImages   \* bound: images created

ASSUME StreamAssumption ==
  /\ Slots \in Nat \ {0}
  /\ RingSize \in Nat
  /\ VertexAlign \in Nat \ {0}
  /\ UniformAlign \in Nat \ {0}
  /\ PoolSets \in Nat \ {0}
  /\ Uploads \subseteq 0 .. RingSize
  /\ \A d \in Draws : d.uniforms \in Seq(Nat) /\ d.vertices \in Nat
  /\ ReadsBack \in BOOLEAN
  /\ MaxImages \in Nat

Images == 1 .. MaxImages
NoImage == 0

VARIABLES
  stream,   \* slot, current, queue, recorded, freed: see Init
  image,    \* the image each texture stands for
  created,  \* how many images have been created
  destroying, \* DestroyTexture is between the two halves of its work
  drawn     \* where the last draw put its parts: the slots of its descriptor
            \* set, its uniforms and vertices, and its commands

vars == <<stream, image, created, destroying, drawn>>

\* A slot that waits for work, one whose commands are being recorded, and one that
\* is submitted; with the images to free when it comes round.
FreshSlot == [recording |-> FALSE, submitted |-> FALSE, frees |-> {}]
RecordingSlot == [recording |-> TRUE, submitted |-> FALSE, frees |-> {}]
SubmittedSlot(frees) == [recording |-> FALSE, submitted |-> TRUE, frees |-> frees]

Init ==
  /\ stream = [slot     |-> [k \in 0 .. Slots - 1 |-> FreshSlot],
               current  |-> 0,
               ring     |-> 0,      \* ringUsed of the slot being recorded
               sets     |-> 0,      \* descriptor sets taken from its pool
               queue    |-> << >>,  \* submitted and not finished: slot, images used
               recorded |-> {},     \* images used by the commands being recorded
               freed    |-> {},     \* images destroyed for good
               atOnce   |-> {}]     \* history: those DestroyTexture did not defer
  /\ image = [t \in Textures |-> NoImage]
  /\ created = 0
  /\ destroying = FALSE
  /\ drawn = {}

-----------------------------------------------------------------------------
(* Frame slots: operators from one state of the stream to the next           *)

Current(s) == s.slot[s.current]

\* What is left of the queue when the fences of these slots have signalled.
AfterFences(queue, slots) ==
  LET done == {i \in 1 .. Len(queue) : queue[i].slot \in slots}
  IN IF done = {} THEN queue
     ELSE SubSeq(queue, (CHOOSE i \in done : \A j \in done : j <= i) + 1, Len(queue))

\* Slip: the fence is not waited for.
BeginSlotNoWait(s) ==
  IF Current(s).recording THEN s
  ELSE [s EXCEPT !.slot[s.current] = RecordingSlot,
                 !.recorded = {}, !.ring = 0, !.sets = 0,
                 !.freed = @ \cup Current(s).frees]

\* Slip: the deferred frees are forgotten.
BeginSlotNoFrees(s) ==
  IF Current(s).recording THEN s
  ELSE [s EXCEPT !.queue = IF Current(s).submitted THEN AfterFences(@, {s.current}) ELSE @,
                 !.slot[s.current] = RecordingSlot,
                 !.recorded = {}, !.ring = 0, !.sets = 0]

BeginSlot(s) ==
  IF Current(s).recording THEN s
  ELSE [s EXCEPT !.queue = IF Current(s).submitted THEN AfterFences(@, {s.current}) ELSE @,
                 !.slot[s.current] = RecordingSlot,
                 !.recorded = {}, !.ring = 0, !.sets = 0,
                 !.freed = @ \cup Current(s).frees]

NextSlot(s) == (s.current + 1) % Slots

\* Flush(false).
Submit(s) ==
  IF ~Current(s).recording THEN s
  ELSE [s EXCEPT !.queue = Append(@, [slot |-> s.current, images |-> s.recorded]),
                 !.slot[s.current] = SubmittedSlot(@.frees),
                 !.recorded = {},
                 !.current = NextSlot(s)]

\* Flush(true): the fence of the last submission, so everything is done.  A
\* slot that was not recording waits for the device and frees nothing.
SubmitAndWait(s) ==
  IF ~Current(s).recording THEN [s EXCEPT !.queue = << >>]
  ELSE [s EXCEPT !.queue = << >>,
                 !.slot[s.current] = FreshSlot,
                 !.freed = @ \cup Current(s).frees,
                 !.recorded = {},
                 !.current = NextSlot(s)]

RestartSlot(s) == BeginSlot(Submit(s))

AlignUp(n, a) == ((n + a - 1) \div a) * a

EnsureSpace(s, n) ==
  LET b == BeginSlot(s)
  IN IF b.ring + n > RingSize THEN RestartSlot(b) ELSE b

Allocate(s, n, a) ==
  LET b == BeginSlot(s)
      offset == AlignUp(b.ring, a)
      r == IF offset + n > RingSize THEN RestartSlot(b) ELSE b
  IN [r EXCEPT !.ring = IF offset + n > RingSize THEN n ELSE offset + n]

AllocateSet(s) ==
  LET b == BeginSlot(s)
      r == IF b.sets = PoolSets THEN RestartSlot(b) ELSE b
  IN [r EXCEPT !.sets = @ + 1]

\* A command that uses image i.
Record(s, i) == [BeginSlot(s) EXCEPT !.recorded = @ \cup {i}]

-----------------------------------------------------------------------------
(* What the renderer does with the stream                                    *)

Live(t) == image[t] # NoImage

UploadTexture(t) ==
  /\ ~destroying
  /\ Live(t)
  /\ \E n \in Uploads : stream' = Record(Allocate(stream, n, VertexAlign), image[t])
  /\ UNCHANGED <<image, created, destroying, drawn>>

\* The ring space Draw reserves: every block rounded up, and its alignment.
UniformSpace(sizes) ==
  LET upTo[i \in 0 .. Len(sizes)] ==
        IF i = 0 THEN 0 ELSE upTo[i - 1] + AlignUp(sizes[i], UniformAlign) + UniformAlign
  IN upTo[Len(sizes)]

Needed(d) == AlignUp(d.vertices, VertexAlign) + VertexAlign + UniformSpace(d.uniforms)

ASSUME DrawAssumption == \A d \in Draws : Needed(d) <= RingSize

\* One more block in the ring; and where it went.
Put(run, size, align) ==
  LET s == Allocate(run.s, size, align)
  IN [s |-> s, slots |-> run.slots \cup {s.current}]

PutUniforms(run, sizes) ==
  LET after[i \in 0 .. Len(sizes)] ==
        IF i = 0 THEN run ELSE Put(after[i - 1], sizes[i], UniformAlign)
  IN after[Len(sizes)]

\* Draw into texture t, sampling texture u: space first, then the descriptor
\* set, the uniform blocks, and the vertices.
Draw(t, u, d) ==
  /\ ~destroying
  /\ Live(t) /\ Live(u)
  /\ LET s0 == EnsureSpace(Record(Record(stream, image[t]), image[u]), Needed(d))
         s1 == AllocateSet(s0)
         uniforms == PutUniforms([s |-> s1, slots |-> {s1.current}], d.uniforms)
         all == Put(uniforms, d.vertices, VertexAlign)
     IN /\ stream' = Record(Record(all.s, image[t]), image[u])
        /\ drawn' = all.slots
  /\ UNCHANGED <<image, created, destroying>>

\* The images no texture stands for any more and that are not freed yet.
Dying(s) == UNION {s.slot[k].frees : k \in 0 .. Slots - 1}

Idle(s) == ~Current(s).recording /\ ~Current(s).submitted

\* The texture cache drops a texture; the renderer's own ones stay.  The image
\* goes on the current slot's list, or at once if that slot is idle.
DestroyTexture(t) ==
  /\ ~destroying
  /\ Live(t)
  /\ \E u \in Textures \ {t} : Live(u)
  /\ stream' = IF Idle(stream)
               THEN [stream EXCEPT !.freed = @ \cup {image[t]}, !.atOnce = @ \cup {image[t]}]
               ELSE [stream EXCEPT !.slot[stream.current].frees = @ \cup {image[t]}]
  /\ image' = [image EXCEPT ![t] = NoImage]
  /\ destroying' = TRUE
  /\ UNCHANGED <<created, drawn>>

\* Slip: the other slots are not waited for.
WaitForNoSlots ==
  /\ destroying
  /\ destroying' = FALSE
  /\ UNCHANGED <<stream, image, created, drawn>>

\* DestroyTexture then waits for every other submitted slot.
WaitForOtherSlots ==
  /\ destroying
  /\ destroying' = FALSE
  /\ LET others == {k \in 0 .. Slots - 1 : k # stream.current /\ stream.slot[k].submitted}
     IN stream' = [stream EXCEPT !.queue = AfterFences(@, others)]
  /\ UNCHANGED <<image, created, drawn>>

\* CreateTexture destroys what the handle stood for first (DestroyTexture).
CreateTexture(t) ==
  /\ ~destroying
  /\ ~Live(t)
  /\ created < MaxImages
  /\ created' = created + 1
  /\ image' = [image EXCEPT ![t] = created + 1]
  /\ UNCHANGED <<stream, drawn, destroying>>

\* VulkanRenderer::GetFramebuffers: the frame's texture is made readable and the
\* work submitted.
EndFrame(t) ==
  /\ ~destroying
  /\ Live(t)
  /\ stream' = Submit(Record(stream, image[t]))
  /\ UNCHANGED <<image, created, destroying, drawn>>

ReadTexture(t) ==
  /\ ReadsBack /\ ~destroying
  /\ Live(t)
  /\ stream' = SubmitAndWait(Record(stream, image[t]))
  /\ UNCHANGED <<image, created, destroying, drawn>>

\* The GPU finishes the oldest submission.
GpuFinishes ==
  /\ stream.queue # << >>
  /\ stream' = [stream EXCEPT !.queue = Tail(@)]
  /\ UNCHANGED <<image, created, destroying, drawn>>

Next ==
  \/ \E t \in Textures : \/ CreateTexture(t) \/ DestroyTexture(t) \/ UploadTexture(t)
                         \/ EndFrame(t) \/ ReadTexture(t)
                         \/ \E u \in Textures \ {t}, d \in Draws : Draw(t, u, d)
  \/ WaitForOtherSlots
  \/ GpuFinishes

Spec == Init /\ [][Next]_vars

\* Frames are presented as long as a game runs.
FairSpec == Spec /\ WF_vars(\E t \in Textures : EndFrame(t)) /\ WF_vars(WaitForOtherSlots)

-----------------------------------------------------------------------------
(* Properties                                                               *)

Queued(k) == {i \in 1 .. Len(stream.queue) : stream.queue[i].slot = k}

\* A slot's command buffer, ring and descriptor pool are written again only when
\* the GPU is done with them (Stream::BeginSlot).
SlotReusedWhenDone ==
  \A k \in 0 .. Slots - 1 :
    /\ Cardinality(Queued(k)) <= 1
    /\ Queued(k) # {} => stream.slot[k].submitted

\* Images used by commands that are recorded or in flight.
InUse == stream.recorded \cup UNION {stream.queue[i].images : i \in 1 .. Len(stream.queue)}

\* No image whose destruction was deferred is destroyed while commands that use
\* it are recorded or in flight: the slot it waits on and the wait for the
\* others outlast its last use (Stream::DestroyTexture, Stream::BeginSlot).
DeferredFreeIsSafe == (stream.freed \ stream.atOnce) \cap InUse = {}

\* "Free once every slot that might use it has finished" (VkStream.cpp:307), said
\* of every image, those of an idle slot too.
NoUseAfterFree == stream.freed \cap InUse = {}

\* Every image ever created stands behind one texture, waits on one slot's list,
\* or is freed: none leaks and none is freed twice.
FreedOnce ==
  \A i \in 1 .. created :
    Cardinality({t \in Textures : image[t] = i})
      + Cardinality({k \in 0 .. Slots - 1 : i \in stream.slot[k].frees})
      + (IF i \in stream.freed THEN 1 ELSE 0) = 1

\* "Reserve this draw's upload space first, so nothing below can trigger a slot
\* change" (VkStream.cpp:585): a draw's descriptor set, uniforms and vertices are
\* in the slot whose commands use them.
DrawInOneSlot == Cardinality(drawn) <= 1

\* A slot's memory belongs to one draw and one submission at a time.
SlotsAreSound == SlotReusedWhenDone /\ DrawInOneSlot

\* No image is freed too early by a deferred free, never, or twice.
FreesAreSound == DeferredFreeIsSafe /\ FreedOnce

\* A destroyed image is not kept for ever while frames go on.
EventuallyFreed ==
  \A i \in Images : i \in Dying(stream) ~> i \in stream.freed
=============================================================================
