------------------------- MODULE PresentationProofs -------------------------
(***************************************************************************)
(* Proofs about Presentation, for every set of windows and number of frame   *)
(* slots.                                                                    *)
(***************************************************************************)
EXTENDS Presentation, WellFoundedInduction, TLAPS

-----------------------------------------------------------------------------
(* The inductive invariant                                                  *)

SlotIds == 0 .. Slots - 1

\* The views that slot k may be bound to.
Handles(k) == {NoView, OwnTexture(k), External(k)} \cup DsHandles

FrameSlots(k) ==
  [fence : {"signaled", "pending", "reset"}, bound : Handles(k), target : Handles(k) \cup {Gone},
   external : BOOLEAN, reads : Handles(k)]

\* A slot samples something only while its submission is under way.
SlotsTyped(slots) ==
  /\ DOMAIN slots = SlotIds
  /\ slots = [k \in SlotIds |-> slots[k]]
  /\ \A k \in SlotIds : slots[k] \in FrameSlots(k)
  /\ \A k \in SlotIds : slots[k].reads # NoView => slots[k].fence = "pending"

\* A descriptor stands for the view it is remembered with, and the submission
\* under way samples that one.
Linked(slots) ==
  \A k \in SlotIds : /\ slots[k].bound # NoView => slots[k].target = slots[k].bound
                     /\ slots[k].reads # NoView => slots[k].target = slots[k].reads

Quiet(slots) == \A k \in SlotIds : slots[k].reads = NoView
Unbound(slots) == \A k \in SlotIds : slots[k].bound = NoView

Contextual == [context : BOOLEAN, ready : BOOLEAN, failed : BOOLEAN]

\* The handles a presenter remembers are those of the game that runs: they are
\* forgotten when the output leaves Vulkan and when a game goes.
OutputInv ==
  /\ SlotsTyped(slot)
  /\ rescaled \/ Linked(slot)
  /\ vulkanOutput \/ (Quiet(slot) /\ Unbound(slot))
  /\ vulkanOutput => WantsVulkanOutput(core) /\ vulkan.ready
  /\ vulkanOutput \in BOOLEAN /\ rescaled \in BOOLEAN
  /\ vulkan \in Contextual
  /\ frameIndex \in SlotIds
  /\ views \in [Textures -> DsHandles \cup {NoView}] /\ front \in Textures
  /\ image \in {"none", "image", "soft"}
  /\ OneOwner

-----------------------------------------------------------------------------
(* Handles                                                                  *)

\* A set of natural numbers has a least one: the numbers are well-ordered.
LEMMA LeastOfSet ==
  ASSUME NEW T \in SUBSET Nat, T # {}
  PROVE  \E m \in T : \A k \in T : m <= k
<1>. DEFINE R == OpToRel(<, Nat)
<1>1. IsWellFoundedOn(R, Nat)
  BY NatLessThanWellFounded
<1>2. \A i, j \in Nat : i < j => <<i, j>> \in R
  BY DEF OpToRel
<1>. HIDE DEF R
<1>3. PICK m \in T : \A k \in T : ~ (<<k, m>> \in R)
  BY <1>1, WFMin, Zenon
<1>4. m \in Nat /\ \A k \in T : k \in Nat /\ ~ (<<k, m>> \in R)
  BY <1>3
<1>5. \A k \in T : m <= k
  <2>1. SUFFICES ASSUME NEW k \in T, k < m PROVE FALSE
    BY <1>4
  <2>2. <<k, m>> \in R
    BY <1>2, <1>4, <2>1, Zenon
  <2>. QED
    BY <1>4, <2>2, Zenon
<1>. QED
  BY <1>3, <1>5

LEMMA HandleFacts ==
  ASSUME NEW k \in SlotIds
  PROVE  /\ NoView \in Handles(k) /\ Gone \notin Handles(k) /\ NoView # Gone
         /\ OwnTexture(k) \in Handles(k) /\ External(k) \in Handles(k)
         /\ OwnTexture(k) \notin DsHandles /\ External(k) \notin DsHandles
         /\ OwnTexture(k) # NoView /\ External(k) # NoView
         /\ DsHandles \subseteq Handles(k) /\ NoView \notin DsHandles
         /\ \A j \in SlotIds \ {k} : External(k) \notin Handles(j) /\ OwnTexture(k) \notin Handles(j)
  BY PresenterAssumption DEF Handles, OwnTexture, External, NoView, Gone, DsHandles, SlotIds

\* Four handles are enough for two textures and their successors.
LEMMA FreshIs ==
  ASSUME NEW a, NEW b, NEW c
  PROVE  Fresh({a, b, c}) \in DsHandles /\ Fresh({a, b, c}) \notin {a, b, c}
<1>. DEFINE live == {a, b, c}
            T == DsHandles \ live
<1>1. T \in SUBSET Nat /\ T # {}
  <2>. DEFINE n == 2 * Slots
  <2>1. n \in Nat
    BY PresenterAssumption
  <2>2. DsHandles = n + 1 .. n + 4
    BY DEF DsHandles
  <2>. HIDE DEF n
  <2>3. {n + 1, n + 2, n + 3, n + 4} \subseteq DsHandles
    BY <2>1, <2>2
  <2>4. n + 1 # n + 2 /\ n + 1 # n + 3 /\ n + 1 # n + 4 /\ n + 2 # n + 3 /\ n + 2 # n + 4 /\ n + 3 # n + 4
    BY <2>1
  <2>5. ASSUME NEW p, NEW q, NEW r, NEW s, p # q, p # r, p # s, q # r, q # s, r # s, {p, q, r, s} \subseteq live
        PROVE  FALSE
    BY <2>5
  <2>6. ~ ({n + 1, n + 2, n + 3, n + 4} \subseteq live)
    <3>. HIDE DEF live
    <3>. QED
      BY <2>4, <2>5
  <2>7. T # {}
    <3>. HIDE DEF live
    <3>. QED
      BY <2>3, <2>6, Zenon
  <2>8. T \in SUBSET Nat
    BY <2>1, <2>2
  <2>. QED
    BY <2>7, <2>8
<1>2. PICK m \in T : \A k \in T : m <= k
  BY <1>1, LeastOfSet
<1>3. DsHandles \subseteq Nat
  BY PresenterAssumption DEF DsHandles
<1>. HIDE DEF live
<1>4. m \in DsHandles /\ m \notin live /\ \A k \in DsHandles : k < m => k \in live
  <2>1. ASSUME NEW k \in DsHandles, k < m, k \notin live PROVE FALSE
    <3>1. k \in T /\ m \in T /\ k \in Nat /\ m \in Nat
      BY <1>1, <2>1
    <3>2. m <= k
      BY <1>2, <3>1
    <3>. QED
      BY <2>1, <3>1, <3>2
  <2>. QED
    BY <2>1
<1>5. Fresh(live) \in DsHandles /\ Fresh(live) \notin live
  BY <1>4 DEF Fresh
<1>. QED
  BY <1>5 DEF live

\* The output textures that a DS renderer makes get handles.
LEMMA NewViewsType ==
  ASSUME NEW a, NEW b
  PROVE  /\ NewViews({a, b}) \in [Textures -> DsHandles \cup {NoView}]
         /\ NewViews({}) \in [Textures -> DsHandles \cup {NoView}]
         /\ NoViews \in [Textures -> DsHandles \cup {NoView}]
<1>1. Fresh({a, b}) \in DsHandles
  <2>1. {a, b} = {a, b, b}
    OBVIOUS
  <2>. QED
    BY <2>1, FreshIs
<1>2. \A x : Fresh({a, b} \cup {x}) \in DsHandles
  <2>1. \A x : {a, b} \cup {x} = {a, b, x}
    OBVIOUS
  <2>. QED
    BY <2>1, FreshIs
<1>3. Fresh({}) \in DsHandles
  <2>1. 1 \in Nat
    OBVIOUS
  <2>. DEFINE T == DsHandles
  <2>2. T \in SUBSET Nat /\ T # {}
    <3>1. 2 * Slots + 1 \in T
      BY PresenterAssumption DEF DsHandles
    <3>. QED
      BY <3>1, PresenterAssumption DEF DsHandles
  <2>3. PICK m \in T : \A k \in T : m <= k
    BY <2>2, LeastOfSet
  <2>4. m \in DsHandles /\ m \notin {} /\ \A k \in DsHandles : k < m => k \in {}
    BY <2>2, <2>3
  <2>. QED
    BY <2>4 DEF Fresh
<1>4. \A x : Fresh({} \cup {x}) \in DsHandles
  <2>1. ASSUME NEW x PROVE Fresh({} \cup {x}) \in DsHandles
    <3>1. {} \cup {x} = {x, x, x}
      OBVIOUS
    <3>2. Fresh({x, x, x}) \in DsHandles
      BY FreshIs
    <3>. QED
      BY <3>1, <3>2, Zenon
  <2>. QED
    BY <2>1
<1>5. \A x, y \in DsHandles \cup {NoView} : Views(x, y) \in [Textures -> DsHandles \cup {NoView}]
  BY DEF Views
<1>. QED
  BY <1>1, <1>2, <1>3, <1>4, <1>5 DEF NewViews, NoViews

-----------------------------------------------------------------------------
(* What happens to the slots                                                *)

LEMMA IdleSlots ==
  ASSUME NEW slots, SlotsTyped(slots)
  PROVE  LET q == Idle(slots)
         IN /\ SlotsTyped(q) /\ Quiet(q)
            /\ Unbound(slots) => Unbound(q)
            /\ Linked(slots) => Linked(q)
<1>. DEFINE q == Idle(slots)
<1>1. \A k \in SlotIds : q[k] = IF slots[k].fence = "pending"
                               THEN [slots[k] EXCEPT !.fence = "signaled", !.reads = NoView] ELSE slots[k]
  BY DEF Idle, SlotsTyped
<1>2. DOMAIN q = SlotIds /\ q = [k \in SlotIds |-> q[k]]
  BY DEF Idle, SlotsTyped
<1>. HIDE DEF q
<1>3. ASSUME NEW k \in SlotIds
      PROVE  /\ q[k] \in FrameSlots(k) /\ q[k].reads = NoView
             /\ q[k].bound = slots[k].bound /\ q[k].target = slots[k].target
  <2>1. slots[k] \in FrameSlots(k) /\ (slots[k].reads # NoView => slots[k].fence = "pending")
    BY DEF SlotsTyped
  <2>2. NoView \in Handles(k)
    BY HandleFacts
  <2>3. CASE slots[k].fence = "pending"
    <3>1. q[k] = [slots[k] EXCEPT !.fence = "signaled", !.reads = NoView]
      BY <1>1, <2>3, Zenon
    <3>. QED
      BY <2>1, <2>2, <3>1 DEF FrameSlots
  <2>4. CASE slots[k].fence # "pending"
    BY <1>1, <2>1, <2>4
  <2>. QED
    BY <2>3, <2>4
<1>. QED
  BY <1>2, <1>3 DEF SlotsTyped, Quiet, Unbound, Linked, q

\* Destroyed views leave the slots bound to nothing and sampling nothing as they are.
LEMMA DestroyedSlots ==
  ASSUME NEW slots, SlotsTyped(slots), NEW dead
  PROVE  LET q == Destroyed(slots, dead)
         IN /\ SlotsTyped(q)
            /\ Quiet(slots) => Quiet(q)
            /\ Unbound(slots) => Unbound(q)
            /\ \A k \in SlotIds : /\ slots[k].target \notin dead \ {NoView} => q[k] = slots[k]
                                  /\ q[k].fence = slots[k].fence /\ q[k].reads = slots[k].reads
<1>. DEFINE q == Destroyed(slots, dead)
<1>1. \A k \in SlotIds : q[k] = IF slots[k].target \in dead \ {NoView}
                               THEN [slots[k] EXCEPT !.target = Gone] ELSE slots[k]
  BY DEF Destroyed, SlotsTyped
<1>2. DOMAIN q = SlotIds /\ q = [k \in SlotIds |-> q[k]]
  BY DEF Destroyed, SlotsTyped
<1>. HIDE DEF q
<1>3. ASSUME NEW k \in SlotIds
      PROVE  /\ q[k] \in FrameSlots(k) /\ q[k].reads = slots[k].reads /\ q[k].fence = slots[k].fence
             /\ q[k].bound = slots[k].bound
  <2>1. slots[k] \in FrameSlots(k)
    BY DEF SlotsTyped
  <2>. QED
    BY <1>1, <2>1 DEF FrameSlots
<1>4. SlotsTyped(q)
  BY <1>2, <1>3 DEF SlotsTyped
<1>. QED
  BY <1>1, <1>3, <1>4 DEF Quiet, Unbound, q

LEMMA DroppedSlots ==
  ASSUME NEW slots, SlotsTyped(slots)
  PROVE  LET q == DroppedFrames(slots)
         IN SlotsTyped(q) /\ Unbound(q) /\ (Quiet(slots) => Quiet(q))
<1>. DEFINE q == DroppedFrames(slots)
<1>1. \A k \in SlotIds : q[k] = [slots[k] EXCEPT !.bound = NoView,
                                   !.target = IF slots[k].reads = NoView THEN NoView ELSE slots[k].target]
  BY DEF DroppedFrames, SlotsTyped
<1>2. DOMAIN q = SlotIds /\ q = [k \in SlotIds |-> q[k]]
  BY DEF DroppedFrames, SlotsTyped
<1>. HIDE DEF q
<1>3. ASSUME NEW k \in SlotIds
      PROVE  /\ q[k] \in FrameSlots(k) /\ q[k].reads = slots[k].reads /\ q[k].fence = slots[k].fence
             /\ q[k].bound = NoView
  <2>1. slots[k] \in FrameSlots(k) /\ NoView \in Handles(k)
    BY HandleFacts DEF SlotsTyped
  <2>2. PICK t \in {NoView, slots[k].target} : q[k] = [slots[k] EXCEPT !.bound = NoView, !.target = t]
    BY <1>1
  <2>3. t \in Handles(k) \cup {Gone}
    BY <2>1, <2>2 DEF FrameSlots
  <2>. QED
    BY <2>1, <2>2, <2>3 DEF FrameSlots
<1>4. SlotsTyped(q)
  BY <1>2, <1>3 DEF SlotsTyped
<1>. QED
  BY <1>3, <1>4 DEF Quiet, Unbound, q

\* Slots that neither sample nor remember anything are linked.
LEMMA NothingLinked ==
  ASSUME NEW slots, Quiet(slots), Unbound(slots)
  PROVE  Linked(slots)
  BY DEF Quiet, Unbound, Linked

LEMMA ReleasedSlots ==
  ASSUME NEW slots, SlotsTyped(slots)
  PROVE  LET q == Released(slots)
         IN /\ SlotsTyped(q) /\ (Quiet(slots) => Quiet(q))
            /\ Unbound(slots) => Unbound(q)
            /\ Linked(slots) => Linked(q)
  BY IdleSlots DEF Released

-----------------------------------------------------------------------------
(* The output and its presenters                                            *)

\* A presenter that is ready stays so.
LEMMA ReadyStays ==
  ASSUME NEW v \in Contextual
  PROVE  /\ \A c \in Contexts(v) : c \in Contextual /\ c.ready = v.ready
         /\ \A p \in Presenters(v) : p \in Contextual /\ (v.ready => p.ready)
<1>1. \A c \in Contexts(v) : c \in Contextual /\ c.ready = v.ready
  BY DEF Contexts, Contextual
<1>2. ASSUME NEW p \in Presenters(v) PROVE p \in Contextual /\ (v.ready => p.ready)
  <2>1. CASE v.ready \/ v.failed
    BY <1>2, <2>1 DEF Presenters
  <2>2. CASE ~ (v.ready \/ v.failed)
    <3>1. PICK c \in Contexts(v) : p \in IF c.context THEN {[c EXCEPT !.ready = TRUE], [c EXCEPT !.failed = TRUE]} ELSE {c}
      BY <1>2, <2>2 DEF Presenters
    <3>2. c \in Contextual
      BY <1>1
    <3>3. p \in Contextual
      BY <3>1, <3>2 DEF Contextual
    <3>. QED
      BY <2>2, <3>3
  <2>. QED
    BY <2>1, <2>2
<1>. QED
  BY <1>1, <1>2

\* What is left of the slots when a core goes or comes: nothing sampled or remembered.
Forgotten(slots) == SlotsTyped(slots) /\ Quiet(slots) /\ Unbound(slots)

\* UpdateOutput, given slots that sample nothing and, unless the output leaves
\* Vulkan, remember nothing.
LEMMA OutputMoves ==
  ASSUME OutputInv, NEW kind, NEW v \in Contextual, NEW slots, NEW source,
         UpdateOutput(kind, v, slots, source),
         SlotsTyped(slots), Quiet(slots), Unbound(slots) \/ (vulkanOutput /\ ~ WantsVulkanOutput(kind))
  PROVE  /\ Forgotten(slot') /\ OneOwner' /\ frameIndex' = frameIndex
         /\ vulkan' \in Contextual /\ vulkanOutput' \in BOOLEAN
         /\ vulkanOutput' => WantsVulkanOutput(kind) /\ vulkan'.ready
<1>1. PICK p \in IF WantsVulkanOutput(kind) THEN Presenters(v) ELSE {v} :
        /\ vulkan' = p
        /\ vulkanOutput' = (WantsVulkanOutput(kind) /\ p.ready)
        /\ \/ /\ vulkanOutput' = vulkanOutput
              /\ slot' = slots /\ vkSource' = source
              /\ UNCHANGED <<glWindow, vkWindow, swapchain>>
           \/ /\ vulkanOutput' /\ ~vulkanOutput
              /\ GlLetsGo
              /\ VkGets(window)
              /\ slot' = Released(slots) /\ vkSource' = source
           \/ /\ ~vulkanOutput' /\ vulkanOutput
              /\ vkWindow' = NoWindow /\ swapchain' = "none"
              /\ GlGets(window)
              /\ slot' = DroppedFrames(Released(slots)) /\ vkSource' = DroppedSource(source)
  BY DEF UpdateOutput
<1>2. UNCHANGED <<window, frameIndex>>
  BY DEF UpdateOutput
<1>3. p \in Contextual
  BY <1>1, ReadyStays
<1>4. WantsVulkanOutput(kind) \in BOOLEAN /\ p.ready \in BOOLEAN
  BY <1>3 DEF WantsVulkanOutput, Contextual
<1>5. vulkanOutput' \in BOOLEAN /\ (vulkanOutput' => WantsVulkanOutput(kind) /\ vulkan'.ready)
  BY <1>1, <1>4
<1>6. vulkanOutput \in BOOLEAN /\ OneOwner
  BY DEF OutputInv
<1>7. SlotsTyped(Released(slots)) /\ Quiet(Released(slots)) /\ (Unbound(slots) => Unbound(Released(slots)))
  BY ReleasedSlots
<1>8. CASE vulkanOutput' = vulkanOutput /\ slot' = slots /\ UNCHANGED <<glWindow, vkWindow, swapchain>>
  <2>1. Unbound(slots)
    BY <1>5, <1>6, <1>8
  <2>2. OneOwner'
    BY <1>2, <1>6, <1>8 DEF OneOwner
  <2>. QED
    BY <1>1, <1>2, <1>3, <1>5, <1>8, <2>1, <2>2 DEF Forgotten
<1>9. CASE /\ vulkanOutput' /\ ~vulkanOutput /\ GlLetsGo /\ VkGets(window) /\ slot' = Released(slots)
  <2>1. Unbound(slots)
    BY <1>9
  <2>2. OneOwner'
    BY <1>2, <1>6, <1>9 DEF OneOwner, GlLetsGo, VkGets
  <2>. QED
    BY <1>1, <1>2, <1>3, <1>5, <1>7, <1>9, <2>1, <2>2 DEF Forgotten
<1>10. CASE /\ ~vulkanOutput' /\ vulkanOutput /\ vkWindow' = NoWindow /\ GlGets(window)
            /\ slot' = DroppedFrames(Released(slots))
  <2>1. Forgotten(slot')
    BY <1>7, <1>10, DroppedSlots DEF Forgotten
  <2>2. OneOwner'
    BY <1>2, <1>6, <1>10 DEF OneOwner, GlGets
  <2>. QED
    BY <1>1, <1>2, <1>3, <1>5, <2>1, <2>2
<1>. QED
  BY <1>1, <1>8, <1>9, <1>10

\* The slots when the renderer of a core goes, its frames dropped if Vulkan shows them.
LEMMA CoreGoes ==
  ASSUME OutputInv
  PROVE  /\ SlotsTyped(WithoutRenderer(slot)) /\ Quiet(WithoutRenderer(slot))
         /\ vulkanOutput \/ Unbound(WithoutRenderer(slot))
         /\ \A source : Forgotten(WithoutRenderer(Swapped(vulkan, slot, source).slots))
<1>1. /\ SlotsTyped(slot) /\ (vulkanOutput \/ (Quiet(slot) /\ Unbound(slot)))
      /\ vulkanOutput => WantsVulkanOutput(core) /\ vulkan.ready
  BY DEF OutputInv
<1>2. ASSUME NEW slots, SlotsTyped(slots), vulkanOutput \/ Quiet(slots)
      PROVE  LET q == WithoutRenderer(slots)
             IN SlotsTyped(q) /\ Quiet(q) /\ (Unbound(slots) => Unbound(q))
  <2>. DEFINE dead == {views[t] : t \in Textures}
  <2>1. CASE WantsVulkanOutput(core)
    <3>1. WithoutRenderer(slots) = Destroyed(Idle(slots), dead)
      BY <2>1 DEF WithoutRenderer
    <3>2. SlotsTyped(Idle(slots)) /\ Quiet(Idle(slots)) /\ (Unbound(slots) => Unbound(Idle(slots)))
      BY <1>2, IdleSlots
    <3>. HIDE DEF dead
    <3>. QED
      BY <3>1, <3>2, DestroyedSlots
  <2>2. CASE ~ WantsVulkanOutput(core)
    BY <1>1, <1>2, <2>2 DEF WithoutRenderer
  <2>. QED
    BY <2>1, <2>2
<1>3. ASSUME NEW source PROVE Forgotten(WithoutRenderer(Swapped(vulkan, slot, source).slots))
  <2>1. CASE vulkan.ready
    <3>1. Swapped(vulkan, slot, source).slots = DroppedFrames(slot)
      BY <2>1 DEF Swapped
    <3>2. SlotsTyped(DroppedFrames(slot)) /\ Unbound(DroppedFrames(slot)) /\ (Quiet(slot) => Quiet(DroppedFrames(slot)))
      BY <1>1, DroppedSlots
    <3>. QED
      BY <1>1, <1>2, <3>1, <3>2 DEF Forgotten
  <2>2. CASE ~ vulkan.ready
    <3>1. Swapped(vulkan, slot, source).slots = slot
      BY <2>2 DEF Swapped
    <3>. QED
      BY <1>1, <1>2, <2>2, <3>1 DEF Forgotten
  <2>. QED
    BY <2>1, <2>2
<1>. QED
  BY <1>1, <1>2, <1>3

\* After a core came or went the invariant holds again.
LEMMA CoreStep ==
  ASSUME OutputInv, Forgotten(slot'), OneOwner', frameIndex' = frameIndex,
         vulkan' \in Contextual, vulkanOutput' \in BOOLEAN,
         vulkanOutput' => WantsVulkanOutput(core') /\ vulkan'.ready,
         views' \in [Textures -> DsHandles \cup {NoView}], front' = front,
         image' \in {"none", "image", "soft"}, rescaled' \in BOOLEAN
  PROVE  OutputInv'
<1>1. SlotsTyped(slot') /\ Quiet(slot') /\ Unbound(slot') /\ Linked(slot')
  BY NothingLinked DEF Forgotten
<1>. QED
  BY <1>1 DEF OutputInv

LEMMA StopInv == ASSUME OutputInv, Stop PROVE OutputInv'
<1>. DEFINE swapped == Swapped(vulkan, slot, vkSource)
            slots == WithoutRenderer(swapped.slots)
<1>1. /\ core' = "none" /\ views' = NoViews /\ image' = "none" /\ rescaled' = FALSE /\ front' = front
      /\ UpdateOutput("none", vulkan, slots, swapped.source)
  BY DEF Stop
<1>2. Forgotten(slots) /\ vulkan \in Contextual
  BY CoreGoes DEF OutputInv
<1>. HIDE DEF slots, swapped
<1>3. /\ Forgotten(slot') /\ OneOwner' /\ frameIndex' = frameIndex
      /\ vulkan' \in Contextual /\ vulkanOutput' \in BOOLEAN
      /\ vulkanOutput' => WantsVulkanOutput("none") /\ vulkan'.ready
  BY <1>1, <1>2, OutputMoves DEF Forgotten
<1>4. views' \in [Textures -> DsHandles \cup {NoView}]
  BY <1>1, NewViewsType
<1>. QED
  BY <1>1, <1>3, <1>4, CoreStep

LEMMA LoadInv ==
  ASSUME OutputInv, NEW kind, NEW v \in Contextual, Load(kind, v)
  PROVE  OutputInv'
<1>. DEFINE swapped == Swapped(v, slot, vkSource)
<1>1. /\ core = "none" /\ core' = kind /\ UNCHANGED <<front, image, rescaled>>
      /\ views' = IF kind = "ds" THEN NewViews({}) ELSE NoViews
      /\ UpdateOutput(kind, v, swapped.slots, swapped.source)
  BY DEF Load
<1>2. ~ vulkanOutput /\ SlotsTyped(slot) /\ Quiet(slot) /\ Unbound(slot)
  BY <1>1 DEF OutputInv, WantsVulkanOutput
<1>3. Forgotten(swapped.slots)
  <2>1. swapped.slots = slot \/ swapped.slots = DroppedFrames(slot)
    BY DEF Swapped
  <2>. HIDE DEF swapped
  <2>. QED
    BY <1>2, <2>1, DroppedSlots DEF Forgotten
<1>. HIDE DEF swapped
<1>4. /\ Forgotten(slot') /\ OneOwner' /\ frameIndex' = frameIndex
      /\ vulkan' \in Contextual /\ vulkanOutput' \in BOOLEAN
      /\ vulkanOutput' => WantsVulkanOutput(kind) /\ vulkan'.ready
  BY <1>1, <1>3, OutputMoves DEF Forgotten
<1>5. views' \in [Textures -> DsHandles \cup {NoView}]
  BY <1>1, NewViewsType
<1>6. image' \in {"none", "image", "soft"} /\ rescaled' \in BOOLEAN /\ front' = front
  BY <1>1 DEF OutputInv
<1>. QED
  BY <1>1, <1>4, <1>5, <1>6, CoreStep

LEMMA ChangeInv ==
  ASSUME OutputInv, NEW kind \in {"soft", "gl", "ds"}, NEW v \in Contextual, ChangeRenderer(kind, v)
  PROVE  OutputInv'
<1>. DEFINE slots == WithoutRenderer(slot)
<1>1. /\ core \in {"soft", "gl", "ds"} /\ kind # core /\ core' = kind /\ UNCHANGED <<front, image, rescaled>>
      /\ views' = IF kind = "ds" THEN NewViews({}) ELSE NoViews
      /\ UpdateOutput(kind, v, slots, vkSource)
  BY DEF ChangeRenderer
<1>2. SlotsTyped(slots) /\ Quiet(slots) /\ (vulkanOutput \/ Unbound(slots))
  BY CoreGoes
<1>3. vulkanOutput => ~ WantsVulkanOutput(kind)
  BY <1>1 DEF OutputInv, WantsVulkanOutput
<1>. HIDE DEF slots
<1>4. /\ Forgotten(slot') /\ OneOwner' /\ frameIndex' = frameIndex
      /\ vulkan' \in Contextual /\ vulkanOutput' \in BOOLEAN
      /\ vulkanOutput' => WantsVulkanOutput(kind) /\ vulkan'.ready
  BY <1>1, <1>2, <1>3, OutputMoves
<1>5. views' \in [Textures -> DsHandles \cup {NoView}]
  BY <1>1, NewViewsType
<1>6. image' \in {"none", "image", "soft"} /\ rescaled' \in BOOLEAN /\ front' = front
  BY <1>1 DEF OutputInv
<1>. QED
  BY <1>1, <1>4, <1>5, <1>6, CoreStep

-----------------------------------------------------------------------------
(* The other steps                                                          *)

\* The renderer's textures are made again: what the slots remember may be gone.
LEMMA RescaleInv == ASSUME OutputInv, NEW atOnce \in BOOLEAN, Rescale(atOnce) PROVE OutputInv'
<1>. DEFINE dead == {views[t] : t \in Textures}
<1>1. /\ views' = IF atOnce THEN views ELSE NewViews(dead)
      /\ slot' = Destroyed(slot, dead) /\ rescaled' = TRUE
      /\ UNCHANGED <<window, core, front, image, glWindow, vulkan, vulkanOutput, vkWindow, frameIndex>>
  BY DEF Rescale, glVars, outputVars
<1>2. SlotsTyped(slot) /\ (vulkanOutput \/ (Quiet(slot) /\ Unbound(slot)))
  BY DEF OutputInv
<1>3. /\ SlotsTyped(slot') /\ (Quiet(slot) => Quiet(slot')) /\ (Unbound(slot) => Unbound(slot'))
  <2>. HIDE DEF dead
  <2>. QED
    BY <1>1, <1>2, DestroyedSlots
<1>4. views' \in [Textures -> DsHandles \cup {NoView}]
  <2>1. dead = {views[0], views[1]}
    BY DEF Textures
  <2>2. NewViews(dead) \in [Textures -> DsHandles \cup {NoView}]
    BY <2>1, NewViewsType
  <2>. QED
    BY <1>1, <2>2 DEF OutputInv
<1>5. OneOwner'
  BY <1>1 DEF OutputInv, OneOwner
<1>. HIDE DEF dead
<1>. QED
  BY <1>1, <1>2, <1>3, <1>4, <1>5 DEF OutputInv

\* A step that leaves the output alone, and the slots linked.
LEMMA SlotStep ==
  ASSUME OutputInv, SlotsTyped(slot'), Linked(slot) => Linked(slot'),
         ~ vulkanOutput => Quiet(slot') /\ Unbound(slot'), frameIndex' \in SlotIds,
         UNCHANGED <<window, core, vulkan, vulkanOutput, rescaled, views>>,
         glWindow' \in {glWindow, NoWindow}, vkWindow' = vkWindow,
         front' \in Textures, image' \in {"none", "image", "soft"}
  PROVE  OutputInv'
<1>1. OneOwner'
  BY DEF OutputInv, OneOwner
<1>. QED
  BY <1>1 DEF OutputInv

LEMMA SurfaceInv == ASSUME OutputInv, NEW w, SetSurface(w) PROVE OutputInv'
<1>1. /\ window' = w
      /\ \/ vulkanOutput /\ VkGets(w) /\ slot' = Released(slot) /\ glWindow' = glWindow
         \/ ~ vulkanOutput /\ GlGets(w) /\ vkWindow' = vkWindow /\ slot' = slot
      /\ UNCHANGED <<core, vulkan, vulkanOutput, rescaled, views, front, image, frameIndex>>
  BY DEF SetSurface, coreVars, outputVars
<1>2. SlotsTyped(slot) /\ SlotsTyped(Released(slot)) /\ (Linked(slot) => Linked(Released(slot)))
  BY ReleasedSlots DEF OutputInv
<1>3. OneOwner'
  BY <1>1 DEF OutputInv, OneOwner, VkGets, GlGets
<1>4. CASE slot' = slot
  BY <1>1, <1>3, <1>4 DEF OutputInv
<1>5. CASE vulkanOutput /\ slot' = Released(slot)
  <2>1. SlotsTyped(slot') /\ (rescaled' \/ Linked(slot')) /\ vulkanOutput'
    BY <1>1, <1>2, <1>5 DEF OutputInv
  <2>. QED
    BY <1>1, <1>3, <2>1 DEF OutputInv
<1>. QED
  BY <1>1, <1>4, <1>5

LEMMA RestartInv == ASSUME OutputInv, RestartThreeDs PROVE OutputInv'
<1>1. /\ image' = "none" /\ slot' = Idle(slot)
      /\ UNCHANGED <<window, core, vulkan, vulkanOutput, rescaled, views, front, glWindow, vkWindow, frameIndex>>
  BY DEF RestartThreeDs, glVars, outputVars
<1>2. SlotsTyped(slot) /\ (vulkanOutput \/ Unbound(slot)) /\ frameIndex \in SlotIds /\ front \in Textures
  BY DEF OutputInv
<1>3. SlotsTyped(slot') /\ Quiet(slot') /\ (Unbound(slot) => Unbound(slot')) /\ (Linked(slot) => Linked(slot'))
  BY <1>1, <1>2, IdleSlots
<1>. QED
  BY <1>1, <1>2, <1>3, SlotStep

LEMMA GpuInv == ASSUME OutputInv, GpuFinishes PROVE OutputInv'
<1>1. PICK s \in DOMAIN slot :
        /\ slot[s].fence = "pending"
        /\ slot' = [slot EXCEPT ![s].fence = "signaled", ![s].reads = NoView]
  BY DEF GpuFinishes
<1>2. UNCHANGED <<window, core, vulkan, vulkanOutput, rescaled, views, front, image, glWindow, vkWindow, frameIndex>>
  BY DEF GpuFinishes, coreVars, glVars, outputVars
<1>3. /\ SlotsTyped(slot) /\ (vulkanOutput \/ (Quiet(slot) /\ Unbound(slot))) /\ frameIndex \in SlotIds
      /\ front \in Textures /\ image \in {"none", "image", "soft"}
  BY DEF OutputInv
<1>4. s \in SlotIds /\ DOMAIN slot' = SlotIds /\ slot' = [k \in SlotIds |-> slot'[k]]
  BY <1>1, <1>3 DEF SlotsTyped
<1>5. \A k \in SlotIds : k # s => slot'[k] = slot[k]
  BY <1>1, <1>3, <1>4 DEF SlotsTyped
<1>6. /\ slot'[s] \in FrameSlots(s) /\ slot'[s].reads = NoView
      /\ slot'[s].bound = slot[s].bound /\ slot'[s].target = slot[s].target
  <2>. DEFINE f == [[slot[s] EXCEPT !.fence = "signaled"] EXCEPT !.reads = NoView]
  <2>1. slot[s] \in FrameSlots(s) /\ NoView \in Handles(s)
    BY <1>3, <1>4, HandleFacts DEF SlotsTyped
  <2>2. f \in FrameSlots(s) /\ f.reads = NoView /\ f.bound = slot[s].bound /\ f.target = slot[s].target
    BY <2>1 DEF FrameSlots
  <2>3. slot'[s] = f
    BY <1>1, <1>3, <1>4 DEF SlotsTyped
  <2>. HIDE DEF f
  <2>. QED
    BY <2>2, <2>3
<1>7. SlotsTyped(slot')
  BY <1>3, <1>4, <1>5, <1>6 DEF SlotsTyped
<1>8. Linked(slot) => Linked(slot')
  BY <1>4, <1>5, <1>6 DEF Linked
<1>9. ~ vulkanOutput => Quiet(slot') /\ Unbound(slot')
  BY <1>3, <1>5, <1>6 DEF Quiet, Unbound
<1>. QED
  BY <1>2, <1>3, <1>7, <1>8, <1>9, SlotStep

\* Steps that leave the slots alone.
LEMMA OtherInv ==
  ASSUME OutputInv, Relayout \/ SetPaused \/ RunFrame \/ IdleWithoutWindow
  PROVE  OutputInv'
<1>1. UNCHANGED <<window, core, vulkan, vulkanOutput, rescaled, views, glWindow, vkWindow, slot, frameIndex>>
  BY DEF Relayout, SetPaused, RunFrame, IdleWithoutWindow, coreVars, glVars, vkVars, outputVars
<1>2. front \in Textures => front' \in Textures
  BY DEF Relayout, SetPaused, RunFrame, IdleWithoutWindow, coreVars, Textures
<1>3. image' \in {image, "image", "soft"}
  BY DEF Relayout, SetPaused, RunFrame, IdleWithoutWindow, coreVars
<1>4. SlotsTyped(slot) /\ (vulkanOutput \/ (Quiet(slot) /\ Unbound(slot))) /\ frameIndex \in SlotIds
      /\ front \in Textures /\ image \in {"none", "image", "soft"}
  BY DEF OutputInv
<1>. QED
  BY <1>1, <1>2, <1>3, <1>4, SlotStep

-----------------------------------------------------------------------------
(* PresentFrame                                                             *)

\* The commands of a slot that is done are recorded: its descriptor stands for the
\* view it is given, and the other slots are left alone.
LEMMA RecordedSlots ==
  ASSUME OutputInv, NEW slots, SlotsTyped(slots), NEW k \in SlotIds, slots[k].fence = "signaled",
         NEW source, source # "gone", NEW resized \in BOOLEAN
  PROVE  LET q == Recorded(slots, k, source, resized)
         IN /\ SlotsTyped(q) /\ Given(k, source) \in Handles(k)
            /\ q[k].reads = NoView
            /\ \A j \in SlotIds \ {k} : q[j] = slots[j]
            /\ Linked(slots) => Linked(q) /\ (Given(k, source) # NoView => q[k].target = Given(k, source))
<1>. DEFINE own == {OwnTexture(k), External(k)}
            Keeps(q) == /\ SlotsTyped(q) /\ q[k].reads = NoView
                        /\ \A j \in SlotIds \ {k} : q[j] = slots[j]
                        /\ Linked(slots) => Linked(q)
<1>1. slots[k].reads = NoView
  BY DEF SlotsTyped
<1>2. Keeps(slots)
  BY <1>1
\* A view of the slot's own is destroyed, and its descriptor forgets it.
<1>3. ASSUME NEW s, Keeps(s), NEW view \in own
      PROVE  LET d == Destroyed(s, {view})
                 e == [d EXCEPT ![k].external = FALSE, ![k].bound = NoView]
                 g == [d EXCEPT ![k].bound = NoView]
             IN Keeps(e) /\ Keeps(g)
  <2>. DEFINE d == Destroyed(s, {view})
              e == [d EXCEPT ![k].external = FALSE, ![k].bound = NoView]
              g == [d EXCEPT ![k].bound = NoView]
  <2>1. SlotsTyped(d) /\ \A j \in SlotIds : /\ s[j].target \notin {view} \ {NoView} => d[j] = s[j]
                                            /\ d[j].fence = s[j].fence /\ d[j].reads = s[j].reads
    BY <1>3, DestroyedSlots
  <2>2. ASSUME NEW j \in SlotIds \ {k} PROVE d[j] = s[j]
    <3>1. view \notin Handles(j) /\ view # Gone
      BY HandleFacts
    <3>2. s[j].target \in Handles(j) \cup {Gone}
      BY <1>3 DEF SlotsTyped, FrameSlots
    <3>3. s[j].target \notin {view} \ {NoView}
      BY <3>1, <3>2
    <3>. QED
      BY <2>1, <3>3
  <2>. HIDE DEF d
  <2>3. d[k] \in FrameSlots(k) /\ d[k].reads = NoView /\ NoView \in Handles(k)
    BY <1>3, <2>1, HandleFacts DEF SlotsTyped
  <2>4. /\ DOMAIN e = SlotIds /\ e = [j \in SlotIds |-> e[j]] /\ \A j \in SlotIds \ {k} : e[j] = s[j]
        /\ DOMAIN g = SlotIds /\ g = [j \in SlotIds |-> g[j]] /\ \A j \in SlotIds \ {k} : g[j] = s[j]
    BY <2>1, <2>2 DEF SlotsTyped
  <2>9. /\ e[k] = [[d[k] EXCEPT !.external = FALSE] EXCEPT !.bound = NoView]
        /\ g[k] = [d[k] EXCEPT !.bound = NoView]
    BY <2>1 DEF SlotsTyped
  <2>. HIDE DEF e, g
  <2>5. /\ e[k] \in FrameSlots(k) /\ e[k].reads = NoView /\ e[k].bound = NoView
        /\ g[k] \in FrameSlots(k) /\ g[k].reads = NoView /\ g[k].bound = NoView
    BY <2>3, <2>9 DEF FrameSlots
  <2>6. \A j \in SlotIds \ {k} : s[j] \in FrameSlots(j) /\ (s[j].reads # NoView => s[j].fence = "pending")
    BY <1>3 DEF SlotsTyped
  <2>7. Keeps(e)
    BY <1>3, <2>4, <2>5, <2>6 DEF SlotsTyped, Linked
  <2>8. Keeps(g)
    BY <1>3, <2>4, <2>5, <2>6 DEF SlotsTyped, Linked
  <2>. QED
    BY <2>7, <2>8 DEF e, g, d
\* The descriptor is bound to a view.
<1>4. ASSUME NEW s, Keeps(s), NEW view \in Handles(k), NEW x \in BOOLEAN
      PROVE  LET e == [s EXCEPT ![k] = BindView(s[k], view)]
                 g == [s EXCEPT ![k] = [BindView(s[k], view) EXCEPT !.external = x]]
             IN /\ Keeps(e) /\ (Linked(s) /\ view # NoView => e[k].target = view)
                /\ Keeps(g) /\ (Linked(s) /\ view # NoView => g[k].target = view)
  <2>. DEFINE f == BindView(s[k], view)
              h == [f EXCEPT !.external = x]
              e == [s EXCEPT ![k] = f]
              g == [s EXCEPT ![k] = h]
  <2>1. s[k] \in FrameSlots(k) /\ s[k].reads = NoView
    BY <1>4 DEF SlotsTyped
  <2>2. f \in FrameSlots(k) /\ f.reads = NoView /\ f.bound = view
        /\ (Linked(s) => (f.bound # NoView => f.target = f.bound))
    BY <2>1 DEF BindView, FrameSlots, Linked
  <2>. HIDE DEF f
  <2>3. h \in FrameSlots(k) /\ h.reads = NoView /\ h.bound = f.bound /\ h.target = f.target
    BY <2>2 DEF FrameSlots
  <2>. HIDE DEF h
  <2>4. /\ DOMAIN e = SlotIds /\ e = [j \in SlotIds |-> e[j]] /\ \A j \in SlotIds \ {k} : e[j] = s[j]
        /\ DOMAIN g = SlotIds /\ g = [j \in SlotIds |-> g[j]] /\ \A j \in SlotIds \ {k} : g[j] = s[j]
        /\ e[k] = f /\ g[k] = h
    BY <1>4 DEF SlotsTyped
  <2>. HIDE DEF e, g
  <2>5. \A j \in SlotIds \ {k} : s[j] \in FrameSlots(j) /\ (s[j].reads # NoView => s[j].fence = "pending")
    BY <1>4 DEF SlotsTyped
  <2>6. Keeps(e) /\ (Linked(s) /\ view # NoView => e[k].target = view)
    BY <1>4, <2>2, <2>4, <2>5 DEF SlotsTyped, Linked
  <2>7. Keeps(g) /\ (Linked(s) /\ view # NoView => g[k].target = view)
    BY <1>4, <2>2, <2>3, <2>4, <2>5 DEF SlotsTyped, Linked
  <2>. QED
    BY <2>6, <2>7 DEF e, g, f, h
<1>. DEFINE s == WithoutExternal(slots, k)
            q == Recorded(slots, k, source, resized)
<1>5. Keeps(s)
  <2>1. s = IF slots[k].external
            THEN [Destroyed(slots, {External(k)}) EXCEPT ![k].external = FALSE, ![k].bound = NoView]
            ELSE slots
    BY DEF WithoutExternal
  <2>. HIDE DEF Keeps
  <2>2. External(k) \in own
    OBVIOUS
  <2>3. CASE slots[k].external
    BY <1>2, <1>3, <2>1, <2>2, <2>3, Zenon
  <2>4. CASE ~ slots[k].external
    BY <1>2, <2>1, <2>4, Zenon
  <2>. QED
    BY <2>3, <2>4
<1>6. Linked(slots) => Linked(s)
  BY <1>5
<1>7. q = CASE source = "image" -> BindImage(s, k, source)
            [] source = "frame" -> BindFrame(s, k)
            [] source = "soft" -> BindSoftware(s, k, resized)
            [] OTHER -> s
  BY DEF Recorded
<1>8. Given(k, source) = CASE source = "image" -> External(k)
                           [] source = "frame" -> views[front]
                           [] source = "soft" -> OwnTexture(k)
                           [] OTHER -> NoView
  BY DEF Given
<1>. HIDE DEF s, q, Keeps
<1>9. views[front] \in Handles(k) /\ External(k) \in Handles(k) /\ OwnTexture(k) \in Handles(k) /\ NoView \in Handles(k)
  BY HandleFacts DEF OutputInv
<1>10. SUFFICES Keeps(q) /\ Given(k, source) \in Handles(k)
                /\ (Linked(slots) /\ Given(k, source) # NoView => q[k].target = Given(k, source))
  BY DEF Keeps, q
<1>11. CASE source = "image"
  <2>1. q = [s EXCEPT ![k] = [BindView(s[k], External(k)) EXCEPT !.external = TRUE]]
    BY <1>7, <1>11 DEF BindImage
  <2>2. TRUE \in BOOLEAN
    OBVIOUS
  <2>3. Keeps(q) /\ (Linked(s) /\ External(k) # NoView => q[k].target = External(k))
    BY <1>4, <1>5, <1>9, <2>1, <2>2, Zenon
  <2>. QED
    BY <1>6, <1>8, <1>9, <1>11, <2>3
<1>12. CASE source = "frame"
  <2>1. q = [s EXCEPT ![k] = BindView(s[k], views[front])]
    BY <1>7, <1>12 DEF BindFrame
  <2>2. TRUE \in BOOLEAN
    OBVIOUS
  <2>3. Keeps(q) /\ (Linked(s) /\ views[front] # NoView => q[k].target = views[front])
    BY <1>4, <1>5, <1>9, <2>1, <2>2, Zenon
  <2>. QED
    BY <1>6, <1>8, <1>9, <1>12, <2>3
<1>13. CASE source = "soft"
  <2>. DEFINE made == IF resized THEN [Destroyed(s, {OwnTexture(k)}) EXCEPT ![k].bound = NoView] ELSE s
  <2>1. q = [made EXCEPT ![k] = BindView(made[k], OwnTexture(k))]
    BY <1>7, <1>13 DEF BindSoftware
  <2>2. OwnTexture(k) \in own
    OBVIOUS
  <2>3. Keeps(made)
    <3>1. CASE resized
      <4>1. Keeps([Destroyed(s, {OwnTexture(k)}) EXCEPT ![k].bound = NoView])
        BY <1>3, <1>5, <2>2, Zenon
      <4>. QED
        BY <3>1, <4>1
    <3>2. CASE ~ resized
      BY <1>5, <3>2
    <3>. QED
      BY <3>1, <3>2
  <2>. HIDE DEF made
  <2>6. Linked(slots) => Linked(made)
    BY <2>3 DEF Keeps
  <2>4. TRUE \in BOOLEAN
    OBVIOUS
  <2>5. Keeps(q) /\ (Linked(made) /\ OwnTexture(k) # NoView => q[k].target = OwnTexture(k))
    BY <1>4, <1>9, <2>1, <2>3, <2>4, Zenon
  <2>. QED
    BY <1>8, <1>9, <1>13, <2>5, <2>6
<1>14. CASE source \notin {"image", "frame", "soft"}
  BY <1>5, <1>7, <1>8, <1>9, <1>14
<1>. QED
  BY <1>11, <1>12, <1>13, <1>14

\* Present of VulkanPresenter: a slot is recorded when its fence has signalled, and
\* its submission samples the view it was given.
LEMMA VulkanInv ==
  ASSUME OutputInv, vulkanOutput, PresentVulkan(NewVkSource),
         UNCHANGED <<window, coreVars, outputVars>>
  PROVE  OutputInv'
<1>. DEFINE source == NewVkSource
            k == frameIndex
            slots == IF swapchain = "stale" THEN Released(slot) ELSE slot
<1>1. UNCHANGED <<window, core, vulkan, vulkanOutput, rescaled, views, front, image, glWindow, vkWindow>>
  BY DEF coreVars, outputVars, PresentVulkan, glVars
<1>2. /\ SlotsTyped(slot) /\ k \in SlotIds /\ front \in Textures /\ image \in {"none", "image", "soft"}
  BY DEF OutputInv
<1>3. SlotsTyped(slots) /\ (Linked(slot) => Linked(slots))
  BY <1>2, ReleasedSlots
<1>4. source # "gone"
  BY <1>2 DEF NewVkSource
<1>5. \/ slot' = slots /\ UNCHANGED frameIndex
      \/ \E resized \in BOOLEAN :
           /\ slots[k].fence = "signaled"
           /\ LET recorded == Recorded(slots, k, source, resized)
              IN \/ slot' = [recorded EXCEPT ![k].fence = "reset"] /\ UNCHANGED frameIndex
                 \/ /\ slot' = [recorded EXCEPT ![k].fence = "pending", ![k].reads = Given(k, source)]
                    /\ frameIndex' = (k + 1) % Slots
  BY DEF PresentVulkan, NothingAcquired
<1>. HIDE DEF slots, source
<1>6. CASE slot' = slots /\ UNCHANGED frameIndex
  BY <1>1, <1>2, <1>3, <1>6, SlotStep
<1>7. ASSUME NEW resized \in BOOLEAN, slots[k].fence = "signaled",
             \/ slot' = [Recorded(slots, k, source, resized) EXCEPT ![k].fence = "reset"] /\ UNCHANGED frameIndex
             \/ /\ slot' = [Recorded(slots, k, source, resized) EXCEPT ![k].fence = "pending", ![k].reads = Given(k, source)]
                /\ frameIndex' = (k + 1) % Slots
      PROVE  OutputInv'
  <2>. DEFINE q == Recorded(slots, k, source, resized)
              view == Given(k, source)
  <2>1. /\ SlotsTyped(q) /\ view \in Handles(k) /\ q[k].reads = NoView
        /\ \A j \in SlotIds \ {k} : q[j] = slots[j]
        /\ Linked(slots) => Linked(q) /\ (view # NoView => q[k].target = view)
    BY <1>2, <1>3, <1>4, <1>7, RecordedSlots
  <2>2. frameIndex' \in SlotIds
    BY <1>2, <1>7, PresenterAssumption DEF SlotIds
  <2>. HIDE DEF q, view
  <2>3. q[k] \in FrameSlots(k) /\ \A j \in SlotIds \ {k} : q[j] \in FrameSlots(j) /\ (q[j].reads # NoView => q[j].fence = "pending")
    BY <1>2, <2>1 DEF SlotsTyped
  <2>4. CASE slot' = [q EXCEPT ![k].fence = "reset"]
    <3>. DEFINE f == [q[k] EXCEPT !.fence = "reset"]
    <3>1. DOMAIN slot' = SlotIds /\ slot' = [j \in SlotIds |-> slot'[j]] /\ slot'[k] = f /\ \A j \in SlotIds \ {k} : slot'[j] = q[j]
      BY <1>2, <2>1, <2>4 DEF SlotsTyped
    <3>2. f \in FrameSlots(k) /\ f.reads = NoView /\ f.bound = q[k].bound /\ f.target = q[k].target
      BY <2>1, <2>3 DEF FrameSlots
    <3>. HIDE DEF f
    <3>3. SlotsTyped(slot')
      BY <2>3, <3>1, <3>2 DEF SlotsTyped
    <3>4. Linked(slot) => Linked(slot')
      BY <1>3, <2>1, <3>1, <3>2 DEF Linked
    <3>. QED
      BY <1>1, <1>2, <2>2, <3>3, <3>4, SlotStep
  <2>5. CASE slot' = [q EXCEPT ![k].fence = "pending", ![k].reads = view]
    <3>. DEFINE f == [[q[k] EXCEPT !.fence = "pending"] EXCEPT !.reads = view]
    <3>1. DOMAIN slot' = SlotIds /\ slot' = [j \in SlotIds |-> slot'[j]] /\ slot'[k] = f /\ \A j \in SlotIds \ {k} : slot'[j] = q[j]
      BY <1>2, <2>1, <2>5 DEF SlotsTyped
    <3>2. f \in FrameSlots(k) /\ f.fence = "pending" /\ f.reads = view /\ f.bound = q[k].bound /\ f.target = q[k].target
      BY <2>1, <2>3 DEF FrameSlots
    <3>. HIDE DEF f
    <3>3. SlotsTyped(slot')
      BY <2>3, <3>1, <3>2 DEF SlotsTyped
    <3>4. Linked(slot) => Linked(slot')
      BY <1>3, <2>1, <3>1, <3>2 DEF Linked
    <3>. QED
      BY <1>1, <1>2, <2>2, <3>3, <3>4, SlotStep
  <2>. QED
    BY <1>7, <2>4, <2>5 DEF q, view
<1>. QED
  BY <1>5, <1>6, <1>7

LEMMA PresentInv == ASSUME OutputInv, PresentFrame PROVE OutputInv'
<1>1. UNCHANGED <<window, coreVars, outputVars>>
  BY DEF PresentFrame
<1>2. CASE vulkanOutput
  BY <1>1, <1>2, VulkanInv DEF PresentFrame
<1>3. CASE ~ vulkanOutput
  <2>1. PresentGl
    BY <1>3 DEF PresentFrame
  <2>2. /\ UNCHANGED <<window, core, vulkan, vulkanOutput, rescaled, views, front, image, vkWindow, slot, frameIndex>>
        /\ glWindow' \in {glWindow, NoWindow}
    BY <1>1, <2>1 DEF PresentGl, coreVars, outputVars, vkVars
  <2>3. SlotsTyped(slot) /\ Quiet(slot) /\ Unbound(slot) /\ frameIndex \in SlotIds /\ front \in Textures
        /\ image \in {"none", "image", "soft"}
    BY <1>3 DEF OutputInv
  <2>. QED
    BY <2>2, <2>3, SlotStep
<1>. QED
  BY <1>2, <1>3

-----------------------------------------------------------------------------
(* The theorem                                                              *)

LEMMA InitOutput == Init => OutputInv
<1>. SUFFICES ASSUME Init PROVE OutputInv
  OBVIOUS
<1>1. slot = [s \in SlotIds |-> FreshSlot]
  BY DEF Init, SlotIds
<1>2. ASSUME NEW k \in SlotIds
      PROVE  slot[k] \in FrameSlots(k) /\ slot[k].reads = NoView /\ slot[k].bound = NoView
  <2>1. NoView \in Handles(k)
    BY HandleFacts
  <2>2. slot[k] = FreshSlot
    BY <1>1
  <2>. QED
    BY <2>1, <2>2 DEF FreshSlot, FrameSlots
<1>3. SlotsTyped(slot) /\ Quiet(slot) /\ Unbound(slot)
  BY <1>1, <1>2 DEF SlotsTyped, Quiet, Unbound
<1>4. Linked(slot)
  BY <1>3, NothingLinked
<1>5. vulkan \in Contextual
  BY DEF Init, Contextual
<1>6. /\ ~ vulkanOutput /\ vulkanOutput \in BOOLEAN /\ rescaled \in BOOLEAN /\ front \in Textures
      /\ image \in {"none", "image", "soft"}
  BY DEF Init, Textures
<1>8. frameIndex \in SlotIds
  BY PresenterAssumption DEF Init, SlotIds
<1>9. views \in [Textures -> DsHandles \cup {NoView}]
  BY DEF Init
<1>7. OneOwner
  BY DEF Init, OneOwner
<1>. QED
  BY <1>3, <1>4, <1>5, <1>6, <1>7, <1>8, <1>9 DEF OutputInv

LEMMA StepOutput == ASSUME OutputInv, [Next]_vars PROVE OutputInv'
<1>0. vulkan \in Contextual
  BY DEF OutputInv
<1>1. CASE GpuFinishes
  BY <1>1, GpuInv
<1>2. ASSUME NEW w, SetSurface(w) PROVE OutputInv'
  BY <1>2, SurfaceInv
<1>3. CASE Stop
  BY <1>3, StopInv
<1>4. CASE LoadGame
  <2>1. ASSUME NEW kind, Load(kind, vulkan) PROVE OutputInv'
    BY <1>0, <2>1, LoadInv
  <2>2. ASSUME NEW v \in Contexts(vulkan), NEW kind, Load(kind, v) PROVE OutputInv'
    BY <1>0, <2>2, LoadInv, ReadyStays
  <2>3. ASSUME NEW c \in Contexts(vulkan), NEW v \in IF c.context THEN Presenters(c) ELSE {c}, NEW kind, Load(kind, v)
        PROVE  OutputInv'
    <3>1. c \in Contextual
      BY <1>0, ReadyStays
    <3>2. v \in Contextual
      BY <3>1, ReadyStays
    <3>. QED
      BY <2>3, <3>2, LoadInv
  <2>. QED
    BY <1>4, <2>1, <2>2, <2>3, Zenon DEF LoadGame
<1>5. CASE ApplyLiveSettings
  <2>1. ASSUME NEW kind \in {"soft", "gl"}, ChangeRenderer(kind, vulkan) PROVE OutputInv'
    BY <1>0, <2>1, ChangeInv
  <2>2. ASSUME NEW v \in Contexts(vulkan), ChangeRenderer(IF v.context THEN "ds" ELSE "gl", v) PROVE OutputInv'
    <3>1. v \in Contextual
      BY <1>0, ReadyStays
    <3>2. CASE v.context
      BY <2>2, <3>1, <3>2, ChangeInv
    <3>3. CASE ~ v.context
      BY <2>2, <3>1, <3>3, ChangeInv
    <3>. QED
      BY <3>2, <3>3
  <2>3. ASSUME NEW atOnce \in BOOLEAN, Rescale(atOnce) PROVE OutputInv'
    BY <2>3, RescaleInv
  <2>. QED
    BY <1>5, <2>1, <2>2, <2>3, Zenon DEF ApplyLiveSettings
<1>6. CASE RestartThreeDs
  BY <1>6, RestartInv
<1>7. CASE Relayout \/ SetPaused \/ RunFrame \/ IdleWithoutWindow
  BY <1>7, OtherInv
<1>8. CASE PresentFrame
  BY <1>8, PresentInv
<1>9. CASE UNCHANGED vars
  <2>1. UNCHANGED <<window, core, vulkan, vulkanOutput, rescaled, views, front, image, glWindow, vkWindow, slot, frameIndex>>
    BY <1>9 DEF vars, coreVars, glVars, vkVars, outputVars
  <2>. QED
    BY <2>1 DEF OutputInv, OneOwner
<1>. QED
  BY <1>1, <1>2, <1>3, <1>4, <1>5, <1>6, <1>7, <1>8, <1>9 DEF Next

\* The window belongs to the presenter of the API that draws; and as long as the scale
\* of the game is not changed, every submission of the Vulkan presenter samples the
\* view of the frame it was given, which stays until the GPU is done, though handles
\* are used again (EmuSession::UpdateOutput, SwapCore; VulkanPresenter::Present).
THEOREM OutputStaysSound == Spec => []OutputIsSound
<1>1. ASSUME OutputInv PROVE OutputIsSound
  <2>1. SlotsTyped(slot) /\ (rescaled \/ Linked(slot)) /\ OneOwner
    BY <1>1 DEF OutputInv
  <2>2. Linked(slot) => SampledIsLive
    BY <2>1 DEF Linked, SampledIsLive, SlotsTyped
  <2>. QED
    BY <2>1, <2>2 DEF OutputIsSound
<1>. QED
  BY <1>1, InitOutput, StepOutput, PTL DEF Spec

=============================================================================
