--------------------------- MODULE Presentation ---------------------------
(***************************************************************************)
(* How a frame comes to the screen: the session's choice of a presenter        *)
(* (EmuSession.cpp), and the two presenters, OpenGL ES (GLPresenter.cpp) and       *)
(* Vulkan (VulkanPresenter.cpp).  All of it runs on the emulation thread; the        *)
(* GPU finishes the submissions of the Vulkan presenter's slots by itself.             *)
(*                                                                                      *)
(* A view is its handle.  The driver may give the handle of a destroyed view to           *)
(* a new one, and in the model it does whenever it can: a slot's own views have one          *)
(* handle each, and a DS texture gets the least that is free.                                  *)
(* The surface, the swapchain and Vulkan itself are external: each call may fail.             *)
(***************************************************************************)
EXTENDS Integers, FiniteSets

CONSTANTS
  Windows,  \* windows the activity gives
  NoWindow,
  Slots     \* kFramesInFlight

ASSUME PresenterAssumption == Slots \in Nat \ {0}

Textures == {0, 1}  \* FPOutputTex

NoView == 0
Gone == -1          \* what a descriptor stands for once its view was destroyed

OwnTexture(k) == k + 1            \* slot k's own texture, for software frames
External(k) == Slots + k + 1      \* its view of the 3DS engine's image
DsHandles == 2 * Slots + 1 .. 2 * Slots + 4

VARIABLES
  window,       \* the session's window
  core,         \* by whom frames are made: nobody, the CPU, OpenGL, or Vulkan
  playing,      \* the emulation thread is active
  vulkan,       \* context: VulkanContext is there; ready: vkPresenter is; failed
  vulkanOutput, redraw,
  glWindow, glSource,   \* GLPresenter: its window, what it shows
  vkWindow, swapchain, vkSource,  \* VulkanPresenter
  frameIndex,
  slot,         \* its frame slots
  views, front, \* the DS renderer's output textures, and which one is shown
  image,        \* what the 3DS engine handed over: "none", "image", "soft"
  rescaled,     \* history: the running DS game's textures have been made again
  unshown,      \* history: what was to be redrawn has not been
  submitFailed  \* history

coreVars == <<core, playing, views, front, image, rescaled>>
glVars == <<glWindow, glSource>>
vkVars == <<vkWindow, swapchain, vkSource, frameIndex, slot>>
outputVars == <<vulkan, vulkanOutput>>
historyVars == <<submitFailed>>
vars == <<window, redraw, unshown, coreVars, glVars, vkVars, outputVars, historyVars>>

\* bound: boundView; target: what the descriptor stands for; external: there is a
\* view of the 3DS engine's image; reads: the view that the submission under way is to sample.
FreshSlot == [fence |-> "signaled", bound |-> NoView, target |-> NoView, external |-> FALSE, reads |-> NoView]

Init ==
  /\ window = NoWindow
  /\ core = "none" /\ playing = FALSE
  /\ vulkan = [context |-> FALSE, ready |-> FALSE, failed |-> FALSE]
  /\ vulkanOutput = FALSE /\ redraw = FALSE
  /\ glWindow = NoWindow /\ glSource = "none"
  /\ vkWindow = NoWindow /\ swapchain = "none" /\ vkSource = "none"
  /\ frameIndex = 0
  /\ slot = [s \in 0 .. Slots - 1 |-> FreshSlot]
  /\ views = [t \in Textures |-> NoView] /\ front = 0
  /\ image = "none" /\ rescaled = FALSE
  /\ unshown = FALSE /\ submitFailed = FALSE

-----------------------------------------------------------------------------
(* Views and the GPU                                                        *)

Fresh(live) == CHOOSE h \in DsHandles : h \notin live /\ \A k \in DsHandles : k < h => k \in live

\* The views of dead are destroyed: descriptors keep standing for them.
Destroyed(slots, dead) ==
  [s \in DOMAIN slots |->
     IF slots[s].target \in dead \ {NoView} THEN [slots[s] EXCEPT !.target = Gone] ELSE slots[s]]

\* vkDeviceWaitIdle: every submission is done.
Idle(slots) ==
  [s \in DOMAIN slots |->
     IF slots[s].fence = "pending" THEN [slots[s] EXCEPT !.fence = "signaled", !.reads = NoView] ELSE slots[s]]

GpuFinishes ==
  /\ \E s \in DOMAIN slot :
       /\ slot[s].fence = "pending"
       /\ slot' = [slot EXCEPT ![s].fence = "signaled", ![s].reads = NoView]
  /\ UNCHANGED <<window, redraw, unshown, coreVars, glVars, outputVars, vkWindow, swapchain, vkSource,
                 frameIndex, historyVars>>

-----------------------------------------------------------------------------
(* The presenters and their windows                                         *)

\* ReleaseWindow of the Vulkan presenter waits if it has a swapchain.
Released(slots) == IF swapchain = "none" THEN slots ELSE Idle(slots)

\* SetWindow(w) of either presenter: there may be no surface for it.
GlGets(w) == glWindow' \in {w, NoWindow}

VkGets(w) ==
  \/ vkWindow' = w /\ swapchain' = IF w = NoWindow THEN "none" ELSE "good"
  \/ vkWindow' = NoWindow /\ swapchain' = "none"

\* Slip: the cached handles stay.
DroppedFramesOnly(slots) == slots

\* DropExternalFrames: what the slots' descriptors are bound to is forgotten, and
\* they are written anew before they are used.
DroppedFrames(slots) ==
  [s \in DOMAIN slots |->
     [slots[s] EXCEPT !.bound = NoView, !.target = IF slots[s].reads = NoView THEN NoView ELSE @]]

DroppedSource(source) == IF source = "soft" THEN "soft" ELSE "none"

\* Output()->HasWindow().
HasWindow == IF vulkanOutput THEN swapchain # "none" ELSE glWindow # NoWindow

\* Slip: the new window stays empty until the next frame.
RedrawForNone(w) == redraw

RedrawFor(w) == redraw \/ w # NoWindow

SetSurface(w) ==
  /\ window' = w
  /\ redraw' = RedrawFor(w)
  /\ \/ /\ vulkanOutput
        /\ VkGets(w)
        /\ slot' = Released(slot)
        /\ unshown' = (swapchain' # "none")
        /\ UNCHANGED glWindow
     \/ /\ ~vulkanOutput
        /\ GlGets(w)
        /\ unshown' = (glWindow' # NoWindow)
        /\ UNCHANGED <<vkWindow, swapchain, slot>>
  /\ UNCHANGED <<coreVars, glSource, vkSource, frameIndex, outputVars, historyVars>>

\* SetLayout, SetPresentSettings, and ApplyLiveSettings that leaves the renderer.
Relayout ==
  /\ redraw' = TRUE
  /\ unshown' = HasWindow
  /\ UNCHANGED <<window, coreVars, glVars, vkVars, outputVars, historyVars>>

\* Vulkan(): a context is tried again whenever it is not there.
Contexts(v) == IF v.context THEN {v} ELSE {[v EXCEPT !.context = TRUE], [v EXCEPT !.failed = TRUE]}

\* VulkanOutput(): a presenter is tried only once.
Presenters(v) ==
  IF v.ready \/ v.failed THEN {v}
  ELSE UNION {IF c.context THEN {[c EXCEPT !.ready = TRUE], [c EXCEPT !.failed = TRUE]} ELSE {c} : c \in Contexts(v)}

WantsVulkanOutput(kind) == kind \in {"ds", "3ds"}

GlLetsGo == glWindow' = NoWindow

\* UpdateOutput, when the core's frames are of this kind, from these slots and
\* this source of the Vulkan presenter.
UpdateOutput(kind, v, slots, source) ==
  \E p \in IF WantsVulkanOutput(kind) THEN Presenters(v) ELSE {v} :
    /\ vulkan' = p
    /\ vulkanOutput' = (WantsVulkanOutput(kind) /\ p.ready)
    /\ \/ /\ vulkanOutput' = vulkanOutput
          /\ slot' = slots /\ vkSource' = source
          /\ UNCHANGED <<glWindow, vkWindow, swapchain>>
       \/ /\ vulkanOutput' /\ ~vulkanOutput
          /\ GlLetsGo
          /\ VkGets(window)
          /\ slot' = Released(slots) /\ vkSource' = source
       \/ /\ ~vulkanOutput' /\ vulkanOutput
          /\ vkWindow' = NoWindow /\ swapchain' = "none"
          /\ GlGets(window)
          /\ slot' = DroppedFrames(Released(slots)) /\ vkSource' = DroppedSource(source)
  /\ UNCHANGED <<window, glSource, frameIndex, historyVars>>

-----------------------------------------------------------------------------
(* Cores come, change and go                                                *)

\* After UpdateOutput alone.
RedrawIfMoved ==
  /\ redraw' = IF vulkanOutput' = vulkanOutput THEN redraw ELSE RedrawFor(window)
  /\ unshown' = IF vulkanOutput' = vulkanOutput THEN unshown ELSE HasWindow'

\* SwapCore drops the outgoing core's frames.
Swapped(v, slots, source) ==
  IF v.ready THEN [slots |-> DroppedFrames(slots), source |-> DroppedSource(source)]
  ELSE [slots |-> slots, source |-> source]

\* The renderer of a core goes, and waits for the device before it does.
WithoutRenderer(slots) ==
  IF WantsVulkanOutput(core) THEN Destroyed(Idle(slots), {views[t] : t \in Textures}) ELSE slots

\* The output textures of a DS renderer, made one after the other.
Views(a, b) == [t \in Textures |-> IF t = 0 THEN a ELSE b]

NewViews(live) == LET a == Fresh(live) IN Views(a, Fresh(live \cup {a}))

NoViews == [t \in Textures |-> NoView]

\* SwapCore(nullptr).
Stop ==
  /\ core # "none"
  /\ core' = "none" /\ playing' = FALSE
  /\ views' = NoViews /\ image' = "none" /\ rescaled' = FALSE
  /\ LET swapped == Swapped(vulkan, slot, vkSource)
     IN UpdateOutput("none", vulkan, WithoutRenderer(swapped.slots), swapped.source)
  /\ RedrawIfMoved
  /\ UNCHANGED front

\* LoadGame, LoadThreeDs and BootFirmware, which have stopped the game before: a DS
\* renderer needs Vulkan, a 3DS game on Vulkan its presenter.
Load(kind, v) ==
  /\ core = "none"
  /\ core' = kind
  /\ views' = IF kind = "ds" THEN NewViews({}) ELSE NoViews
  /\ LET swapped == Swapped(v, slot, vkSource) IN UpdateOutput(kind, v, swapped.slots, swapped.source)
  /\ RedrawIfMoved
  /\ UNCHANGED <<playing, front, image, rescaled>>

LoadGame ==
  \/ \E kind \in {"soft", "gl"} : Load(kind, vulkan)
  \/ \E v \in Contexts(vulkan) : Load(IF v.context THEN "ds" ELSE "gl", v)
  \/ \E c \in Contexts(vulkan) : \E v \in IF c.context THEN Presenters(c) ELSE {c} :
       Load(IF v.ready THEN "3ds" ELSE "gl", v)

\* ApplyLiveSettings, which takes a DS game from one renderer to another.
ChangeRenderer(kind, v) ==
  /\ core \in {"soft", "gl", "ds"} /\ kind # core
  /\ core' = kind
  /\ views' = IF kind = "ds" THEN NewViews({}) ELSE NoViews
  /\ UpdateOutput(kind, v, WithoutRenderer(slot), vkSource)
  /\ redraw' = TRUE
  /\ unshown' = HasWindow'
  /\ UNCHANGED <<playing, front, image, rescaled>>

\* The scale of the DS renderer changes, by a setting or with the heat: its
\* textures are made again.  If the stream is idle each is freed before its successor
\* is there, which may get its handle; otherwise when the stream goes on.  The presenter is
\* not told.
Rescale(atOnce) ==
  /\ core = "ds"
  /\ views' = IF atOnce THEN views ELSE NewViews({views[t] : t \in Textures})
  /\ slot' = Destroyed(slot, {views[t] : t \in Textures})
  /\ redraw' = TRUE
  /\ unshown' = HasWindow
  /\ rescaled' = TRUE
  /\ UNCHANGED <<window, core, playing, front, image, glVars, outputVars, vkWindow, swapchain, vkSource,
                 frameIndex, historyVars>>

\* A 3DS game's state is loaded, or it is reset: the engine starts its renderer
\* again, and waits for the device before it destroys the image.
RestartThreeDs ==
  /\ core = "3ds"
  /\ image' = "none"
  /\ slot' = Idle(slot)
  /\ vkSource' = IF vkSource = "image" THEN "gone" ELSE vkSource
  /\ redraw' \in {redraw, TRUE}
  /\ UNCHANGED <<window, unshown, core, playing, views, front, rescaled, glVars, outputVars, vkWindow, swapchain,
                 frameIndex, historyVars>>

SetPaused ==
  /\ core # "none"
  /\ playing' = ~playing
  /\ UNCHANGED <<window, redraw, unshown, core, views, front, image, rescaled, glVars, vkVars, outputVars, historyVars>>

\* A frame of the game.  The 3DS engine waits for the slot whose index it draws
\* with (WaitSyncIndex), and hands over its image or pixels.
RunFrame ==
  /\ playing
  /\ \/ core \in {"soft", "gl"} /\ UNCHANGED <<front, image>>
     \/ core = "ds" /\ front' = 1 - front /\ UNCHANGED image
     \/ core = "3ds" /\ slot[frameIndex].fence = "signaled" /\ image' \in {"image", "soft"} /\ UNCHANGED front
  /\ UNCHANGED <<window, redraw, unshown, core, playing, views, rescaled, glVars, vkVars, outputVars, historyVars>>

-----------------------------------------------------------------------------
(* PresentFrame                                                             *)

\* GetFrame, and the frame handed to a presenter; when there is none the Vulkan
\* presenter drops the image of the 3DS engine.
NewVkSource ==
  IF ~vulkanOutput THEN vkSource
  ELSE IF core = "ds" THEN "frame"
  ELSE IF core = "3ds" /\ image # "none" THEN image
  ELSE IF vkSource \in {"image", "gone"} THEN "none" ELSE vkSource

\* A DS frame on Vulkan has no OpenGL texture: 0.
NewGlSource ==
  IF vulkanOutput \/ core = "none" THEN glSource
  ELSE CASE core = "soft" -> "soft" [] core = "gl" -> "texture" [] OTHER -> "zero"

BindView(f, view) == IF f.bound = view THEN f ELSE [f EXCEPT !.bound = view, !.target = view]

\* The view of the slot's last external image can go.
WithoutExternal(slots, k) ==
  IF slots[k].external THEN [Destroyed(slots, {External(k)}) EXCEPT ![k].external = FALSE, ![k].bound = NoView]
  ELSE slots

BindImage(slots, k, source) ==
  LET bound == [BindView(slots[k], External(k)) EXCEPT !.external = TRUE]
  IN [slots EXCEPT ![k] = IF source = "gone" THEN [bound EXCEPT !.target = Gone] ELSE bound]

BindFrame(slots, k) == [slots EXCEPT ![k] = BindView(@, views[front])]

\* PrepareFrameTexture: another size needs another texture.
BindSoftware(slots, k, resized) ==
  LET made == IF resized THEN [Destroyed(slots, {OwnTexture(k)}) EXCEPT ![k].bound = NoView] ELSE slots
  IN [made EXCEPT ![k] = BindView(@, OwnTexture(k))]

\* The slot's commands are recorded, once its fence has signalled.
Recorded(slots, k, source, resized) ==
  LET s == WithoutExternal(slots, k)
  IN CASE source \in {"image", "gone"} -> BindImage(s, k, source)
       [] source = "frame" -> BindFrame(s, k)
       [] source = "soft" -> BindSoftware(s, k, resized)
       [] OTHER -> s

\* The view slot k was given.
Given(k, source) ==
  CASE source \in {"image", "gone"} -> External(k)
    [] source = "frame" -> views[front]
    [] source = "soft" -> OwnTexture(k)
    [] OTHER -> NoView

\* There is no image to draw to: the slot is left as it was.
NothingAcquired(slots, k) == slots

\* Present of VulkanPresenter.
PresentVulkan(source) ==
  LET recreated == Released(slot)
      k == frameIndex
      slots == IF swapchain = "stale" THEN recreated ELSE slot
  IN /\ vkSource' = source
     /\ unshown' = FALSE
     /\ \/ /\ swapchain = "stale"      \* CreateSwapchain fails
           /\ swapchain' = "none"
           /\ slot' = slots
           /\ UNCHANGED <<frameIndex, historyVars>>
        \/ /\ slots[k].fence = "signaled"
           /\ swapchain' \in {"good", "stale"}
           /\ slot' = NothingAcquired(slots, k)
           /\ UNCHANGED <<frameIndex, historyVars>>
        \/ /\ slots[k].fence = "signaled"
           /\ \E resized \in IF source = "soft" THEN BOOLEAN ELSE {FALSE} :
                LET recorded == Recorded(slots, k, source, resized)
                IN \/ /\ slot' = [recorded EXCEPT ![k].fence = "reset"]     \* vk.Submit fails
                      /\ submitFailed' = TRUE
                      /\ swapchain' = "good"
                      /\ UNCHANGED frameIndex
                   \/ /\ slot' = [recorded EXCEPT ![k].fence = "pending", ![k].reads = Given(k, source)]
                      /\ frameIndex' = (k + 1) % Slots
                      /\ swapchain' \in {"good", "stale"}
                      /\ UNCHANGED submitFailed
     /\ UNCHANGED <<glVars, vkWindow>>

\* Present of GLPresenter: a bad surface is given up.
PresentGl ==
  /\ glSource' = NewGlSource
  /\ glWindow' \in {glWindow, NoWindow}
  /\ unshown' = FALSE
  /\ UNCHANGED <<vkVars, historyVars>>

PresentFrame ==
  /\ playing \/ redraw
  /\ HasWindow
  /\ redraw' = (redraw /\ playing)
  /\ IF vulkanOutput THEN PresentVulkan(NewVkSource) ELSE PresentGl
  /\ UNCHANGED <<window, coreVars, outputVars>>

\* needRedraw is taken back though nothing can be drawn.
IdleWithoutWindow ==
  /\ redraw /\ ~playing /\ ~HasWindow
  /\ redraw' = FALSE
  /\ UNCHANGED <<window, unshown, coreVars, glVars, vkVars, outputVars, historyVars>>

ApplyLiveSettings ==
  \/ \E kind \in {"soft", "gl"} : ChangeRenderer(kind, vulkan)
  \/ \E v \in Contexts(vulkan) : ChangeRenderer(IF v.context THEN "ds" ELSE "gl", v)
  \/ \E atOnce \in BOOLEAN : Rescale(atOnce)

\* Bound: nothing is looked at after a submission failed, the device being lost.
Next ==
  \/ GpuFinishes
  \/ /\ ~submitFailed
     /\ \/ \E w \in Windows \cup {NoWindow} : SetSurface(w)
        \/ Relayout \/ Stop \/ LoadGame \/ ApplyLiveSettings \/ RestartThreeDs \/ SetPaused
        \/ RunFrame \/ PresentFrame \/ IdleWithoutWindow

Spec == Init /\ [][Next]_vars

\* The GPU works, and the emulation thread presents what it has to.
FairSpec == Spec /\ WF_vars(GpuFinishes) /\ WF_vars(PresentFrame)

-----------------------------------------------------------------------------
(* Properties                                                               *)

\* A window belongs to one graphics API at a time, and to the one that draws: a
\* presenter holds the session's window or none (EmuSession.cpp:471).
OneOwner ==
  /\ glWindow # NoWindow => glWindow = window /\ ~vulkanOutput
  /\ vkWindow # NoWindow => vkWindow = window /\ vulkanOutput

\* Every submission of the presenter samples the view of the frame it was given,
\* and that view is there until the GPU is done ("A new object can reuse a
\* destroyed view's handle value", VulkanPresenter.cpp:478).
SampledIsLive == \A s \in DOMAIN slot : slot[s].reads # NoView => slot[s].target = slot[s].reads

\* A window has one presenter at a time, and what that one samples is live
\* unless the scale has changed since the game was loaded.
OutputIsSound == OneOwner /\ (rescaled \/ SampledIsLive)

NeedsShowing == unshown /\ ~submitFailed

\* A new window, output, layout or scale is drawn, also while the game is paused,
\* unless the surface or a submission fails.
EventuallyShown == NeedsShowing ~> ~NeedsShowing
=============================================================================
