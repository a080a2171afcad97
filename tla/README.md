# DSEM: specifications, model checks and proofs

DSEM is an Android emulator for one phone: Nintendo DS through melonDS, Game Boy
Advance through mGBA, Nintendo 3DS through a libretro build of Azahar. This
directory holds TLA+ modules of DSEM's own code (`src/app/src/main/cpp` and the
Kotlin beside it), TLC configurations that check them on small instances, and
TLAPS proofs of the results that matter most. `PROJECT.json` lists components,
runs, mutants, findings, hazards and theorems, and maps every definition to the
lines it models. The vendored emulators, LZ4, Oboe, Vulkan, the shaders and the
file system are external: they are modelled only by what DSEM's code relies on.

## 1. The system

One process, with these threads:

| thread | runs | talks to |
|---|---|---|
| UI (Kotlin) | activity, menus, input; calls native functions | posts commands to the emulation thread, some of them waiting for the result; sets atomics (pause, keys, rewind) |
| Kotlin's I/O dispatcher | loads, saves, stops | the same functions, from other threads |
| emulation (`ds13r-emu`) | `EmuSession::ThreadMain`: commands, frames, presenting | cores, presenters, I/O worker, rewind worker |
| rewind worker | a loop in `EmuSession`'s constructor | `rewindCapture` and `RewindBuffer`, under `rewindLock` |
| I/O worker (`ds13r-io`) | `IoWorker::Loop` | the disk |
| audio callbacks (Oboe) | `AudioEngine::onAudioReady`, `MicCallback`, error callbacks | the core's audio ring, the microphone ring |
| GPU | submissions of the renderer and of the presenter | fences, barriers |

Components, the state they keep and what makes them correct:

| component | state | operations | correct means |
|---|---|---|---|
| `EmuSession` | core, command queue, load generation, boot lock, pause | Post, LoadGame, LoadThreeDs, Stop, SetPaused, ThreadMain | every call returns; a superseded load is not installed; a pause has flushed |
| `RewindBuffer` | newest state, XOR deltas, bytes used, budget | Push, Pop, Clear, SetBudget | popping gives back what was pushed, newest first; memory within budget |
| rewind in `EmuSession` | capture buffer, pending flag, frame counter | CaptureRewind, worker, DoRewindStep, ClearRewind and what calls it | only snapshots of this line of play, in order; holding rewind ends at the oldest |
| save states | slot file, `.undo` file, undo backup in memory | SaveState, LoadState, UndoLoadState, UndoSaveState | a save is never lost; an undo restores what was there |
| `IoWorker` | queue of jobs | Post, Run, Drain, WriteFileAtomic | jobs in order; nobody waits for ever; a file is never half written |
| `SaveFile`, `GbaCore`'s snapshots | copy of the save memory, dirty flag, time of last write | OnWrite, SnapshotSave, CheckFlush, FlushNow, destructor | copy = console's memory; what a flush returned for is in the file; the file never goes back |
| `ThreeDsCore` | the one libretro engine, its file, its graphics, its image | Prepare, Boot, RunFrame, Reset, LoadState, Shutdown | nothing outlives a core; the image handed over is live |
| `AudioEngine` | output stream, source, microphone flags and stream, rings | Start/Stop output and microphone, SetMicAllowed, callbacks | the source is alive, one stream plays; the microphone is open only when allowed; samples in order |
| presenters | window, swapchain, slots, the frame shown, cached descriptors | SetWindow, Present, DropExternalFrames, ApplyLiveSettings | one owner of the window; nothing dead is sampled; what has changed is shown, also while paused |
| `vk/VkStream` | frame slots (commands, fence, ring, descriptor pool, frees), open render pass | BeginSlot, Flush, Allocate, Draw, uploads, read-backs, textures | nothing reused or destroyed while the GPU uses it; the pass state survives restarts |
| 2D renderer (`vk/GPU2D_Vulkan`, `vk/GPU_Vulkan`) | copies of registers, dirty flags, watched ranges, sections, captures | UpdateLayerConfig, DrawScanline, DrawSprites, VBlank, DoCapture, SyncVRAMCapture | a line has the registers and memory of its own time; captures reach those who read them |
| 3D renderer (`vk/GPU3D_Vulkan`) | spans, variants, tiles, buffers between compute shaders | SetRenderSettings, RenderFrame | frames left out are really the same; lines, textures and tiles are right; passes are ordered |
| Kotlin: activity, input, settings, saves | lifecycle flags, held keys, JSON files | lifecycle callbacks, key events, set, import/export | the microphone is asked for once, saves can be undone; the rest see "Not modelled" |
| the rest | `ConfigStore`, `LogBuffer`, `PerfManager`, `CpuTopology`, `CheatDb`, `JniBridge`, library, UI | | see "Not modelled" |

How they interact: every thread calls into `EmuSession`, whose emulation thread
drives everything else. A core writes its save through `SaveFile` to the I/O
worker; its samples through a ring to the audio callback; its states through a capture buffer
to the rewind worker; its picture through `VkStream` and the renderers, or as plain memory, to a
presenter.

What is hard: short critical sections between threads (rewind, rings,
microphone); a flush must have happened when `SetPaused(true)` returns, since
Android may end the process at once; the disk may be full and the power may go; images shared by
renderer, presenter and GPU are destroyed by fences; a 3DS boot runs beside the emulation
thread and may be superseded; the renderer draws late, from copies of registers that a game
changes in the middle of a frame; compute passes are ordered by barriers written by hand. The hazards,
each at its line, are in `PROJECT.json`.

## 2. Modules

| module | models | relation |
|---|---|---|
| `Session` | command queue, loads with generations, the 3DS boot, pause, frame loop of `EmuSession.cpp` | |
| `RewindHistory` | what rewind promises: a bounded stack of whole states | abstract |
| `RewindBuffer` | `RewindBuffer.cpp` | implements `RewindHistory` |
| `RewindSession` | rewind in `EmuSession.cpp` | uses `RewindHistory` for the buffer |
| `SaveStates` | save states and their undo in `EmuSession.cpp`, `lastSavedSlot` of the activity | |
| `IoWorker` | the job queue of `IoWorker.cpp` | |
| `AtomicFile` | `WriteFileAtomic`, the kernel's caches, kill and power cut | |
| `SaveHistory` | what battery saves promise | abstract |
| `SaveFile` | `SaveFile.cpp`, the part of `DsCore` and `EmuSession` that drives it | composes `IoWorker` and `AtomicFile`; implements `SaveHistory` |
| `GbaSave` | `GbaCore`'s snapshots on top of `SaveFile` | |
| `ThreeDs` | `ThreeDsCore.cpp` around the engine | |
| `AudioOutput`, `AudioRing`, `Microphone` | the halves of `AudioEngine.cpp`, `EmuSession`'s use of it, the cores' rings, the activity's permission flow | |
| `Presentation` | the presenters, the window between them, the frame's way to them | |
| `VkStream`, `VkPass` | frame slots and frees; render pass, viewport, scissor, layouts of `vk/VkStream.cpp` | |
| `Layers2D`, `Scanlines`, `Sprites`, `Windows`, `Capture` | `vk/GPU2D_Vulkan.cpp`, `vk/GPU_Vulkan.cpp` | |
| `Spans`, `Variants`, `Frames3D`, `Passes3D`, `Tiles3D` | `vk/GPU3D_Vulkan.cpp` | |
| `Services` | ten services of the session side by side: `RewindBuffer`, `Session`, `IoWorker`, `AtomicFile`, `Microphone`, `AudioOutput`, `AudioRing`, `SaveStates`, `GbaSave`, `ThreeDs` | extends the first, instantiates the others (section 3) |
| `Drawing` | eleven parts of the renderer side by side: `VkPass`, `Layers2D`, `Scanlines`, `Sprites`, `Windows`, `Capture`, `Spans`, `Variants`, `Frames3D`, `Passes3D`, `Tiles3D` | extends the first, instantiates the others |
| `ServicesProofs`, `DrawingProofs` | theorems about every component of the two | |
| other `*Proofs` | theorems about the module they are named after | |
| `MC*` | small instances for TLC; the runs of `SaveStates`, `Microphone` and `VkPass` alone take those modules as they are | |

The actions are named after the functions. A definition marked "Slip" in a
comment is not part of any specification: it is a plausible bug, used to show
that a property would notice it (`PROJECT.json`, "mutants").

**Session.** `call[c]` is where a thread is in `LoadGame`, `LoadThreeDs`, `Stop` or
`SetPaused`, with the variables of that call; `commands` is the queue, `todo` what `RunCommands` has
swapped out of it. A 3DS load is two commands with `Boot` between them on the caller's
thread, under `threeDsLoadLock` (`bootLock`), and compares its generation before it installs. `Decide` is the
one look `ThreadMain` takes at its switches; `PlayFrame` may write the save. `answered` and
`quiet` are history variables.

**RewindBuffer.** A state is a vector of pages; a page is a set of bits, and XOR is
symmetric difference. A delta keeps the changed pages and the size LZ4 gave,
which is any member of `PackedSizes` or a failure. `moments` is a history
variable with the whole states that should be reachable.

**RewindSession.** A console state is a game, a line of play (a boot, a reset and
a state load begin a new one) and a frame number; a snapshot also carries the
epoch, the number of `ClearRewind`s before it. `rewindLock` is held for the whole
of a Push, which is why `WorkerLock` and `WorkerPush` are two steps and everything else
that takes the lock has the guard `LockFree`; `CaptureRewind` only tries the lock and
skips.

**SaveStates.** One slot per game. `SaveState` renames slot to `.undo`, `WriteState` writes (as one step, see
`AtomicFile`), `Told` is the activity hearing of it; `UndoSaveState` runs on another thread in between. `LoadState` keeps
a backup of the console, `Settle` is what makes it final. `Kill` ends the process between any two.

**IoWorker.** `jobs`, `running`, and for every caller blocked in Run or Drain how many jobs
are ahead of it up to its own. Drain is Run of a job that does nothing.

**AtomicFile.** One action per system call of `WriteFileAtomic`. The file system
distinguishes what a reader finds (`target`) from what would survive a power cut
(`durable`); a rename may reach the storage before the content does unless the content
was fsynced.

**SaveFile.** The emulation thread (`emulation`), the I/O worker and the disk
together. `Settle` is the passing of the flush delay. A write is reported by melonDS as an address and a
length modulo the size of the memory, so that writes wrap around and a write of
everything has length 0. Each state of the memory has a version number in
`versions`; `onDisk` and `onStorage` say which the file holds. `lost` and `swapped` remember the two cases in which
a flush may return with less than the newest state in the file: its write has failed, which nobody tries again, or a GBA cartridge was put in.

**GbaSave.** A content is the number of the write that made it. `Snapshot` compares and copies every 60 frames; `Flushed`
and `WorkerWrites` are `SaveFile` seen from above.

**ThreeDs.** What a core holds of the engine (`inits`, `games`), of files (`romFd`, `romLink`, `handle`) and of graphics
(`useVulkan`, `fbo`, `image`); one disjunct per early return of `Prepare` and `Boot`, each with what it gives back.

**AudioOutput** numbers cores and streams; the audio thread's read of a core is two steps, since the core may be
replaced in between (`sourceLock`). **AudioRing** is either kind of ring: a core's, which drops its
oldest frames, and the microphone's, which drops the newest. **Microphone.** The locked parts of `StartMic`, `StopMic` and `SetMicAllowed` are steps; what
they do after giving the lock up is a step of its own (`InterfaceStart`, `EmulationClose`, ...).
A request to the activity is a runnable on its way to the UI thread.

**Presentation.** Loads, stops, restarts, frames, `SetPaused`, a window that comes, changes and goes, `ApplyLiveSettings`
with the renderer and the scale, and `PresentFrame` with each call to the surface, swapchain or Vulkan succeeding or
not. A view is its handle; the driver gives handles of destroyed views out again. `slot[s].bound` is what the code remembers of a descriptor,
`target` what it really stands for, `reads` what the submission in flight samples.

**VkStream.** The stream is one record and the operators `BeginSlot`, `Submit`, `Allocate`,
... take one state of it to the next, as the functions call one another. The GPU's queue
lists the submissions not yet finished with the images they use; waiting for a fence takes everything up
to it off the queue (`AfterFences`). `DestroyTexture` and `WaitForOtherSlots` are the two halves of
one function, split because the GPU goes on between them. **VkPass.** `asked` is a history variable: the viewport and scissor the renderer set last.

**Layers2D.** One background layer is followed. `Fresh` is what `UpdateLayerConfig` would derive from the registers now; the
state is what was derived, when a register that is looked at changed. `ReadsAreWatched` computes the VRAM that the
shader reads and compares it with the watched ranges.
**Scanlines.** A frame of one unit as melonDS calls the renderer: line by line, register and memory writes
between, and the four kinds of section with their own starts. Sprites that are drawn late are drawn from what `DrawSprites` copied, from the
palette and the mapping of the moment they are made, and as windows or not by the register as it is when they are rendered; memory is looked at only with the screen on
(`IsScreenOn`). A finished frame is compared with `asked`, what each line should have, except in what `unsure` and `Anything` name.
**Sprites**, **Windows**: one sprite, one window, evaluated as the renderer does (per section, with edges) and as the
console does (per line, pixel by pixel). **Capture.** A bank of VRAM with its capture flags: the console's VRAM
(`truth`), the renderer's (`vram`), its two textures; `SyncVRAMCapture` copies by the block.

**Spans.** `RenderFrame`'s walk of one polygon's two chains, line by line, from the top vertex towards the bottom one. A vertex has two places: its console pixel
(`FinalPosition`), by which melonDS chooses top and bottom, and its position on the scaled screen, which is walked; with `HiresCoordinates`, the default, that is anywhere
in the pixel, and a polygon's topmost position need not be its top vertex. Polygons are any sequence of vertices, as clipping may leave them.
**Variants.** The choice of a texture variant for each polygon of a frame, with the hints of the frame before; `Equal` is the code's comparison, which leaves the size out. **Frames3D.** When a frame is left out and when the clear bitmap is uploaded.
**Passes3D.** The commands of a frame as a sequence of passes, each with the buffers it reads and writes; what was written since the last barrier
is `fresh`, and a frame begins with what the one before left. **Tiles3D.** `SetRenderSettings`' divisions at every scale from 1 to 16.

## 3. Runs

Passing runs (`expect: pass`):

| run | instance | shows |
|---|---|---|
| `services` | ten components, see below | rewind chain, budget and refinement of `RewindHistory`; every call into the session and the I/O worker returns; a single 3DS engine, none superseded; a pause has flushed; Drain waits for its own job; files whole; saves kept and their backups those of the game; GBA flushes whole and saves eventually written; engine parts never outlive their core; a live audio source, one stream, a closed microphone when forbidden and a heard one when allowed; rings are queues |
| `rewind_session` | two games, three frames, three epochs, a snapshot per frame | at most the two oldest places hold a snapshot from before the last clear; snapshots stay in order; a held button reaches the oldest |
| `saves` | three bytes, transfers of 1, 2 (wrapping) and 3 bytes, three versions; open, write and rename may fail, kills and power cuts between any two steps, a cartridge put in | the file is one whole past state and never goes back (`HistoryKept`); a flush that returned left the newest state in the file, and every state is saved, superseded or gone with its session, unless the write failed (`lost`) or a cartridge was put in (`swapped`) |
| `vk_stream` | three slots, two textures, three images, a ring of 8, pools of two sets | slots are reused when done and a draw stays in one; a deferred free comes once, after the last use, and does come |
| `drawing` | eleven components, see below | scissor and layouts of the pass; watched ranges and pictures of layers; lines, sprites, windows and captures as the console has them; spans, variants, left-out frames, order of passes and tiles of the 3D renderer |
| `presentation` | one window, two slots, all kinds of game and handles | one presenter has the window; what a submission samples is live unless the scale changed; what is to be redrawn is |

Runs that end in a counterexample (`expect: violation`), each with the sentence of
the repository it contradicts in `PROJECT.json`, "findings":

| run | what happens |
|---|---|
| `save_lost` | a save that cannot be written has moved the one before out of the slot, and undoing is refused |
| `stale_view` | a change of scale destroys the output textures while the presenter's last submission samples one, and the slots keep the handles |
| `vk_idle_destroy` | a texture destroyed while the current slot is idle is freed under commands in flight |
| `vk_viewport` | a reopened pass has lost the viewport |
| `mic_left_open` | the UI thread opens a microphone the game has just closed |

**Components side by side.** `Services` and `Drawing` hold many small state machines in one specification, `SpecAll`. The variable
`component` is chosen in the initial state and never changes; the component it names takes its own Init and its own steps, on variables of its
own. The variables of the others are 0 and stay so (`OthersRest`; the component a module extends rests in an initial state of its own). A behaviour is thus a behaviour of exactly one component, and a property `P` of it is stated
as `component = "X" => X!P`. Nothing is abstracted and no component sees another: it is a way to check and to prove about all of them together, for generic constants. `FairAll` adds
each component's fairness, action by action. Components that do interact are composed in
modules of their own (`SaveFile` with `IoWorker` and `AtomicFile`, `RewindSession` with `RewindHistory`).

| in | component | bounds |
|---|---|---|
| `services` | `RewindBuffer` | pages of one bit, one or two of them, budgets that evict everything, some and nothing, packed sizes 2 and 3, three deltas |
| | `Session` | two callers, one 3DS and one other game, two loads or stops |
| | `IoWorker` | two callers, two kinds of job, four queued |
| | `AtomicFile` | three contents; open, write, fsync and rename may fail; kills and power cuts |
| | `SaveStates` | two games, three moments of play (four in `save_lost`) |
| | `GbaSave` | four writes |
| | `ThreeDs` | no bound: one object after the other |
| | `AudioOutput` | three cores, four streams |
| | `AudioRing` | three frames, calls of up to four, numbers modulo 5 |
| | `Microphone` | three requests on their way |
| `drawing` | `VkPass` | three textures |
| | `Layers2D` | layer 2 of engine A, text, affine, extended and large modes, an even and an odd tile base, two sizes |
| | `Scanlines` | three lines, two versions of each register and memory, four writes |
| | `Sprites` | heights of the hardware, 24 and 32 units of eight lines; all positions |
| | `Windows` | four pixels, all edges |
| | `Capture` | two captured frames in a bank of four blocks |
| | `Spans` | three to five corners, of eight vertices on a screen of 2 by 3 pixels at scale 2 |
| | `Variants` | five textures, two of them captures of two heights, two blendings, three polygons |
| | `Frames3D` | two scales |
| | `Passes3D` | no bound: frame after frame with every shape |
| | `Tiles3D` | all scales, 1 to 16 |

Every bound is a constant described as "bound" in its module. They are enough for what
the properties compare: two callers can each be in the other's way, and one load can overtake one stop; two pages make a delta that
skips one; three epochs and three frames give a stale snapshot, a fresh
one and one in between; three bytes allow a transfer that wraps and one that does not; three versions allow a write that is queued
behind another while a third is made; three slots are the code's `kSlots` and two are `kFramesInFlight`, and a ring of 8 with draws of
two blocks fills up within a slot; the ring of three loses frames with calls of four; three lines have a first, a middle and a last section;
a bank's four blocks hold a capture that runs over its end; five corners of eight vertices give flat tops, flat bottoms, shared lines, both orientations, polygons that
are not convex or reach below the screen, and a top or bottom vertex that is not the topmost or lowest position; two heights of a capture share a variant. Where the result does not depend on the bound it is proved (section 4).

**Fairness.** Every assumption is weak fairness of one action.

| run | weakly fair | because |
|---|---|---|
| `services` | `Session`: `Emulation`, `GoOn(c)` of each caller | the emulation thread is never stopped; a thread that has begun a call goes on with it, and a 3DS boot ends |
| | `IoWorker`: `Take`, `Finish` | the worker's loop, and jobs end |
| | `Microphone`: `EmulationFinishes`, `Interface` | what follows a lock given up is done; the UI thread runs what is posted to it |
| | `GbaSave`: `Snapshot`, `CheckFlush`, `Flushed`, `WorkerWrites` | frames go on, time passes, the worker works |
| `rewind_session` | `Worker`; `DoRewindStep` while not paused | the rewind worker is never stopped; frames run unless paused |
| `saves` | `Settle`, `CheckFlush`, `Worker`, `FlushReturns` | the flush delay ends, frames go on, the worker works, a blocked flush is woken |
| `vk_stream` | `EndFrame`, `WaitForOtherSlots` | frames go on; waiting for a fence ends |
| `presentation` | `GpuFinishes`, `PresentFrame` | the GPU finishes what it was given; frames are presented |

Nothing is assumed of the player, of the game or of the kernel's
writeback. Deadlock is checked in `rewind_session`, `saves` and `vk_stream`; it is off where a component may stop: at its bounds in `services` and `drawing`, after a failed submit in
`presentation`. Whether callers wait for one another is asked as liveness instead (`EveryCallReturns`).

**What the passing runs leave out.** The code can do the following, and the
properties named then fail or have to be weaker; each is a hazard in `PROJECT.json`.

- `StaleOnlyOldest` is a bound on something that happens: the rewind worker pushes a snapshot it took
  before `ClearRewind`. `EpochsInOrder` does not order snapshots within one epoch: a step back that
  overtakes the snapshot the worker holds lets a later step go forward.
- `AtomicFile`: the code does not look at the result of fsync. After one has failed (`fsyncFailed`) nothing is claimed: a
  power cut may leave half a file. `SaveFile` assumes an fsync that works. The directory is not fsynced, so a power cut may
  bring back a whole, older save, also after a flush has returned; `HistoryKept` allows that to a power cut only.
- `SaveFile`, `GbaSave`: a failed write is forgotten by the code, though FlushNow returns; what is said of flushes excepts it. A GBA cartridge
  put in within the flush delay gives the console the older save, which `SavedFileIsSound` and `EventuallySaved` except by `swapped`.
- `SaveStates`: an `UndoSaveState` that meets a `SaveState` of the same slot can lose a state (`raced`).
- `Microphone`: forbidding the microphone forgets that the game wants it, so `EventuallyHeard` speaks of settings left alone.
- `Presentation`: after a failed `vkQueueSubmit` the fence was reset and will not be signalled (VulkanPresenter.cpp:700), so `EventuallyShown` ends there.
- `Layers2D`: direct colour bitmaps and the small sizes of the large layer are watched too short; BG0 and BG1 can keep an old picture. The properties except them by name.
- `Capture`: a capture that runs over the end of the bank is copied to VRAM wrongly (`RunsOver`), and sections may begin behind it (`split`, `wrapped`).
- `Scanlines`: a captured line that was dark shows VRAM that is not looked at. Objects are excepted in four ways: of lines that wait to be composed when the object window is
  switched, sprites become windows, or cease to be, with the register's new value (GPU2D_Vulkan.cpp:1252 is called before the copy is updated at 355); OBJ VRAM written while the screen is off is not
  looked at until it is on (1376); a mapping written between `DrawSprites` and `DrawScanline` of a line applies to that line already; and a write of the objects' palettes shows only when
  sprites are made anew for another reason (430).
- `Spans`: above the top vertex's position and below the bottom one's, which happens with `HiresCoordinates`, a line has edges that need not cross it; these lines are in the pixels of the two
  vertices. That the left edge is left of the right one is claimed of flat polygons only: a polygon may be crossed.
- `Variants`: captures of one width and offset but different heights share a variant, since `operator==` does not compare the size (GPU3D_Vulkan.cpp:664), and are drawn with the height of the first (`HeightIsTaken`).
- `Frames3D`: textures that are captures can change without notice.
- `VkStream`: `FreesAreSound` speaks of the destructions that are deferred; `vk_idle_destroy` shows what happens to the others.

## 4. Proofs

Every invariant and every action property of the passing runs is also a theorem, for every value of the constants that
satisfies the assumptions below. Hardly any of these properties is inductive as it stands: `OneEngine` says nothing of a load that has the lock and no core yet, `ChainSound` needs all
states to have one layout, `WholeFile` the temporary file, `LinesAreBounded` where the two walks are. Each proof therefore has an invariant, named here, that begins true, that every action keeps (one
lemma or step per action), and that implies the property.

| module | theorem (property of a run) | invariant and argument |
|---|---|---|
| `RewindBufferProofs` | `TypeCorrect` (of `TypeOK`), `ChainAlwaysSound` (`ChainSound`) | `IInv`: types, one layout for all states, and the delta between neighbours undoes the newer to the older. XOR twice is the identity page by page; a Push adds one delta at the end, eviction and Pop take one off either end |
| | `BudgetIsKept` (`PushKeepsBudget`) | the bytes counted are the sum over the chain; such a sum loses at either end what is cut off there (`RunCosts`, `ChainCosts`: by induction over its length) |
| | `BufferImplementsHistory` (`ImplementsHistory`) | refinement: each step of the buffer is a step or a stutter of `RewindHistory` |
| `RewindSessionProofs` | `TypeCorrect`, `StaleIsBounded` (`StaleOnlyOldest`), `EpochsAlwaysInOrder` (`EpochsInOrder`) | `IInv`: the buffer followed by what is on its way to it is one line; epochs do not decrease along it, and what is stale is at most what was in flight at the last clear: two snapshots |
| `SaveFileProofs` | `SavedFileStaysSound` (`SavedFileIsSound`) | `SaveInv`: what waits to be written are whole versions, newer than the file and in the order of the queue (`QueueInv`); the write under way is the running job's, and the temporary file is whole at the rename (`CallInv`); the copy is the console's memory (`MemoryInv`). `NewestInv` says where a version not in the file yet is: in the memory marked dirty, in the queue, in the job that runs, or lost |
| | `SaveKeepsHistory` (`HistoryKept`) | refinement of `SaveHistory` under that invariant: a rename installs a version no older than the one in the file; only a power cut goes back |
| `VkPassProofs` | `TypeCorrect`, `DrawsSampleReadable` (`SampledIsReadable`), `ScissorSurvives` (`ScissorKept`) | a lemma per stream operator (what it does to target, scissor and layouts); `Reopen` restores target and scissor, and touches no layout but the target's |
| `VkStreamProofs` | `SlotsStaySound` (`SlotsAreSound`), `FreesStaySound` (`FreesAreSound`) | `StreamInv`: slots are begun in turn and their submissions queue in that order, so that a slot's fence takes the slot's own submissions and those before off the queue; an image is live, in one slot's list of frees, or freed, and a freed one is used nowhere. What a draw allocates is proved for any number of uniform blocks, by induction over them |
| `PresentationProofs` | `OutputStaysSound` (`OutputIsSound`) | `OutputInv`: as long as the scale stays, what a slot remembers of its descriptor (`bound`, `reads`) is what that stands for (`target`), though handles come back; a presenter that is not used remembers nothing, and the window has one owner |
| `ServicesProofs` | `OneEngineAlways` (`OneEngine`), `SupersededStaysOut` (`SupersededNeverInstalled`), `PauseFlushes` (`PausedMeansFlushed`) | `CallsInv`: the queue with what was taken from it is one line, in which a waiting caller has one command; from taking the lock to the second command a 3DS load owns it (`LockInv`), and the first command has shut down what was installed (`EngineInv`). No generation is ahead of the session's, and an installed core's is not behind what took effect (`GenerationInv`). A quiet session is paused, unstepped and in no frame (`PauseInv`) |
| | `NoCallerIsLost`, `DrainReturnsLast` (`DrainWaits`) | `JobOfEachCaller`: a blocked caller's job is in the line exactly where its count says. Enqueue appends, Take leaves the line alone, Finish takes its head off and lowers every count |
| | `FileIsAlwaysWhole` (`WholeFile`), `FileChangesAtOnce` | `StorageInv`: from the end of the write loop to the rename the temporary file is the whole content; until an fsync fails, what is renamed is on the storage (`SyncInv`), which the kernel's writeback and a power cut preserve. The second theorem holds after a failed fsync too |
| | `AudioStaysSafe` (`AudioIsSafe`) | what is read is the source, and a source is a core that nobody replaces (`SourceInv`); a lost stream does not play, and the engine has no stream once the output was given up (`StreamInv`); the microphone's half is inductive |
| | `RingStaysQueue` (`RingIsQueue`) | `QueueInv`: position for position the ring holds the frames not read yet, both positions being numbers modulo the ring; a call is a sequence of single frames, and what is dropped is one end of the queue |
| | `StatesAreAlwaysKept` (`StatesAreKept`) | `StatesInv`: the files of slot and `.undo` through each of the steps between which a kill may come |
| | `FlushIsAlwaysWhole` (`FlushIsWhole`) | `SnapshotInv`: snapshots in order from the copy to the file, and none newer than the memory |
| | `EngineIsAlwaysKept` (`EngineIsKept`) | `HeldInv`: for each place where `Prepare` or `Boot` returns early, what the core holds there |
| `DrawingProofs` | `ReadsAreAlwaysWatched` (`ReadsAreWatched`), `PictureStaysCurrent` (`PictureIsCurrent`) | `LayerInv`: what was derived from the registers is what `UpdateLayerConfig` would derive from those seen, and a rendered layer is the one memory had when its range was last looked at |
| | `LinesStayTheirOwn` (`LinesAreTheirOwn`) | `ScanInv`: a line before the start of a stage's section is as it was asked for, and from there on the renderer's copies are those the lines ask for (`LineIsKept`); memory not marked dirty is as it was copied, sprites not marked are made of the copies (`CopiesAreMarked`), and the copies are those that were due (`CopiesWereDue`), each as far as `unsure` promises it |
| | `SpritesStayOnLines` (`SpriteOnItsLines`) | `ObjInv`: coordinates that wrap around, compared as the renderer and as the console do |
| | `WindowStaysExact` (`WindowIsExact`) | `WinInv`: until something changes a window on the line, both flags are what its edges say before the first pixel; the parts between two edges are then the console's, pixel by pixel (`PartsAreExact`) |
| | `VariantStaysOwn` (`VariantIsOwn`) | `VariInv`: every polygon sorted so far has a variant equal to its own, as the code compares, and of the size of one of the polygons that share it; textures of one array have one size, captures of one width (`TexturesAssumption`); `Find` returns the variant asked for or the place for it (`FindIs`) |
| | `FrameStaysCurrent` (`FrameIsCurrent`) | `FrameInv`: what was uploaded is what is in memory unless marked dirty; a frame left out is the one shown |
| | `TilesAlwaysCover` (`TilesCoverScreen`) | `TileInv`: sizes are those of the scale; a lemma per range of scales divides the screen, the coarse tiles and the groups |
| | `PassesStayInOrder` (`PassesInOrder`) | `OrderInv`: what the passes already recorded have left without a barrier, for a frame with polygons and for one without; each pass of `RenderFrame` in turn |
| | `CaptureStaysSound` (`CaptureIsSound`) | `CaptInv`: the flags of a capture's blocks agree with one another; the blocks of the running capture have its settings; every other cell is in VRAM, in one texture, or in both as the flags say |
| | `LinesStayBounded` (`LinesAreBounded`) | `EdgeInv`: each walk is at an edge that begins at or above the line, or at its first. Down either chain all vertices come, the bottom one too, so a walk ends (`WalkIs`), and what it passed does not reach below the line; where the bottom vertex is below the line, the edge it ends at crosses it (`EdgeCrosses`). Rows of pixels come before positions in them (`RowsComeFirst`), which bounds the lines outside; bounds only widen |

**Assumptions.** They say what a constant is, and nothing about behaviour. `ServicesAssumption`: the two kinds of game differ and the lock's free value is no thread (`CallersAssumption`); what stands for
no job, no file and half a file is none (`WorkerAssumption`, `FileAssumption`); a ring has a size and its positions a modulus (`RingAssumption`). `DrawingAssumption`: tile and map bases and sizes are those the registers can
hold (`RegistersAssumption`), there are lines, columns and rows (`SectionsAssumption`, `LinesAssumption`, `WidthAssumption`), vertices are in the range of `FinalPosition` and, scaled, of `HiresPosition`, on a screen and at a scale of any size
(`ScreenAssumption`), textures of one array have one size and captures of one array one width (`TexturesAssumption`), and scales are natural numbers up to a bound far above the setting's
(`ScaleAssumption`). `BufferAssumption`, `SessionAssumption` and `SentinelAssumption` (rewind), `PassAssumption` and `PresenterAssumption` are of the same kind. Three leave something out: `SaveAssumption` has no failing fsync (`AtomicFile` has),
`StreamAssumption` keeps uploads within the ring, and `DrawAssumption` says that each draw fits the ring by itself, which the renderers' draws do.

**Induction.** The prover cannot instantiate theorems that take an operator, which excludes the library's induction over data. What a recursive function computes was
proved where it was needed by another way: a set of counterexamples has a least member (`LeastOfSet`, from the well-foundedness of the natural
numbers), which cannot be. So were proved what `StoreAll`, `PutUniforms` and the ring do call by call, what a sum over a chain is, how far the walk down a polygon goes.

**Only model-checked.** The liveness properties `EveryCallReturns`, `EventuallyHeard`, `EventuallyInFile`, `HeldRewindReachesOldest`, `EventuallySaved`, `EventuallyFreed` and `EventuallyShown`: fairness
needs ENABLED, which the prover does not have. And the counterexamples of the second table in section 3, which are single behaviours.

## 5. Not modelled

Vendored code; shaders and their converters, pixel arithmetic of the renderers, sprite textures and the texture cache; JNI
argument conversion; `ConfigStore` (single map accesses under a lock); `LogBuffer`; `CheatDb`, ROM headers and the library
scan (parsers, I/O); screen and control layouts (geometry); Compose screens; ADPF and sysfs wrappers; pacing, fast forward and statistics of the frame loop. In `SaveFile`,
the emulation thread is the only client of the worker; the `.tmp` file is not shared with `SaveTransfer`. In
`VkStream`, submits succeed; after a lost device nothing is claimed. The caches of pipelines and framebuffers are left out.

Seen while modelling, without a property: backups made within one second have the same name (SaveFile.cpp:119); a 3DS boot that fails after `context_reset` does
not call `context_destroy`; the GL presenter keeps the texture of a core that is gone until the next frame (GLPresenter.cpp:371); a change of scale clears the capture
textures.

## 6. Plan

Models that are left, in order: **GamepadMapper** (held keys and combinations, hotkeys that pair up); **SaveTransfer** and backups against a game
that still flushes; the thermal policy and `ApplyLiveSettings` of the other settings; the surface and resume half of
`EmulationActivity`. Proofs that are left: what remains true in the cases the properties except by name (a failed fsync, a raced undo, a wrapped capture), and a
refinement from `GbaSave` to `SaveHistory`, so that the two kinds of save promise the same.

## 7. Running

    tlc -workers 2 -config MCServices.cfg MCServices
    tlapm ServicesProofs.tla

A run is a line of `PROJECT.json`, "runs": module and configuration.

`DrawingProofs` takes some minutes from nothing; every other module takes less.
