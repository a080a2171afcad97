------------------------------ MODULE Capture ------------------------------
(***************************************************************************)
(* Display captures in one bank of VRAM (vk/GPU_Vulkan.cpp).  The console     *)
(* writes a capture to VRAM; the renderer writes it, at its own resolution, to    *)
(* a texture, and copies it to VRAM only when the CPU reads or writes there.       *)
(* Which block belongs to which capture is noted by melonDS (GPU.cpp:              *)
(* CheckCaptureStart, CheckCaptureEnd, SyncVRAMCaptureBlock), external.              *)
(*                                                                                    *)
(* A bank has four blocks.  A capture 256 wide fills one with 64 lines, one 128 wide    *)
(* with 128: lines are counted in units of 64, and a block is two halves of 16 KB.        *)
(***************************************************************************)
EXTENDS Naturals, FiniteSets

CONSTANT MaxFrames   \* bound: frames with a capture

Blocks == 0 .. 3
Halves == 0 .. 1
Cells  == Blocks \X Halves

VARIABLES
  truth,     \* history: what the console's VRAM has
  vram,      \* what melonDS's has
  wide,      \* CaptureOutput256Tex, by cell
  narrow,    \* CaptureOutput128Tex, by block
  flags,     \* VRAMCaptureBlockFlags
  capture,   \* the capture that is going on: offset, size, LastCapLine
  line,      \* of the frame, in units of 64; 3 at VBlank
  settings,  \* CaptureCnt without offset and size
  frames,    \* captures so far
  split,     \* history: a section began behind the end of the bank
  wrapped    \* history: a capture that ran over the end of the bank was copied to VRAM

memories == <<truth, vram, wide, narrow>>
vars == <<memories, flags, capture, line, settings, frames, split, wrapped>>

NoCapture == [is |-> FALSE, start |-> 0, size |-> 0, complete |-> FALSE, synced |-> FALSE]
Idle == [on |-> FALSE, offset |-> 0, size |-> 0, from |-> 0]

Old == [frame |-> 0, line |-> 0, settings |-> 0]

Init ==
  /\ truth = [c \in Cells |-> Old] /\ vram = truth
  /\ wide = [c \in Cells |-> Old] /\ narrow = [c \in Cells |-> Old]
  /\ flags = [b \in Blocks |-> NoCapture]
  /\ capture = Idle
  /\ line = 0
  /\ settings = 0
  /\ frames = 0
  /\ split = FALSE /\ wrapped = FALSE

-----------------------------------------------------------------------------
(* melonDS                                                                  *)

Length(size) == IF size = 0 THEN 1 ELSE size

BlocksOf(start, size) == {(start + i) % 4 : i \in 0 .. Length(size) - 1}

\* VRAMCBFlagsSet, VRAMCBFlagsClear.
Mark(f, start, size, value) == [b \in Blocks |-> IF b \in BlocksOf(start, size) THEN value ELSE f[b]]

-----------------------------------------------------------------------------
(* SyncVRAMCapture                                                          *)

\* A turn of the loop: the blocks it copies, and where the next one begins.  The end
\* of each is counted with the length of the whole capture.
CopyTurn(turn, length) ==
  LET end == IF turn.start + length > 4 THEN 4 ELSE turn.start + length
  IN IF turn.done >= length THEN turn
     ELSE [start |-> end % 4, done |-> turn.done + end - turn.start,
           blocks |-> turn.blocks \cup (turn.start .. end - 1)]

\* A turn copies a block at least, and a capture has three at most.
Copied(start, length) ==
  LET first == CopyTurn([start |-> start, done |-> 0, blocks |-> {}], length)
  IN CopyTurn(CopyTurn(first, length), length).blocks

\* Slip: the last block of a capture is left out.
SyncedBlocksShort(start, size) ==
  IF size = 0 THEN {start} ELSE Copied(start, size) \ {(start + size) % 4, (start + size + 3) % 4}

SyncedBlocks(start, size) == IF size = 0 THEN {start} ELSE Copied(start, size)

\* DownscaleCapture and PackCapture keep what is there.
SyncVRAMCapture(v, start, size) ==
  [c \in Cells |-> IF c[1] \notin SyncedBlocks(start, size) THEN v[c]
                   ELSE IF size = 0 THEN narrow[c] ELSE wide[c]]

RunsOver(start, size) == start + Length(size) > 4

-----------------------------------------------------------------------------
(* Frames                                                                   *)

\* CheckCaptureStart: of the old captures a new one lies on, those of another place
\* or size are copied to VRAM and forgotten, one after the other.
Invalidated(offset, size) ==
  LET Forget(s, old) ==
        IF ~old.is \/ (old.start = offset /\ old.size = size) THEN s
        ELSE [flags   |-> Mark(s.flags, old.start, old.size, NoCapture),
              vram    |-> SyncVRAMCapture(s.vram, old.start, old.size),
              wrapped |-> s.wrapped \/ RunsOver(old.start, old.size)]
      after[i \in 0 .. Length(size)] ==
        IF i = 0 THEN [flags |-> flags, vram |-> vram, wrapped |-> wrapped]
        ELSE Forget(after[i - 1], after[i - 1].flags[(offset + i - 1) % 4])
  IN after[Length(size)]

\* A frame begins with a capture.
StartCapture(offset, size) ==
  /\ line = 0 /\ ~capture.on
  /\ frames < MaxFrames
  /\ frames' = frames + 1
  /\ capture' = [on |-> TRUE, offset |-> offset, size |-> size, from |-> 0]
  /\ LET rest == Invalidated(offset, size)
     IN /\ vram' = rest.vram
        /\ wrapped' = rest.wrapped
        /\ flags' = Mark(rest.flags, offset, size,
                         [NoCapture EXCEPT !.is = TRUE, !.start = offset, !.size = size])
  /\ UNCHANGED <<truth, wide, narrow, line, settings, split>>

\* Where the console puts a line of the capture.
Cell(offset, size, l) ==
  IF size = 0 THEN {<<offset, l>>} ELSE {(offset + l) % 4} \X Halves

\* The height of a capture, in lines.
Height(size) == IF size = 0 THEN 2 ELSE size

Value(l, s) == [frame |-> frames, line |-> l, settings |-> s]

\* DoCapture of the lines from .. to-1: one quad, or two if the rows run over the end
\* of the bank.  A quad that begins behind the end is drawn from the top of the bank.
Quads(offset, size, from, to) ==
  LET y0 == (IF size = 0 THEN 0 ELSE offset) + from
      y1 == (IF size = 0 THEN 0 ELSE offset) + to
      end == IF size = 0 THEN 2 ELSE 4
  IN IF y1 <= end THEN {<<y, y - y0 + from>> : y \in y0 .. y1 - 1}
     ELSE {<<y, y - y0 + from>> : y \in y0 .. end - 1} \cup {<<y, y + end - y0 + from>> : y \in 0 .. y1 - end - 1}

\* The row a cell is in, of the texture of a capture.
Row(offset, size, c) == IF size > 0 THEN c[1] ELSE IF c[1] = offset THEN c[2] ELSE 4

DoCapture(from, to) ==
  LET yend == IF to > Height(capture.size) THEN Height(capture.size) ELSE to
      rows == IF yend <= from THEN {} ELSE Quads(capture.offset, capture.size, from, yend)
      InRow(r, c) == r \in rows /\ r[1] = Row(capture.offset, capture.size, c)
      Drawn(old) ==
        [c \in Cells |-> IF \E r \in rows : InRow(r, c)
                         THEN Value((CHOOSE r \in rows : InRow(r, c))[2], settings) ELSE old[c]]
  IN IF capture.size = 0 THEN narrow' = Drawn(narrow) /\ UNCHANGED wide
     ELSE wide' = Drawn(wide) /\ UNCHANGED narrow

\* The console draws a line, and writes it to VRAM if it captures.
DrawLine ==
  /\ line < 3
  /\ capture.on
  /\ line' = line + 1
  /\ truth' = IF line < Height(capture.size)
              THEN [c \in Cells |-> IF c \in Cell(capture.offset, capture.size, line)
                                    THEN Value(line, settings) ELSE truth[c]]
              ELSE truth
  /\ UNCHANGED <<vram, wide, narrow, flags, capture, settings, frames, split, wrapped>>

\* Before a line the game changes how the capture is made, in CaptureCnt: the lines so
\* far are captured with the old settings.
ChangeSettings ==
  /\ capture.on /\ line \in 1 .. 2
  /\ settings = 0 /\ settings' = 1
  /\ DoCapture(capture.from, line)
  /\ capture' = [capture EXCEPT !.from = line]
  /\ split' = (split \/ (capture.size > 0 /\ capture.offset + line > 4 /\ line < capture.size))
  /\ UNCHANGED <<truth, vram, flags, line, frames, wrapped>>

\* CheckCaptureEnd, VBlank.
EndCapture ==
  /\ capture.on /\ line = 3
  /\ DoCapture(capture.from, 3)
  /\ flags' = [b \in Blocks |-> IF b \in BlocksOf(capture.offset, capture.size)
                                THEN [flags[b] EXCEPT !.complete = TRUE] ELSE flags[b]]
  /\ capture' = Idle /\ line' = 0 /\ settings' = 0
  /\ UNCHANGED <<truth, vram, frames, split, wrapped>>

\* The CPU reads or writes a block; bound: not of a capture that is going on, which
\* melonDS reports as an error.
Accessible(b) == ~(capture.on /\ b \in BlocksOf(capture.offset, capture.size))

\* SyncVRAMCaptureBlock, and the access.
Access(b, write) ==
  /\ Accessible(b)
  /\ LET f == flags[b]
         synced == IF f.is /\ ~f.synced THEN SyncVRAMCapture(vram, f.start, f.size) ELSE vram
         Written(m) == [c \in Cells |-> IF write /\ c[1] = b THEN Old ELSE m[c]]
     IN /\ vram' = Written(synced)
        /\ truth' = Written(truth)
        /\ flags' = IF ~f.is THEN flags
                    ELSE Mark(flags, f.start, f.size, IF write THEN NoCapture ELSE [f EXCEPT !.synced = TRUE])
        /\ wrapped' = (wrapped \/ (f.is /\ ~f.synced /\ RunsOver(f.start, f.size)))
  /\ UNCHANGED <<wide, narrow, capture, line, settings, frames, split>>

Next ==
  \/ \E offset \in Blocks, size \in 0 .. 3 : StartCapture(offset, size)
  \/ DrawLine \/ ChangeSettings \/ EndCapture
  \/ \E b \in Blocks, write \in BOOLEAN : Access(b, write)

Spec == Init /\ [][Next]_vars

-----------------------------------------------------------------------------
(* Properties                                                               *)

\* What a layer, a sprite or a texture shows of a block.
Shown(c) ==
  LET f == flags[c[1]] IN IF ~f.is THEN vram[c] ELSE IF f.size = 0 THEN narrow[c] ELSE wide[c]

\* What the CPU would read.
Read(c) ==
  LET f == flags[c[1]] IN IF f.is /\ ~f.synced THEN SyncVRAMCapture(vram, f.start, f.size)[c] ELSE vram[c]

\* Outside a capture that is going on, what is shown is what the console's VRAM
\* has; unless a section that began behind the end of the bank drew rows again.
CaptureIsShown ==
  ~split /\ ~wrapped => \A c \in Cells : Accessible(c[1]) => Shown(c) = truth[c]

\* And so is what the CPU reads, if no capture that runs over the end of the bank was
\* copied.
CaptureIsRead ==
  ~split /\ ~wrapped =>
    \A c \in Cells : Accessible(c[1]) /\ ~RunsOver(flags[c[1]].start, flags[c[1]].size) => Read(c) = truth[c]
=============================================================================
