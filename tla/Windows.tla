------------------------------ MODULE Windows ------------------------------
(***************************************************************************)
(* One window of a 2D unit.  The console goes through the pixels of a line     *)
(* and switches the window on at its left and off at its right edge; what it is  *)
(* at the end of a line it still is at the beginning of the next.  The renderer     *)
(* (UpdateScanlineConfig, vk/GPU2D_Vulkan.cpp) gives the compositor two edges and     *)
(* which of the three parts lie inside.                                                *)
(***************************************************************************)
EXTENDS Integers

CONSTANT Width   \* of a line: 256

VARIABLES
  edges,     \* WinCoords: left and right
  active,    \* WinActive bit 0: the line is between top and bottom (GPU2D::UpdateWindows)
  inside,    \* WinActive bit 1, as the renderer keeps it
  console,   \* history: the same as the console has it
  changed,   \* history: the edges are others than when a line was last active
  line       \* the line just drawn: the renderer's pixels and the console's

vars == <<edges, active, inside, console, changed, line>>

WidthAssumption == Width \in Nat \ {0}

Pixels == 0 .. Width - 1
Edges == [left : Pixels, right : Pixels]

Init ==
  /\ edges \in Edges
  /\ active = FALSE /\ inside = FALSE /\ console = FALSE
  /\ changed = TRUE  \* no line was active yet
  /\ line = [renderer |-> {}, console |-> {}, exact |-> TRUE]

\* The game moves the window between two lines.
Move ==
  /\ edges' \in Edges
  /\ changed' = (changed \/ edges' # edges)
  /\ UNCHANGED <<active, inside, console, line>>

UpdateWindows ==
  /\ active' = ~active
  /\ UNCHANGED <<edges, inside, console, changed, line>>

\* Slip: what the window was before the line is forgotten.
PartsLeftOut(left, right, was) ==
  IF left <= right THEN {"middle"} ELSE {"right"}

\* WinMask: the parts that are inside, by what the window was before the line.
Parts(left, right, was) ==
  (IF was THEN {"left"} ELSE {}) \cup (IF left <= right THEN {"middle"} ELSE {"right"})

\* Where the compositor finds pixel x (shaders/ds/compositor.frag).
Part(x) ==
  LET first == IF edges.left <= edges.right THEN edges.left ELSE edges.right
      second == IF edges.left <= edges.right THEN edges.right ELSE edges.left
  IN IF x < first THEN "left" ELSE IF x < second THEN "middle" ELSE "right"

\* The console's window at pixel x, as GPU2D::CalculateWindowMask has it.
WindowAt[x \in -1 .. Width - 1] ==
  IF x = -1 THEN console
  ELSE IF x = edges.right THEN FALSE ELSE IF x = edges.left THEN TRUE ELSE WindowAt[x - 1]

DrawLine ==
  /\ line' = [renderer |-> IF active THEN {x \in Pixels : Part(x) \in Parts(edges.left, edges.right, inside)} ELSE {},
              console  |-> IF active THEN {x \in Pixels : WindowAt[x]} ELSE {},
              exact    |-> ~changed]
  /\ inside' = IF active THEN edges.left > edges.right ELSE inside
  /\ console' = WindowAt[Width - 1]
  /\ changed' = (changed /\ ~active)
  /\ UNCHANGED <<edges, active>>

Next == Move \/ UpdateWindows \/ DrawLine

Spec == Init /\ [][Next]_vars

-----------------------------------------------------------------------------

\* The pixels inside are the console's.  Not if the edges were moved since a line was
\* last active: outside its lines the console goes on, and the renderer does not.
WindowIsExact == line.exact => line.renderer = line.console
=============================================================================
