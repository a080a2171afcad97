------------------------------- MODULE Spans -------------------------------
(***************************************************************************)
(* The edges of one polygon (vk/GPU3D_Vulkan.cpp, VulkanCompute3D::RenderFrame): *)
(* from its top vertex the left and the right chain are walked down line by line,   *)
(* and each line notes which span, an edge, bounds it on either side.                *)
(*                                                                                     *)
(* A vertex is in two places: its pixel on the console (FinalPosition), by which melonDS *)
(* says which vertex is top and which is bottom, and its position on the scaled screen,    *)
(* which is walked.  With HiresCoordinates, as is the default, a position may be anywhere    *)
(* in its pixel; without, it is the pixel's corner.                                            *)
(***************************************************************************)
EXTENDS Integers

CONSTANTS
  Columns, Rows,   \* of the console's screen: 256, 192
  ScaleFactor,
  Vertices,        \* [x, y: scaledPositions; column, row: FinalPosition]
  MaxCorners       \* of a polygon: 10, when it was clipped

VARIABLES
  polygon,   \* vertices in order, FacingView
  left,      \* curVL and its span
  right,     \* curVR and its span
  y,         \* the next line
  lines,     \* YSpanIndices: the spans of each line so far
  bounds     \* RenderPolygon.XMin, XMax

vars == <<polygon, left, right, y, lines, bounds>>

ScreenHeight == Rows * ScaleFactor

\* FinalPosition has 9 and 8 bits, HiresPosition 4 more of them.
ScreenAssumption ==
  /\ Columns \in Nat /\ Rows \in Nat /\ ScaleFactor \in Nat \ {0} /\ MaxCorners \in Nat
  /\ Vertices \subseteq [x : 0 .. 512 * ScaleFactor, y : 0 .. 256 * ScaleFactor, column : 0 .. 511, row : 0 .. 255]

\* Whatever vertices the game submits and clipping leaves, and whichever way they go round.
Polygons ==
  UNION {[vertices : [1 .. n -> Vertices], corners : {n}, facing : BOOLEAN] : n \in 3 .. MaxCorners}

Verts(poly) == 1 .. poly.corners
At(poly, v) == poly.vertices[v]

\* ytop starts at ScreenHeight, below which no line is drawn; ybot is of all vertices.
YTop(poly) ==
  CHOOSE r \in 0 .. 256 * ScaleFactor :
    /\ r = ScreenHeight \/ \E v \in Verts(poly) : At(poly, v).y = r
    /\ r <= ScreenHeight /\ \A v \in Verts(poly) : r <= At(poly, v).y
YBot(poly) ==
  CHOOSE r \in 0 .. 256 * ScaleFactor :
    /\ \E v \in Verts(poly) : At(poly, v).y = r
    /\ \A v \in Verts(poly) : At(poly, v).y <= r

\* Of GPU3D (melonDS), by the console's pixels: the first of the top vertices, or the very
\* first if none is on the screen, and the right one of the bottom ones.
IsTop(poly, v) ==
  /\ At(poly, v).row < Rows
  /\ \A w \in Verts(poly) : At(poly, v).row <= At(poly, w).row /\ (At(poly, v).row = At(poly, w).row => v <= w)

VTop(poly) == IF \E v \in Verts(poly) : IsTop(poly, v) THEN CHOOSE v \in Verts(poly) : IsTop(poly, v) ELSE 1

\* Rows before columns.
Reach(vertex) == 512 * vertex.row + vertex.column

VBottom(poly) ==
  CHOOSE v \in Verts(poly) :
    \A w \in Verts(poly) : /\ Reach(At(poly, w)) <= Reach(At(poly, v))
                           /\ Reach(At(poly, w)) = Reach(At(poly, v)) => v <= w

\* The vertex k further down the left (side 0) or the right (1) chain.
Down(side, v, k) ==
  LET n == polygon.corners IN
  IF polygon.facing = (side = 0) THEN IF v + k > n THEN v + k - n ELSE v + k
  ELSE IF v - k < 1 THEN v - k + n ELSE v - k

NextDown(side, v) == Down(side, v, 1)

-----------------------------------------------------------------------------
(* Spans                                                                    *)

Span(from, to, side) ==
  LET a == At(polygon, from)  b == At(polygon, to)
      xmin == IF b.x > a.x THEN a.x ELSE IF b.x < a.x THEN b.x ELSE a.x - side
      xmax == IF b.x > a.x THEN b.x - 1 ELSE IF b.x < a.x THEN a.x - 1 ELSE xmin
  IN [from |-> from, to |-> to, xmin |-> xmin, xmax |-> xmax, dummy |-> FALSE]

DummySpan(vertex, side) ==
  LET x == At(polygon, vertex).x - side
  IN [from |-> vertex, to |-> vertex, xmin |-> x, xmax |-> x, dummy |-> TRUE]

Within(b, span) == [min |-> IF span.xmin < b.min THEN span.xmin ELSE b.min,
                    max |-> IF span.xmax > b.max THEN span.xmax ELSE b.max]

\* The edge from v on reaches below line y, or is not to be left.
Stays(side, v) == y < At(polygon, NextDown(side, v)).y \/ v = VBottom(polygon)

\* Slip: one edge per line, so that a vertex at the line itself is not passed.
WalkOnce(chain, side) ==
  LET next == NextDown(side, chain.cur)
  IN IF ~Stays(side, chain.cur)
     THEN [cur |-> next, span |-> Span(next, NextDown(side, next), side), new |-> TRUE]
     ELSE [chain EXCEPT !.new = FALSE]

\* Down a chain to the first edge that stays; a new span if that is another edge.
Walk(chain, side) ==
  LET steps == CHOOSE k \in 0 .. polygon.corners - 1 :
                 /\ Stays(side, Down(side, chain.cur, k))
                 /\ \A j \in 0 .. k - 1 : ~Stays(side, Down(side, chain.cur, j))
      cur == Down(side, chain.cur, steps)
  IN IF steps = 0 THEN [chain EXCEPT !.new = FALSE]
     ELSE [cur |-> cur, span |-> Span(cur, NextDown(side, cur), side), new |-> TRUE]

-----------------------------------------------------------------------------
(* Setting up a polygon                                                     *)

None == [cur |-> 0, new |-> FALSE]

Init ==
  /\ polygon \in Polygons
  /\ left = None /\ right = None
  /\ y = YTop(polygon)
  /\ lines = <<>>
  /\ bounds = [min |-> Columns * ScaleFactor, max |-> 0]

\* A polygon without height: the leftmost and the rightmost of the first, the second
\* and the last vertex bound its one line.
SetupFlat ==
  /\ left = None /\ YTop(polygon) = YBot(polygon)
  /\ LET end == polygon.corners
         x(v) == At(polygon, v).x
         l1 == IF x(2) < x(1) THEN 2 ELSE 1
         r1 == IF x(2) > x(1) THEN 2 ELSE 1
         l == DummySpan(IF x(end) < x(l1) THEN end ELSE l1, 0)
         r == DummySpan(IF x(end) > x(r1) THEN end ELSE r1, 1)
     IN /\ left' = [cur |-> 1, span |-> l, new |-> TRUE]
        /\ right' = [cur |-> 1, span |-> r, new |-> TRUE]
        /\ lines' = [at \in {y} |-> [l |-> l, r |-> r]]
        /\ bounds' = Within(Within(bounds, l), r)
  /\ y' = y + 1
  /\ UNCHANGED polygon

Setup ==
  /\ left = None /\ YTop(polygon) # YBot(polygon)
  /\ LET v == VTop(polygon)
         l == Span(v, NextDown(0, v), 0)
         r == Span(v, NextDown(1, v), 1)
     IN /\ left' = [cur |-> v, span |-> l, new |-> TRUE]
        /\ right' = [cur |-> v, span |-> r, new |-> TRUE]
        /\ bounds' = Within(Within(bounds, l), r)
  /\ UNCHANGED <<polygon, y, lines>>

Line ==
  /\ left # None /\ y < YBot(polygon)
  /\ left' = Walk(left, 0)
  /\ right' = Walk(right, 1)
  /\ lines' = [at \in DOMAIN lines \cup {y} |-> IF at = y THEN [l |-> left'.span, r |-> right'.span] ELSE lines[at]]
  /\ bounds' = LET b == IF left'.new THEN Within(bounds, left'.span) ELSE bounds
               IN IF right'.new THEN Within(b, right'.span) ELSE b
  /\ y' = y + 1
  /\ UNCHANGED polygon

Next == SetupFlat \/ Setup \/ Line

Spec == Init /\ [][Next]_vars

-----------------------------------------------------------------------------
(* Properties                                                               *)

\* Line at is one the edge s goes through.
Crosses(s, at) == At(polygon, s.from).y <= at /\ at < At(polygon, s.to).y

\* The vertices' positions are in the vertices' pixels.  (They are, but for a W above 16 bits,
\* of which only the pixel loses precision, or of 0, which leaves the position as it was.)
InPixels ==
  \A v \in Verts(polygon) :
    LET p == At(polygon, v) IN p.row * ScaleFactor <= p.y /\ p.y < (p.row + 1) * ScaleFactor

\* However many corners a polygon has, whatever vertices share a line and wherever in their
\* pixels they are: each of its lines, in order, has a left and a right edge; from the top
\* vertex's line to the bottom vertex's these edges cross it; the lines above and below, which
\* they need not cross, are in the pixels of these vertices; and what bounds a line is within
\* the columns the polygon is sorted into tiles by (RenderFrame, GPU3D_Vulkan.cpp:846-980).
LinesAreBounded ==
  LET top == At(polygon, VTop(polygon))  bottom == At(polygon, VBottom(polygon)) IN
  /\ DOMAIN lines = YTop(polygon) .. y - 1
  /\ \A at \in DOMAIN lines :
       LET l == lines[at].l  r == lines[at].r IN
       /\ l.dummy = r.dummy
       /\ l.dummy => At(polygon, l.from).x <= At(polygon, r.from).x
       /\ ~l.dummy /\ top.y <= at /\ at < bottom.y => Crosses(l, at) /\ Crosses(r, at)
       /\ InPixels /\ top.row < Rows => top.row * ScaleFactor <= at /\ at < (bottom.row + 1) * ScaleFactor
       /\ bounds.min <= l.xmin /\ bounds.min <= r.xmin /\ l.xmax <= bounds.max /\ r.xmax <= bounds.max
=============================================================================
