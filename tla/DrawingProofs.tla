--------------------------- MODULE DrawingProofs ---------------------------
(***************************************************************************)
(* Proofs about the parts of the renderer that Drawing puts side by side, for    *)
(* any constants.  Each part has its inductive invariant, proved for its own steps, *)
(* and its theorem, which is about SpecAll: a behaviour of one part, while the         *)
(* others rest.                                                                          *)
(***************************************************************************)
EXTENDS Drawing, SequenceTheorems, FiniteSetTheorems, WellFoundedInduction, TLAPS

\* The part that runs remains the one that runs, and takes its own steps.
LEMMA StepOfOne ==
  ASSUME [NextAll]_all
  PROVE  /\ component' = component
         /\ component = "Layer" => [Layer!Next]_LayerVars
         /\ component = "Scan"  => [Scan!Next]_ScanVars
         /\ component = "Obj"   => [Obj!Next]_ObjVars
         /\ component = "Win"   => [Win!Next]_WinVars
         /\ component = "Capt"  => [Capt!Next]_CaptVars
         /\ component = "Edge"  => [Edge!Next]_EdgeVars
         /\ component = "Vari"  => [Vari!Next]_VariVars
         /\ component = "Frame" => [Frame!Next]_FrameVars
         /\ component = "Order" => [Order!Next]_OrderVars
         /\ component = "Tile"  => [Tile!Next]_TileVars
<1>1. CASE UNCHANGED all
  BY <1>1 DEF all
<1>2. CASE NextAll
  BY <1>2 DEF NextAll, OthersRest
<1>. QED
  BY <1>1, <1>2

\* And so it began.
LEMMA BeginningOfOne ==
  ASSUME InitAll
  PROVE  /\ component = "Layer" => Layer!Init
         /\ component = "Scan"  => Scan!Init
         /\ component = "Obj"   => Obj!Init
         /\ component = "Win"   => Win!Init
         /\ component = "Capt"  => Capt!Init
         /\ component = "Edge"  => Edge!Init
         /\ component = "Vari"  => Vari!Init
         /\ component = "Frame" => Frame!Init
         /\ component = "Order" => Order!Init
         /\ component = "Tile"  => Tile!Init
BY DEF InitAll

\* A set of natural numbers has a least one: the numbers are well-ordered.
LEMMA LeastOfSet ==
  ASSUME NEW T \in SUBSET Nat, T # {}
  PROVE  \E m \in T : \A k \in T : m <= k
<1>. DEFINE R == OpToRel(<, Nat)
<1>1. IsWellFoundedOn(R, Nat)
  BY NatLessThanWellFounded
<1>2. \A i, j \in Nat : i < j => <<i, j>> \in R
  BY DEF OpToRel
<1>. HIDE DEF R
<1>3. PICK m \in T : \A k \in T : ~ (<<k, m>> \in R)
  BY <1>1, WFMin, Zenon
<1>4. m \in Nat /\ \A k \in T : k \in Nat /\ ~ (<<k, m>> \in R)
  BY <1>3
<1>5. \A k \in T : m <= k
  <2>1. SUFFICES ASSUME NEW k \in T, k < m PROVE FALSE
    BY <1>4
  <2>2. <<k, m>> \in R
    BY <1>2, <1>4, <2>1, Zenon
  <2>. QED
    BY <1>4, <2>2, Zenon
<1>. QED
  BY <1>3, <1>5

\* And induction over one.
LEMMA SetInduction ==
  ASSUME NEW S \in SUBSET Nat, 0 \in S, \A k \in Nat : k \in S => k + 1 \in S
  PROVE  S = Nat
<1>1. SUFFICES ASSUME Nat \ S # {} PROVE FALSE
  OBVIOUS
<1>2. PICK m \in Nat \ S : \A k \in Nat \ S : m <= k
  <2>1. Nat \ S \in SUBSET Nat
    OBVIOUS
  <2>. QED
    BY <1>1, <2>1, LeastOfSet, Zenon
<1>3. m \in Nat \ {0} /\ m - 1 \in Nat
  BY <1>2
<1>4. m - 1 \notin Nat \ S
  BY <1>2, <1>3
<1>. QED
  BY <1>2, <1>3, <1>4

-----------------------------------------------------------------------------
(* Sprites                                                                  *)

\* What is left of a number of the counter's top round, or of the one before.
LEMMA AroundOnce ==
  ASSUME NEW z \in 1 - Around .. Around - 1
  PROVE  z % Around = IF z < 0 THEN z + Around ELSE z
<1>1. Around \in Nat \ {0} /\ z \in Int
  BY DrawingAssumption DEF Obj!LinesAssumption
<1>2. z % Around \in 0 .. Around - 1
  BY <1>1
<1>3. CASE z < 0
  BY <1>1, <1>2, <1>3
<1>4. CASE z >= 0
  BY <1>1, <1>2, <1>4
<1>. QED
  BY <1>1, <1>3, <1>4

\* A line is in one of the quads exactly if it is within the bounds of the sprite, counted
\* around from its top line.
LEMMA QuadsShow ==
  ASSUME NEW top \in 0 .. Around - 1, NEW height \in Heights, NEW l \in 0 .. SpriteLines - 1
  PROVE  /\ (l - top) % Around < height <=> (Obj!Signed(top) <= l /\ l < Obj!Signed(top) + height) \/ (top <= l /\ l < top + height)
         /\ Obj!Signed(top) % Around = top /\ top % Around = top
         /\ Obj!Signed(top) \in Int /\ Obj!Signed(top) >= 0 - Around /\ height \in Int /\ Around > 0
<1>1. /\ Around \in Nat \ {0} /\ SpriteLines \in 0 .. Around
      /\ height \in 1 .. Around \div 2 /\ Around \div 2 \in Nat /\ 2 * (Around \div 2) <= Around
  BY DrawingAssumption DEF Obj!LinesAssumption
<1>. DEFINE half == Around \div 2
<1>2. /\ half \in Nat /\ 2 * half <= Around /\ height \in 1 .. half
      /\ Obj!Signed(top) = IF top >= half THEN top - Around ELSE top
  BY <1>1 DEF Obj!Signed
<1>. HIDE DEF half
<1>3. l - top \in 1 - Around .. Around - 1 /\ Obj!Signed(top) \in 1 - Around .. Around - 1
  BY <1>1, <1>2
<1>4. (l - top) % Around = IF l - top < 0 THEN l - top + Around ELSE l - top
  BY <1>3, AroundOnce, Zenon
<1>5. Obj!Signed(top) % Around = IF Obj!Signed(top) < 0 THEN Obj!Signed(top) + Around ELSE Obj!Signed(top)
  BY <1>3, AroundOnce, Zenon
<1>6. top % Around = top
  BY <1>1
<1>7. Obj!Signed(top) % Around = top
  BY <1>1, <1>2, <1>5
<1>. DEFINE r == (l - top) % Around
<1>8. r = IF l - top < 0 THEN l - top + Around ELSE l - top
  BY <1>4, Zenon
<1>. HIDE DEF r
<1>9. r < height <=> (Obj!Signed(top) <= l /\ l < Obj!Signed(top) + height) \/ (top <= l /\ l < top + height)
  <2>1. CASE top >= half
    BY <1>1, <1>2, <1>8, <2>1
  <2>2. CASE top < half
    BY <1>1, <1>2, <1>8, <2>2
  <2>. QED
    BY <1>1, <1>2, <2>1, <2>2
<1>. QED
  BY <1>1, <1>2, <1>3, <1>6, <1>7, <1>9 DEF r

\* The quads of a section are the lines of it where the console shows the sprite.
LEMMA SectionIsRight ==
  ASSUME objOam \in Obj!Oams, NEW from \in 0 .. SpriteLines, NEW to \in 0 .. SpriteLines, NEW l \in from .. to - 1
  PROVE  l \in Obj!RenderSprites(Obj!UpdateOAM(objOam), from, to) <=> Obj!ConsoleShows(l)
<1>. DEFINE s == Obj!Signed(objOam.y)
            h == objOam.height
            f == objOam.y
            Allowed == ~objOam.off /\ (objOam.mode = "bitmap" => mapping # "none" /\ objOam.alpha)
<1>1. Around \in Nat \ {0} /\ SpriteLines \in Nat /\ l \in 0 .. SpriteLines - 1 /\ from \in Int /\ to \in Int /\ to <= SpriteLines /\ 0 <= from
  BY DrawingAssumption DEF Obj!LinesAssumption
<1>2. f \in 0 .. Around - 1 /\ h \in Heights
  BY DEF Obj!Oams
<1>3. /\ (l - f) % Around < h <=> (s <= l /\ l < s + h) \/ (f <= l /\ l < f + h)
      /\ s % Around = f /\ f % Around = f
      /\ s \in Int /\ s >= 0 - Around /\ h \in Int
  BY <1>1, <1>2, QuadsShow, Zenon
<1>4. Obj!ConsoleShows(l) <=> Allowed /\ ((s <= l /\ l < s + h) \/ (f <= l /\ l < f + h))
  BY <1>3, Zenon DEF Obj!ConsoleShows
<1>5. Obj!Picked(objOam) <=> Allowed /\ Obj!OnScreen(f, h, 0, SpriteLines)
  BY Zenon DEF Obj!Picked
<1>6. Obj!OnScreen(f, h, 0, SpriteLines) <=> (s + h > 0 /\ s < SpriteLines) \/ (f + h > 0 /\ f < SpriteLines)
  BY <1>3, Zenon DEF Obj!OnScreen
<1>. HIDE DEF s, h, f, Allowed
<1>7. CASE ~Obj!Picked(objOam)
  <2>1. Obj!UpdateOAM(objOam) = Obj!Nothing
    BY <1>7, Zenon DEF Obj!UpdateOAM
  <2>2. Obj!RenderSprites(Obj!UpdateOAM(objOam), from, to) = {}
    BY <2>1, Zenon DEF Obj!RenderSprites
  <2>3. ~Obj!OnScreen(f, h, 0, SpriteLines) => ~(s <= l /\ l < s + h) /\ ~(f <= l /\ l < f + h)
    BY <1>1, <1>2, <1>3, <1>6
  <2>4. ~Obj!ConsoleShows(l)
    BY <1>4, <1>5, <1>7, <2>3, Zenon
  <2>. QED
    BY <2>2, <2>4
<1>8. CASE Obj!Picked(objOam)
  <2>. DEFINE c == [y |-> s, height |-> h]
  <2>1. Obj!UpdateOAM(objOam) = c
    BY <1>8, Zenon DEF Obj!UpdateOAM, s, h
  <2>2. c # Obj!Nothing /\ c.y = s /\ c.height = h
    BY <1>1, <1>3 DEF Obj!Nothing
  <2>. HIDE DEF c
  <2>. DEFINE Quad(z) == IF z + h > from /\ z < to THEN z .. z + h - 1 ELSE {}
  <2>3. Obj!RenderSprites(c, from, to) = (Quad(s) \cup Quad(f)) \cap from .. to - 1
    BY <1>3, <2>2, Zenon DEF Obj!RenderSprites
  <2>4. ASSUME NEW z \in Int PROVE l \in Quad(z) <=> z <= l /\ l < z + h
    BY <1>1, <1>3, <2>4
  <2>5. f \in Int
    BY <1>1, <1>2
  <2>6. l \in Quad(s) <=> s <= l /\ l < s + h
    BY <1>3, <2>4, Zenon
  <2>7. l \in Quad(f) <=> f <= l /\ l < f + h
    BY <2>4, <2>5, Zenon
  <2>. HIDE DEF Quad
  <2>8. l \in Obj!RenderSprites(c, from, to) <=> l \in Quad(s) \/ l \in Quad(f)
    BY <2>3
  <2>. QED
    BY <1>4, <1>5, <1>8, <2>1, <2>6, <2>7, <2>8, Zenon
<1>. QED
  BY <1>7, <1>8, Zenon

\* The inductive invariant: the lines up to the last section are the console's; those
\* behind it may still have the sprites of the frame before.
ObjInv ==
  /\ objOam \in Obj!Oams
  /\ objConfig = Obj!UpdateOAM(objOam)
  /\ objLast \in 0 .. SpriteLines
  /\ objDrawn \subseteq 0 .. SpriteLines - 1
  /\ \A l \in 0 .. objLast - 1 : l \in objDrawn <=> Obj!ConsoleShows(l)

\* The sections up to one that was just drawn are right.
LEMMA SectionDrawn ==
  ASSUME ObjInv, NEW to \in objLast .. SpriteLines
  PROVE  /\ Obj!DoRenderSprites(to) \subseteq 0 .. SpriteLines - 1
         /\ \A l \in 0 .. to - 1 : l \in Obj!DoRenderSprites(to) <=> Obj!ConsoleShows(l)
<1>1. /\ SpriteLines \in Nat /\ objLast \in 0 .. SpriteLines /\ to \in 0 .. SpriteLines
      /\ objOam \in Obj!Oams /\ objConfig = Obj!UpdateOAM(objOam) /\ objDrawn \subseteq 0 .. SpriteLines - 1
      /\ \A l \in 0 .. objLast - 1 : l \in objDrawn <=> Obj!ConsoleShows(l)
  BY DrawingAssumption DEF Obj!LinesAssumption, ObjInv
<1>2. Obj!RenderSprites(objConfig, objLast, to) \subseteq objLast .. to - 1
  <2>1. CASE objConfig = Obj!Nothing
    BY <2>1, Zenon DEF Obj!RenderSprites
  <2>2. CASE objConfig # Obj!Nothing
    <3>. DEFINE Quad(z) == IF z + objConfig.height > objLast /\ z < to THEN z .. z + objConfig.height - 1 ELSE {}
    <3>1. Obj!RenderSprites(objConfig, objLast, to) = (Quad(objConfig.y) \cup Quad(objConfig.y % Around)) \cap objLast .. to - 1
      BY <2>2, Zenon DEF Obj!RenderSprites
    <3>. HIDE DEF Quad
    <3>. QED
      BY <3>1
  <2>. QED
    BY <2>1, <2>2
<1>3. Obj!DoRenderSprites(to) = (objDrawn \ (objLast .. to - 1)) \cup Obj!RenderSprites(objConfig, objLast, to)
  BY Zenon DEF Obj!DoRenderSprites
<1>4. ASSUME NEW l \in 0 .. to - 1 PROVE l \in Obj!DoRenderSprites(to) <=> Obj!ConsoleShows(l)
  <2>1. CASE l < objLast
    <3>1. l \notin objLast .. to - 1 /\ l \in 0 .. objLast - 1
      BY <1>1, <2>1
    <3>. QED
      BY <1>1, <1>2, <1>3, <3>1, Zenon
  <2>2. CASE l >= objLast
    <3>1. l \in objLast .. to - 1
      BY <1>1, <2>2
    <3>2. l \in Obj!RenderSprites(objConfig, objLast, to) <=> Obj!ConsoleShows(l)
      BY <1>1, <3>1, SectionIsRight, Zenon
    <3>. QED
      BY <1>3, <3>1, <3>2
  <2>. QED
    BY <1>1, <2>1, <2>2
<1>5. Obj!DoRenderSprites(to) \subseteq 0 .. SpriteLines - 1
  <2>1. objLast .. to - 1 \subseteq 0 .. SpriteLines - 1
    BY <1>1
  <2>. QED
    BY <1>1, <1>2, <1>3, <2>1, Zenon
<1>. QED
  BY <1>4, <1>5

LEMMA ObjStep ==
  ASSUME ObjInv, [Obj!Next]_ObjVars
  PROVE  ObjInv'
<1>0. /\ SpriteLines \in Nat /\ objLast \in 0 .. SpriteLines /\ objOam \in Obj!Oams /\ objConfig = Obj!UpdateOAM(objOam) /\ objDrawn \subseteq 0 .. SpriteLines - 1
      /\ \A l \in 0 .. objLast - 1 : l \in objDrawn <=> Obj!ConsoleShows(l)
  BY DrawingAssumption DEF Obj!LinesAssumption, ObjInv
<1>1. ASSUME NEW n \in 0 .. SpriteLines - 1, Obj!Update(n) PROVE ObjInv'
  <2>1. n \in objLast .. SpriteLines /\ n \in 0 .. SpriteLines
    BY <1>0, <1>1 DEF Obj!Update
  <2>2. objDrawn' = Obj!DoRenderSprites(n) /\ objConfig' = Obj!UpdateOAM(objOam) /\ objLast' = n /\ objOam' = objOam /\ mapping' = mapping
    BY <1>1 DEF Obj!Update
  <2>3. Obj!UpdateOAM(objOam)' = Obj!UpdateOAM(objOam) /\ \A l : Obj!ConsoleShows(l)' <=> Obj!ConsoleShows(l)
    BY <2>2, Zenon DEF Obj!UpdateOAM, Obj!Picked, Obj!ConsoleShows
  <2>. QED
    BY <1>0, <2>1, <2>2, <2>3, SectionDrawn, Zenon DEF ObjInv
<1>2. CASE Obj!VBlank
  <2>1. SpriteLines \in objLast .. SpriteLines /\ SpriteLines \in 0 .. SpriteLines
    BY <1>0
  <2>2. objDrawn' = Obj!DoRenderSprites(SpriteLines) /\ objConfig' = objConfig /\ objLast' = SpriteLines /\ objOam' = objOam /\ mapping' = mapping
    BY <1>2 DEF Obj!VBlank
  <2>3. Obj!UpdateOAM(objOam)' = Obj!UpdateOAM(objOam) /\ \A l : Obj!ConsoleShows(l)' <=> Obj!ConsoleShows(l)
    BY <2>2, Zenon DEF Obj!UpdateOAM, Obj!Picked, Obj!ConsoleShows
  <2>. QED
    BY <1>0, <2>1, <2>2, <2>3, SectionDrawn, Zenon DEF ObjInv
<1>3. CASE Obj!NextFrame
  <2>1. objDrawn' = objDrawn /\ objConfig' = objConfig /\ objLast' = 0 /\ objOam' = objOam /\ mapping' = mapping
    BY <1>3 DEF Obj!NextFrame
  <2>2. objLast' \in 0 .. SpriteLines /\ \A l : l \notin 0 .. objLast' - 1
    BY <1>0, <2>1
  <2>3. Obj!UpdateOAM(objOam)' = Obj!UpdateOAM(objOam)
    BY <2>1, Zenon DEF Obj!UpdateOAM, Obj!Picked
  <2>. QED
    BY <1>0, <2>1, <2>2, <2>3, Zenon DEF ObjInv
<1>4. CASE UNCHANGED ObjVars
  <2>1. objDrawn' = objDrawn /\ objConfig' = objConfig /\ objLast' = objLast /\ objOam' = objOam /\ mapping' = mapping
    BY <1>4 DEF ObjVars
  <2>3. Obj!UpdateOAM(objOam)' = Obj!UpdateOAM(objOam) /\ \A l : Obj!ConsoleShows(l)' <=> Obj!ConsoleShows(l)
    BY <2>1, Zenon DEF Obj!UpdateOAM, Obj!Picked, Obj!ConsoleShows
  <2>. QED
    BY <1>0, <2>1, <2>3, Zenon DEF ObjInv
<1>. QED
  BY <1>1, <1>2, <1>3, <1>4, Zenon DEF Obj!Next

LEMMA ObjInit == Obj!Init => ObjInv
<1>. SUFFICES ASSUME Obj!Init PROVE ObjInv
  OBVIOUS
<1>1. objOam \in Obj!Oams /\ objConfig = Obj!UpdateOAM(objOam) /\ objLast = 0 /\ objDrawn = {}
  BY DEF Obj!Init
<1>2. objLast \in 0 .. SpriteLines /\ objDrawn \subseteq 0 .. SpriteLines - 1 /\ \A l : l \notin 0 .. objLast - 1
  BY <1>1, DrawingAssumption DEF Obj!LinesAssumption
<1>. QED
  BY <1>1, <1>2, Zenon DEF ObjInv

LEMMA ObjOfInv == ObjInv => Obj!SpriteOnItsLines
<1>. SUFFICES ASSUME ObjInv, objLast = SpriteLines PROVE objDrawn = {l \in 0 .. SpriteLines - 1 : Obj!ConsoleShows(l)}
  BY Zenon DEF Obj!SpriteOnItsLines
<1>1. objDrawn \subseteq 0 .. SpriteLines - 1 /\ \A l \in 0 .. SpriteLines - 1 : l \in objDrawn <=> Obj!ConsoleShows(l)
  BY Zenon DEF ObjInv
<1>. QED
  BY <1>1, Zenon

ObjOfAll == component = "Obj" => ObjInv

\* In whatever sections a frame is drawn, and wherever a sprite hangs over the top or the
\* bottom of the screen, a finished frame has it on the lines the console draws it on and
\* on no others (UpdateOAM and RenderSprites, GPU2D_Vulkan.cpp): for a screen of any size
\* that its counter goes around once.
THEOREM SpritesStayOnLines == SpecAll => []SpriteOnItsLines
<1>1. InitAll => ObjOfAll
  BY BeginningOfOne, ObjInit DEF ObjOfAll
<1>2. ObjOfAll /\ [NextAll]_all => ObjOfAll'
  BY StepOfOne, ObjStep DEF ObjOfAll
<1>3. ObjOfAll => SpriteOnItsLines
  BY ObjOfInv DEF ObjOfAll, SpriteOnItsLines
<1>. QED
  BY <1>1, <1>2, <1>3, PTL DEF SpecAll

-----------------------------------------------------------------------------
(* Windows                                                                  *)

\* The window at a pixel without going there pixel by pixel: before the first edge it is
\* what it was, between the edges it is on if the left one comes first, and after the
\* second one it is on if the left one comes last.
WindowOf(x) ==
  IF x < edges.left /\ x < edges.right THEN console
  ELSE IF x < edges.left \/ x < edges.right THEN edges.left <= edges.right
  ELSE edges.left > edges.right

WinTypes ==
  /\ edges \in Win!Edges
  /\ active \in BOOLEAN /\ inside \in BOOLEAN /\ console \in BOOLEAN /\ changed \in BOOLEAN

LEMMA WindowOfIsBoolean ==
  ASSUME WinTypes, NEW x
  PROVE  WindowOf(x) \in BOOLEAN
<1>1. CASE x < edges.left /\ x < edges.right
  <2>1. WindowOf(x) = console
    BY <1>1, Zenon DEF WindowOf
  <2>. QED
    BY <2>1, Zenon DEF WinTypes
<1>2. CASE ~(x < edges.left /\ x < edges.right) /\ (x < edges.left \/ x < edges.right)
  <2>1. WindowOf(x) = (edges.left <= edges.right)
    BY <1>2, Zenon DEF WindowOf
  <2>. QED
    BY <2>1
<1>3. CASE ~(x < edges.left \/ x < edges.right)
  <2>1. WindowOf(x) = (edges.left > edges.right)
    BY <1>3, Zenon DEF WindowOf
  <2>. QED
    BY <2>1
<1>. QED
  BY <1>1, <1>2, <1>3, Zenon

\* The first pixel begins with what the window was, and every other one goes on.
LEMMA WindowOfStep ==
  ASSUME WinTypes, NEW x \in Win!Pixels
  PROVE  WindowOf(x) = IF x = edges.right THEN FALSE ELSE IF x = edges.left THEN TRUE ELSE WindowOf(x - 1)
<1>0. WindowOf(x) \in BOOLEAN
  BY WindowOfIsBoolean
<1>1. /\ Width \in Nat \ {0} /\ x \in Int /\ edges.left \in Int /\ edges.right \in Int
  BY DrawingAssumption DEF Win!WidthAssumption, WinTypes, Win!Edges, Win!Pixels
<1>2. CASE x = edges.right
  <2>1. ~WindowOf(x)
    BY <1>1, <1>2 DEF WindowOf
  <2>. QED
    BY <1>0, <1>2, <2>1, Zenon
<1>3. CASE x # edges.right /\ x = edges.left
  <2>1. WindowOf(x)
    BY <1>1, <1>3 DEF WindowOf
  <2>. QED
    BY <1>0, <1>3, <2>1, Zenon
<1>4. CASE x # edges.right /\ x # edges.left
  <2>1. /\ x < edges.left <=> x - 1 < edges.left
        /\ x < edges.right <=> x - 1 < edges.right
    BY <1>1, <1>4
  <2>. QED
    BY <1>4, <2>1, Zenon DEF WindowOf
<1>. QED
  BY <1>2, <1>3, <1>4

LEMMA WindowAtIs ==
  ASSUME WinTypes, NEW x \in -1 .. Width - 1
  PROVE  Win!WindowAt[x] = WindowOf(x)
<1>0. /\ Width \in Nat \ {0} /\ edges.left \in Win!Pixels /\ edges.right \in Win!Pixels
  BY DrawingAssumption DEF Win!WidthAssumption, WinTypes, Win!Edges
<1>. DEFINE Is(f) == f = [z \in -1 .. Width - 1 |->
                            IF z = -1 THEN console
                            ELSE IF z = edges.right THEN FALSE ELSE IF z = edges.left THEN TRUE ELSE f[z - 1]]
            g == [z \in -1 .. Width - 1 |-> WindowOf(z)]
<1>1. WindowOf(-1) = console
  BY <1>0 DEF WindowOf, Win!Pixels
<1>2. ASSUME NEW z \in -1 .. Width - 1
      PROVE  WindowOf(z) = IF z = -1 THEN console
                           ELSE IF z = edges.right THEN FALSE ELSE IF z = edges.left THEN TRUE ELSE g[z - 1]
  <2>1. CASE z = -1
    BY <1>1, <2>1
  <2>2. CASE z # -1
    <3>1. z \in Win!Pixels /\ z - 1 \in -1 .. Width - 1
      BY <1>0, <2>2 DEF Win!Pixels
    <3>2. g[z - 1] = WindowOf(z - 1)
      BY <3>1
    <3>. QED
      BY <2>2, <3>1, <3>2, WindowOfStep, Zenon
  <2>. QED
    BY <2>1, <2>2
<1>3. Is(g)
  BY <1>2, Zenon
<1>4. Is(Win!WindowAt)
  BY <1>3, Zenon DEF Win!WindowAt
<1>. DEFINE f == Win!WindowAt
<1>5. \A z \in -1 .. Width - 1 : f[z] = IF z = -1 THEN console
                                        ELSE IF z = edges.right THEN FALSE ELSE IF z = edges.left THEN TRUE ELSE f[z - 1]
  BY <1>4, Zenon
<1>. DEFINE Good(k) == k - 1 \in -1 .. Width - 1 => f[k - 1] = WindowOf(k - 1)
            S == {k \in Nat : Good(k)}
<1>. HIDE DEF f
<1>6. 0 \in S
  <2>1. 0 - 1 = -1 /\ -1 \in -1 .. Width - 1
    BY <1>0
  <2>2. f[0 - 1] = WindowOf(0 - 1)
    BY <1>1, <1>5, <2>1, Zenon
  <2>. QED
    BY <2>2, Zenon
<1>7. ASSUME NEW k \in Nat, k \in S PROVE k + 1 \in S
  <2>1. SUFFICES ASSUME k + 1 - 1 \in -1 .. Width - 1 PROVE f[k + 1 - 1] = WindowOf(k + 1 - 1)
    OBVIOUS
  <2>2. k + 1 - 1 = k /\ k \in Win!Pixels /\ k \in -1 .. Width - 1 /\ k - 1 \in -1 .. Width - 1 /\ k # -1
    BY <1>0, <2>1 DEF Win!Pixels
  <2>3. f[k - 1] = WindowOf(k - 1)
    BY <1>7, <2>2
  <2>4. f[k] = IF k = edges.right THEN FALSE ELSE IF k = edges.left THEN TRUE ELSE f[k - 1]
    BY <1>5, <2>2, Zenon
  <2>5. f[k] = WindowOf(k)
    BY <2>2, <2>3, <2>4, WindowOfStep, Zenon
  <2>. QED
    BY <2>2, <2>5, Zenon
<1>8. S = Nat
  <2>. HIDE DEF S
  <2>1. S \in SUBSET Nat
    BY DEF S
  <2>. QED
    BY <1>6, <1>7, <2>1, SetInduction, Zenon
<1>9. x + 1 \in Nat /\ x + 1 - 1 = x
  BY <1>0
<1>10. Good(x + 1)
  <2>1. x + 1 \in S
    <3>. HIDE DEF S
    <3>. QED
      BY <1>8, <1>9
  <2>. HIDE DEF Good
  <2>. QED
    BY <2>1
<1>11. \A z : z = x => (Good(x + 1) => (x + 1 - 1 = z => f[z] = WindowOf(z)))
  OBVIOUS
<1>. HIDE DEF Good
<1>. QED
  BY <1>9, <1>10, <1>11, Zenon DEF f

\* The inductive invariant: a window whose edges stayed since a line was last active is
\* in the renderer and in the console what its edges leave it as.
WinInv ==
  /\ WinTypes
  /\ ~changed => (inside <=> edges.left > edges.right) /\ (console <=> edges.left > edges.right)
  /\ Win!WindowIsExact

\* The three parts are the console's, if both begin with the same.
LEMMA PartsAreExact ==
  ASSUME WinTypes, inside <=> console, NEW x \in Win!Pixels
  PROVE  Win!Part(x) \in Win!Parts(edges.left, edges.right, inside) <=> WindowOf(x)
<1>1. /\ x \in Int /\ edges.left \in Int /\ edges.right \in Int
  BY DrawingAssumption DEF Win!WidthAssumption, WinTypes, Win!Edges, Win!Pixels
<1>2. CASE edges.left <= edges.right
  BY <1>1, <1>2 DEF Win!Part, Win!Parts, WindowOf
<1>3. CASE edges.left > edges.right
  BY <1>1, <1>3 DEF Win!Part, Win!Parts, WindowOf
<1>. QED
  BY <1>1, <1>2, <1>3

LEMMA WinStep ==
  ASSUME WinInv, [Win!Next]_WinVars
  PROVE  WinInv'
<1>. USE DEF WinInv
<1>0. Width - 1 \in Win!Pixels /\ Width - 1 \in -1 .. Width - 1 /\ Width \in Nat \ {0} /\ edges.left \in Win!Pixels /\ edges.right \in Win!Pixels
  BY DrawingAssumption DEF Win!WidthAssumption, Win!Pixels, WinTypes, Win!Edges
<1>1. CASE Win!Move
  <2>1. WinTypes'
    BY <1>1 DEF Win!Move, WinTypes
  <2>2. ~changed' => ~changed /\ edges' = edges
    BY <1>1 DEF Win!Move
  <2>. QED
    BY <1>1, <2>1, <2>2 DEF Win!Move, Win!WindowIsExact
<1>2. CASE Win!UpdateWindows
  BY <1>2 DEF Win!UpdateWindows, WinTypes, Win!WindowIsExact
<1>3. CASE Win!DrawLine
  <2>1. \A z \in -1 .. Width - 1 : Win!WindowAt[z] = WindowOf(z)
    BY WindowAtIs, Zenon
  <2>2. WindowOf(Width - 1) <=> edges.left > edges.right
    BY <1>0 DEF WindowOf, Win!Pixels
  <2>3. console' <=> edges.left > edges.right
    BY <1>0, <1>3, <2>1, <2>2, Zenon DEF Win!DrawLine
  <2>3a. console' \in BOOLEAN
    <3>1. WindowOf(Width - 1) \in BOOLEAN
      BY WindowOfIsBoolean
    <3>. QED
      BY <1>0, <1>3, <2>1, <3>1, Zenon DEF Win!DrawLine
  <2>3b. inside' \in BOOLEAN /\ changed' \in BOOLEAN
    <3>1. inside' = (IF active THEN edges.left > edges.right ELSE inside)
      BY <1>3 DEF Win!DrawLine
    <3>2. CASE active
      BY <3>1, <3>2, <1>3 DEF Win!DrawLine
    <3>3. CASE ~active
      <4>1. inside' = inside
        BY <3>1, <3>3, Zenon
      <4>2. changed' \in BOOLEAN
        BY <1>3 DEF Win!DrawLine
      <4>. QED
        BY <4>1, <4>2, Zenon DEF WinTypes
    <3>. QED
      BY <3>2, <3>3, Zenon
  <2>4. WinTypes'
    BY <1>3, <2>3a, <2>3b, Zenon DEF Win!DrawLine, WinTypes
  <2>5. (~changed => (inside <=> edges.left > edges.right) /\ (console <=> edges.left > edges.right))'
    BY <1>3, <2>3 DEF Win!DrawLine
  <2>6. ASSUME winLine'.exact PROVE winLine'.renderer = winLine'.console
    <3>1. ~changed
      BY <1>3, <2>6 DEF Win!DrawLine
    <3>2. inside <=> console
      BY <3>1, Zenon
    <3>3. \A z \in Win!Pixels : Win!Part(z) \in Win!Parts(edges.left, edges.right, inside) <=> WindowOf(z)
      BY <3>2, PartsAreExact, Zenon
    <3>4. \A z \in Win!Pixels : Win!WindowAt[z] = WindowOf(z)
      <4>1. ASSUME NEW z \in Win!Pixels PROVE z \in -1 .. Width - 1
        BY <1>0 DEF Win!Pixels
      <4>. QED
        BY <2>1, <4>1, Zenon
    <3>5. {z \in Win!Pixels : Win!Part(z) \in Win!Parts(edges.left, edges.right, inside)} = {z \in Win!Pixels : Win!WindowAt[z]}
      BY <3>3, <3>4, Zenon
    <3>. QED
      BY <1>3, <3>5 DEF Win!DrawLine
  <2>. QED
    BY <2>4, <2>5, <2>6 DEF Win!WindowIsExact
<1>4. CASE UNCHANGED WinVars
  BY <1>4 DEF WinVars, WinTypes, Win!WindowIsExact
<1>. QED
  BY <1>1, <1>2, <1>3, <1>4 DEF Win!Next

LEMMA WinInit == Win!Init => WinInv
<1>. SUFFICES ASSUME Win!Init PROVE WinInv
  OBVIOUS
<1>1. active \in BOOLEAN /\ inside \in BOOLEAN /\ console \in BOOLEAN /\ changed \in BOOLEAN /\ changed
  BY DEF Win!Init
<1>2. Win!WindowIsExact
  BY DEF Win!Init, Win!WindowIsExact
<1>. QED
  BY <1>1, <1>2, Zenon DEF Win!Init, WinInv, WinTypes

WinOfAll == component = "Win" => WinInv

\* The three parts of a line that the compositor is given are the pixels the console, going
\* from pixel to pixel, has inside the window: for lines of any width, and until the game
\* moves the edges (UpdateScanlineConfig, GPU2D_Vulkan.cpp).
THEOREM WindowStaysExact == SpecAll => []WindowIsExact
<1>1. InitAll => WinOfAll
  BY BeginningOfOne, WinInit DEF WinOfAll
<1>2. WinOfAll /\ [NextAll]_all => WinOfAll'
  BY StepOfOne, WinStep DEF WinOfAll
<1>3. WinOfAll => WindowIsExact
  BY DEF WinOfAll, WinInv, WindowIsExact
<1>. QED
  BY <1>1, <1>2, <1>3, PTL DEF SpecAll

-----------------------------------------------------------------------------
(* Variants                                                                 *)

\* What a variant can be, and what is noted of a polygon.
AllVariants == {Vari!Variant(p, on) : p \in Vari!PolygonAttrs, on \in BOOLEAN}
AllDrawn == [variant : Nat, layer : {0} \cup {t.layer : t \in Textures3D}]

\* Variant i is that of a polygon up to the n-th.
ComesFrom(i, n) == \E m \in 1 .. n : variants[i] = Vari!Variant(ram[m], maps)

\* The n-th polygon has a variant equal to its own, which came with it or before it, and has its own layer.
IsDrawnRight(n) ==
  /\ drawnWith[n].variant \in DOMAIN variants
  /\ ComesFrom(drawnWith[n].variant, n)
  /\ Vari!Equal(variants[drawnWith[n].variant], Vari!Variant(ram[n], maps))
  /\ Vari!Textured(ram[n], maps) => drawnWith[n].layer = ram[n].texture.layer

\* The inductive invariant: there is such a variant for each polygon of the frame so
\* far.  The hints of the cache need not be right.
VariInv ==
  /\ ram \in Seq(Vari!PolygonAttrs) /\ maps \in BOOLEAN
  /\ variants \in Seq(AllVariants)
  /\ drawnWith \in Seq(AllDrawn)
  /\ Len(drawnWith) = Len(ram)
  /\ \A i \in DOMAIN variants : ComesFrom(i, Len(ram))
  /\ \A n \in DOMAIN ram : IsDrawnRight(n)

\* A textured polygon whose variant came with another one has that one's width and, unless
\* both are captures, its height.
LEMMA EqualIsSized ==
  ASSUME NEW p \in Vari!PolygonAttrs, NEW q \in Vari!PolygonAttrs, NEW on \in BOOLEAN, Vari!Textured(p, on),
         Vari!Equal(Vari!Variant(q, on), Vari!Variant(p, on))
  PROVE  /\ Vari!Variant(q, on).width = p.texture.width /\ Vari!Variant(q, on).height = q.texture.height
         /\ q.texture.height = p.texture.height \/ Vari!IsCapture(p.texture)
<1>1. \A t, u \in Textures3D : /\ t.array = u.array => t.kind = u.kind /\ t.width = u.width
                               /\ t.array = u.array /\ t.kind # "capture" => t.height = u.height
                               /\ t.array # "none"
  BY DrawingAssumption DEF Vari!TexturesAssumption
<1>2. p.texture \in Textures3D /\ q.texture \in Textures3D \cup {NoTexture3D} /\ on
  BY DEF Vari!Textured, Vari!PolygonAttrs
<1>3. Vari!Variant(p, on).array = p.texture.array
  BY DEF Vari!Variant
<1>4. Vari!Variant(q, on).array = p.texture.array
  BY <1>3 DEF Vari!Equal
<1>5. Vari!Textured(q, on)
  <2>1. SUFFICES ASSUME ~Vari!Textured(q, on) PROVE FALSE
    OBVIOUS
  <2>2. Vari!Variant(q, on).array = "none"
    BY <2>1 DEF Vari!Variant
  <2>. QED
    BY <1>1, <1>2, <1>4, <2>2
<1>6. /\ Vari!Variant(q, on).array = q.texture.array /\ Vari!Variant(q, on).width = q.texture.width
      /\ Vari!Variant(q, on).height = q.texture.height
  BY <1>5 DEF Vari!Variant
<1>7. q.texture \in Textures3D
  BY <1>2, <1>5 DEF Vari!Textured
<1>8. q.texture.array = p.texture.array /\ q.texture.width = p.texture.width
  BY <1>1, <1>2, <1>4, <1>6, <1>7, Zenon
<1>9. q.texture.height = p.texture.height \/ Vari!IsCapture(p.texture)
  BY <1>1, <1>2, <1>7, <1>8 DEF Vari!IsCapture
<1>. QED
  BY <1>6, <1>8, <1>9

LEMMA VariantFollows ==
  ASSUME VariInv
  PROVE  Vari!VariantIsOwn
<1>1. SUFFICES ASSUME NEW n \in DOMAIN ram
      PROVE  /\ drawnWith[n].variant \in DOMAIN variants
             /\ Vari!Equal(variants[drawnWith[n].variant], Vari!Variant(ram[n], maps))
             /\ Vari!Textured(ram[n], maps) =>
                  /\ drawnWith[n].layer = ram[n].texture.layer
                  /\ variants[drawnWith[n].variant].width = ram[n].texture.width
                  /\ variants[drawnWith[n].variant].height = ram[n].texture.height \/ Vari!HeightIsTaken(n)
  BY Zenon DEF Vari!VariantIsOwn
<1>2. IsDrawnRight(n)
  BY <1>1, Zenon DEF VariInv
<1>3. PICK m \in 1 .. n : variants[drawnWith[n].variant] = Vari!Variant(ram[m], maps)
  BY <1>2, Zenon DEF IsDrawnRight, ComesFrom
<1>4. m \in DOMAIN ram /\ ram[m] \in Vari!PolygonAttrs /\ ram[n] \in Vari!PolygonAttrs /\ maps \in BOOLEAN
  BY <1>1, <1>3 DEF VariInv
<1>5. Vari!Equal(Vari!Variant(ram[m], maps), Vari!Variant(ram[n], maps))
  BY <1>2, <1>3 DEF IsDrawnRight
<1>6. ASSUME Vari!Textured(ram[n], maps)
      PROVE  /\ variants[drawnWith[n].variant].width = ram[n].texture.width
             /\ variants[drawnWith[n].variant].height = ram[n].texture.height \/ Vari!HeightIsTaken(n)
  <2>1. /\ Vari!Variant(ram[m], maps).width = ram[n].texture.width
        /\ Vari!Variant(ram[m], maps).height = ram[m].texture.height
        /\ ram[m].texture.height = ram[n].texture.height \/ Vari!IsCapture(ram[n].texture)
    BY <1>4, <1>5, <1>6, EqualIsSized
  <2>2. ASSUME ram[m].texture.height # ram[n].texture.height
        PROVE  Vari!HeightIsTaken(n)
    <3>1. m \in 1 .. n - 1
      BY <1>1, <1>3, <2>2 DEF VariInv
    <3>. QED
      BY <1>5, <2>1, <2>2, <3>1, Zenon DEF Vari!HeightIsTaken
  <2>. QED
    BY <1>3, <2>1, <2>2
<1>. QED
  BY <1>2, <1>6 DEF IsDrawnRight

LEMMA EqualIsReflexive == \A v : Vari!Equal(v, v)
BY DEF Vari!Equal

\* What Find returns is a variant equal to the one asked for, if there is one, and else the place for it.
LEMMA FindIs ==
  ASSUME variants \in Seq(AllVariants), NEW v, NEW hint
  PROVE  /\ Vari!Find(v, hint) \in 1 .. Len(variants) + 1
         /\ Vari!Find(v, hint) \in DOMAIN variants => Vari!Equal(variants[Vari!Find(v, hint)], v)
<1>1. CASE hint \in DOMAIN variants /\ Vari!Equal(variants[hint], v)
  BY <1>1 DEF Vari!Find
<1>2. CASE ~(hint \in DOMAIN variants /\ Vari!Equal(variants[hint], v)) /\ Vari!Known(v)
  <2>1. Vari!IndexOf(v) \in DOMAIN variants /\ Vari!Equal(variants[Vari!IndexOf(v)], v)
    BY <1>2, Zenon DEF Vari!Known, Vari!IndexOf
  <2>2. Vari!Find(v, hint) = Vari!IndexOf(v)
    BY <1>2, Zenon DEF Vari!Find
  <2>. QED
    BY <2>1, <2>2
<1>3. CASE ~(hint \in DOMAIN variants /\ Vari!Equal(variants[hint], v)) /\ ~Vari!Known(v)
  <2>1. Vari!Find(v, hint) = Len(variants) + 1
    BY <1>3, Zenon DEF Vari!Find
  <2>. QED
    BY <2>1
<1>. QED
  BY <1>1, <1>2, <1>3, Zenon

\* The next polygon has the variant before it, if it is the same, or one that is found.
LEMMA NextVariant ==
  ASSUME VariInv, NEW p \in Vari!PolygonAttrs, Vari!NextPolygon(p)
  PROVE  \E i \in 1 .. Len(variants) + 1, place \in {0} \cup {t.layer : t \in Textures3D} :
           /\ ram' = Append(ram, p) /\ maps' = maps
           /\ variants' = IF i > Len(variants) THEN Append(variants, Vari!Variant(p, maps)) ELSE variants
           /\ i \in DOMAIN variants => Vari!Equal(variants[i], Vari!Variant(p, maps))
           /\ drawnWith' = Append(drawnWith, [variant |-> i, layer |-> place])
           /\ Vari!Textured(p, maps) => place = p.texture.layer
<1>. DEFINE n == Len(ram)
            reused == n > 0 /\ Vari!SameAsBefore(ram[n], p)
            found == ~reused /\ Vari!Textured(p, maps)
            v == Vari!Variant(p, maps)
            i == IF reused THEN drawnWith[n].variant ELSE Vari!Find(v, IF found THEN lastVariant[p.texture] ELSE 0)
            place == IF found THEN p.texture.layer ELSE IF n = 0 THEN 0 ELSE drawnWith[n].layer
<1>0. n \in Nat /\ (n # 0 => n \in DOMAIN ram /\ n \in DOMAIN drawnWith)
  BY DEF VariInv
<1>1. /\ ram' = Append(ram, p) /\ maps' = maps
      /\ variants' = IF i > Len(variants) THEN Append(variants, v) ELSE variants
      /\ drawnWith' = Append(drawnWith, [variant |-> i, layer |-> place])
  BY Zenon DEF Vari!NextPolygon
<1>2. place \in {0} \cup {t.layer : t \in Textures3D}
  <2>1. CASE found
    <3>1. p.texture \in Textures3D
      BY <2>1 DEF Vari!Textured, Vari!PolygonAttrs
    <3>. QED
      BY <2>1, <3>1
  <2>2. CASE ~found /\ n # 0
    <3>1. drawnWith[n] \in AllDrawn
      BY <1>0, <2>2 DEF VariInv
    <3>2. drawnWith[n].layer \in {0} \cup {t.layer : t \in Textures3D}
      BY <3>1 DEF AllDrawn
    <3>3. place = drawnWith[n].layer
      BY <2>2, Zenon
    <3>. QED
      BY <3>2, <3>3, Zenon
  <2>3. CASE ~found /\ n = 0
    BY <2>3
  <2>. QED
    BY <2>1, <2>2, <2>3
<1>3. CASE reused
  <2>0. n \in DOMAIN ram
    BY <1>0, <1>3
  <2>1. /\ n \in DOMAIN ram
        /\ drawnWith[n].variant \in DOMAIN variants
        /\ Vari!Equal(variants[drawnWith[n].variant], Vari!Variant(ram[n], maps))
        /\ Vari!Textured(ram[n], maps) => drawnWith[n].layer = ram[n].texture.layer
    BY <2>0, Zenon DEF VariInv, IsDrawnRight
  <2>2. ram[n].texture = p.texture /\ ram[n].blend = p.blend
    BY <1>3 DEF Vari!SameAsBefore
  <2>3. Vari!Variant(ram[n], maps) = v /\ (Vari!Textured(ram[n], maps) <=> Vari!Textured(p, maps))
    BY <2>2, Zenon DEF Vari!Variant, Vari!Textured
  <2>4. i = drawnWith[n].variant /\ (Vari!Textured(p, maps) => place = p.texture.layer)
    BY <1>0, <1>3, <2>1, <2>2, <2>3
  <2>5. i \in 1 .. Len(variants) + 1 /\ Vari!Equal(variants[i], v)
    <3>1. i \in DOMAIN variants /\ Vari!Equal(variants[i], v)
      BY <2>1, <2>3, <2>4, Zenon
    <3>. HIDE DEF i, v
    <3>. QED
      BY <3>1 DEF VariInv
  <2>. HIDE DEF i, place, n, reused, found
  <2>. QED
    BY <1>1, <1>2, <2>4, <2>5, Zenon
<1>4. CASE ~reused
  <2>1. i = Vari!Find(v, IF found THEN lastVariant[p.texture] ELSE 0)
    BY <1>4, Zenon
  <2>2. i \in 1 .. Len(variants) + 1 /\ (i \in DOMAIN variants => Vari!Equal(variants[i], v))
    BY <2>1, FindIs, Zenon DEF VariInv
  <2>3. Vari!Textured(p, maps) => place = p.texture.layer
    BY <1>4, Zenon
  <2>. HIDE DEF i, place, n, reused, found
  <2>. QED
    BY <1>1, <1>2, <2>2, <2>3, Zenon
<1>. QED
  BY <1>3, <1>4, Zenon

LEMMA VariStep ==
  ASSUME VariInv, [Vari!Next]_VariVars
  PROVE  VariInv'
<1>1. ASSUME NEW on \in BOOLEAN, NEW since, Vari!BeginFrame(on, since)
      PROVE  VariInv'
  <2>1. ram' = << >> /\ variants' = << >> /\ drawnWith' = << >> /\ maps' \in BOOLEAN
    BY <1>1 DEF Vari!BeginFrame
  <2>. QED
    BY <2>1 DEF VariInv
<1>2. ASSUME NEW p \in Vari!PolygonAttrs, Vari!NextPolygon(p)
      PROVE  VariInv'
  <2>. DEFINE v == Vari!Variant(p, maps)
  <2>1. PICK i \in 1 .. Len(variants) + 1, place \in {0} \cup {t.layer : t \in Textures3D} :
           /\ ram' = Append(ram, p) /\ maps' = maps
           /\ variants' = IF i > Len(variants) THEN Append(variants, v) ELSE variants
           /\ i \in DOMAIN variants => Vari!Equal(variants[i], v)
           /\ drawnWith' = Append(drawnWith, [variant |-> i, layer |-> place])
           /\ Vari!Textured(p, maps) => place = p.texture.layer
    BY <1>2, NextVariant, Zenon
  <2>2. v \in AllVariants
    BY DEF AllVariants, VariInv
  <2>3. PICK n \in Nat : Len(ram) = n /\ DOMAIN ram = 1 .. n /\ DOMAIN ram' = 1 .. n + 1 /\ Len(ram') = n + 1
                         /\ ram'[n + 1] = p /\ \A k \in 1 .. n : ram'[k] = ram[k]
    BY <2>1 DEF VariInv
  <2>. HIDE DEF AllVariants, v
  <2>4. /\ variants' \in Seq(AllVariants) /\ i \in DOMAIN variants'
        /\ i \in DOMAIN variants \/ variants'[i] = v
        /\ \A k \in DOMAIN variants : k \in DOMAIN variants' /\ variants'[k] = variants[k]
        /\ \A k \in DOMAIN variants' : k \in DOMAIN variants \/ variants'[k] = v
    BY <2>1, <2>2 DEF VariInv
  <2>5. [variant |-> i, layer |-> place] \in AllDrawn
    BY <2>1 DEF AllDrawn, VariInv
  <2>6. /\ ram' \in Seq(Vari!PolygonAttrs) /\ maps' \in BOOLEAN /\ drawnWith' \in Seq(AllDrawn) /\ Len(drawnWith') = Len(ram')
        /\ drawnWith'[n + 1] = [variant |-> i, layer |-> place] /\ \A k \in 1 .. n : drawnWith'[k] = drawnWith[k]
    BY <2>1, <2>3, <2>5 DEF VariInv
  <2>7. \A k \in 1 .. n : /\ Vari!Variant(ram'[k], maps') = Vari!Variant(ram[k], maps)
                          /\ Vari!Textured(ram'[k], maps') <=> Vari!Textured(ram[k], maps)
    BY <2>1, <2>3, Zenon
  <2>8. Vari!Variant(ram'[n + 1], maps') = v /\ (Vari!Textured(ram'[n + 1], maps') <=> Vari!Textured(p, maps))
    BY <2>1, <2>3, Zenon DEF v
  <2>9. \A k \in 1 .. n : k \in 1 .. n + 1 /\ \A m \in 1 .. k : m \in 1 .. n
    OBVIOUS
  <2>10. n + 1 \in 1 .. n + 1 /\ \A k \in 1 .. n + 1 : k \in 1 .. n \/ k = n + 1
    OBVIOUS
  <2>11. ASSUME NEW k \in DOMAIN variants' PROVE ComesFrom(k, n + 1)'
    <3>1. CASE k \in DOMAIN variants
      <4>1. PICK m \in 1 .. n : variants[k] = Vari!Variant(ram[m], maps)
        BY <2>3, <3>1, Zenon DEF VariInv, ComesFrom
      <4>2. variants'[k] = Vari!Variant(ram'[m], maps') /\ m \in 1 .. n + 1
        BY <2>4, <2>7, <2>9, <3>1, <4>1, Zenon
      <4>. QED
        BY <4>2, Zenon DEF ComesFrom, Vari!Variant, Vari!Textured
    <3>2. CASE variants'[k] = v
      BY <2>8, <2>10, <3>2, Zenon DEF ComesFrom, Vari!Variant, Vari!Textured
    <3>. QED
      BY <2>4, <2>11, <3>1, <3>2, Zenon
  <2>12. ASSUME NEW k \in 1 .. n PROVE IsDrawnRight(k)'
    <3>1. IsDrawnRight(k)
      BY <2>3, Zenon DEF VariInv
    <3>2. PICK m \in 1 .. k : variants[drawnWith[k].variant] = Vari!Variant(ram[m], maps)
      BY <3>1, Zenon DEF IsDrawnRight, ComesFrom
    <3>3. /\ drawnWith'[k] = drawnWith[k] /\ drawnWith[k].variant \in DOMAIN variants'
          /\ variants'[drawnWith[k].variant] = variants[drawnWith[k].variant]
      BY <2>4, <2>6, <3>1, Zenon DEF IsDrawnRight
    <3>4. variants'[drawnWith'[k].variant] = Vari!Variant(ram'[m], maps')
      BY <2>7, <2>9, <3>2, <3>3, Zenon
    <3>5. ComesFrom(drawnWith[k].variant, k)'
      BY <3>3, <3>4, Zenon DEF ComesFrom, Vari!Variant, Vari!Textured
    <3>6. Vari!Equal(variants'[drawnWith'[k].variant], Vari!Variant(ram'[k], maps'))
      BY <2>7, <3>1, <3>3, Zenon DEF IsDrawnRight
    <3>7. Vari!Textured(ram'[k], maps') => drawnWith'[k].layer = ram'[k].texture.layer
      BY <2>3, <2>7, <3>1, <3>3, Zenon DEF IsDrawnRight
    <3>. QED
      BY <3>3, <3>5, <3>6, <3>7, Zenon DEF IsDrawnRight
  <2>13. IsDrawnRight(n + 1)'
    <3>1. drawnWith'[n + 1].variant = i /\ drawnWith'[n + 1].layer = place
      BY <2>6
    <3>2. ComesFrom(i, n + 1)'
      BY <2>4, <2>11, Zenon
    <3>3. Vari!Equal(variants'[i], v)
      BY <2>1, <2>4, EqualIsReflexive, Zenon
    <3>4. Vari!Textured(ram'[n + 1], maps') => place = ram'[n + 1].texture.layer
      BY <2>1, <2>3, <2>8, Zenon
    <3>. QED
      BY <2>4, <2>8, <3>1, <3>2, <3>3, <3>4, Zenon DEF IsDrawnRight
  <2>14. \A k \in DOMAIN ram' : IsDrawnRight(k)'
    BY <2>3, <2>10, <2>12, <2>13, Zenon
  <2>15. \A k \in DOMAIN variants' : ComesFrom(k, Len(ram))'
    BY <2>3, <2>11, Zenon DEF ComesFrom
  <2>. QED
    BY <2>4, <2>6, <2>14, <2>15, Zenon DEF VariInv
<1>3. CASE UNCHANGED VariVars
  <2>1. ram' = ram /\ maps' = maps /\ variants' = variants /\ drawnWith' = drawnWith
    BY <1>3 DEF VariVars
  <2>2. \A p : Vari!Textured(p, maps') <=> Vari!Textured(p, maps)
    BY <2>1, Zenon DEF Vari!Textured
  <2>3. \A p : Vari!Variant(p, maps') = Vari!Variant(p, maps)
    BY <2>1, Zenon DEF Vari!Variant
  <2>4. \A i, n : ComesFrom(i, n)' <=> ComesFrom(i, n)
    BY <2>1, Zenon DEF ComesFrom
  <2>5. \A n : IsDrawnRight(n)' <=> IsDrawnRight(n)
    BY <2>1, <2>4, Zenon DEF IsDrawnRight
  <2>6. (\A i \in DOMAIN variants : ComesFrom(i, Len(ram)))'
    BY <2>1, <2>4, Zenon DEF VariInv
  <2>7. (\A n \in DOMAIN ram : IsDrawnRight(n))'
    BY <2>1, <2>5, Zenon DEF VariInv
  <2>. QED
    BY <2>1, <2>6, <2>7, Zenon DEF VariInv
<1>. QED
  BY <1>1, <1>2, <1>3, Zenon DEF Vari!Next

LEMMA VariInit == Vari!Init => VariInv
<1>. SUFFICES ASSUME Vari!Init PROVE VariInv
  OBVIOUS
<1>1. ram = << >> /\ maps \in BOOLEAN /\ variants = << >> /\ drawnWith = << >>
  BY Zenon DEF Vari!Init
<1>. QED
  BY <1>1 DEF VariInv

VariOfAll == component = "Vari" => VariInv

\* Whatever the texture cache remembers of earlier frames, and however many polygons share
\* their attributes with the one before: each is drawn with a variant of its own texture,
\* wrapping and blending, with its own layer, and, unless a capture of another height has taken the
\* variant before it, with its own size (RenderFrame, GPU3D_Vulkan.cpp).
THEOREM VariantStaysOwn == SpecAll => []VariantIsOwn
<1>1. InitAll => VariOfAll
  BY BeginningOfOne, VariInit DEF VariOfAll
<1>2. VariOfAll /\ [NextAll]_all => VariOfAll'
  BY StepOfOne, VariStep DEF VariOfAll
<1>3. VariOfAll => VariantIsOwn
  BY VariantFollows DEF VariOfAll, VariantIsOwn
<1>. QED
  BY <1>1, <1>2, <1>3, PTL DEF SpecAll

-----------------------------------------------------------------------------
(* 3D frames                                                                *)

AllScenes == [polygons : Int, bitmap : BOOLEAN]

FrameTypes ==
  /\ scene \in AllScenes
  /\ bitmap \in [Frame!Halves -> Int] /\ uploaded \in [Frame!Halves -> Int] /\ shown.bitmap \in [Frame!Halves -> Int]
  /\ textureDirty \in SUBSET Frame!Halves /\ clearDirty \in SUBSET Frame!Halves

\* The inductive invariant.  What is not marked is uploaded as it is; a picture that was
\* not cleared is that of the scene unless another one is due, and, if it used the bitmap,
\* shows what was not written since.
FrameInv ==
  /\ FrameTypes
  /\ \A h \in Frame!Halves : h \notin textureDirty \cup clearDirty => uploaded[h] = bitmap[h]
  /\ ~shown.cleared /\ (frameDue => identical) => shown.scene = scene
  /\ ~shown.cleared /\ shown.scene.bitmap => \A h \in Frame!Halves : h \notin textureDirty => shown.bitmap[h] = bitmap[h]

LEMMA FrameInit == Frame!Init => FrameInv
<1>. SUFFICES ASSUME Frame!Init PROVE FrameInv
  OBVIOUS
<1>1. FrameTypes
  <2>1. scene \in AllScenes
    BY DEF Frame!Init, AllScenes
  <2>. QED
    BY <2>1 DEF Frame!Init, FrameTypes, Frame!Nothing
<1>2. textureDirty = Frame!Halves /\ shown.cleared
  BY DEF Frame!Init, Frame!Nothing
<1>. QED
  BY <1>1, <1>2, Zenon DEF FrameInv

\* What a frame uploads is the bitmap, if it uses it; and what it leaves stays marked.
LEMMA UploadedIs ==
  ASSUME FrameInv
  PROVE  LET u == Frame!Uploaded(clearDirty \cup textureDirty)
         IN /\ u.tex \in [Frame!Halves -> Int] /\ u.dirty \in SUBSET Frame!Halves
            /\ \A h \in Frame!Halves : h \notin u.dirty => u.tex[h] = bitmap[h]
            /\ scene.bitmap => u.tex = bitmap
<1>. DEFINE u == Frame!Uploaded(clearDirty \cup textureDirty)
<1>0. FrameTypes /\ \A h \in Frame!Halves : h \notin textureDirty \cup clearDirty => uploaded[h] = bitmap[h]
  BY Zenon DEF FrameInv
<1>1. CASE scene.bitmap
  <2>1. u = [tex |-> [h \in Frame!Halves |-> IF h \in clearDirty \cup textureDirty THEN bitmap[h] ELSE uploaded[h]], dirty |-> {}]
    BY <1>1, Zenon DEF Frame!Uploaded
  <2>. HIDE DEF u
  <2>2. u.tex = [h \in Frame!Halves |-> IF h \in clearDirty \cup textureDirty THEN bitmap[h] ELSE uploaded[h]] /\ u.dirty = {}
    BY <2>1
  <2>3. u.tex \in [Frame!Halves -> Int] /\ \A h \in Frame!Halves : u.tex[h] = bitmap[h]
    BY <1>0, <2>2 DEF FrameTypes
  <2>4. u.tex = bitmap
    BY <1>0, <2>3 DEF FrameTypes
  <2>. QED
    BY <1>1, <2>2, <2>3, <2>4 DEF u
<1>2. CASE ~scene.bitmap
  <2>1. u = [tex |-> uploaded, dirty |-> clearDirty \cup textureDirty]
    BY <1>2, Zenon DEF Frame!Uploaded
  <2>. HIDE DEF u
  <2>2. u.tex = uploaded /\ u.dirty = clearDirty \cup textureDirty
    BY <2>1
  <2>. QED
    BY <1>0, <1>2, <2>2 DEF FrameTypes, u
<1>. QED
  BY <1>1, <1>2, Zenon

LEMMA FrameStep ==
  ASSUME FrameInv, [Frame!Next]_FrameVars
  PROVE  FrameInv' /\ Frame!FrameStepIsCurrent
<1>0. /\ FrameTypes /\ \A h \in Frame!Halves : h \notin textureDirty \cup clearDirty => uploaded[h] = bitmap[h]
      /\ ~shown.cleared /\ (frameDue => identical) => shown.scene = scene
      /\ ~shown.cleared /\ shown.scene.bitmap => \A h \in Frame!Halves : h \notin textureDirty => shown.bitmap[h] = bitmap[h]
  BY Zenon DEF FrameInv
<1>1. ASSUME NEW g \in Frame!Halves, Frame!WriteBitmap(g)
      PROVE  FrameInv' /\ Frame!FrameStepIsCurrent
  <2>1. /\ FrameTypes'
        /\ bitmap' \in [Frame!Halves -> Int] /\ \A h \in Frame!Halves : h \notin textureDirty' => h \notin textureDirty /\ bitmap'[h] = bitmap[h]
        /\ UNCHANGED <<scene, identical, frameDue, clearDirty, uploaded, frameScale, shown>>
    BY <1>0, <1>1 DEF Frame!WriteBitmap, FrameTypes
  <2>2. \A h \in Frame!Halves : h \notin (textureDirty \cup clearDirty)' => h \notin textureDirty \cup clearDirty
    BY <2>1
  <2>3. (\A h \in Frame!Halves : h \notin textureDirty \cup clearDirty => uploaded[h] = bitmap[h])'
    <3>1. ASSUME NEW h \in Frame!Halves, h \notin (textureDirty \cup clearDirty)' PROVE uploaded'[h] = bitmap'[h]
      <4>1. h \notin textureDirty' /\ h \notin textureDirty \cup clearDirty
        BY <2>2, <3>1
      <4>. QED
        BY <1>0, <2>1, <4>1
    <3>. QED
      BY <3>1
  <2>4. Frame!FrameStepIsCurrent
    BY <2>1, Zenon DEF Frame!FrameStepIsCurrent
  <2>. QED
    BY <1>0, <2>1, <2>3, <2>4, Zenon DEF FrameInv
<1>2. ASSUME NEW swapped \in BOOLEAN, NEW useBitmap \in BOOLEAN, Frame!VBlank(swapped, useBitmap)
      PROVE  FrameInv' /\ Frame!FrameStepIsCurrent
  <2>1. frameDue' /\ ~frameDue /\ UNCHANGED <<bitmap, textureDirty, clearDirty, uploaded, shown>>
    BY <1>2 DEF Frame!VBlank
  <2>2. scene' \in AllScenes
    BY <1>0, <1>2 DEF Frame!VBlank, FrameTypes, AllScenes
  <2>3. ASSUME identical' PROVE scene' = scene
    <3>1. ~swapped /\ useBitmap = scene.bitmap
      BY <1>2, <2>3, Zenon DEF Frame!VBlank
    <3>2. scene' = [polygons |-> scene.polygons, bitmap |-> scene.bitmap]
      BY <1>2, <3>1, Zenon DEF Frame!VBlank
    <3>. QED
      BY <1>0, <3>2 DEF FrameTypes, AllScenes
  <2>4. FrameTypes'
    BY <1>0, <2>1, <2>2, Zenon DEF FrameTypes
  <2>5. Frame!FrameStepIsCurrent
    BY <2>1, Zenon DEF Frame!FrameStepIsCurrent
  <2>. QED
    BY <1>0, <2>1, <2>3, <2>4, <2>5, Zenon DEF FrameInv
<1>3. CASE Frame!SkipFrame
  <2>1. /\ frameDue /\ textureDirty = {} /\ identical /\ ~frameDue'
        /\ UNCHANGED <<scene, identical, bitmap, textureDirty, clearDirty, uploaded, shown>>
    BY <1>3 DEF Frame!SkipFrame
  <2>2. FrameInv'
    BY <1>0, <2>1, Zenon DEF FrameInv, FrameTypes
  <2>3. ASSUME ~shown.cleared, scene.bitmap PROVE shown.bitmap = bitmap
    <3>1. shown.scene.bitmap
      BY <1>0, <2>1, <2>3, Zenon
    <3>2. \A h \in Frame!Halves : shown.bitmap[h] = bitmap[h]
      <4>1. \A h : h \notin textureDirty
        BY <2>1
      <4>. QED
        BY <1>0, <2>3, <3>1, <4>1, Zenon
    <3>. QED
      BY <1>0, <3>2 DEF FrameTypes
  <2>4. Frame!FrameStepIsCurrent
    BY <1>0, <2>1, <2>3, Zenon DEF Frame!FrameStepIsCurrent
  <2>. QED
    BY <2>2, <2>4
<1>4. CASE Frame!RenderFrame
  <2>. DEFINE u == Frame!Uploaded(clearDirty \cup textureDirty)
  <2>1. /\ u.tex \in [Frame!Halves -> Int] /\ u.dirty \in SUBSET Frame!Halves
        /\ \A h \in Frame!Halves : h \notin u.dirty => u.tex[h] = bitmap[h]
        /\ scene.bitmap => u.tex = bitmap
    BY UploadedIs, Zenon
  <2>. HIDE DEF u
  <2>2. /\ ~frameDue' /\ textureDirty' = {} /\ uploaded' = u.tex /\ clearDirty' = u.dirty
        /\ shown' = [scene |-> scene, bitmap |-> u.tex, cleared |-> FALSE]
        /\ scene' = scene /\ bitmap' = bitmap
    BY <1>4 DEF Frame!RenderFrame, u
  <2>3. shown'.scene = scene /\ shown'.bitmap = u.tex /\ ~shown'.cleared
    BY <2>2
  <2>4. FrameTypes'
    <3>1. textureDirty' \in SUBSET Frame!Halves
      BY <2>2
    <3>. QED
      BY <1>0, <2>1, <2>2, <2>3, <3>1, Zenon DEF FrameTypes
  <2>5. (\A h \in Frame!Halves : h \notin textureDirty \cup clearDirty => uploaded[h] = bitmap[h])'
    <3>1. \A h : h \notin (textureDirty \cup clearDirty)' => h \notin u.dirty
      BY <2>2
    <3>. QED
      BY <2>1, <2>2, <3>1, Zenon
  <2>6. Frame!FrameStepIsCurrent
    BY <2>1, <2>2, <2>3, Zenon DEF Frame!FrameStepIsCurrent
  <2>. QED
    BY <2>1, <2>2, <2>3, <2>4, <2>5, <2>6, Zenon DEF FrameInv
<1>5. ASSUME NEW s, Frame!SetRenderSettings(s)
      PROVE  FrameInv' /\ Frame!FrameStepIsCurrent
  <2>1. /\ shown'.cleared /\ shown'.bitmap \in [Frame!Halves -> Int]
        /\ UNCHANGED <<scene, identical, frameDue, bitmap, textureDirty, clearDirty, uploaded>>
    BY <1>5 DEF Frame!SetRenderSettings, Frame!Nothing
  <2>2. FrameTypes'
    BY <1>0, <2>1, Zenon DEF FrameTypes
  <2>. QED
    BY <1>0, <2>1, <2>2, Zenon DEF FrameInv, Frame!FrameStepIsCurrent
<1>6. CASE UNCHANGED FrameVars
  <2>1. /\ scene' = scene /\ identical' = identical /\ frameDue' = frameDue /\ bitmap' = bitmap /\ textureDirty' = textureDirty
        /\ clearDirty' = clearDirty /\ uploaded' = uploaded /\ shown' = shown
    BY <1>6 DEF FrameVars
  <2>. QED
    BY <1>0, <2>1, Zenon DEF FrameInv, FrameTypes, Frame!FrameStepIsCurrent
<1>. QED
  BY <1>1, <1>2, <1>3, <1>4, <1>5, <1>6, Zenon DEF Frame!Next

FrameOfAll == component = "Frame" => FrameInv

\* A frame of the 3D renderer, drawn or left out, is the scene as latched over the clear
\* bitmap as it is: what changed while the bitmap was not used is uploaded when it is
\* (RenderFrame and SetRenderSettings, GPU3D_Vulkan.cpp).
THEOREM FrameStaysCurrent == SpecAll => FrameIsCurrent
<1>1. InitAll => FrameOfAll
  BY BeginningOfOne, FrameInit DEF FrameOfAll
<1>2. FrameOfAll /\ [NextAll]_all => FrameOfAll' /\ [component = "Frame" => Frame!FrameStepIsCurrent]_all
  BY StepOfOne, FrameStep DEF FrameOfAll
<1>. QED
  BY <1>1, <1>2, PTL DEF SpecAll, FrameIsCurrent

-----------------------------------------------------------------------------
(* Tiles                                                                    *)

\* The sizes of a tile, by scale: the rounding to a power of two leaves three.
SizeOf(s) == IF s < 5 THEN 8 ELSE IF s < 9 THEN 16 ELSE 32

\* What a byte has as its highest bit is one of the powers, and two or more of numbers
\* from 2 on.
LEMMA MSBOfByte ==
  ASSUME NEW n \in 0 .. 255
  PROVE  /\ n = 0 => Tile!GetMSBit(n) = 0
         /\ n = 1 => Tile!GetMSBit(n) = 1
         /\ n >= 2 => Tile!GetMSBit(n) \in Tile!Powers \ {1}
<1>1. CASE n = 0
  BY <1>1 DEF Tile!GetMSBit
<1>2. CASE n > 0
  <2>1. \E p \in Tile!Powers : p <= n /\ n < 2 * p
    BY <1>2 DEF Tile!Powers
  <2>2. /\ Tile!GetMSBit(n) \in Tile!Powers
        /\ Tile!GetMSBit(n) <= n /\ n < 2 * Tile!GetMSBit(n)
    BY <1>2, <2>1 DEF Tile!GetMSBit
  <2>. QED
    BY <1>2, <2>2 DEF Tile!Powers
<1>. QED
  BY <1>1, <1>2

\* TileSize as SetRenderSettings computes it is the one of the table.
LEMMA TileSizeIsOneOfThree ==
  ASSUME NEW s \in 1 .. MaxScale
  PROVE  Tile!TileSizeOf(s) = SizeOf(s)
<1>1. s \in Int /\ s >= 1 /\ s <= 1000
  BY DrawingAssumption DEF Tile!ScaleAssumption
<1>. DEFINE n == (2 * s) \div 9
<1>2. n \in 0 .. 255
  BY <1>1
<1>3. CASE s < 5
  <2>1. n = 0
    BY <1>1, <1>3
  <2>. QED
    BY <1>2, <1>3, <2>1, MSBOfByte DEF Tile!TileSizeOf, Tile!TileScale, SizeOf
<1>4. CASE s >= 5 /\ s < 9
  <2>1. n = 1
    BY <1>1, <1>4
  <2>. QED
    BY <1>1, <1>2, <1>4, <2>1, MSBOfByte DEF Tile!TileSizeOf, Tile!TileScale, SizeOf
<1>5. CASE s >= 9
  <2>1. n >= 2
    BY <1>1, <1>5
  <2>2. Tile!GetMSBit(n) \in {2, 4, 8, 16, 32, 64, 128}
    BY <1>2, <2>1, MSBOfByte DEF Tile!Powers
  <2>. HIDE DEF n
  <2>3. 2 * Tile!GetMSBit(n) >= 4 /\ Tile!GetMSBit(n) \in Int
    BY <2>2
  <2>. QED
    BY <1>1, <1>5, <2>3 DEF Tile!TileSizeOf, Tile!TileScale, SizeOf, n
<1>. QED
  BY <1>1, <1>3, <1>4, <1>5

\* The geometry is that of the scale, once one is set.
TileInv ==
  scale = -1 \/ (/\ scale \in 1 .. MaxScale
                 /\ tileSize = SizeOf(scale)
                 /\ coarseCountY = Tile!CoarseCountY(tileSize)
                 /\ clearLocalSize = Tile!ClearLocalSize(tileSize)
                 /\ tilesPerLine = (256 * scale) \div tileSize
                 /\ tileLines = (192 * scale) \div tileSize)

LEMMA TileInit == Tile!Init => TileInv
BY DEF Tile!Init, TileInv

LEMMA TileStep ==
  ASSUME TileInv, [Tile!Next]_TileVars
  PROVE  TileInv'
<1>1. ASSUME NEW s \in 1 .. MaxScale, Tile!SetRenderSettings(s)
      PROVE  TileInv'
  BY <1>1, TileSizeIsOneOfThree DEF Tile!SetRenderSettings, TileInv
<1>2. CASE UNCHANGED TileVars
  BY <1>2 DEF TileVars, Tile!geometry, TileInv
<1>. QED
  BY <1>1, <1>2 DEF Tile!Next

\* A set scale's geometry leaves no remainder, in each of the three cases.
LEMMA DerivedCovers == TileInv => Tile!GroupsCoverScreen
<1>. SUFFICES ASSUME TileInv, scale > 0
             PROVE  Tile!GroupsCoverScreen
  BY DEF Tile!GroupsCoverScreen
<1>1. scale \in Int /\ scale >= 1
  BY DrawingAssumption DEF TileInv, Tile!ScaleAssumption
<1>2. /\ tileSize = SizeOf(scale)
      /\ tilesPerLine = (256 * scale) \div tileSize
      /\ tileLines = (192 * scale) \div tileSize
      /\ coarseCountY = Tile!CoarseCountY(tileSize)
      /\ clearLocalSize = Tile!ClearLocalSize(tileSize)
  BY <1>1 DEF TileInv
<1>3. ((256 * scale) \div 32) * 32 = 256 * scale
  BY <1>1
<1>4. CASE scale < 5
  <2>1. /\ tileSize = 8 /\ coarseCountY = 4 /\ clearLocalSize = 64
        /\ tilesPerLine = 32 * scale /\ tileLines = 24 * scale
    BY <1>1, <1>2, <1>4 DEF SizeOf, Tile!CoarseCountY, Tile!ClearLocalSize
  <2>2. scale \in 1 .. 4
    BY <1>1, <1>4
  <2>. QED
    BY <1>3, <2>1, <2>2 DEF Tile!GroupsCoverScreen, Tile!ScreenWidth, Tile!ScreenHeight, Tile!CoarseTileW, Tile!CoarseTileH, Tile!CoarseTileCountX, Tile!TileCount
<1>5. CASE scale >= 5 /\ scale < 9
  <2>1. /\ tileSize = 16 /\ coarseCountY = 4 /\ clearLocalSize = 64
        /\ tilesPerLine = 16 * scale /\ tileLines = 12 * scale
    BY <1>1, <1>2, <1>5 DEF SizeOf, Tile!CoarseCountY, Tile!ClearLocalSize
  <2>2. scale \in 5 .. 8
    BY <1>1, <1>5
  <2>. QED
    BY <1>3, <2>1, <2>2 DEF Tile!GroupsCoverScreen, Tile!ScreenWidth, Tile!ScreenHeight, Tile!CoarseTileW, Tile!CoarseTileH, Tile!CoarseTileCountX, Tile!TileCount
<1>6. CASE scale >= 9
  <2>1. /\ tileSize = 32 /\ coarseCountY = 6 /\ clearLocalSize = 48
        /\ tilesPerLine = 8 * scale /\ tileLines = 6 * scale
    BY <1>1, <1>2, <1>6 DEF SizeOf, Tile!CoarseCountY, Tile!ClearLocalSize
  <2>2. /\ Tile!ScreenWidth = 256 * scale /\ Tile!ScreenHeight = 192 * scale
        /\ Tile!CoarseTileW = 256 /\ Tile!CoarseTileH = 192
    BY <2>1 DEF Tile!ScreenWidth, Tile!ScreenHeight, Tile!CoarseTileW, Tile!CoarseTileH, Tile!CoarseTileCountX
  <2>3. /\ ((256 * scale) \div 256) * 256 = 256 * scale
        /\ ((192 * scale) \div 192) * 192 = 192 * scale
    BY <1>1
  <2>4. Tile!TileCount = 48 * (scale * scale)
    BY <1>1, <2>1 DEF Tile!TileCount
  <2>5. scale * scale \in Int
    BY <1>1
  <2>6. (Tile!TileCount \div 48) * 48 = Tile!TileCount
    BY <2>4, <2>5
  <2>. QED
    BY <1>1, <1>3, <2>1, <2>2, <2>3, <2>6 DEF Tile!GroupsCoverScreen
<1>. QED
  BY <1>1, <1>4, <1>5, <1>6


\* Every number is a multiple and a rest.
LEMMA DivideWithRest ==
  ASSUME NEW p \in Nat \ {0}, NEW n \in Nat
  PROVE  \E q \in Nat, r \in 0 .. p - 1 : n = q * p + r
<1>. DEFINE Has(k) == \E q \in Nat, r \in 0 .. p - 1 : k = q * p + r
            S == {k \in Nat : Has(k)}
<1>1. 0 \in S
  <2>1. 0 \in 0 .. p - 1 /\ 0 = 0 * p + 0
    OBVIOUS
  <2>. QED
    BY <2>1
<1>2. ASSUME NEW k \in Nat, k \in S PROVE k + 1 \in S
  <2>0. SUFFICES Has(k + 1)
    OBVIOUS
  <2>1. PICK q \in Nat, r \in 0 .. p - 1 : k = q * p + r
    BY <1>2
  <2>2. CASE r + 1 < p
    <3>1. r + 1 \in 0 .. p - 1 /\ k + 1 = q * p + (r + 1)
      BY <2>1, <2>2
    <3>. QED
      BY <3>1, Zenon
  <2>3. CASE r + 1 = p
    <3>1. 0 \in 0 .. p - 1 /\ q + 1 \in Nat /\ k + 1 = (q + 1) * p + 0
      BY <2>1, <2>3
    <3>. QED
      BY <3>1, Zenon
  <2>. QED
    BY <2>1, <2>2, <2>3
<1>. HIDE DEF Has
<1>3. S = Nat
  <2>. HIDE DEF S
  <2>1. S \in SUBSET Nat
    BY DEF S
  <2>. QED
    BY <1>1, <1>2, <2>1, SetInduction, Zenon
<1>4. Has(n)
  BY <1>3
<1>. QED
  BY <1>4, Zenon DEF Has

LEMMA TimesGrows ==
  ASSUME NEW a \in Nat, NEW b \in Nat, NEW p \in Nat, a <= b
  PROVE  a * p <= b * p /\ a * p \in Nat /\ b * p \in Nat
<1>1. PICK d \in Nat : b = a + d
  BY b - a \in Nat /\ b = a + (b - a)
<1>2. b * p = a * p + d * p /\ a * p \in Nat /\ d * p \in Nat
  BY <1>1
<1>. QED
  BY <1>2

\* The tile that a thread of a group bins.
Binned(width, count, i, j, thread) == (thread % 8) + ((thread \div 8) * width) + (i * 8) + (j * width * count)

\* The threads bin tiles of the screen, and whole of them.
BinsEvery(width, count, across, down) ==
  /\ \A i \in 0 .. across - 1, j \in 0 .. down - 1, thread \in 0 .. 8 * count - 1 :
       Binned(width, count, i, j, thread) \in 0 .. width * (count * down) - 1
  /\ \A n \in 0 .. width * (count * down) - 1 :
       \E i \in 0 .. across - 1, j \in 0 .. down - 1, thread \in 0 .. 8 * count - 1 :
         n = Binned(width, count, i, j, thread)

\* Groups of eight by count threads, as many in a line as the line has eights of tiles,
\* bin every tile once, as there are as many threads as tiles.
LEMMA GroupsBinTiles ==
  ASSUME NEW across \in Nat \ {0}, NEW down \in Nat, NEW count \in {4, 6}, NEW width, width = 8 * across
  PROVE  BinsEvery(width, count, across, down)
<1>. DEFINE Bin(i, j, thread) == Binned(width, count, i, j, thread)
<1>0. width \in Nat \ {0} /\ count \in Nat /\ count * down \in Nat
  OBVIOUS
<1>1. ASSUME NEW i \in 0 .. across - 1, NEW j \in 0 .. down - 1, NEW thread \in 0 .. 8 * count - 1
      PROVE  Bin(i, j, thread) \in 0 .. width * (count * down) - 1
  <2>. DEFINE col == (thread % 8) + (i * 8)
              row == (thread \div 8) + (j * count)
  <2>1. col \in 0 .. width - 1
    BY <1>0
  <2>2. thread \div 8 \in 0 .. count - 1
    BY <1>0
  <2>3. row \in Nat /\ row + 1 <= count * down /\ row + 1 \in Nat
    BY <1>0, <2>2
  <2>4. Bin(i, j, thread) = col + row * width
    <3>. DEFINE m == thread % 8
                d == thread \div 8
    <3>1. m \in Nat /\ d \in Nat
      BY <2>2
    <3>. HIDE DEF m, d
    <3>2. m + d * width + i * 8 + j * width * count = (m + i * 8) + (d + j * count) * width
      BY <3>1, <1>0
    <3>. QED
      BY <3>2 DEF m, d, Binned
  <2>. HIDE DEF col, row, Bin
  <2>5. (row + 1) * width <= (count * down) * width
    BY <1>0, <2>3, TimesGrows
  <2>6. (row + 1) * width = row * width + width /\ row * width \in Nat /\ (count * down) * width = width * (count * down)
        /\ width * (count * down) \in Nat
    BY <1>0, <2>3
  <2>. QED
    BY <1>0, <2>1, <2>4, <2>5, <2>6
<1>2. ASSUME NEW n \in 0 .. width * (count * down) - 1
      PROVE  \E i \in 0 .. across - 1, j \in 0 .. down - 1, thread \in 0 .. 8 * count - 1 : n = Bin(i, j, thread)
  <2>0. n \in Nat
    BY <1>0
  <2>1. PICK q \in Nat, r \in 0 .. width - 1 : n = q * width + r
    BY <1>0, <2>0, DivideWithRest
  <2>2. q < count * down
    <3>1. SUFFICES ASSUME count * down <= q PROVE FALSE
      BY <1>0
    <3>2. (count * down) * width <= q * width /\ (count * down) * width = width * (count * down)
      BY <1>0, <3>1, TimesGrows
    <3>. QED
      BY <1>0, <2>1, <3>2
  <2>. DEFINE i == r \div 8
              j == q \div count
              thread == (q % count) * 8 + (r % 8)
  <2>3. i \in 0 .. across - 1 /\ r = i * 8 + (r % 8) /\ r % 8 \in 0 .. 7
    BY <1>0
  <2>4. j \in 0 .. down - 1 /\ q = j * count + (q % count) /\ q % count \in 0 .. count - 1
    <3>1. CASE count = 4
      BY <2>2, <3>1
    <3>2. CASE count = 6
      BY <2>2, <3>2
    <3>. QED
      BY <3>1, <3>2
  <2>5. thread \in 0 .. 8 * count - 1 /\ thread % 8 = r % 8 /\ thread \div 8 = q % count
    BY <2>3, <2>4
  <2>6. Bin(i, j, thread) = (r % 8) + ((q % count) * width) + (i * 8) + (j * width * count)
    BY <2>5, Zenon DEF Binned
  <2>7. n = (r % 8) + ((q % count) * width) + (i * 8) + (j * width * count)
    <3>. DEFINE a == r % 8
                b == q % count
    <3>1. a \in Nat /\ b \in Nat /\ i \in Nat /\ j \in Nat /\ r = i * 8 + a /\ q = j * count + b
      BY <1>0, <2>3, <2>4
    <3>. HIDE DEF a, b, i, j
    <3>2. (j * count + b) * width + (i * 8 + a) = a + b * width + i * 8 + j * width * count
      BY <1>0, <3>1
    <3>. QED
      BY <2>1, <3>1, <3>2 DEF a, b
  <2>. HIDE DEF i, j, thread
  <2>. QED
    BY <2>3, <2>4, <2>5, <2>6, <2>7, Zenon
<1>. HIDE DEF Bin
<1>. QED
  BY <1>1, <1>2, Zenon DEF Bin, BinsEvery

\* In each of the three cases the groups bin every tile.
LEMMA DerivedBins ==
  ASSUME TileInv, scale > 0
  PROVE  Tile!BinnedTiles = 0 .. Tile!TileCount - 1 /\ Tile!Binners = Tile!TileCount
<1>1. scale \in Nat \ {0}
  BY DrawingAssumption DEF TileInv, Tile!ScaleAssumption
<1>2. /\ tileSize = SizeOf(scale)
      /\ tilesPerLine = (256 * scale) \div tileSize
      /\ tileLines = (192 * scale) \div tileSize
      /\ coarseCountY = Tile!CoarseCountY(tileSize)
  BY <1>1 DEF TileInv
<1>. DEFINE across == Tile!ScreenWidth \div Tile!CoarseTileW
            down == Tile!ScreenHeight \div Tile!CoarseTileH
<1>3. /\ across \in Nat \ {0} /\ down \in Nat /\ coarseCountY \in {4, 6}
      /\ tilesPerLine = 8 * across /\ tileLines = coarseCountY * down
  <2>1. CASE scale < 5
    <3>1. tileSize = 8 /\ coarseCountY = 4 /\ tilesPerLine = 32 * scale /\ tileLines = 24 * scale
      BY <1>1, <1>2, <2>1 DEF SizeOf, Tile!CoarseCountY
    <3>2. across = 4 * scale /\ down = 6 * scale
      BY <1>1, <3>1 DEF Tile!ScreenWidth, Tile!ScreenHeight, Tile!CoarseTileW, Tile!CoarseTileH, Tile!CoarseTileCountX
    <3>. HIDE DEF across, down
    <3>. QED
      BY <1>1, <3>1, <3>2
  <2>2. CASE scale >= 5 /\ scale < 9
    <3>1. tileSize = 16 /\ coarseCountY = 4 /\ tilesPerLine = 16 * scale /\ tileLines = 12 * scale
      BY <1>1, <1>2, <2>2 DEF SizeOf, Tile!CoarseCountY
    <3>2. across = 2 * scale /\ down = 3 * scale
      BY <1>1, <3>1 DEF Tile!ScreenWidth, Tile!ScreenHeight, Tile!CoarseTileW, Tile!CoarseTileH, Tile!CoarseTileCountX
    <3>. HIDE DEF across, down
    <3>. QED
      BY <1>1, <3>1, <3>2
  <2>3. CASE scale >= 9
    <3>1. tileSize = 32 /\ coarseCountY = 6 /\ tilesPerLine = 8 * scale /\ tileLines = 6 * scale
      BY <1>1, <1>2, <2>3 DEF SizeOf, Tile!CoarseCountY
    <3>2. across = scale /\ down = scale
      BY <1>1, <3>1 DEF Tile!ScreenWidth, Tile!ScreenHeight, Tile!CoarseTileW, Tile!CoarseTileH, Tile!CoarseTileCountX
    <3>. HIDE DEF across, down
    <3>. QED
      BY <1>1, <3>1, <3>2
  <2>. QED
    BY <1>1, <2>1, <2>2, <2>3
<1>4. \A i, j, thread : Tile!LinearTile(i, j, thread) = Binned(tilesPerLine, coarseCountY, i, j, thread)
  BY Zenon DEF Tile!LinearTile, Binned, Tile!CoarseTileCountX
<1>5. Tile!Binners = across * down * 8 * coarseCountY
  BY Zenon DEF Tile!Binners, Tile!CoarseTileCountX
<1>9. \A n : n \in Tile!BinnedTiles <=>
             \E i \in 0 .. across - 1, j \in 0 .. down - 1, thread \in 0 .. 8 * coarseCountY - 1 : n = Tile!LinearTile(i, j, thread)
  BY DEF Tile!BinnedTiles, Tile!CoarseTileCountX
<1>. HIDE DEF across, down
<1>6. Tile!BinnedTiles = 0 .. tilesPerLine * (coarseCountY * down) - 1
  <2>1. /\ \A i \in 0 .. across - 1, j \in 0 .. down - 1, thread \in 0 .. 8 * coarseCountY - 1 :
             Tile!LinearTile(i, j, thread) \in 0 .. tilesPerLine * (coarseCountY * down) - 1
        /\ \A n \in 0 .. tilesPerLine * (coarseCountY * down) - 1 :
             \E i \in 0 .. across - 1, j \in 0 .. down - 1, thread \in 0 .. 8 * coarseCountY - 1 :
               n = Tile!LinearTile(i, j, thread)
    <3>1. BinsEvery(tilesPerLine, coarseCountY, across, down)
      BY <1>3, GroupsBinTiles, Zenon
    <3>. QED
      BY <1>4, <3>1, Zenon DEF BinsEvery
  <2>. DEFINE whole == 0 .. tilesPerLine * (coarseCountY * down) - 1
  <2>2. ASSUME NEW n \in Tile!BinnedTiles PROVE n \in whole
    <3>1. PICK i \in 0 .. across - 1, j \in 0 .. down - 1, thread \in 0 .. 8 * coarseCountY - 1 : n = Tile!LinearTile(i, j, thread)
      BY <1>9, Zenon
    <3>. QED
      BY <2>1, <3>1, Zenon
  <2>3. ASSUME NEW n \in whole PROVE n \in Tile!BinnedTiles
    BY <1>9, <2>1, <2>3, Zenon
  <2>4. Tile!BinnedTiles = whole
    <3>. HIDE DEF whole
    <3>. QED
      BY <2>2, <2>3
  <2>. QED
    BY <2>4
<1>7. Tile!TileCount = tilesPerLine * (coarseCountY * down)
  BY <1>3, Zenon DEF Tile!TileCount
<1>8. across * down * 8 * coarseCountY = (8 * across) * (coarseCountY * down)
  BY <1>3
<1>. QED
  BY <1>3, <1>5, <1>6, <1>7, <1>8, Zenon

LEMMA TileOfInv == TileInv => Tile!TilesCoverScreen
BY DerivedCovers, DerivedBins, Zenon DEF Tile!TilesCoverScreen

TileOfAll == component = "Tile" => TileInv

\* At every scale the tiles, the coarse tiles and the groups of all dispatches divide the
\* screen without a remainder, and each tile is binned by one thread (SetRenderSettings,
\* GPU3D_Vulkan.cpp:333-350).
THEOREM TilesAlwaysCover == SpecAll => []TilesCoverScreen
<1>1. InitAll => TileOfAll
  BY BeginningOfOne, TileInit DEF TileOfAll
<1>2. TileOfAll /\ [NextAll]_all => TileOfAll'
  BY StepOfOne, TileStep DEF TileOfAll
<1>3. TileOfAll => TilesCoverScreen
  BY TileOfInv DEF TileOfAll, TilesCoverScreen
<1>. QED
  BY <1>1, <1>2, <1>3, PTL DEF SpecAll

-----------------------------------------------------------------------------
(* Lines                                                                    *)

AllRegisters == [composition : Versions, scroll : Versions, window : BOOLEAN, mapping : Versions, blank : BOOLEAN,
                 display : Versions, dark : BOOLEAN, capturing : Versions]
AllMemory == [background : Versions, attributes : Versions, tiles : Versions, palette : Versions]
AllNow == [registers : AllRegisters, memory : AllMemory]
AllDirty == [background : BOOLEAN, attributes : BOOLEAN, tiles : BOOLEAN]
AllUnsure == [mapping : BOOLEAN, palette : BOOLEAN, windows : SUBSET Scan!AllLines]

\* Sprites that are rendered now.
SpritesNow == [sprites |-> sprites, window |-> now.registers.window]

\* A line composed with these sprites, or shown with this image.
ComposedOf(objects, l) ==
  IF seen.blank THEN Scan!Blank
  ELSE [blank |-> FALSE, composition |-> seen.composition, scroll |-> unit.scroll[l], background |-> picture,
        objects |-> objects]

ShownOf(image) == IF seen.dark THEN Scan!Nothing ELSE [display |-> seen.display, image |-> image]

\* What a line is composed of when its section comes.
ToCompose(l) == ComposedOf(IF l < last.sprite THEN unit.objects[l] ELSE SpritesNow, l)

\* An image is one that was wanted, the object window apart if that is free.
Meets(image, want, free) ==
  IF want = Scan!Blank THEN image = Scan!Blank
  ELSE /\ image # Scan!Blank /\ image # Scan!Nothing
       /\ \A part \in {"composition", "scroll", "background"} : image[part] = want[part]
       /\ \A part \in DOMAIN want.objects.sprites : want.objects.sprites[part] \in {Scan!Anything, image.objects.sprites[part]}
       /\ free \/ image.objects.window = want.objects.window

\* What is shown, or captured, is what was asked for.
ShowsRight(shows, ask, free) ==
  IF ask.dark THEN shows = Scan!Nothing
  ELSE shows # Scan!Nothing /\ shows.display = ask.display /\ Meets(shows.image, ask.image, free)

CapturesRight(captures, ask, free) ==
  ~ask.dark => captures # Scan!Nothing /\ captures.capturing = ask.capturing /\ Meets(captures.image, ask.image, free)

\* What the renderer's copies of memory are: those that are not marked are as the memory
\* is, and the sprites are those of the copies.
CopiesAreMarked ==
  /\ now \in AllNow /\ dirty \in AllDirty /\ unsure \in AllUnsure
  /\ ~dirty.background => picture = now.memory.background
  /\ ~dirty.attributes => oam.attributes = now.memory.attributes
  /\ ~dirty.tiles => oam.tiles = now.memory.tiles
  /\ ~spriteDirty => /\ sprites.attributes = oam.attributes /\ sprites.tiles = oam.tiles
                     /\ unsure.mapping \/ sprites.mapping = oam.mapping
  /\ ~unsure.palette => flat = now.memory.palette /\ sprites.palette = now.memory.palette

\* The copies are those that were due.
CopiesWereDue ==
  /\ due.attributes = oam.attributes /\ due.tiles \in {Scan!Anything, oam.tiles}
  /\ due.mapping = oam.mapping

ScanTypes ==
  /\ line \in 0 .. Lines + 1
  /\ last.sprite \in Nat /\ last.unit \in Nat /\ last.screen \in Nat /\ last.capture \in Nat
  /\ DOMAIN scanAsked = Scan!AllLines /\ DOMAIN unit.scroll = Scan!AllLines

\* The properties in these words, and so in the next state.
InTheseWords ==
  /\ Scan!LinesAreTheirOwn <=>
       (line = Lines + 1 => \A l \in Scan!AllLines : ShowsRight(screen[l], scanAsked[l], l \in unsure.windows))
  /\ Scan!CaptureIsItsOwn <=>
       (line = Lines + 1 => \A l \in Scan!AllLines : CapturesRight(capture[l], scanAsked[l], l \in unsure.windows))

LEMMA OwnIs == InTheseWords
<1>1. \A image, l : Scan!AsAsked(image, l) <=> Meets(image, scanAsked[l].image, l \in unsure.windows)
  BY Zenon DEF Scan!AsAsked, Meets
<1>2. \A l : /\ (IF scanAsked[l].dark THEN screen[l] = Scan!Nothing
                 ELSE screen[l] # Scan!Nothing /\ screen[l].display = scanAsked[l].display /\ Scan!AsAsked(screen[l].image, l))
                  <=> ShowsRight(screen[l], scanAsked[l], l \in unsure.windows)
  BY <1>1, Zenon DEF ShowsRight
<1>3. \A l : (~scanAsked[l].dark => /\ capture[l] # Scan!Nothing /\ capture[l].capturing = scanAsked[l].capturing
                                    /\ Scan!AsAsked(capture[l].image, l))
                <=> CapturesRight(capture[l], scanAsked[l], l \in unsure.windows)
  BY <1>1, Zenon DEF CapturesRight
<1>. QED
  BY <1>2, <1>3, Zenon DEF InTheseWords, Scan!LinesAreTheirOwn, Scan!CaptureIsItsOwn, Scan!Finished

LEMMA OwnIsThen == InTheseWords'
BY OwnIs, PTL

\* What is right stays right when more is free.
LEMMA FreeIsMore ==
  ASSUME NEW free, NEW more, free => more
  PROVE  /\ \A image, want : Meets(image, want, free) => Meets(image, want, more)
         /\ \A shows, ask : ShowsRight(shows, ask, free) => ShowsRight(shows, ask, more)
         /\ \A captures, ask : CapturesRight(captures, ask, free) => CapturesRight(captures, ask, more)
<1>1. \A image, want : Meets(image, want, free) => Meets(image, want, more)
  BY Zenon DEF Meets
<1>. QED
  BY <1>1, Zenon DEF ShowsRight, CapturesRight

\* And when the object window is free it does not matter.
LEMMA WindowIsFree ==
  ASSUME NEW one, NEW other, one.sprites = other.sprites, NEW l, NEW want, NEW free, Meets(ComposedOf(one, l), want, free)
  PROVE  Meets(ComposedOf(other, l), want, TRUE)
<1>1. CASE seen.blank
  BY <1>1, Zenon DEF Meets, ComposedOf
<1>2. CASE ~seen.blank
  <2>. DEFINE a == ComposedOf(one, l)
              b == ComposedOf(other, l)
  <2>1. /\ b # Scan!Blank /\ b # Scan!Nothing /\ a # Scan!Blank
        /\ \A part \in {"composition", "scroll", "background"} : a[part] = b[part]
        /\ a.objects = one /\ b.objects = other
    BY <1>2 DEF ComposedOf, Scan!Blank, Scan!Nothing
  <2>. HIDE DEF a, b
  <2>. QED
    <3>1. Meets(a, want, free)
      BY DEF a
    <3>2. want # Scan!Blank
      BY <2>1, <3>1, Zenon DEF Meets
    <3>3. Meets(b, want, TRUE)
      BY <2>1, <3>1, <3>2, Zenon DEF Meets
    <3>. QED
      BY <3>3 DEF b
<1>. QED
  BY <1>1, <1>2

LEMMA RenderedIs ==
  ASSUME NEW from, NEW to, NEW l \in Scan!AllLines
  PROVE  Scan!RenderedSprites(from, to)[l] = IF l \in from .. to - 1 THEN SpritesNow ELSE unit.objects[l]
BY DEF Scan!RenderedSprites, Scan!Section, SpritesNow

LEMMA ComposedIs ==
  ASSUME NEW objects, NEW from, NEW to, NEW l \in Scan!AllLines
  PROVE  Scan!Composed(objects, from, to)[l] =
           IF l \in from .. to - 1 THEN ComposedOf(objects[l], l) ELSE unit.out[l]
BY DEF Scan!Composed, Scan!Section, ComposedOf

LEMMA ShownIs ==
  ASSUME NEW out, NEW from, NEW to, NEW l \in Scan!AllLines
  PROVE  Scan!Shown(out, from, to)[l] =
           IF l \in from .. to - 1 THEN ShownOf(out[l]) ELSE screen[l]
BY DEF Scan!Shown, Scan!Section, ShownOf

LEMMA CapturedIs ==
  ASSUME NEW out, NEW from, NEW to, NEW l \in Scan!AllLines
  PROVE  Scan!Captured(out, from, to)[l] =
           IF l \in from .. to - 1 THEN [capturing |-> seen.capturing, image |-> out[l]] ELSE capture[l]
BY DEF Scan!Captured, Scan!Section

\* The lines so far: behind the beginning of a stage's section they are as they were asked
\* for, and from there on the copies are those the lines ask for.
LineIsKept(l) ==
  /\ ~scanAsked[l].dark =>
       Meets(IF l < last.unit THEN unit.out[l] ELSE ToCompose(l), scanAsked[l].image, l \in unsure.windows)
  /\ l < last.screen => ShowsRight(screen[l], scanAsked[l], l \in unsure.windows)
  /\ l >= last.screen => scanAsked[l].display = seen.display /\ (scanAsked[l].dark <=> seen.dark)
  /\ l < last.capture => CapturesRight(capture[l], scanAsked[l], l \in unsure.windows)
  /\ l >= last.capture => scanAsked[l].capturing = seen.capturing

\* The inductive invariant.
ScanInv ==
  /\ ScanTypes /\ CopiesAreMarked
  /\ line < Lines => CopiesWereDue
  /\ line <= Lines => /\ last.sprite <= line /\ last.unit <= line /\ last.screen <= line /\ last.capture <= line
                      /\ \A l \in 0 .. line - 1 : LineIsKept(l)
  /\ line > Lines => last = [sprite |-> 0, unit |-> 0, screen |-> 0, capture |-> 0]
  /\ Scan!LinesAreTheirOwn /\ Scan!CaptureIsItsOwn

\* What the lines so far are composed of when a section is.
ObjectsNow == IF (Scan!CompositionDirty \/ spriteDirty) /\ line > 0 THEN Scan!RenderedSprites(Scan!SpriteStart, line) ELSE unit.objects
OutNow == IF Scan!CompositionDirty /\ line > 0 THEN Scan!Composed(ObjectsNow, last.unit, line) ELSE unit.out

\* Rendering the sprites of the section changes nothing about what its lines are composed of.
LEMMA ObjectsAreKept ==
  ASSUME ScanInv, line < Lines, NEW l \in 0 .. line - 1
  PROVE  /\ Scan!CompositionDirty \/ spriteDirty => ObjectsNow[l] = IF l < last.sprite THEN unit.objects[l] ELSE SpritesNow
         /\ ~(Scan!CompositionDirty \/ spriteDirty) => ObjectsNow[l] = unit.objects[l]
<1>1. l \in Scan!AllLines /\ line > 0 /\ line \in Nat /\ l \in Nat /\ last.sprite \in Nat
  BY DrawingAssumption DEF Scan!SectionsAssumption, ScanInv, ScanTypes, Scan!AllLines
<1>2. CASE Scan!CompositionDirty \/ spriteDirty
  <2>1. ObjectsNow[l] = Scan!RenderedSprites(last.sprite, line)[l]
    BY <1>1, <1>2, Zenon DEF ObjectsNow, Scan!SpriteStart
  <2>2. l \in last.sprite .. line - 1 <=> ~(l < last.sprite)
    BY <1>1
  <2>3. Scan!RenderedSprites(last.sprite, line)[l] = IF l \in last.sprite .. line - 1 THEN SpritesNow ELSE unit.objects[l]
    BY <1>1, RenderedIs, Zenon
  <2>. QED
    BY <1>2, <2>1, <2>2, <2>3, Zenon
<1>3. CASE ~(Scan!CompositionDirty \/ spriteDirty)
  BY <1>3, Zenon DEF ObjectsNow
<1>. QED
  BY <1>2, <1>3, Zenon

\* A section that is composed is as its lines asked for.
LEMMA SectionIsComposed ==
  ASSUME ScanInv, line \in 0 .. Lines, NEW objects,
         \A l \in 0 .. line - 1 : objects[l] = IF l < last.sprite THEN unit.objects[l] ELSE SpritesNow,
         NEW l \in 0 .. line - 1
  PROVE  ~scanAsked[l].dark => Meets(Scan!Composed(objects, last.unit, line)[l], scanAsked[l].image, l \in unsure.windows)
<1>1. l \in Scan!AllLines /\ line \in Nat /\ l \in Nat /\ last.unit \in Nat /\ line <= Lines
  BY DrawingAssumption DEF Scan!SectionsAssumption, ScanInv, ScanTypes, Scan!AllLines
<1>2. l \in last.unit .. line - 1 <=> ~(l < last.unit)
  BY <1>1
<1>3. LineIsKept(l)
  BY <1>1, Zenon DEF ScanInv
<1>4. Scan!Composed(objects, last.unit, line)[l] =
        IF l \in last.unit .. line - 1 THEN ComposedOf(objects[l], l) ELSE unit.out[l]
  BY <1>1, ComposedIs
<1>5. ComposedOf(objects[l], l) = ToCompose(l)
  BY Zenon DEF ToCompose
<1>. QED
  BY <1>2, <1>3, <1>4, <1>5, Zenon DEF LineIsKept

\* A line that is drawn leaves the renderer's stages like this.
LEMMA DrawnIs ==
  ASSUME Scan!HBlank
  PROVE  /\ line < Lines /\ line' = line + 1 /\ seen' = now.registers /\ now' = now
         /\ unit'.objects = ObjectsNow /\ unit'.out = OutNow
         /\ unit'.scroll = [unit.scroll EXCEPT ![line] = now.registers.scroll]
         /\ screen' = IF Scan!NeedRender /\ line > 0 THEN Scan!Shown(OutNow, last.screen, line) ELSE screen
         /\ capture' = IF Scan!NeedCapture /\ line > 0 THEN Scan!Captured(OutNow, last.capture, line) ELSE capture
         /\ picture' = IF Scan!BackgroundChanged THEN now.memory.background ELSE picture
         /\ flat' = Scan!Flattened
         /\ sprites' = IF spriteDirty THEN Scan!MadeSprites ELSE sprites
         /\ unsure' = Scan!UnsureNow
         /\ last'.sprite = IF spriteDirty THEN line ELSE last.sprite
         /\ last'.unit = IF Scan!CompositionDirty THEN line ELSE last.unit
         /\ last'.screen = IF Scan!NeedRender THEN line ELSE last.screen
         /\ last'.capture = IF Scan!NeedCapture THEN line ELSE last.capture
         /\ scanAsked' = [scanAsked EXCEPT ![line] = Scan!Asked]
<1>1. /\ unit' = [objects |-> ObjectsNow, scroll |-> [unit.scroll EXCEPT ![line] = now.registers.scroll], out |-> OutNow]
      /\ screen' = IF Scan!NeedRender /\ line > 0 THEN Scan!Shown(OutNow, last.screen, line) ELSE screen
      /\ capture' = IF Scan!NeedCapture /\ line > 0 THEN Scan!Captured(OutNow, last.capture, line) ELSE capture
      /\ picture' = IF Scan!BackgroundChanged THEN now.memory.background ELSE picture
      /\ flat' = Scan!Flattened
      /\ sprites' = IF spriteDirty THEN Scan!MadeSprites ELSE sprites
      /\ last' = [sprite |-> IF spriteDirty THEN line ELSE last.sprite,
                  unit |-> IF Scan!CompositionDirty THEN line ELSE last.unit,
                  screen |-> IF Scan!NeedRender THEN line ELSE last.screen,
                  capture |-> IF Scan!NeedCapture THEN line ELSE last.capture]
      /\ seen' = now.registers
  BY Zenon DEF Scan!HBlank, Scan!DrawScanline, ObjectsNow, OutNow
<1>2. /\ line < Lines /\ line' = line + 1 /\ now' = now /\ scanAsked' = [scanAsked EXCEPT ![line] = Scan!Asked]
      /\ unsure' = Scan!UnsureNow
  BY Zenon DEF Scan!HBlank
<1>. QED
  BY <1>1, <1>2

\* What is not promised when a line is drawn.
LEMMA UnsureIs ==
  ASSUME CopiesAreMarked
  PROVE  /\ Scan!UnsureNow \in AllUnsure /\ Scan!UnsureNow.windows = unsure.windows
         /\ spriteDirty => (Scan!UnsureNow.mapping <=> now.registers.mapping # due.mapping)
         /\ ~spriteDirty => (Scan!UnsureNow.mapping <=> unsure.mapping)
         /\ Scan!UnsureNow.palette <=> (unsure.palette /\ ~(spriteDirty /\ Scan!IsScreenOn))
<1>. DEFINE remapped == IF spriteDirty THEN now.registers.mapping # due.mapping ELSE unsure.mapping
            palette == unsure.palette /\ ~(spriteDirty /\ Scan!IsScreenOn)
<1>1. unsure \in AllUnsure
  BY DEF CopiesAreMarked
<1>2. remapped \in BOOLEAN
  BY <1>1 DEF AllUnsure
<1>3. palette \in BOOLEAN
  BY <1>1 DEF AllUnsure
<1>4. Scan!UnsureNow = [unsure EXCEPT !.mapping = remapped, !.palette = palette]
  BY Zenon DEF Scan!UnsureNow
<1>5. (spriteDirty => (remapped <=> now.registers.mapping # due.mapping)) /\ (~spriteDirty => (remapped <=> unsure.mapping))
  OBVIOUS
<1>6. palette <=> (unsure.palette /\ ~(spriteDirty /\ Scan!IsScreenOn))
  OBVIOUS
<1>. HIDE DEF remapped, palette
<1>7. /\ Scan!UnsureNow \in AllUnsure /\ Scan!UnsureNow.windows = unsure.windows
      /\ Scan!UnsureNow.mapping = remapped /\ Scan!UnsureNow.palette = palette
  BY <1>1, <1>2, <1>3, <1>4 DEF AllUnsure
<1>. QED
  BY <1>5, <1>6, <1>7

\* The sprites of a line that is drawn are made of the copies.
LEMMA SpritesAreMade ==
  ASSUME CopiesAreMarked, Scan!HBlank, CopiesWereDue
  PROVE  /\ sprites'.attributes = oam.attributes /\ sprites'.tiles = oam.tiles
         /\ unsure'.mapping \/ sprites'.mapping = oam.mapping
         /\ ~unsure'.palette => flat' = now.memory.palette /\ sprites'.palette = now.memory.palette
<1>1. /\ sprites' = (IF spriteDirty THEN Scan!MadeSprites ELSE sprites) /\ unsure' = Scan!UnsureNow
      /\ flat' = Scan!Flattened
  BY DrawnIs
<1>2. Scan!MadeSprites = [attributes |-> oam.attributes, tiles |-> oam.tiles, mapping |-> now.registers.mapping,
                          palette |-> Scan!Flattened]
  BY Zenon DEF Scan!MadeSprites
<1>3. Scan!IsScreenOn \/ ~unsure.palette => Scan!Flattened = now.memory.palette
  BY Zenon DEF Scan!Flattened, CopiesAreMarked
<1>4. due.mapping = oam.mapping
  BY DEF CopiesWereDue
<1>5. CASE spriteDirty
  <2>1. /\ sprites'.attributes = oam.attributes /\ sprites'.tiles = oam.tiles
        /\ sprites'.mapping = now.registers.mapping /\ sprites'.palette = Scan!Flattened
    BY <1>1, <1>2, <1>5
  <2>. QED
    BY <1>1, <1>3, <1>4, <1>5, <2>1, UnsureIs, Zenon
<1>6. CASE ~spriteDirty
  BY <1>1, <1>3, <1>6, UnsureIs, Zenon DEF CopiesAreMarked
<1>. QED
  BY <1>5, <1>6, Zenon

\* What DrawSprites copies is marked no more, and is what is due.
LEMMA LookedAtIs ==
  ASSUME CopiesAreMarked
  PROVE  /\ Scan!LookedAt.attributes = now.memory.attributes
         /\ ~Scan!Unlooked.tiles => Scan!LookedAt.tiles = now.memory.tiles
         /\ Scan!Unlooked \in AllDirty /\ Scan!Unlooked.background = dirty.background
         /\ Scan!DueSprites.attributes = Scan!LookedAt.attributes
         /\ Scan!DueSprites.tiles \in {Scan!Anything, Scan!LookedAt.tiles}
         /\ Scan!DueSprites.mapping = Scan!LookedAt.mapping
<1>1. /\ Scan!LookedAt.attributes = (IF dirty.attributes THEN now.memory.attributes ELSE oam.attributes)
      /\ Scan!LookedAt.tiles = (IF Scan!TilesChanged THEN now.memory.tiles ELSE oam.tiles)
      /\ Scan!LookedAt.mapping = now.registers.mapping
  BY DEF Scan!LookedAt
<1>2. /\ Scan!DueSprites.attributes = now.memory.attributes
      /\ Scan!DueSprites.tiles = (IF Scan!IsScreenOn \/ ~dirty.tiles THEN now.memory.tiles ELSE Scan!Anything)
      /\ Scan!DueSprites.mapping = now.registers.mapping
  BY DEF Scan!DueSprites
<1>3. /\ dirty \in AllDirty /\ (~dirty.attributes => oam.attributes = now.memory.attributes)
      /\ (~dirty.tiles => oam.tiles = now.memory.tiles)
  BY DEF CopiesAreMarked
<1>4. Scan!TilesChanged <=> Scan!IsScreenOn /\ dirty.tiles
  BY DEF Scan!TilesChanged
<1>5. /\ Scan!Unlooked \in AllDirty /\ Scan!Unlooked.background = dirty.background
      /\ (Scan!Unlooked.tiles <=> dirty.tiles /\ ~Scan!TilesChanged)
  <2>. DEFINE tiles == dirty.tiles /\ ~Scan!TilesChanged
  <2>1. Scan!Unlooked = [dirty EXCEPT !.attributes = FALSE, !.tiles = tiles]
    BY Zenon DEF Scan!Unlooked
  <2>2. tiles \in BOOLEAN
    BY <1>3 DEF AllDirty
  <2>. HIDE DEF tiles
  <2>3. Scan!Unlooked \in AllDirty /\ Scan!Unlooked.background = dirty.background /\ Scan!Unlooked.tiles = tiles
    BY <1>3, <2>1, <2>2 DEF AllDirty
  <2>. QED
    BY <2>3 DEF tiles
<1>. QED
  BY <1>1, <1>2, <1>3, <1>4, <1>5, Zenon

\* Sprites that are not to be made anew are those of the copies.
LEMMA NotMadeAnew ==
  ASSUME NEW pending, Scan!DrawSprites(pending), ~spriteDirty'
  PROVE  ~pending /\ oam'.attributes = oam.attributes /\ oam'.tiles = oam.tiles /\ oam'.mapping = oam.mapping
<1>1. ~pending /\ ~dirty.attributes /\ ~Scan!TilesChanged /\ now.registers.mapping = oam.mapping /\ oam' = Scan!LookedAt
  BY Zenon DEF Scan!DrawSprites
<1>. QED
  BY <1>1 DEF Scan!LookedAt

\* Drawing a line keeps the copies marked, and the sprites of the next line are those due.
LEMMA DrawnMarks ==
  ASSUME ScanInv, Scan!HBlank
  PROVE  CopiesAreMarked' /\ (line' < Lines => CopiesWereDue')
<1>1. CopiesAreMarked /\ CopiesWereDue /\ line \in Nat
  BY DEF ScanInv, ScanTypes, Scan!HBlank
<1>2. /\ now' = now
      /\ picture' = IF Scan!BackgroundChanged THEN now.memory.background ELSE picture
  BY DrawnIs
<1>3. /\ sprites'.attributes = oam.attributes /\ sprites'.tiles = oam.tiles
      /\ unsure'.mapping \/ sprites'.mapping = oam.mapping
      /\ ~unsure'.palette => flat' = now.memory.palette /\ sprites'.palette = now.memory.palette
  BY <1>1, SpritesAreMade, Zenon
<1>4. unsure' \in AllUnsure
  BY <1>1, DrawnIs, UnsureIs
<1>. DEFINE unlooked == IF line < Lines - 1 THEN Scan!Unlooked ELSE dirty
<1>5. dirty' = [unlooked EXCEPT !.background = unlooked.background /\ ~Scan!BackgroundChanged]
  BY Zenon DEF Scan!HBlank
<1>6. unlooked \in AllDirty /\ unlooked.background = dirty.background
  BY <1>1, LookedAtIs DEF CopiesAreMarked
<1>7. /\ dirty' \in AllDirty /\ dirty'.attributes = unlooked.attributes /\ dirty'.tiles = unlooked.tiles
      /\ ~dirty'.background => Scan!BackgroundChanged \/ ~dirty.background
  <2>. HIDE DEF unlooked
  <2>1. (unlooked.background /\ ~Scan!BackgroundChanged) \in BOOLEAN
    BY <1>6 DEF AllDirty
  <2>. QED
    BY <1>5, <1>6, <2>1 DEF AllDirty
<1>8. ~dirty'.background => picture' = now.memory.background
  BY <1>1, <1>2, <1>7, Zenon DEF CopiesAreMarked
<1>9. CASE line < Lines - 1
  <2>1. Scan!DrawSprites(FALSE) /\ unlooked = Scan!Unlooked
    BY <1>9 DEF Scan!HBlank
  <2>2. oam' = Scan!LookedAt /\ due' = Scan!DueSprites
    BY <2>1 DEF Scan!DrawSprites
  <2>3. /\ oam'.attributes = now.memory.attributes /\ (~dirty'.tiles => oam'.tiles = now.memory.tiles)
        /\ due'.attributes = oam'.attributes /\ due'.tiles \in {Scan!Anything, oam'.tiles} /\ due'.mapping = oam'.mapping
    <3>. HIDE DEF unlooked
    <3>. QED
      BY <1>1, <1>7, <2>1, <2>2, LookedAtIs, Zenon
  <2>4. ~spriteDirty' => oam'.attributes = oam.attributes /\ oam'.tiles = oam.tiles /\ oam'.mapping = oam.mapping
    BY <2>1, NotMadeAnew
  <2>5. CopiesAreMarked'
    BY <1>1, <1>2, <1>3, <1>4, <1>7, <1>8, <2>3, <2>4, Zenon DEF CopiesAreMarked
  <2>6. CopiesWereDue'
    BY <2>3, Zenon DEF CopiesWereDue, Scan!Anything
  <2>. QED
    BY <2>5, <2>6
<1>10. CASE ~(line < Lines - 1)
  <2>1. oam' = oam /\ line' = line + 1 /\ unlooked = dirty
    BY <1>10 DEF Scan!HBlank
  <2>2. ~(line' < Lines)
    BY <1>1, <1>10, <2>1, DrawingAssumption DEF Scan!SectionsAssumption
  <2>. HIDE DEF unlooked
  <2>3. CopiesAreMarked'
    BY <1>1, <1>2, <1>3, <1>4, <1>7, <1>8, <2>1, Zenon DEF CopiesAreMarked
  <2>. QED
    BY <2>2, <2>3
<1>. QED
  BY <1>9, <1>10, Zenon

\* What the stages make of an image that is right.
LEMMA ShownIsRight ==
  ASSUME NEW ask, ask.display = seen.display, ask.dark <=> seen.dark, NEW image, NEW free,
         ~ask.dark => Meets(image, ask.image, free)
  PROVE  ShowsRight(ShownOf(image), ask, free)
<1>1. CASE seen.dark
  BY <1>1, Zenon DEF ShowsRight, ShownOf
<1>2. CASE ~seen.dark
  <2>1. /\ ShownOf(image) # Scan!Nothing /\ ShownOf(image).display = seen.display /\ ShownOf(image).image = image
    BY <1>2 DEF ShownOf, Scan!Nothing
  <2>. QED
    BY <1>2, <2>1, Zenon DEF ShowsRight
<1>. QED
  BY <1>1, <1>2

LEMMA CapturedIsRight ==
  ASSUME NEW ask, ask.capturing = seen.capturing, NEW image, NEW free, ~ask.dark => Meets(image, ask.image, free)
  PROVE  CapturesRight([capturing |-> seen.capturing, image |-> image], ask, free)
<1>. DEFINE made == [capturing |-> seen.capturing, image |-> image]
<1>1. made # Scan!Nothing /\ made.capturing = seen.capturing /\ made.image = image
  BY DEF Scan!Nothing
<1>. HIDE DEF made
<1>2. CapturesRight(made, ask, free)
  BY <1>1, Zenon DEF CapturesRight
<1>. QED
  BY <1>2 DEF made

\* What is copied or composed of the lines before is still what they ask for.
LEMMA EarlierIsKept ==
  ASSUME ScanInv, Scan!HBlank, NEW l \in 0 .. line - 1
  PROVE  LineIsKept(l)'
<1>1. /\ l \in Scan!AllLines /\ line > 0 /\ line \in Nat /\ l \in Nat /\ l < line /\ line \in 0 .. Lines /\ l # line
      /\ last.sprite \in Nat /\ last.unit \in Nat /\ last.screen \in Nat /\ last.capture \in Nat
  BY DrawingAssumption DEF Scan!SectionsAssumption, ScanInv, ScanTypes, Scan!AllLines, Scan!HBlank
<1>2. LineIsKept(l) /\ line < Lines
  <2>1. line <= Lines
    BY <1>1, DrawingAssumption DEF Scan!SectionsAssumption
  <2>. QED
    BY <2>1, Zenon DEF ScanInv, Scan!HBlank
<1>3. scanAsked'[l] = scanAsked[l] /\ unit'.scroll[l] = unit.scroll[l]
  <2>1. scanAsked' = [scanAsked EXCEPT ![line] = Scan!Asked] /\ unit'.scroll = [unit.scroll EXCEPT ![line] = now.registers.scroll]
    BY DrawnIs
  <2>2. DOMAIN scanAsked = Scan!AllLines /\ DOMAIN unit.scroll = Scan!AllLines
    BY DEF ScanInv, ScanTypes
  <2>. QED
    BY <1>1, <2>1, <2>2
<1>0. unsure'.windows = unsure.windows
  <2>1. CopiesAreMarked /\ unsure' = Scan!UnsureNow
    BY DrawnIs DEF ScanInv
  <2>. QED
    BY <2>1, UnsureIs
<1>. DEFINE free == l \in unsure.windows
            want == scanAsked[l].image
<1>4. Scan!CompositionDirty /\ ~scanAsked[l].dark => Meets(OutNow[l], want, free)
  <2>1. SUFFICES ASSUME Scan!CompositionDirty PROVE ~scanAsked[l].dark => Meets(OutNow[l], want, free)
    OBVIOUS
  <2>2. OutNow = Scan!Composed(ObjectsNow, last.unit, line)
    BY <1>1, <2>1, Zenon DEF OutNow
  <2>3. \A k \in 0 .. line - 1 : ObjectsNow[k] = IF k < last.sprite THEN unit.objects[k] ELSE SpritesNow
    BY <1>2, <2>1, ObjectsAreKept, Zenon
  <2>. QED
    BY <1>1, <2>2, <2>3, SectionIsComposed, Zenon
<1>5. Scan!NeedRender => Scan!CompositionDirty
  BY Zenon DEF Scan!CompositionDirty
<1>6. Scan!NeedCapture => Scan!NeedRender
  BY Zenon DEF Scan!NeedRender
<1>. HIDE DEF free, want
<1>7. (~scanAsked[l].dark =>
         Meets(IF l < last.unit THEN unit.out[l] ELSE ToCompose(l), scanAsked[l].image, l \in unsure.windows))'
  <2>1. CASE Scan!CompositionDirty
    <3>1. last'.unit = line /\ unit'.out = OutNow
      BY <2>1, DrawnIs
    <3>2. (IF l < last.unit THEN unit.out[l] ELSE ToCompose(l))' = OutNow[l]
      BY <1>1, <3>1
    <3>3. ~scanAsked[l].dark => Meets(OutNow[l], scanAsked[l].image, l \in unsure.windows)
      BY <1>4, <2>1 DEF free, want
    <3>. QED
      BY <1>0, <1>3, <3>2, <3>3, Zenon
  <2>2. CASE ~Scan!CompositionDirty
    <3>1. /\ unit'.out = unit.out /\ last'.unit = last.unit
          /\ seen'.composition = seen.composition /\ (seen'.blank <=> seen.blank) /\ picture' = picture
          /\ now'.registers.window = now.registers.window
      <4>1. OutNow = unit.out
        BY <2>2, Zenon DEF OutNow
      <4>2. ~Scan!BackgroundChanged /\ now.registers.composition = seen.composition /\ (now.registers.blank = seen.blank)
        BY <2>2, Zenon DEF Scan!CompositionDirty
      <4>3. /\ unit'.out = OutNow /\ last'.unit = (IF Scan!CompositionDirty THEN line ELSE last.unit) /\ now' = now
            /\ seen' = now.registers /\ picture' = IF Scan!BackgroundChanged THEN now.memory.background ELSE picture
        BY DrawnIs, Zenon
      <4>. QED
        BY <2>2, <4>1, <4>2, <4>3, Zenon
    <3>2. (IF l < last.sprite THEN unit.objects[l] ELSE SpritesNow)' = IF l < last.sprite THEN unit.objects[l] ELSE SpritesNow
      <4>1. CASE spriteDirty
        <5>1. last'.sprite = line /\ unit'.objects = ObjectsNow
          BY <4>1, DrawnIs
        <5>2. ObjectsNow[l] = IF l < last.sprite THEN unit.objects[l] ELSE SpritesNow
          BY <1>2, <4>1, ObjectsAreKept, Zenon
        <5>3. (IF l < last.sprite THEN unit.objects[l] ELSE SpritesNow)' = ObjectsNow[l]
          BY <1>1, <5>1
        <5>. QED
          BY <5>2, <5>3, Zenon
      <4>2. CASE ~spriteDirty
        <5>1. last'.sprite = last.sprite /\ sprites' = sprites
          BY <4>2, DrawnIs
        <5>2. unit'.objects[l] = unit.objects[l]
          BY <1>2, <2>2, <4>2, ObjectsAreKept, DrawnIs
        <5>3. SpritesNow' = SpritesNow
          BY <3>1, <5>1, Zenon DEF SpritesNow
        <5>. QED
          BY <5>1, <5>2, <5>3, Zenon
      <4>. QED
        BY <4>1, <4>2, Zenon
    <3>3. ToCompose(l)' = ToCompose(l)
      BY <1>3, <3>1, <3>2, Zenon DEF ToCompose, ComposedOf, Scan!Blank
    <3>4. ~scanAsked[l].dark =>
            Meets(IF l < last.unit THEN unit.out[l] ELSE ToCompose(l), scanAsked[l].image, l \in unsure.windows)
      BY <1>2, Zenon DEF LineIsKept
    <3>5. (IF l < last.unit THEN unit.out[l] ELSE ToCompose(l))' = IF l < last.unit THEN unit.out[l] ELSE ToCompose(l)
      BY <3>1, <3>3, Zenon
    <3>. QED
      BY <1>0, <1>3, <3>4, <3>5, Zenon
  <2>. QED
    BY <2>1, <2>2, Zenon
<1>8. /\ (l < last.screen => ShowsRight(screen[l], scanAsked[l], l \in unsure.windows))'
      /\ (l >= last.screen => scanAsked[l].display = seen.display /\ (scanAsked[l].dark <=> seen.dark))'
  <2>1. CASE Scan!NeedRender
    <3>1. last'.screen = line /\ screen' = Scan!Shown(OutNow, last.screen, line)
      BY <1>1, <2>1, DrawnIs
    <3>2. screen'[l] = IF l \in last.screen .. line - 1 THEN ShownOf(OutNow[l]) ELSE screen[l]
      BY <1>1, <3>1, ShownIs
    <3>3. ShowsRight(screen'[l], scanAsked[l], l \in unsure.windows)
      <4>1. CASE l < last.screen
        <5>1. screen'[l] = screen[l]
          BY <1>1, <3>2, <4>1
        <5>. QED
          BY <1>2, <4>1, <5>1, Zenon DEF LineIsKept
      <4>2. CASE ~(l < last.screen)
        <5>1. l \in last.screen .. line - 1 /\ l >= last.screen
          BY <1>1, <4>2
        <5>2. scanAsked[l].display = seen.display /\ (scanAsked[l].dark <=> seen.dark)
          BY <1>2, <5>1, Zenon DEF LineIsKept
        <5>3. ~scanAsked[l].dark => Meets(OutNow[l], scanAsked[l].image, l \in unsure.windows)
          BY <1>4, <1>5, <2>1 DEF free, want
        <5>4. screen'[l] = ShownOf(OutNow[l])
          BY <3>2, <5>1, Zenon
        <5>. QED
          BY <5>2, <5>3, <5>4, ShownIsRight, Zenon
      <4>. QED
        BY <4>1, <4>2, Zenon
    <3>. QED
      BY <1>0, <1>1, <1>3, <3>1, <3>3
  <2>2. CASE ~Scan!NeedRender
    <3>1. last'.screen = last.screen /\ screen' = screen /\ seen' = now.registers
      BY <2>2, DrawnIs
    <3>2. now.registers.display = seen.display /\ now.registers.dark = seen.dark
      BY <2>2, Zenon DEF Scan!NeedRender
    <3>3. /\ l < last.screen => ShowsRight(screen[l], scanAsked[l], l \in unsure.windows)
          /\ l >= last.screen => scanAsked[l].display = seen.display /\ (scanAsked[l].dark <=> seen.dark)
      BY <1>2, Zenon DEF LineIsKept
    <3>. QED
      BY <1>0, <1>3, <3>1, <3>2, <3>3, Zenon
  <2>. QED
    BY <2>1, <2>2, Zenon
<1>9. /\ (l < last.capture => CapturesRight(capture[l], scanAsked[l], l \in unsure.windows))'
      /\ (l >= last.capture => scanAsked[l].capturing = seen.capturing)'
  <2>1. CASE Scan!NeedCapture
    <3>1. last'.capture = line /\ capture' = Scan!Captured(OutNow, last.capture, line)
      BY <1>1, <2>1, DrawnIs
    <3>. DEFINE made == Scan!Captured(OutNow, last.capture, line)
    <3>2. capture'[l] = IF l \in last.capture .. line - 1
                        THEN [capturing |-> seen.capturing, image |-> OutNow[l]] ELSE capture[l]
      <4>1. l \in Scan!AllLines
        BY <1>1
      <4>2. made[l] = IF l \in last.capture .. line - 1
                      THEN [capturing |-> seen.capturing, image |-> OutNow[l]] ELSE capture[l]
        BY <4>1, CapturedIs, ZenonT(60)
      <4>3. capture' = made
        BY <3>1
      <4>. HIDE DEF made
      <4>. QED
        BY <4>2, <4>3
    <3>. HIDE DEF made
    <3>3. CapturesRight(capture'[l], scanAsked[l], l \in unsure.windows)
      <4>1. CASE l < last.capture
        <5>1. capture'[l] = capture[l]
          BY <1>1, <3>2, <4>1
        <5>. QED
          BY <1>2, <4>1, <5>1, Zenon DEF LineIsKept
      <4>2. CASE ~(l < last.capture)
        <5>1. l \in last.capture .. line - 1 /\ l >= last.capture
          BY <1>1, <4>2
        <5>2. scanAsked[l].capturing = seen.capturing
          BY <1>2, <5>1, Zenon DEF LineIsKept
        <5>3. ~scanAsked[l].dark => Meets(OutNow[l], scanAsked[l].image, l \in unsure.windows)
          BY <1>4, <1>5, <1>6, <2>1 DEF free, want
        <5>4. capture'[l] = [capturing |-> seen.capturing, image |-> OutNow[l]]
          BY <3>2, <5>1, Zenon
        <5>. QED
          BY <5>2, <5>3, <5>4, CapturedIsRight, Zenon
      <4>. QED
        BY <4>1, <4>2, Zenon
    <3>. QED
      BY <1>0, <1>1, <1>3, <3>1, <3>3
  <2>2. CASE ~Scan!NeedCapture
    <3>1. last'.capture = last.capture /\ capture' = capture /\ seen' = now.registers
      BY <2>2, DrawnIs
    <3>2. now.registers.capturing = seen.capturing
      BY <2>2, Zenon DEF Scan!NeedCapture
    <3>3. /\ l < last.capture => CapturesRight(capture[l], scanAsked[l], l \in unsure.windows)
          /\ l >= last.capture => scanAsked[l].capturing = seen.capturing
      BY <1>2, Zenon DEF LineIsKept
    <3>. QED
      BY <1>0, <1>3, <3>1, <3>2, <3>3, Zenon
  <2>. QED
    BY <2>1, <2>2, Zenon
<1>. QED
  BY <1>7, <1>8, <1>9, Zenon DEF LineIsKept

\* And the line just drawn is what it asks for.
LEMMA NewIsKept ==
  ASSUME ScanInv, Scan!HBlank, NEW l, l = line
  PROVE  LineIsKept(l)'
<1>1. /\ line \in Scan!AllLines /\ line \in 0 .. Lines - 1 /\ line \in Nat /\ CopiesAreMarked /\ CopiesWereDue
      /\ last.sprite <= line /\ last.unit <= line /\ last.screen <= line /\ last.capture <= line
      /\ last.sprite \in Nat /\ last.unit \in Nat /\ last.screen \in Nat /\ last.capture \in Nat
  <2>1. line \in 0 .. Lines - 1 /\ line <= Lines /\ line < Lines
    BY DrawingAssumption DEF Scan!SectionsAssumption, ScanInv, ScanTypes, Scan!HBlank
  <2>. QED
    BY <2>1 DEF ScanInv, ScanTypes, Scan!AllLines
<1>2. /\ ~(l < last'.sprite) /\ ~(l < last'.unit) /\ ~(l < last'.screen) /\ ~(l < last'.capture)
  BY <1>1, DrawnIs
<1>3. scanAsked'[l] = Scan!Asked /\ unit'.scroll[l] = now.registers.scroll
  <2>1. scanAsked' = [scanAsked EXCEPT ![line] = Scan!Asked] /\ unit'.scroll = [unit.scroll EXCEPT ![line] = now.registers.scroll]
    BY DrawnIs
  <2>2. DOMAIN scanAsked = Scan!AllLines /\ DOMAIN unit.scroll = Scan!AllLines
    BY DEF ScanInv, ScanTypes
  <2>. QED
    BY <1>1, <2>1, <2>2
<1>. DEFINE made == [attributes |-> due.attributes, tiles |-> due.tiles,
                     mapping |-> IF Scan!UnsureNow.mapping THEN Scan!Anything ELSE due.mapping,
                     palette |-> IF Scan!UnsureNow.palette THEN Scan!Anything ELSE now.memory.palette]
            objects == [sprites |-> made, window |-> now.registers.window]
            drawnOf == [sprites |-> sprites', window |-> now.registers.window]
<1>4. /\ Scan!Asked.display = now.registers.display /\ Scan!Asked.dark = now.registers.dark
      /\ Scan!Asked.capturing = now.registers.capturing
      /\ Scan!Asked.image = IF now.registers.blank THEN Scan!Blank
                       ELSE [blank |-> FALSE, composition |-> now.registers.composition, scroll |-> now.registers.scroll,
                             background |-> now.memory.background, objects |-> objects]
  BY DEF Scan!Asked
<1>5. seen' = now.registers /\ now' = now
  BY DrawnIs
<1>6. ASSUME ~now.registers.dark, ~now.registers.blank PROVE picture' = now.memory.background
  <2>1. picture' = IF Scan!BackgroundChanged THEN now.memory.background ELSE picture
    BY DrawnIs
  <2>2. ~Scan!BackgroundChanged => ~dirty.background
    BY <1>6, Zenon DEF Scan!BackgroundChanged, Scan!IsScreenOn
  <2>. QED
    BY <2>1, <2>2, Zenon DEF ScanInv, CopiesAreMarked
<1>7. ToCompose(l)' = IF now.registers.blank THEN Scan!Blank
                         ELSE [blank |-> FALSE, composition |-> now.registers.composition, scroll |-> now.registers.scroll,
                               background |-> picture', objects |-> drawnOf]
  <2>1. SpritesNow' = drawnOf
    BY <1>5, Zenon DEF SpritesNow
  <2>. HIDE DEF drawnOf
  <2>. QED
    BY <1>2, <1>3, <1>5, <2>1, Zenon DEF ToCompose, ComposedOf, Scan!Blank
<1>8. \A part \in DOMAIN made : made[part] \in {Scan!Anything, drawnOf.sprites[part]}
  <2>1. /\ sprites'.attributes = oam.attributes /\ sprites'.tiles = oam.tiles
        /\ Scan!UnsureNow.mapping \/ sprites'.mapping = oam.mapping
        /\ Scan!UnsureNow.palette \/ sprites'.palette = now.memory.palette
    BY <1>1, SpritesAreMade, DrawnIs, Zenon
  <2>2. due.attributes = oam.attributes /\ due.tiles \in {Scan!Anything, oam.tiles} /\ due.mapping = oam.mapping
    BY <1>1 DEF CopiesWereDue
  <2>3. drawnOf.sprites = sprites'
    OBVIOUS
  <2>4. made.mapping \in {Scan!Anything, sprites'.mapping} /\ made.palette \in {Scan!Anything, sprites'.palette}
    BY <2>1, <2>2
  <2>5. made.attributes = sprites'.attributes /\ made.tiles \in {Scan!Anything, sprites'.tiles}
    BY <2>1, <2>2
  <2>6. DOMAIN made = {"attributes", "tiles", "mapping", "palette"}
    OBVIOUS
  <2>. HIDE DEF made, drawnOf
  <2>. QED
    BY <2>3, <2>4, <2>5, <2>6
<1>9. ASSUME ~now.registers.dark PROVE Meets(ToCompose(l)', Scan!Asked.image, l \in unsure'.windows)
  <2>1. CASE now.registers.blank
    BY <1>4, <1>7, <2>1, Zenon DEF Meets
  <2>2. CASE ~now.registers.blank
    <3>. DEFINE image == ToCompose(l)'
                want == Scan!Asked.image
    <3>1. /\ image # Scan!Blank /\ image # Scan!Nothing /\ want # Scan!Blank
          /\ \A part \in {"composition", "scroll", "background"} : image[part] = want[part]
          /\ image.objects = drawnOf /\ want.objects = objects
      <4>. HIDE DEF drawnOf, objects
      <4>. QED
        BY <1>4, <1>6, <1>7, <1>9, <2>2 DEF Scan!Blank, Scan!Nothing
    <3>2. objects.sprites = made /\ objects.window = drawnOf.window
      OBVIOUS
    <3>. HIDE DEF image, want, made, objects, drawnOf
    <3>3. Meets(image, want, l \in unsure'.windows)
      BY <1>8, <3>1, <3>2, Zenon DEF Meets
    <3>. QED
      BY <3>3 DEF image, want
  <2>. QED
    BY <2>1, <2>2
<1>. HIDE DEF made, objects, drawnOf
<1>. QED
  BY <1>2, <1>3, <1>4, <1>5, <1>9, Zenon DEF LineIsKept

LEMMA HBlankKeeps ==
  ASSUME ScanInv, Scan!HBlank
  PROVE  ScanInv'
<1>1. /\ line \in 0 .. Lines - 1 /\ line' = line + 1 /\ line \in Nat /\ Lines \in Nat
  BY DrawingAssumption DEF Scan!SectionsAssumption, ScanInv, ScanTypes, Scan!HBlank
<1>2. /\ last.sprite <= line /\ last.unit <= line /\ last.screen <= line /\ last.capture <= line
      /\ last.sprite \in Nat /\ last.unit \in Nat /\ last.screen \in Nat /\ last.capture \in Nat
  <2>1. line <= Lines
    BY <1>1
  <2>. QED
    BY <2>1 DEF ScanInv, ScanTypes
<1>3. /\ last'.sprite \in 0 .. line /\ last'.unit \in 0 .. line /\ last'.screen \in 0 .. line /\ last'.capture \in 0 .. line
  BY <1>1, <1>2, DrawnIs
<1>4. ScanTypes'
  <2>1. DOMAIN scanAsked' = Scan!AllLines /\ DOMAIN unit'.scroll = Scan!AllLines
    BY DrawnIs DEF ScanInv, ScanTypes
  <2>. QED
    BY <1>1, <1>3, <2>1 DEF ScanTypes, Scan!AllLines
<1>5. ASSUME NEW l \in 0 .. line' - 1 PROVE LineIsKept(l)'
  <2>1. CASE l = line
    BY <2>1, NewIsKept, Zenon
  <2>2. CASE l # line
    <3>1. l \in 0 .. line - 1
      BY <1>1, <2>2
    <3>. QED
      BY <3>1, EarlierIsKept, Zenon
  <2>. QED
    BY <2>1, <2>2, Zenon
<1>6. last'.sprite <= line' /\ last'.unit <= line' /\ last'.screen <= line' /\ last'.capture <= line'
  BY <1>1, <1>3
<1>7. ~(line' > Lines) /\ line' # Lines + 1
  BY <1>1
<1>. QED
  BY <1>4, <1>5, <1>6, <1>7, DrawnMarks, Zenon DEF ScanInv, Scan!LinesAreTheirOwn, Scan!CaptureIsItsOwn, Scan!Finished

LEMMA VBlankKeeps ==
  ASSUME ScanInv, Scan!VBlank
  PROVE  ScanInv'
<1>. DEFINE objects == Scan!RenderedSprites(last.sprite, Lines)
            out == Scan!Composed(objects, last.unit, Lines)
<1>1. /\ line = Lines /\ line' = Lines + 1 /\ Lines \in Nat \ {0} /\ line <= Lines /\ line \in 0 .. Lines
      /\ last.sprite \in Nat /\ last.unit \in Nat /\ last.screen \in Nat /\ last.capture \in Nat
  BY DrawingAssumption DEF Scan!SectionsAssumption, ScanInv, ScanTypes, Scan!VBlank
<1>2. /\ unit' = [unit EXCEPT !.objects = objects, !.out = out]
      /\ screen' = Scan!Shown(out, last.screen, Lines)
      /\ capture' = Scan!Captured(out, last.capture, Lines)
      /\ last' = [sprite |-> 0, unit |-> 0, screen |-> 0, capture |-> 0]
      /\ UNCHANGED <<written, now, dirty, seen, oam, flat, sprites, spriteDirty, picture, due, unsure, scanAsked>>
  BY Zenon DEF Scan!VBlank
<1>3. ASSUME NEW l \in Scan!AllLines
      PROVE  objects[l] = IF l < last.sprite THEN unit.objects[l] ELSE SpritesNow
  <2>1. objects[l] = IF l \in last.sprite .. Lines - 1 THEN SpritesNow ELSE unit.objects[l]
    BY RenderedIs
  <2>2. l \in last.sprite .. Lines - 1 <=> ~(l < last.sprite)
    BY <1>1 DEF Scan!AllLines
  <2>. QED
    BY <2>1, <2>2, Zenon
<1>4. ASSUME NEW l \in Scan!AllLines
      PROVE  LineIsKept(l) /\ (~scanAsked[l].dark => Meets(out[l], scanAsked[l].image, l \in unsure.windows))
  <2>1. l \in 0 .. line - 1 /\ \A k \in 0 .. line - 1 : k \in Scan!AllLines
    BY <1>1 DEF Scan!AllLines
  <2>2. LineIsKept(l)
    BY <1>1, <2>1, Zenon DEF ScanInv
  <2>. HIDE DEF objects
  <2>3. ~scanAsked[l].dark => Meets(Scan!Composed(objects, last.unit, line)[l], scanAsked[l].image, l \in unsure.windows)
    BY <1>1, <1>3, <2>1, SectionIsComposed, Zenon
  <2>. QED
    BY <1>1, <2>2, <2>3, Zenon
<1>. HIDE DEF objects, out
<1>5. ASSUME NEW l \in Scan!AllLines
      PROVE  ShowsRight(screen'[l], scanAsked[l], l \in unsure.windows)
  <2>1. screen'[l] = IF l \in last.screen .. Lines - 1 THEN ShownOf(out[l]) ELSE screen[l]
    BY <1>2, ShownIs
  <2>2. l \in last.screen .. Lines - 1 <=> ~(l < last.screen)
    BY <1>1 DEF Scan!AllLines
  <2>3. CASE l < last.screen
    BY <1>4, <2>1, <2>2, <2>3, Zenon DEF LineIsKept
  <2>4. CASE ~(l < last.screen)
    <3>1. l >= last.screen /\ screen'[l] = ShownOf(out[l])
      BY <1>1, <2>1, <2>2, <2>4 DEF Scan!AllLines
    <3>2. scanAsked[l].display = seen.display /\ (scanAsked[l].dark <=> seen.dark)
      BY <1>4, <3>1, Zenon DEF LineIsKept
    <3>3. ~scanAsked[l].dark => Meets(out[l], scanAsked[l].image, l \in unsure.windows)
      BY <1>4
    <3>. QED
      BY <3>1, <3>2, <3>3, ShownIsRight, Zenon
  <2>. QED
    BY <2>3, <2>4, Zenon
<1>6. ASSUME NEW l \in Scan!AllLines
      PROVE  CapturesRight(capture'[l], scanAsked[l], l \in unsure.windows)
  <2>1. capture'[l] = IF l \in last.capture .. Lines - 1 THEN [capturing |-> seen.capturing, image |-> out[l]] ELSE capture[l]
    BY <1>2, CapturedIs
  <2>2. l \in last.capture .. Lines - 1 <=> ~(l < last.capture)
    BY <1>1 DEF Scan!AllLines
  <2>3. CASE l < last.capture
    BY <1>4, <2>1, <2>2, <2>3, Zenon DEF LineIsKept
  <2>4. CASE ~(l < last.capture)
    <3>1. l >= last.capture /\ capture'[l] = [capturing |-> seen.capturing, image |-> out[l]]
      BY <1>1, <2>1, <2>2, <2>4 DEF Scan!AllLines
    <3>2. scanAsked[l].capturing = seen.capturing
      BY <1>4, <3>1, Zenon DEF LineIsKept
    <3>3. ~scanAsked[l].dark => Meets(out[l], scanAsked[l].image, l \in unsure.windows)
      BY <1>4
    <3>. QED
      BY <3>1, <3>2, <3>3, CapturedIsRight, Zenon
  <2>. QED
    BY <2>3, <2>4, Zenon
<1>7. Scan!LinesAreTheirOwn' /\ Scan!CaptureIsItsOwn'
  <2>1. scanAsked' = scanAsked /\ unsure' = unsure
    BY <1>2
  <2>2. \A l \in Scan!AllLines : ShowsRight(screen'[l], scanAsked'[l], l \in unsure'.windows)
    BY <1>5, <2>1, Zenon
  <2>3. \A l \in Scan!AllLines : CapturesRight(capture'[l], scanAsked'[l], l \in unsure'.windows)
    BY <1>6, <2>1, Zenon
  <2>. QED
    BY <2>2, <2>3, OwnIsThen, Zenon DEF InTheseWords
<1>9. ScanTypes'
  <2>1. DOMAIN unit'.scroll = Scan!AllLines /\ DOMAIN scanAsked' = Scan!AllLines
    BY <1>2 DEF ScanInv, ScanTypes
  <2>. QED
    BY <1>1, <1>2, <2>1 DEF ScanTypes, Scan!AllLines
<1>10. CopiesAreMarked'
  BY <1>2 DEF ScanInv, CopiesAreMarked
<1>11. ~(line' < Lines) /\ ~(line' <= Lines)
  BY <1>1
<1>. QED
  BY <1>2, <1>7, <1>9, <1>10, <1>11, Zenon DEF ScanInv

LEMMA VBlankEndKeeps ==
  ASSUME ScanInv, Scan!VBlankEnd
  PROVE  ScanInv'
<1>1. line = Lines + 1 /\ line' = 0 /\ Lines \in Nat \ {0} /\ line > Lines
  BY DrawingAssumption DEF Scan!SectionsAssumption, Scan!VBlankEnd
<1>2. last' = last /\ last = [sprite |-> 0, unit |-> 0, screen |-> 0, capture |-> 0]
  BY <1>1 DEF Scan!VBlankEnd, ScanInv
<1>3. /\ Scan!DrawSprites(spriteDirty) /\ oam' = Scan!LookedAt /\ due' = Scan!DueSprites /\ dirty' = Scan!Unlooked
      /\ unsure' = [unsure EXCEPT !.windows = {}]
      /\ now' = now /\ flat' = flat /\ sprites' = sprites /\ picture' = picture
  BY Zenon DEF Scan!VBlankEnd, Scan!DrawSprites
<1>4. CopiesAreMarked
  BY DEF ScanInv
<1>5. /\ oam'.attributes = now.memory.attributes /\ (~dirty'.tiles => oam'.tiles = now.memory.tiles)
      /\ due'.attributes = oam'.attributes /\ due'.tiles \in {Scan!Anything, oam'.tiles} /\ due'.mapping = oam'.mapping
      /\ dirty' \in AllDirty /\ dirty'.background = dirty.background
  BY <1>3, <1>4, LookedAtIs, Zenon
<1>6. unsure' \in AllUnsure /\ unsure'.mapping = unsure.mapping /\ unsure'.palette = unsure.palette
  BY <1>3, <1>4 DEF CopiesAreMarked, AllUnsure
<1>7. ~spriteDirty' => /\ ~spriteDirty /\ oam'.attributes = oam.attributes /\ oam'.tiles = oam.tiles
                       /\ oam'.mapping = oam.mapping
  BY <1>3, NotMadeAnew
<1>8. CopiesAreMarked'
  BY <1>3, <1>4, <1>5, <1>6, <1>7, Zenon DEF CopiesAreMarked
<1>12. CopiesWereDue'
  BY <1>5, Zenon DEF CopiesWereDue, Scan!Anything
<1>9. ScanTypes'
  <2>1. DOMAIN unit'.scroll = Scan!AllLines /\ DOMAIN scanAsked' = Scan!AllLines
    BY DEF Scan!VBlankEnd, Scan!PerLine
  <2>. QED
    BY <1>1, <1>2, <2>1 DEF ScanTypes, Scan!AllLines
<1>10. /\ last'.sprite <= line' /\ last'.unit <= line' /\ last'.screen <= line' /\ last'.capture <= line'
       /\ \A l : l \notin 0 .. line' - 1
  BY <1>1, <1>2
<1>11. ~(line' > Lines) /\ line' # Lines + 1
  BY <1>1
<1>. QED
  BY <1>8, <1>9, <1>10, <1>11, <1>12, Zenon DEF ScanInv, Scan!LinesAreTheirOwn, Scan!CaptureIsItsOwn, Scan!Finished

\* What the game writes is marked, and changes nothing of the lines so far but the object
\* window of those that wait, which then is free.
LEMMA WritesKeep ==
  ASSUME ScanInv, CopiesAreMarked', UNCHANGED <<line, Scan!rendererVars, due, scanAsked>>,
         \/ now'.registers.window = now.registers.window /\ unsure'.windows = unsure.windows
         \/ unsure'.windows = unsure.windows \cup Scan!Waiting
  PROVE  ScanInv'
<1>1. /\ line' = line /\ seen' = seen /\ oam' = oam /\ sprites' = sprites /\ spriteDirty' = spriteDirty
      /\ picture' = picture /\ unit' = unit /\ screen' = screen /\ capture' = capture /\ last' = last
      /\ due' = due /\ scanAsked' = scanAsked
  BY DEF Scan!rendererVars
<1>2. unsure.windows \subseteq unsure'.windows
  OBVIOUS
<1>3. ASSUME line <= Lines, NEW l \in 0 .. line - 1 PROVE LineIsKept(l)'
  <2>. DEFINE free == l \in unsure.windows
              more == l \in unsure'.windows
              want == scanAsked[l].image
              one == IF l < last.sprite THEN unit.objects[l] ELSE SpritesNow
              other == IF l < last.sprite THEN unit.objects[l] ELSE SpritesNow'
              image == IF l < last.unit THEN unit.out[l] ELSE ToCompose(l)
  <2>1. (free => more) /\ LineIsKept(l) /\ scanAsked'[l] = scanAsked[l]
    BY <1>1, <1>2, <1>3 DEF ScanInv
  <2>2. /\ \A i, w : Meets(i, w, free) => Meets(i, w, more)
        /\ \A shows, ask : ShowsRight(shows, ask, free) => ShowsRight(shows, ask, more)
        /\ \A captures, ask : CapturesRight(captures, ask, free) => CapturesRight(captures, ask, more)
    <3>. HIDE DEF free, more
    <3>. QED
      BY <2>1, FreeIsMore, Zenon
  <2>3. ToCompose(l)' = ComposedOf(other, l) /\ ToCompose(l) = ComposedOf(one, l)
    BY <1>1, Zenon DEF ToCompose, ComposedOf, Scan!Blank
  <2>4. one.sprites = other.sprites
    BY <1>1 DEF SpritesNow
  <2>5. image' = IF l < last.unit THEN unit.out[l] ELSE ToCompose(l)'
    BY <1>1, Zenon
  <2>6. ~scanAsked[l].dark => Meets(image', want, more)
    <3>1. ~scanAsked[l].dark => Meets(image, want, free)
      BY <2>1, Zenon DEF LineIsKept
    <3>2. CASE now'.registers.window = now.registers.window \/ l < last.unit
      <4>1. now'.registers.window = now.registers.window => one = other
        BY <1>1, Zenon DEF SpritesNow
      <4>2. image' = image
        BY <2>3, <2>5, <3>2, <4>1, Zenon
      <4>. HIDE DEF image, want, free, more
      <4>. QED
        BY <2>2, <3>1, <4>2, Zenon
    <3>3. CASE unsure'.windows = unsure.windows \cup Scan!Waiting /\ ~(l < last.unit)
      <4>1. l \in Scan!Waiting
        BY <1>3, <3>3, DrawingAssumption DEF Scan!Waiting, Scan!AllLines, ScanInv, ScanTypes, Scan!SectionsAssumption
      <4>2. more
        BY <3>3, <4>1, Zenon
      <4>3. ~scanAsked[l].dark => Meets(ComposedOf(one, l), want, free)
        BY <2>3, <3>1, <3>3, Zenon
      <4>4. image' = ComposedOf(other, l)
        BY <2>3, <2>5, <3>3, Zenon
      <4>. HIDE DEF one, other, image, want, free, more
      <4>5. ~scanAsked[l].dark => Meets(ComposedOf(other, l), want, TRUE)
        BY <2>4, <4>3, WindowIsFree, Zenon
      <4>6. TRUE => more
        BY <4>2
      <4>7. \A i, w : Meets(i, w, TRUE) => Meets(i, w, more)
        BY <4>6, FreeIsMore, Zenon
      <4>. QED
        BY <4>4, <4>5, <4>7, Zenon
    <3>. QED
      BY <3>2, <3>3, Zenon
  <2>7. /\ last' = last /\ screen' = screen /\ capture' = capture /\ seen' = seen
    BY <1>1
  <2>8. (~scanAsked[l].dark =>
           Meets(IF l < last.unit THEN unit.out[l] ELSE ToCompose(l), scanAsked[l].image, l \in unsure.windows))'
    BY <2>1, <2>6
  <2>9. (l < last.screen => ShowsRight(screen[l], scanAsked[l], l \in unsure.windows))'
    BY <2>1, <2>2, <2>7, Zenon DEF LineIsKept
  <2>10. (l < last.capture => CapturesRight(capture[l], scanAsked[l], l \in unsure.windows))'
    BY <2>1, <2>2, <2>7, Zenon DEF LineIsKept
  <2>11. /\ (l >= last.screen => scanAsked[l].display = seen.display /\ (scanAsked[l].dark <=> seen.dark))'
         /\ (l >= last.capture => scanAsked[l].capturing = seen.capturing)'
    BY <2>1, <2>7, Zenon DEF LineIsKept
  <2>. HIDE DEF free, more, want, one, other, image
  <2>. QED
    BY <2>8, <2>9, <2>10, <2>11, Zenon DEF LineIsKept
<1>4. ScanTypes'
  BY <1>1, Zenon DEF ScanInv, ScanTypes, Scan!AllLines
<1>5. Scan!LinesAreTheirOwn' /\ Scan!CaptureIsItsOwn'
  <2>1. line = Lines + 1 => /\ \A l \in Scan!AllLines : ShowsRight(screen[l], scanAsked[l], l \in unsure.windows)
                            /\ \A l \in Scan!AllLines : CapturesRight(capture[l], scanAsked[l], l \in unsure.windows)
    BY OwnIs, Zenon DEF InTheseWords, ScanInv
  <2>2. \A l : (l \in unsure.windows) => (l \in unsure'.windows)
    BY <1>2
  <2>3. line' = Lines + 1 =>
          /\ \A l \in Scan!AllLines : ShowsRight(screen'[l], scanAsked'[l], l \in unsure'.windows)
          /\ \A l \in Scan!AllLines : CapturesRight(capture'[l], scanAsked'[l], l \in unsure'.windows)
    BY <1>1, <2>1, <2>2, FreeIsMore, Zenon
  <2>. QED
    BY <2>3, OwnIsThen, Zenon DEF InTheseWords
<1>6. CopiesWereDue' <=> CopiesWereDue
  BY <1>1, Zenon DEF CopiesWereDue, Scan!Anything
<1>. QED
  BY <1>1, <1>3, <1>4, <1>5, <1>6, Zenon DEF ScanInv

LEMMA WriteRegisterKeeps ==
  ASSUME ScanInv, NEW r \in DOMAIN now.registers, NEW value,
         IF r \in {"window", "blank", "dark"} THEN value \in BOOLEAN ELSE value \in Versions, Scan!WriteRegister(r, value)
  PROVE  ScanInv'
<1>1. CopiesAreMarked
  BY DEF ScanInv
<1>2. /\ now' = [now EXCEPT !.registers[r] = value]
      /\ unsure' = (IF r = "window" THEN [unsure EXCEPT !.windows = unsure.windows \cup Scan!Waiting] ELSE unsure)
      /\ UNCHANGED <<line, dirty, Scan!rendererVars, due, scanAsked>>
  BY Zenon DEF Scan!WriteRegister
<1>3. now \in AllNow /\ unsure \in AllUnsure /\ dirty \in AllDirty
  BY <1>1 DEF CopiesAreMarked
<1>4. r \in {"composition", "scroll", "window", "mapping", "blank", "display", "dark", "capturing"}
  BY <1>3 DEF AllNow, AllRegisters
<1>5. [now.registers EXCEPT ![r] = value] \in AllRegisters
  <2>1. now.registers \in AllRegisters
    BY <1>3 DEF AllNow
  <2>2. CASE r \in {"window", "blank", "dark"}
    BY <2>1, <2>2 DEF AllRegisters
  <2>3. CASE r \notin {"window", "blank", "dark"}
    BY <1>4, <2>1, <2>3 DEF AllRegisters
  <2>. QED
    BY <2>2, <2>3
<1>6. /\ now' \in AllNow /\ now'.memory = now.memory
      /\ now'.registers = [now.registers EXCEPT ![r] = value]
  BY <1>2, <1>3, <1>5 DEF AllNow
<1>7. unsure' \in AllUnsure /\ unsure'.mapping = unsure.mapping /\ unsure'.palette = unsure.palette
  <2>1. unsure.windows \cup Scan!Waiting \subseteq Scan!AllLines
    BY <1>3 DEF AllUnsure, Scan!Waiting
  <2>. QED
    BY <1>2, <1>3, <2>1 DEF AllUnsure
<1>8. \/ now'.registers.window = now.registers.window /\ unsure'.windows = unsure.windows
      \/ unsure'.windows = unsure.windows \cup Scan!Waiting
  <2>1. CASE r = "window"
    BY <1>2, <1>3, <2>1 DEF AllUnsure
  <2>2. CASE r # "window"
    <3>1. now.registers \in AllRegisters
      BY <1>3 DEF AllNow
    <3>. QED
      BY <1>2, <1>6, <2>2, <3>1 DEF AllRegisters
  <2>. QED
    BY <2>1, <2>2
<1>9. /\ dirty' = dirty /\ picture' = picture /\ oam' = oam /\ sprites' = sprites /\ spriteDirty' = spriteDirty
      /\ flat' = flat
  BY <1>2 DEF Scan!rendererVars
<1>10. CopiesAreMarked'
  BY <1>1, <1>6, <1>7, <1>9, Zenon DEF CopiesAreMarked
<1>. QED
  BY <1>2, <1>8, <1>10, WritesKeep

LEMMA WriteMemoryKeeps ==
  ASSUME ScanInv, NEW m \in DOMAIN now.memory, NEW value \in Versions, Scan!WriteMemory(m, value)
  PROVE  ScanInv'
<1>1. CopiesAreMarked
  BY DEF ScanInv
<1>2. /\ now' = [now EXCEPT !.memory[m] = value]
      /\ dirty' = [d \in DOMAIN dirty |-> dirty[d] \/ d = m]
      /\ unsure' = [unsure EXCEPT !.palette = unsure.palette \/ m = "palette"]
      /\ UNCHANGED <<line, Scan!rendererVars, due, scanAsked>>
  BY Zenon DEF Scan!WriteMemory
<1>3. now \in AllNow /\ unsure \in AllUnsure /\ dirty \in AllDirty
  BY <1>1 DEF CopiesAreMarked
<1>4. now.memory \in AllMemory /\ m \in {"background", "attributes", "tiles", "palette"}
  BY <1>3 DEF AllNow, AllMemory
<1>5. /\ [now.memory EXCEPT ![m] = value] \in AllMemory
      /\ \A k \in {"background", "attributes", "tiles", "palette"} : k # m => [now.memory EXCEPT ![m] = value][k] = now.memory[k]
  BY <1>4 DEF AllMemory
<1>6. /\ now' \in AllNow /\ now'.registers = now.registers /\ now'.memory = [now.memory EXCEPT ![m] = value]
  BY <1>2, <1>3, <1>5 DEF AllNow
<1>7. /\ m # "background" => now'.memory.background = now.memory.background
      /\ m # "attributes" => now'.memory.attributes = now.memory.attributes
      /\ m # "tiles" => now'.memory.tiles = now.memory.tiles
      /\ m # "palette" => now'.memory.palette = now.memory.palette
  BY <1>5, <1>6
<1>8. /\ dirty' \in AllDirty
      /\ dirty'.background <=> dirty.background \/ m = "background"
      /\ dirty'.attributes <=> dirty.attributes \/ m = "attributes"
      /\ dirty'.tiles <=> dirty.tiles \/ m = "tiles"
  BY <1>2, <1>3 DEF AllDirty
<1>9. /\ unsure' \in AllUnsure /\ unsure'.mapping = unsure.mapping /\ unsure'.windows = unsure.windows
      /\ unsure'.palette <=> unsure.palette \/ m = "palette"
  BY <1>2, <1>3 DEF AllUnsure
<1>10. picture' = picture /\ oam' = oam /\ sprites' = sprites /\ spriteDirty' = spriteDirty /\ flat' = flat
  BY <1>2 DEF Scan!rendererVars
<1>11. CopiesAreMarked'
  BY <1>1, <1>6, <1>7, <1>8, <1>9, <1>10, Zenon DEF CopiesAreMarked
<1>. QED
  BY <1>2, <1>6, <1>9, <1>11, WritesKeep

LEMMA ScanStep ==
  ASSUME ScanInv, [Scan!Next]_ScanVars
  PROVE  ScanInv'
<1>0. DOMAIN now.registers = {"composition", "scroll", "window", "mapping", "blank", "display", "dark", "capturing"}
  BY DEF ScanInv, CopiesAreMarked, AllNow, AllRegisters
<1>1. CASE \E r \in {"composition", "scroll", "mapping", "display", "capturing"}, value \in Versions :
             Scan!WriteRegister(r, value)
  <2>1. PICK r \in {"composition", "scroll", "mapping", "display", "capturing"}, value \in Versions :
          Scan!WriteRegister(r, value)
    BY <1>1
  <2>. QED
    BY <1>0, <2>1, WriteRegisterKeeps
<1>2. CASE \E r \in {"window", "blank", "dark"}, value \in BOOLEAN : Scan!WriteRegister(r, value)
  <2>1. PICK r \in {"window", "blank", "dark"}, value \in BOOLEAN : Scan!WriteRegister(r, value)
    BY <1>2
  <2>. QED
    BY <1>0, <2>1, WriteRegisterKeeps
<1>3. CASE \E m \in DOMAIN now.memory, value \in Versions : Scan!WriteMemory(m, value)
  <2>1. PICK m \in DOMAIN now.memory, value \in Versions : Scan!WriteMemory(m, value)
    BY <1>3
  <2>. QED
    BY <2>1, WriteMemoryKeeps
<1>4. CASE UNCHANGED ScanVars
  <2>1. now' = now /\ dirty' = dirty /\ unsure' = unsure /\ UNCHANGED <<line, Scan!rendererVars, due, scanAsked>>
    BY <1>4 DEF ScanVars, Scan!rendererVars
  <2>2. CopiesAreMarked'
    BY <2>1 DEF ScanInv, CopiesAreMarked, Scan!rendererVars
  <2>. QED
    BY <2>1, <2>2, WritesKeep
<1>. QED
  BY <1>1, <1>2, <1>3, <1>4, HBlankKeeps, VBlankKeeps, VBlankEndKeeps, Zenon DEF Scan!Next

LEMMA ScanInit == Scan!Init => ScanInv
<1>. SUFFICES ASSUME Scan!Init PROVE ScanInv
  OBVIOUS
<1>1. Lines \in Nat \ {0} /\ Versions # {} /\ line = 0
  BY DrawingAssumption DEF Scan!SectionsAssumption, Scan!Init
<1>2. CopiesAreMarked /\ CopiesWereDue
  <2>. DEFINE v == CHOOSE v \in Versions : TRUE
  <2>1. v \in Versions
    BY <1>1
  <2>2. now = [registers |-> [composition |-> v, scroll |-> v, window |-> FALSE, mapping |-> v, blank |-> FALSE,
                              display |-> v, dark |-> FALSE, capturing |-> v],
               memory |-> [background |-> v, attributes |-> v, tiles |-> v, palette |-> v]]
    BY Zenon DEF Scan!Init
  <2>. HIDE DEF v
  <2>3. now \in AllNow
    BY <2>1, <2>2 DEF AllNow, AllRegisters, AllMemory
  <2>4. /\ dirty = [background |-> TRUE, attributes |-> FALSE, tiles |-> FALSE] /\ spriteDirty = TRUE
        /\ oam = [attributes |-> now.memory.attributes, tiles |-> now.memory.tiles, mapping |-> now.registers.mapping]
        /\ due = Scan!DueSprites
        /\ unsure = [mapping |-> FALSE, palette |-> TRUE, windows |-> {}]
    BY Zenon DEF Scan!Init
  <2>5. /\ dirty \in AllDirty /\ dirty.background /\ unsure \in AllUnsure /\ unsure.palette /\ ~dirty.tiles
        /\ oam.attributes = now.memory.attributes /\ oam.tiles = now.memory.tiles /\ oam.mapping = now.registers.mapping
    BY <2>4 DEF AllDirty, AllUnsure
  <2>6. CopiesAreMarked
    BY <2>3, <2>4, <2>5, Zenon DEF CopiesAreMarked
  <2>7. due.attributes = now.memory.attributes /\ due.tiles = now.memory.tiles /\ due.mapping = now.registers.mapping
    BY <2>4, <2>5 DEF Scan!DueSprites
  <2>8. CopiesWereDue
    BY <2>5, <2>7 DEF CopiesWereDue
  <2>. QED
    BY <2>6, <2>8
<1>3. ScanTypes
  <2>1. DOMAIN scanAsked = Scan!AllLines /\ DOMAIN unit.scroll = Scan!AllLines /\ last = [sprite |-> 0, unit |-> 0, screen |-> 0, capture |-> 0]
    BY DEF Scan!Init, Scan!PerLine
  <2>. QED
    BY <1>1, <2>1 DEF ScanTypes
<1>4. /\ last.sprite <= line /\ last.unit <= line /\ last.screen <= line /\ last.capture <= line
      /\ \A l : l \notin 0 .. line - 1
  BY <1>1 DEF Scan!Init
<1>5. ~(line > Lines) /\ line # Lines + 1
  BY <1>1
<1>. QED
  BY <1>2, <1>3, <1>4, <1>5, Zenon DEF ScanInv, Scan!LinesAreTheirOwn, Scan!CaptureIsItsOwn, Scan!Finished

ScanOfAll == component = "Scan" => ScanInv

\* However late the renderer draws a section of lines, and whatever the game writes in
\* between: a finished frame shows every line, and the capture has every line that was
\* not dark, with the registers, the palettes and VRAM, the scroll offsets and the sprites
\* that were due when the console drew it (DrawScanline and UpdateAndRender,
\* GPU_Vulkan.cpp and GPU2D_Vulkan.cpp), save what the objects are not promised, which
\* LinesAreTheirOwn names: for screens of any height.
THEOREM LinesStayTheirOwn == SpecAll => []LinesAreTheirOwn
<1>1. InitAll => ScanOfAll
  BY BeginningOfOne, ScanInit DEF ScanOfAll
<1>2. ScanOfAll /\ [NextAll]_all => ScanOfAll'
  BY StepOfOne, ScanStep DEF ScanOfAll
<1>3. ScanOfAll => LinesAreTheirOwn
  BY DEF ScanOfAll, ScanInv, LinesAreTheirOwn
<1>. QED
  BY <1>1, <1>2, <1>3, PTL DEF SpecAll

-----------------------------------------------------------------------------
(* Layers                                                                   *)

\* The kind of a layer, by BG mode.
LEMMA LayerKinds ==
  ASSUME NEW m \in 0 .. 7, NEW l \in 0 .. 3
  PROVE  /\ Layer!LayerType(m, l) \in 0 .. 4
         /\ Layer!LayerType(m, l) = 4 <=> m = 6 /\ l = 2
         /\ l < 2 => Layer!LayerType(m, l) \in {0, 1}
<1>1. CASE m = 0
  BY <1>1 DEF Layer!LayerType
<1>2. CASE m = 1
  BY <1>2 DEF Layer!LayerType
<1>3. CASE m = 2
  BY <1>3 DEF Layer!LayerType
<1>4. CASE m = 3
  BY <1>4 DEF Layer!LayerType
<1>5. CASE m = 4
  BY <1>5 DEF Layer!LayerType
<1>6. CASE m = 5
  BY <1>6 DEF Layer!LayerType
<1>7. CASE m = 6
  BY <1>7 DEF Layer!LayerType
<1>8. CASE m = 7
  BY <1>8 DEF Layer!LayerType
<1>. QED
  BY <1>1, <1>2, <1>3, <1>4, <1>5, <1>6, <1>7, <1>8

\* What is derived, for each kind.
LEMMA DerivedByKind ==
  ASSUME DrawingAssumption, NEW e, NEW d \in Layer!AllDisps, NEW c \in Layer!Cnts, NEW l \in Layers, NEW cap, NEW old
  PROVE  LET kind == Layer!LayerType(d.mode, l) IN
         /\ kind \in 0 .. 4
         /\ kind = 0 => Layer!Derived(e, d, c, l, cap, old) = old
         /\ kind # 0 /\ l = 0 /\ d.is3D => Layer!Derived(e, d, c, l, cap, old) = Layer!ThreeDLayer(e, d, c, old.texture)
         /\ kind = 1 /\ ~(l = 0 /\ d.is3D) => Layer!Derived(e, d, c, l, cap, old) = Layer!TextLayer(e, d, c, l)
         /\ kind = 2 => Layer!Derived(e, d, c, l, cap, old) = Layer!AffineLayer(e, d, c, l) /\ l >= 2
         /\ kind = 3 /\ c.wide => Layer!Derived(e, d, c, l, cap, old) = Layer!BitmapLayer(e, d, c, l, cap) /\ l >= 2
         /\ kind = 3 /\ ~c.wide => Layer!Derived(e, d, c, l, cap, old) = Layer!ExtendedTiles(e, d, c, l) /\ l >= 2
         /\ kind = 4 => Layer!Derived(e, d, c, l, cap, old) = Layer!LargeLayer(e, d, c) /\ d.mode = 6 /\ l >= 2
<1>. DEFINE kind == Layer!LayerType(d.mode, l)
<1>1. d.mode \in 0 .. 7 /\ l \in 0 .. 3 /\ d.is3D \in BOOLEAN /\ c.wide \in BOOLEAN
  BY DEF DrawingAssumption, Layer!RegistersAssumption, Layer!AllDisps, Layer!Cnts
<1>2. kind \in 0 .. 4 /\ (kind = 4 <=> d.mode = 6 /\ l = 2) /\ (l < 2 => kind \in {0, 1})
  BY <1>1, LayerKinds
<1>. QED
  BY <1>1, <1>2 DEF Layer!Derived

\* A configuration, and two that differ in the wrapping at most.
IsConfig(f) ==
  /\ f.type \in 0 .. 8
  /\ f = [type |-> f.type, size |-> f.size, tile |-> f.tile, map |-> f.map, pal |-> f.pal, clamp |-> f.clamp]

Alike(f, g) == f.type = g.type /\ f.size = g.size /\ f.tile = g.tile /\ f.map = g.map /\ f.pal = g.pal

LEMMA AlikeIsEqual ==
  ASSUME NEW f, NEW g, IsConfig(f), IsConfig(g)
  PROVE  ([f EXCEPT !.clamp = g.clamp] = g) <=> Alike(f, g)
BY DEF IsConfig, Alike

\* What is derived of a layer that is on is a configuration; it does not depend on
\* what there was before but for the texture of a 3D layer.
LEMMA DerivedIsConfig ==
  ASSUME DrawingAssumption, NEW e, NEW d \in Layer!AllDisps, NEW c \in Layer!Cnts, NEW l \in Layers, NEW cap, NEW old,
         Layer!LayerType(d.mode, l) # 0
  PROVE  /\ IsConfig(Layer!Derived(e, d, c, l, cap, old).config)
         /\ \A o : /\ Layer!Derived(e, d, c, l, cap, o).config = Layer!Derived(e, d, c, l, cap, old).config
                   /\ Layer!Derived(e, d, c, l, cap, o).watched = Layer!Derived(e, d, c, l, cap, old).watched
                   /\ l >= 2 => Layer!Derived(e, d, c, l, cap, o).texture = Layer!Derived(e, d, c, l, cap, old).texture
<1>. DEFINE kind == Layer!LayerType(d.mode, l)
<1>1. \A o : LET kindOf == Layer!LayerType(d.mode, l) IN
         /\ kindOf \in 0 .. 4
         /\ kindOf = 0 => Layer!Derived(e, d, c, l, cap, o) = o
         /\ kindOf # 0 /\ l = 0 /\ d.is3D => Layer!Derived(e, d, c, l, cap, o) = Layer!ThreeDLayer(e, d, c, o.texture)
         /\ kindOf = 1 /\ ~(l = 0 /\ d.is3D) => Layer!Derived(e, d, c, l, cap, o) = Layer!TextLayer(e, d, c, l)
         /\ kindOf = 2 => Layer!Derived(e, d, c, l, cap, o) = Layer!AffineLayer(e, d, c, l) /\ l >= 2
         /\ kindOf = 3 /\ c.wide => Layer!Derived(e, d, c, l, cap, o) = Layer!BitmapLayer(e, d, c, l, cap) /\ l >= 2
         /\ kindOf = 3 /\ ~c.wide => Layer!Derived(e, d, c, l, cap, o) = Layer!ExtendedTiles(e, d, c, l) /\ l >= 2
         /\ kindOf = 4 => Layer!Derived(e, d, c, l, cap, o) = Layer!LargeLayer(e, d, c) /\ d.mode = 6 /\ l >= 2
  <2>. TAKE o
  <2>. QED
    BY DerivedByKind
<1>2. IsConfig(Layer!ThreeDLayer(e, d, c, old.texture).config)
  BY DEF Layer!ThreeDLayer, IsConfig
<1>3. IsConfig(Layer!TextLayer(e, d, c, l).config)
  BY DEF Layer!TextLayer, IsConfig
<1>4. IsConfig(Layer!AffineLayer(e, d, c, l).config)
  BY DEF Layer!AffineLayer, IsConfig
<1>5. IsConfig(Layer!BitmapLayer(e, d, c, l, cap).config)
  <2>1. Layer!BitmapType(c, cap) \in 0 .. 8
    BY DEF Layer!BitmapType
  <2>. QED
    BY <2>1 DEF Layer!BitmapLayer, IsConfig
<1>6. IsConfig(Layer!ExtendedTiles(e, d, c, l).config)
  BY DEF Layer!ExtendedTiles, IsConfig
<1>7. IsConfig(Layer!LargeLayer(e, d, c).config)
  BY DEF Layer!LargeLayer, IsConfig
<1>. HIDE DEF kind
<1>8. IsConfig(Layer!Derived(e, d, c, l, cap, old).config)
  BY <1>1, <1>2, <1>3, <1>4, <1>5, <1>6, <1>7 DEF kind
<1>9. ASSUME NEW o
      PROVE /\ Layer!Derived(e, d, c, l, cap, o).config = Layer!Derived(e, d, c, l, cap, old).config
            /\ Layer!Derived(e, d, c, l, cap, o).watched = Layer!Derived(e, d, c, l, cap, old).watched
            /\ l >= 2 => Layer!Derived(e, d, c, l, cap, o).texture = Layer!Derived(e, d, c, l, cap, old).texture
  <2>0. l \in Int
    BY DEF DrawingAssumption, Layer!RegistersAssumption
  <2>1. CASE l = 0 /\ d.is3D
    <3>1. /\ Layer!Derived(e, d, c, l, cap, o) = Layer!ThreeDLayer(e, d, c, o.texture)
          /\ Layer!Derived(e, d, c, l, cap, old) = Layer!ThreeDLayer(e, d, c, old.texture)
      BY <1>1, <2>1
    <3>2. /\ Layer!ThreeDLayer(e, d, c, o.texture).config = Layer!ThreeDLayer(e, d, c, old.texture).config
          /\ Layer!ThreeDLayer(e, d, c, o.texture).watched = Layer!ThreeDLayer(e, d, c, old.texture).watched
      BY DEF Layer!ThreeDLayer
    <3>. QED
      BY <3>1, <3>2, <2>1, <2>0
  <2>2. CASE ~(l = 0 /\ d.is3D)
    <3>1. Layer!Derived(e, d, c, l, cap, o) = Layer!Derived(e, d, c, l, cap, old)
      BY <1>1, <2>2
    <3>. QED
      BY <3>1
  <2>. QED
    BY <2>1, <2>2
<1>. QED
  BY <1>8, <1>9

\* Two values of BGxCNT that differ in bit 13 at most.
ButBit13(c, b) == [c EXCEPT !.bit13 = FALSE] = [b EXCEPT !.bit13 = FALSE]

\* Of BG2 and BG3, bit 13 is the wrapping and nothing else.
LEMMA Bit13IsWrapping ==
  ASSUME DrawingAssumption, NEW e, NEW d \in Layer!AllDisps, NEW c \in Layer!Cnts, NEW b \in Layer!Cnts, NEW l \in Layers, NEW cap, NEW old,
         l >= 2, Layer!LayerType(d.mode, l) # 0, ButBit13(c, b)
  PROVE  /\ Alike(Layer!Derived(e, d, c, l, cap, old).config, Layer!Derived(e, d, b, l, cap, old).config)
         /\ Layer!Derived(e, d, c, l, cap, old).texture = Layer!Derived(e, d, b, l, cap, old).texture
         /\ Layer!Derived(e, d, c, l, cap, old).watched = Layer!Derived(e, d, b, l, cap, old).watched
<1>0. l \in 0 .. 3
  BY DEF DrawingAssumption, Layer!RegistersAssumption
<1>1. c.tile = b.tile /\ (c.wide <=> b.wide) /\ c.map = b.map /\ c.size = b.size
  BY DEF Layer!Cnts, ButBit13
<1>1a. c.wide = b.wide
  BY DEF Layer!Cnts, ButBit13
<1>2. /\ Layer!IsDirect(c) <=> Layer!IsDirect(b)
      /\ Layer!TileOffset(e, d, c) = Layer!TileOffset(e, d, b) /\ Layer!MapOffset(e, d, c) = Layer!MapOffset(e, d, b)
      /\ Layer!ExtPal(d, c, l) = Layer!ExtPal(d, b, l)
  BY <1>0, <1>1 DEF Layer!IsDirect, Layer!TileOffset, Layer!MapOffset, Layer!ExtPal
<1>3. Layer!BitmapType(c, cap) = Layer!BitmapType(b, cap)
  BY <1>1, <1>2 DEF Layer!BitmapType
<1>4. Layer!TextLayer(e, d, c, l) = Layer!TextLayer(e, d, b, l)
  BY <1>0, <1>1, <1>2 DEF Layer!TextLayer
<1>5. /\ Alike(Layer!AffineLayer(e, d, c, l).config, Layer!AffineLayer(e, d, b, l).config)
      /\ Layer!AffineLayer(e, d, c, l).texture = Layer!AffineLayer(e, d, b, l).texture
      /\ Layer!AffineLayer(e, d, c, l).watched = Layer!AffineLayer(e, d, b, l).watched
  BY <1>1, <1>2 DEF Layer!AffineLayer, Alike
<1>6. /\ Alike(Layer!BitmapLayer(e, d, c, l, cap).config, Layer!BitmapLayer(e, d, b, l, cap).config)
      /\ Layer!BitmapLayer(e, d, c, l, cap).texture = Layer!BitmapLayer(e, d, b, l, cap).texture
      /\ Layer!BitmapLayer(e, d, c, l, cap).watched = Layer!BitmapLayer(e, d, b, l, cap).watched
  BY <1>1, <1>3 DEF Layer!BitmapLayer, Alike
<1>7. /\ Alike(Layer!ExtendedTiles(e, d, c, l).config, Layer!ExtendedTiles(e, d, b, l).config)
      /\ Layer!ExtendedTiles(e, d, c, l).texture = Layer!ExtendedTiles(e, d, b, l).texture
      /\ Layer!ExtendedTiles(e, d, c, l).watched = Layer!ExtendedTiles(e, d, b, l).watched
  BY <1>1, <1>2 DEF Layer!ExtendedTiles, Alike
<1>8. /\ Alike(Layer!LargeLayer(e, d, c).config, Layer!LargeLayer(e, d, b).config)
      /\ Layer!LargeLayer(e, d, c).texture = Layer!LargeLayer(e, d, b).texture
      /\ Layer!LargeLayer(e, d, c).watched = Layer!LargeLayer(e, d, b).watched
  BY <1>1, <1>2 DEF Layer!LargeLayer, Alike
<1>. DEFINE kind == Layer!LayerType(d.mode, l)
            Of(x) == Layer!Derived(e, d, x, l, cap, old)
<1>9. ASSUME NEW x \in {c, b}
      PROVE  /\ kind \in 0 .. 4
             /\ kind = 1 => Of(x) = Layer!TextLayer(e, d, x, l)
             /\ kind = 2 => Of(x) = Layer!AffineLayer(e, d, x, l)
             /\ kind = 3 /\ x.wide => Of(x) = Layer!BitmapLayer(e, d, x, l, cap)
             /\ kind = 3 /\ ~x.wide => Of(x) = Layer!ExtendedTiles(e, d, x, l)
             /\ kind = 4 => Of(x) = Layer!LargeLayer(e, d, x)
  <2>1. x \in Layer!Cnts
    OBVIOUS
  <2>. QED
    BY <1>0, <2>1, DerivedByKind
<1>10. kind \in 1 .. 4
  BY <1>9
<1>. HIDE DEF kind, Of
<1>11. CASE kind = 1
  <2>1. Of(c) = Of(b)
    BY <1>4, <1>9, <1>11
  <2>. QED
    BY <2>1 DEF Of, Alike
<1>12. CASE kind = 2
  <2>1. Of(c) = Layer!AffineLayer(e, d, c, l) /\ Of(b) = Layer!AffineLayer(e, d, b, l)
    BY <1>9, <1>12
  <2>. QED
    BY <2>1, <1>5 DEF Of
<1>13. CASE kind = 3 /\ c.wide
  <2>1. Of(c) = Layer!BitmapLayer(e, d, c, l, cap) /\ Of(b) = Layer!BitmapLayer(e, d, b, l, cap)
    BY <1>1, <1>9, <1>13
  <2>. QED
    BY <2>1, <1>6 DEF Of
<1>14. CASE kind = 3 /\ ~c.wide
  <2>1. Of(c) = Layer!ExtendedTiles(e, d, c, l) /\ Of(b) = Layer!ExtendedTiles(e, d, b, l)
    BY <1>1, <1>9, <1>14
  <2>. QED
    BY <2>1, <1>7 DEF Of
<1>15. CASE kind = 4
  <2>1. Of(c) = Layer!LargeLayer(e, d, c) /\ Of(b) = Layer!LargeLayer(e, d, b)
    BY <1>9, <1>15
  <2>. QED
    BY <2>1, <1>8 DEF Of
<1>. QED
  BY <1>10, <1>11, <1>12, <1>13, <1>14, <1>15

\* A capture makes a difference only for a bitmap that becomes one.
LEMMA CaptureMakesCapture ==
  ASSUME DrawingAssumption, NEW e, NEW d \in Layer!AllDisps, NEW c \in Layer!Cnts, NEW l \in Layers, NEW old,
         NEW cap, NEW other, Layer!LayerType(d.mode, l) # 0,
         Layer!Derived(e, d, c, l, cap, old).config.type \notin {5, 7, 8}
  PROVE  Layer!Derived(e, d, c, l, cap, old) = Layer!Derived(e, d, c, l, other, old)
<1>. DEFINE kind == Layer!LayerType(d.mode, l)
            Of(x) == Layer!Derived(e, d, c, l, x, old)
<1>1. ASSUME NEW x
      PROVE  /\ kind \in 0 .. 4
             /\ kind # 0 /\ l = 0 /\ d.is3D => Of(x) = Layer!ThreeDLayer(e, d, c, old.texture)
             /\ kind = 1 /\ ~(l = 0 /\ d.is3D) => Of(x) = Layer!TextLayer(e, d, c, l)
             /\ kind = 2 => Of(x) = Layer!AffineLayer(e, d, c, l)
             /\ kind = 3 /\ c.wide => Of(x) = Layer!BitmapLayer(e, d, c, l, x)
             /\ kind = 3 /\ ~c.wide => Of(x) = Layer!ExtendedTiles(e, d, c, l)
             /\ kind = 4 => Of(x) = Layer!LargeLayer(e, d, c)
  BY DerivedByKind
<1>1a. kind # 0
  OBVIOUS
<1>. HIDE DEF kind, Of
<1>2. CASE kind = 3 /\ c.wide
  <2>1. Layer!BitmapLayer(e, d, c, l, cap).config.type = Layer!BitmapType(c, cap)
    BY DEF Layer!BitmapLayer
  <2>2. Layer!BitmapType(c, cap) \notin {5, 7, 8}
    BY <2>1, <1>1, <1>2 DEF Of
  <2>3. Layer!BitmapType(c, cap) = Layer!BitmapType(c, other)
    BY <2>2 DEF Layer!BitmapType
  <2>4. Layer!BitmapLayer(e, d, c, l, cap) = Layer!BitmapLayer(e, d, c, l, other)
    BY <2>3, Zenon DEF Layer!BitmapLayer
  <2>. QED
    BY <2>4, <1>1, <1>2 DEF Of
<1>3. CASE ~(kind = 3 /\ c.wide)
  <2>0. (l = 0 /\ d.is3D) \/ ~(l = 0 /\ d.is3D)
    OBVIOUS
  <2>1. Of(cap) = Of(other)
    <3>1. CASE l = 0 /\ d.is3D
      BY <3>1, <1>1, <1>1a
    <3>2. CASE ~(l = 0 /\ d.is3D) /\ kind = 1
      BY <3>2, <1>1
    <3>3. CASE kind = 2
      BY <3>3, <1>1
    <3>4. CASE kind = 3
      BY <3>4, <1>1, <1>3
    <3>5. CASE kind = 4
      BY <3>5, <1>1
    <3>. QED
      BY <2>0, <3>1, <3>2, <3>3, <3>4, <3>5, <1>1, <1>1a
  <2>. QED
    BY <2>1 DEF Of
<1>. QED
  BY <1>2, <1>3

\* And a direct colour bitmap is one whether or not it was looked for a capture.
LEMMA NoCaptureAnyway ==
  ASSUME DrawingAssumption, NEW e, NEW d \in Layer!AllDisps, NEW c \in Layer!Cnts, NEW l \in Layers, NEW old,
         NEW found, NEW none,
         Layer!BitmapType(c, found) = 5 => Layer!BitmapType(c, none) = 5,
         Layer!LayerType(d.mode, l) # 0,
         Layer!Derived(e, d, c, l, found, old).config.type \notin {7, 8}
  PROVE  Layer!Derived(e, d, c, l, found, old) = Layer!Derived(e, d, c, l, none, old)
<1>1. CASE Layer!Derived(e, d, c, l, found, old).config.type # 5
  BY <1>1, CaptureMakesCapture
<1>2. CASE Layer!Derived(e, d, c, l, found, old).config.type = 5
  <2>. DEFINE kind == Layer!LayerType(d.mode, l)
              Of(x) == Layer!Derived(e, d, c, l, x, old)
  <2>1. ASSUME NEW x
        PROVE  /\ kind \in 0 .. 4
               /\ kind # 0 /\ l = 0 /\ d.is3D => Of(x) = Layer!ThreeDLayer(e, d, c, old.texture)
               /\ kind = 1 /\ ~(l = 0 /\ d.is3D) => Of(x) = Layer!TextLayer(e, d, c, l)
               /\ kind = 2 => Of(x) = Layer!AffineLayer(e, d, c, l)
               /\ kind = 3 /\ c.wide => Of(x) = Layer!BitmapLayer(e, d, c, l, x)
               /\ kind = 3 /\ ~c.wide => Of(x) = Layer!ExtendedTiles(e, d, c, l)
               /\ kind = 4 => Of(x) = Layer!LargeLayer(e, d, c)
    BY DerivedByKind
  <2>1a. kind # 0
    OBVIOUS
  <2>. HIDE DEF kind, Of
  <2>2. CASE kind = 3 /\ c.wide
    <3>1. Layer!BitmapLayer(e, d, c, l, found).config.type = Layer!BitmapType(c, found)
      BY DEF Layer!BitmapLayer
    <3>2. Layer!BitmapType(c, found) = 5
      BY <3>1, <1>2, <2>1, <2>2 DEF Of
    <3>3. Layer!BitmapType(c, found) = Layer!BitmapType(c, none)
      BY <3>2
    <3>4. Layer!BitmapLayer(e, d, c, l, found) = Layer!BitmapLayer(e, d, c, l, none)
      BY <3>3, Zenon DEF Layer!BitmapLayer
    <3>. QED
      BY <3>4, <2>1, <2>2 DEF Of
  <2>3. CASE ~(kind = 3 /\ c.wide)
    <3>0. (l = 0 /\ d.is3D) \/ ~(l = 0 /\ d.is3D)
      OBVIOUS
    <3>1. Of(found) = Of(none)
      <4>1. CASE l = 0 /\ d.is3D
        BY <4>1, <2>1, <2>1a
      <4>2. CASE ~(l = 0 /\ d.is3D) /\ kind = 1
        BY <4>2, <2>1
      <4>3. CASE kind = 2
        BY <4>3, <2>1
      <4>4. CASE kind = 3
        BY <4>4, <2>1, <2>3
      <4>5. CASE kind = 4
        BY <4>5, <2>1
      <4>. QED
        BY <3>0, <4>1, <4>2, <4>3, <4>4, <4>5, <2>1, <2>1a
    <3>. QED
      BY <3>1 DEF Of
  <2>. QED
    BY <2>2, <2>3
<1>. QED
  BY <1>1, <1>2

\* A range that is watched from its beginning and as long as it is.
LEMMA CoversWhole ==
  ASSUME DrawingAssumption, engine \in Engines, NEW w, NEW r, w.start \in Nat, w.length \in Nat, r.start = w.start,
         r.length \in Nat, r.length <= w.length \/ (w.length = 0 /\ r.length <= 1)
  PROVE  Layer!Covers(w, r)
<1>. DEFINE units == Layer!VramUnits
            length == IF w.length = 0 THEN 64 - (w.start % 64) ELSE w.length
<1>1. units \in {256, 1024}
  BY DEF Layer!VramUnits
<1>. HIDE DEF units
<1>2. (r.start - w.start) % units = 0
  <2>1. r.start - w.start = 0
    OBVIOUS
  <2>. QED
    BY <2>1, <1>1
<1>3. length \in Int /\ r.length <= length
  OBVIOUS
<1>4. w.start # -1
  OBVIOUS
<1>. HIDE DEF length
<1>5. ((r.start - w.start) % units) + r.length <= length
  BY <1>2, <1>3
<1>. QED
  BY <1>4, <1>5 DEF Layer!Covers, units, length

\* Or a whole that is watched.
LEMMA CoversAll ==
  ASSUME DrawingAssumption, engine \in Engines, NEW w, NEW r, w.start \in Nat, w.length \in Nat, w.length >= 1024
  PROVE  Layer!Covers(w, r)
<1>1. Layer!VramUnits \in {256, 1024}
  BY DEF Layer!VramUnits
<1>. QED
  BY <1>1 DEF Layer!Covers

\* Nothing is noted too short, by the sizes a layer can have.
LEMMA UnitsOfSizes ==
  ASSUME NEW s \in 0 .. 3
  PROVE  /\ Layer!Units(Layer!Area(Layer!TextSizes[Layer!Index(s)]) \div 32) = (<<4, 8, 8, 16>>)[Layer!Index(s)]
         /\ Layer!Units(Layer!Area(Layer!SquareSizes[Layer!Index(s)]) \div 64) = (<<1, 2, 8, 32>>)[Layer!Index(s)]
         /\ Layer!Units(Layer!Area(Layer!SquareSizes[Layer!Index(s)]) \div 32) = Layer!ExtendedMapUnits[Layer!Index(s)]
         /\ Layer!Units(Layer!Area(Layer!BitmapSizes[Layer!Index(s)])) = (<<32, 128, 256, 512>>)[Layer!Index(s)]
         /\ (<<4, 8, 8, 16>>)[Layer!Index(s)] \in Nat /\ (<<1, 2, 8, 32>>)[Layer!Index(s)] \in Nat
         /\ Layer!ExtendedMapUnits[Layer!Index(s)] \in Nat /\ (<<32, 128, 256, 512>>)[Layer!Index(s)] \in Nat
         /\ (<<0, 2, 8, 32>>)[Layer!Index(s)] = IF s = 0 THEN 0 ELSE (<<1, 2, 8, 32>>)[Layer!Index(s)]
         /\ s = 0 => (<<1, 2, 8, 32>>)[Layer!Index(s)] = 1
         /\ s \in {0, 1} => (<<1024, 1024, 256, 512>>)[Layer!Index(s)] = 1024
<1>1. CASE s = 0
  BY <1>1 DEF Layer!Units, Layer!Area, Layer!TextSizes, Layer!SquareSizes, Layer!BitmapSizes, Layer!ExtendedMapUnits, Layer!Index
<1>2. CASE s = 1
  BY <1>2 DEF Layer!Units, Layer!Area, Layer!TextSizes, Layer!SquareSizes, Layer!BitmapSizes, Layer!ExtendedMapUnits, Layer!Index
<1>3. CASE s = 2
  BY <1>3 DEF Layer!Units, Layer!Area, Layer!TextSizes, Layer!SquareSizes, Layer!BitmapSizes, Layer!ExtendedMapUnits, Layer!Index
<1>4. CASE s = 3
  BY <1>4 DEF Layer!Units, Layer!Area, Layer!TextSizes, Layer!SquareSizes, Layer!BitmapSizes, Layer!ExtendedMapUnits, Layer!Index
<1>. QED
  BY <1>1, <1>2, <1>3, <1>4

LEMMA OffsetsAreNat ==
  ASSUME DrawingAssumption, NEW e \in Engines, NEW d \in Layer!AllDisps, NEW c \in Layer!Cnts
  PROVE  Layer!TileOffset(e, d, c) \in Nat /\ Layer!MapOffset(e, d, c) \in Nat /\ 32 * c.map \in Nat /\ c.size \in 0 .. 3
<1>1. d.base \in {0, 1} /\ c.tile \in 0 .. 15 /\ c.map \in 0 .. 31 /\ c.size \in 0 .. 3 /\ e \in {0, 1}
  BY DEF DrawingAssumption, Layer!RegistersAssumption, Layer!AllDisps, Layer!Cnts
<1>2. (IF e = 0 THEN 128 * d.base ELSE 0) \in Nat
  BY <1>1
<1>. QED
  BY <1>1, <1>2 DEF Layer!TileOffset, Layer!MapOffset

\* Two configurations that differ in the wrapping are drawn from the same VRAM.
LEMMA ReadsAlike ==
  ASSUME NEW f, NEW g, Alike(f, g)
  PROVE  Layer!Reads(f) = Layer!Reads(g)
BY DEF Alike, Layer!Reads

\* What a layer's shader reads is among what was noted when its configuration was
\* derived.
Noted(new) == \A r \in Layer!Reads(new.config) : \E i \in 1 .. 2 : Layer!Covers(new.watched[i], r)

LEMMA DerivedIsNoted ==
  ASSUME DrawingAssumption, engine \in Engines, NEW d \in Layer!AllDisps, NEW c \in Layer!Cnts, NEW l \in Layers, NEW cap, NEW old,
         Layer!LayerType(d.mode, l) # 0,
         Layer!Derived(engine, d, c, l, cap, old).config.type # 5, ~(d.mode = 6 /\ c.size \in {2, 3})
  PROVE  Noted(Layer!Derived(engine, d, c, l, cap, old))
<1>. DEFINE new == Layer!Derived(engine, d, c, l, cap, old)
            tile == Layer!TileOffset(engine, d, c)
            map == Layer!MapOffset(engine, d, c)
            kind == Layer!LayerType(d.mode, l)
<1>1. tile \in Nat /\ map \in Nat /\ 32 * c.map \in Nat /\ c.size \in 0 .. 3 /\ c.wide \in BOOLEAN
  BY OffsetsAreNat DEF Layer!Cnts
<1>2. /\ kind \in 1 .. 4
      /\ l = 0 /\ d.is3D => new = Layer!ThreeDLayer(engine, d, c, old.texture)
      /\ kind = 1 /\ ~(l = 0 /\ d.is3D) => new = Layer!TextLayer(engine, d, c, l)
      /\ kind = 2 => new = Layer!AffineLayer(engine, d, c, l)
      /\ kind = 3 /\ c.wide => new = Layer!BitmapLayer(engine, d, c, l, cap)
      /\ kind = 3 /\ ~c.wide => new = Layer!ExtendedTiles(engine, d, c, l)
      /\ kind = 4 => new = Layer!LargeLayer(engine, d, c) /\ d.mode = 6
  BY DerivedByKind
<1>3. new.config.type # 5
  OBVIOUS
<1>. HIDE DEF new, kind
<1>4. CASE l = 0 /\ d.is3D
  <2>1. new.config.type = 6
    BY <1>2, <1>4 DEF Layer!ThreeDLayer
  <2>2. Layer!Reads(new.config) = {}
    BY <2>1 DEF Layer!Reads
  <2>. QED
    BY <2>2 DEF Noted, new
<1>5. CASE kind = 1 /\ ~(l = 0 /\ d.is3D)
  <2>. DEFINE len == IF c.wide THEN 128 ELSE 64
              entries == (<<4, 8, 8, 16>>)[Layer!Index(c.size)]
  <2>1. new = Layer!TextLayer(engine, d, c, l)
    BY <1>2, <1>5
  <2>2. entries \in Nat /\ Layer!Units(Layer!Area(Layer!TextSizes[Layer!Index(c.size)]) \div 32) = entries
    BY UnitsOfSizes, <1>1
  <2>. HIDE DEF tile, map, entries
  <2>3. /\ new.watched[1].start = tile /\ new.watched[1].length = len
        /\ new.watched[2].start = map /\ new.watched[2].length = entries
    BY <2>1 DEF Layer!TextLayer, tile, map, entries
  <2>4. /\ new.config.type = IF c.wide THEN 1 ELSE 0
        /\ new.config.tile = tile /\ new.config.map = map /\ new.config.size = Layer!TextSizes[Layer!Index(c.size)]
    BY <2>1 DEF Layer!TextLayer, tile, map
  <2>5. Layer!Reads(new.config) = {[start |-> tile, length |-> len], [start |-> map, length |-> entries]}
    BY <2>2, <2>4, <1>1 DEF Layer!Reads
  <2>6. Layer!Covers(new.watched[1], [start |-> tile, length |-> len])
    BY <2>3, <1>1, CoversWhole
  <2>7. Layer!Covers(new.watched[2], [start |-> map, length |-> entries])
    BY <2>2, <2>3, <1>1, CoversWhole
  <2>. HIDE DEF len
  <2>. QED
    BY <2>5, <2>6, <2>7 DEF Noted, new
<1>6. CASE kind = 2
  <2>. DEFINE entries == (<<1, 2, 8, 32>>)[Layer!Index(c.size)]
              noted == (<<0, 2, 8, 32>>)[Layer!Index(c.size)]
  <2>1. new = Layer!AffineLayer(engine, d, c, l)
    BY <1>2, <1>6
  <2>2. /\ entries \in Nat /\ Layer!Units(Layer!Area(Layer!SquareSizes[Layer!Index(c.size)]) \div 64) = entries
        /\ noted = IF c.size = 0 THEN 0 ELSE entries
        /\ c.size = 0 => entries = 1
    BY UnitsOfSizes, <1>1
  <2>. HIDE DEF tile, map, entries, noted
  <2>3. /\ new.watched[1].start = tile /\ new.watched[1].length = 32
        /\ new.watched[2].start = map /\ new.watched[2].length = noted
    BY <2>1 DEF Layer!AffineLayer, tile, map, noted
  <2>4. /\ new.config.type = 2
        /\ new.config.tile = tile /\ new.config.map = map /\ new.config.size = Layer!SquareSizes[Layer!Index(c.size)]
    BY <2>1 DEF Layer!AffineLayer, tile, map
  <2>5. Layer!Reads(new.config) = {[start |-> tile, length |-> 32], [start |-> map, length |-> entries]}
    BY <2>2, <2>4, <1>1 DEF Layer!Reads
  <2>6. Layer!Covers(new.watched[1], [start |-> tile, length |-> 32])
    BY <2>3, <1>1, CoversWhole
  <2>7. Layer!Covers(new.watched[2], [start |-> map, length |-> entries])
    BY <2>2, <2>3, <1>1, CoversWhole
  <2>. QED
    BY <2>5, <2>6, <2>7 DEF Noted, new
<1>7. CASE kind = 3 /\ ~c.wide
  <2>. DEFINE entries == Layer!ExtendedMapUnits[Layer!Index(c.size)]
  <2>1. new = Layer!ExtendedTiles(engine, d, c, l)
    BY <1>2, <1>7
  <2>2. entries \in Nat /\ Layer!Units(Layer!Area(Layer!SquareSizes[Layer!Index(c.size)]) \div 32) = entries
    BY UnitsOfSizes, <1>1
  <2>. HIDE DEF tile, map, entries
  <2>3. /\ new.watched[1].start = tile /\ new.watched[1].length = 128
        /\ new.watched[2].start = map /\ new.watched[2].length = entries
    BY <2>1 DEF Layer!ExtendedTiles, tile, map, entries
  <2>4. /\ new.config.type = 3
        /\ new.config.tile = tile /\ new.config.map = map /\ new.config.size = Layer!SquareSizes[Layer!Index(c.size)]
    BY <2>1 DEF Layer!ExtendedTiles, tile, map
  <2>5. Layer!Reads(new.config) = {[start |-> tile, length |-> 128], [start |-> map, length |-> entries]}
    BY <2>2, <2>4, <1>1 DEF Layer!Reads
  <2>6. Layer!Covers(new.watched[1], [start |-> tile, length |-> 128])
    BY <2>3, <1>1, CoversWhole
  <2>7. Layer!Covers(new.watched[2], [start |-> map, length |-> entries])
    BY <2>2, <2>3, <1>1, CoversWhole
  <2>. QED
    BY <2>5, <2>6, <2>7 DEF Noted, new
<1>8. CASE kind = 3 /\ c.wide
  <2>. DEFINE length == (<<32, 128, 256, 512>>)[Layer!Index(c.size)]
  <2>1. new = Layer!BitmapLayer(engine, d, c, l, cap)
    BY <1>2, <1>8
  <2>2. length \in Nat /\ Layer!Units(Layer!Area(Layer!BitmapSizes[Layer!Index(c.size)])) = length
    BY UnitsOfSizes, <1>1
  <2>. HIDE DEF length
  <2>3. new.watched[2].start = 32 * c.map /\ new.watched[2].length = length
    BY <2>1 DEF Layer!BitmapLayer, length
  <2>4. /\ new.config.type = Layer!BitmapType(c, cap) /\ new.config.size = Layer!BitmapSizes[Layer!Index(c.size)]
        /\ new.config.type = 4 => new.config.map = 32 * c.map
    BY <2>1 DEF Layer!BitmapLayer
  <2>5. Layer!BitmapType(c, cap) \in {4, 5, 7, 8}
    BY DEF Layer!BitmapType
  <2>6. CASE new.config.type = 4
    <3>1. Layer!Reads(new.config) = {[start |-> 32 * c.map, length |-> length]}
      BY <2>2, <2>4, <2>6 DEF Layer!Reads
    <3>2. Layer!Covers(new.watched[2], [start |-> 32 * c.map, length |-> length])
      BY <2>2, <2>3, <1>1, CoversWhole
    <3>. QED
      BY <3>1, <3>2 DEF Noted, new
  <2>7. CASE new.config.type \in {7, 8}
    <3>1. Layer!Reads(new.config) = {}
      BY <2>7 DEF Layer!Reads
    <3>. QED
      BY <3>1 DEF Noted, new
  <2>. QED
    BY <2>4, <2>5, <2>6, <2>7, <1>3
<1>9. CASE kind = 4
  <2>. DEFINE length == (<<1024, 1024, 256, 512>>)[Layer!Index(c.size)]
  <2>1. new = Layer!LargeLayer(engine, d, c) /\ c.size \in {0, 1}
    BY <1>1, <1>2, <1>9
  <2>2. length = 1024
    BY UnitsOfSizes, <1>1, <2>1
  <2>. HIDE DEF length, map
  <2>3. new.watched[2].start = map /\ new.watched[2].length = length
    BY <2>1 DEF Layer!LargeLayer, length, map
  <2>4. \A r : Layer!Covers(new.watched[2], r)
    BY <2>2, <2>3, <1>1, CoversAll
  <2>. QED
    BY <2>4 DEF Noted, new
<1>. QED
  BY <1>2, <1>4, <1>5, <1>6, <1>7, <1>8, <1>9

-----------------------------------------------------------------------------
(* The invariant                                                            *)

Old == [config |-> config, texture |-> texture, watched |-> watched]

\* What is cached was derived from the registers that were seen, with a capture
\* found or not; the wrapping of BG2 and BG3 may be an older one.
DerivedWith(cap) ==
  LET new == Layer!Derived(engine, seenDisp, seenCnt, layer, cap, Old) IN
  /\ IsConfig(config) /\ watched = new.watched
  /\ IF layer >= 2 THEN Alike(new.config, config) /\ texture = new.texture ELSE config = new.config

LayerTypes ==
  /\ layer \in Layers /\ engine \in Engines
  /\ disp \in Layer!AllDisps /\ seenDisp \in Layer!AllDisps /\ (disp.is3D => layer = 0) /\ (seenDisp.is3D => layer = 0)
  /\ cnt \in Layer!Cnts /\ seenCnt \in Layer!Cnts
  /\ captured \in BOOLEAN /\ configDirty \in BOOLEAN /\ dataDirty \in BOOLEAN /\ rendered \in BOOLEAN

\* Of a layer that is on, unless it will be derived anew in any case.
LayerIsOn == ~(configDirty /\ dataDirty) /\ Layer!LayerType(seenDisp.mode, layer) # 0

LayerDerived ==
  LayerIsOn => \E cap \in BOOLEAN : DerivedWith(cap) /\ (captured /\ ~configDirty => cap)

LayerRendered == LayerIsOn /\ layer >= 2 /\ config.type < 5 => rendered

LayerInv == LayerTypes /\ LayerDerived /\ LayerRendered

LEMMA LayerInit ==
  ASSUME DrawingAssumption, Layer!Init
  PROVE  LayerInv
<1>1. LayerTypes
  BY DEF Layer!Init, LayerTypes, DrawingAssumption, Layer!RegistersAssumption, Layer!AllDisps, Layer!Cnts
<1>2. ~LayerIsOn
  BY DEF Layer!Init, LayerIsOn
<1>. QED
  BY <1>1, <1>2 DEF LayerInv, LayerDerived, LayerRendered

\* The game writes a register, palettes or VRAM, or a capture begins.
LEMMA LayerDataKeep ==
  ASSUME DrawingAssumption, LayerInv, UNCHANGED <<layer, engine, seenDisp, seenCnt, Layer!cached>>,
         disp' \in Layer!AllDisps, disp'.is3D => layer = 0, cnt' \in Layer!Cnts,
         captured' \in BOOLEAN, configDirty' \in BOOLEAN, dataDirty' \in BOOLEAN,
         captured' /\ ~configDirty' => captured /\ ~configDirty,
         configDirty => configDirty', dataDirty => dataDirty'
  PROVE  LayerInv'
<1>1. LayerTypes'
  BY DEF LayerInv, LayerTypes, Layer!cached
<1>2. LayerIsOn' => LayerIsOn
  BY DEF LayerInv, LayerIsOn, LayerTypes
<1>3. \A cap : DerivedWith(cap) => DerivedWith(cap)'
  BY Zenon DEF DerivedWith, Old, Layer!cached
<1>4. ASSUME LayerIsOn' PROVE \E cap \in BOOLEAN : DerivedWith(cap)' /\ (captured' /\ ~configDirty' => cap)
  <2>1. PICK cap \in BOOLEAN : DerivedWith(cap) /\ (captured /\ ~configDirty => cap)
    BY <1>2, <1>4 DEF LayerInv, LayerDerived
  <2>2. DerivedWith(cap)' /\ (captured' /\ ~configDirty' => cap)
    BY <1>3, <2>1
  <2>. QED
    BY <2>2
<1>5. LayerDerived'
  BY <1>4 DEF LayerDerived
<1>6. LayerRendered'
  BY <1>2 DEF LayerInv, LayerRendered, Layer!cached
<1>. QED
  BY <1>1, <1>5, <1>6 DEF LayerInv

\* Nothing that the layer depends on has changed, and it is not isDirty: the
\* registers seen are the registers, but for bit 13 of BG2 and BG3.
LEMMA RegistersSeen ==
  ASSUME DrawingAssumption, LayerTypes, layer \notin Layer!DispCntDirty(disp, seenDisp), ~Layer!BgCntDirty(layer, cnt, seenCnt),
         layer >= 2 \/ Layer!DispCntDirty(disp, seenDisp) = {}
  PROVE  /\ disp = seenDisp
         /\ layer < 2 => cnt = seenCnt
         /\ layer >= 2 => ButBit13(cnt, seenCnt)
<1>0. layer \in 0 .. 3 /\ disp \in Layer!AllDisps /\ seenDisp \in Layer!AllDisps /\ (layer # 0 => ~disp.is3D /\ ~seenDisp.is3D)
  BY DEF LayerTypes, DrawingAssumption, Layer!RegistersAssumption
<1>1. disp.mode = seenDisp.mode /\ disp.base = seenDisp.base /\ (disp.extPal <=> seenDisp.extPal)
  <2>1. CASE layer >= 2
    <3>1. layer \in {2, 3}
      BY <1>0, <2>1
    <3>2. ~(disp.extPal # seenDisp.extPal \/ disp.base # seenDisp.base)
      BY <1>0 DEF Layer!DispCntDirty, Layer!When
    <3>3. disp.mode = seenDisp.mode
      BY <3>1 DEF Layer!DispCntDirty, Layer!When
    <3>. QED
      BY <3>2, <3>3
  <2>2. CASE Layer!DispCntDirty(disp, seenDisp) = {}
    <3>1. ~(disp.extPal # seenDisp.extPal \/ disp.base # seenDisp.base)
      <4>1. 0 \in 0 .. 3
        OBVIOUS
      <4>. QED
        BY <4>1, <2>2 DEF Layer!DispCntDirty, Layer!When
    <3>2. disp.mode = seenDisp.mode
      BY <2>2 DEF Layer!DispCntDirty, Layer!When
    <3>. QED
      BY <3>1, <3>2
  <2>. QED
    BY <2>1, <2>2
<1>2. disp.is3D <=> seenDisp.is3D
  <2>1. CASE layer = 0
    <3>1. 0 \notin Layer!DispCntDirty(disp, seenDisp)
      BY <2>1
    <3>. QED
      BY <3>1 DEF Layer!DispCntDirty, Layer!When
  <2>. QED
    BY <2>1, <1>0
<1>3. disp = seenDisp
  BY <1>0, <1>1, <1>2 DEF Layer!AllDisps
<1>4. layer < 2 \/ layer >= 2
  BY <1>0
<1>. QED
  BY <1>0, <1>3, <1>4 DEF Layer!BgCntDirty, ButBit13

\* A line is drawn.
LEMMA LayerUpdates ==
  ASSUME DrawingAssumption, LayerInv, NEW other \in BOOLEAN, Layer!UpdateAndRender(other)
  PROVE  LayerInv'
<1>. DEFINE byDisp == Layer!DispCntDirty(disp, seenDisp)
            isDirty == layer \in byDisp \/ Layer!BgCntDirty(layer, cnt, seenCnt) \/ dataDirty
            any == isDirty \/ byDisp # {} \/ other \/ configDirty
            given == Layer!Derived(engine, disp, cnt, layer, captured, Old)
            new == IF any THEN given ELSE Old
<1>1. /\ config' = new.config /\ texture' = new.texture /\ watched' = new.watched
      /\ Layer!PrerenderLayer(new, isDirty)
      /\ seenDisp' = disp /\ seenCnt' = cnt /\ ~configDirty' /\ ~dataDirty'
      /\ configDirty' = FALSE /\ dataDirty' = FALSE
      /\ UNCHANGED <<layer, engine, disp, cnt, captured>>
  BY DEF Layer!UpdateAndRender, Old
<1>2. LayerTypes /\ layer \in 0 .. 3
  BY DEF LayerInv, LayerTypes, DrawingAssumption, Layer!RegistersAssumption
<1>3. rendered' \in BOOLEAN
  BY <1>1, Zenon DEF Layer!PrerenderLayer
<1>4. LayerTypes'
  BY <1>1, <1>2, <1>3 DEF LayerTypes
<1>5. ASSUME Layer!LayerType(disp.mode, layer) # 0, any
      PROVE  /\ DerivedWith(captured)'
             /\ Alike(given.config, config') /\ texture' = given.texture
  <2>1. config' = given.config /\ texture' = given.texture /\ watched' = given.watched
    BY <1>1, <1>5
  <2>2. /\ IsConfig(given.config)
        /\ \A o : /\ Layer!Derived(engine, disp, cnt, layer, captured, o).config = given.config
                  /\ Layer!Derived(engine, disp, cnt, layer, captured, o).watched = given.watched
                  /\ layer >= 2 => Layer!Derived(engine, disp, cnt, layer, captured, o).texture = given.texture
    BY DerivedIsConfig, <1>2, <1>5 DEF LayerTypes
  <2>. DEFINE again == Layer!Derived(engine, disp, cnt, layer, captured, Old')
  <2>3. /\ again.config = given.config /\ again.watched = given.watched
        /\ layer >= 2 => again.texture = given.texture
    BY <2>2
  <2>4. DerivedWith(captured)' <=>
          /\ IsConfig(config') /\ watched' = again.watched
          /\ IF layer >= 2 THEN Alike(again.config, config') /\ texture' = again.texture ELSE config' = again.config
    BY <1>1 DEF DerivedWith
  <2>. HIDE DEF again, given
  <2>5. Alike(given.config, config')
    BY <2>1 DEF Alike
  <2>. QED
    BY <2>1, <2>2, <2>3, <2>4, <2>5
<1>6. ASSUME ~isDirty, layer >= 2 \/ byDisp = {}
      PROVE  /\ disp = seenDisp
             /\ layer < 2 => cnt = seenCnt
             /\ layer >= 2 => ButBit13(cnt, seenCnt)
             /\ ~dataDirty
  BY <1>2, <1>6, RegistersSeen
<1>7. ASSUME Layer!LayerType(disp.mode, layer) # 0, ~any
      PROVE  \E cap \in BOOLEAN : DerivedWith(cap)' /\ (captured => cap)
  <2>1. /\ disp = seenDisp /\ ~dataDirty /\ ~configDirty
        /\ layer < 2 => cnt = seenCnt
        /\ layer >= 2 => ButBit13(cnt, seenCnt)
    BY <1>6, <1>7
  <2>2. PICK cap \in BOOLEAN : DerivedWith(cap) /\ (captured /\ ~configDirty => cap)
    BY <2>1, <1>7 DEF LayerInv, LayerDerived, LayerIsOn
  <2>3. config' = config /\ texture' = texture /\ watched' = watched /\ Old' = Old
    BY <1>1, <1>7 DEF Old
  <2>. DEFINE was == Layer!Derived(engine, seenDisp, seenCnt, layer, cap, Old)
              is == Layer!Derived(engine, disp, cnt, layer, cap, Old)
  <2>4. DerivedWith(cap)' <=>
          /\ IsConfig(config) /\ watched = is.watched
          /\ IF layer >= 2 THEN Alike(is.config, config) /\ texture = is.texture ELSE config = is.config
    BY <1>1, <2>3 DEF DerivedWith
  <2>5. /\ IsConfig(config) /\ watched = was.watched
        /\ IF layer >= 2 THEN Alike(was.config, config) /\ texture = was.texture ELSE config = was.config
    BY <2>2 DEF DerivedWith
  <2>6. CASE layer < 2
    <3>1. is = was
      BY <2>1, <2>6
    <3>. QED
      BY <3>1, <2>1, <2>2, <2>4, <2>5
  <2>7. CASE layer >= 2
    <3>0. ASSUME NEW k
          PROVE  /\ Alike(Layer!Derived(engine, disp, cnt, layer, k, Old).config,
                          Layer!Derived(engine, disp, seenCnt, layer, k, Old).config)
                 /\ Layer!Derived(engine, disp, cnt, layer, k, Old).texture = Layer!Derived(engine, disp, seenCnt, layer, k, Old).texture
                 /\ Layer!Derived(engine, disp, cnt, layer, k, Old).watched = Layer!Derived(engine, disp, seenCnt, layer, k, Old).watched
      <4>1. /\ disp \in Layer!AllDisps /\ cnt \in Layer!Cnts /\ seenCnt \in Layer!Cnts /\ layer \in Layers /\ layer >= 2
            /\ Layer!LayerType(disp.mode, layer) # 0
            /\ ButBit13(cnt, seenCnt)
        BY <1>2, <1>7, <2>1, <2>7 DEF LayerTypes
      <4>. QED
        BY <4>1, Bit13IsWrapping
    <3>1. /\ Alike(is.config, was.config) /\ is.texture = was.texture /\ is.watched = was.watched
      <4>1. was = Layer!Derived(engine, disp, seenCnt, layer, cap, Old)
        BY <2>1
      <4>. QED
        BY <4>1, <3>0, Zenon
    <3>. HIDE DEF is, was
    <3>2. Alike(is.config, config)
      BY <3>1, <2>5, <2>7 DEF Alike
    <3>3. DerivedWith(cap)'
      BY <3>1, <3>2, <2>4, <2>5, <2>7
    <3>. QED
      BY <3>3, <2>1, <2>2
  <2>. QED
    BY <1>2, <2>6, <2>7
<1>8. LayerDerived'
  <2>. SUFFICES ASSUME LayerIsOn'
                PROVE  \E cap \in BOOLEAN : DerivedWith(cap)' /\ (captured' /\ ~configDirty' => cap)
    BY DEF LayerDerived
  <2>1. Layer!LayerType(disp.mode, layer) # 0
    BY <1>1 DEF LayerIsOn
  <2>2. CASE any
    <3>0. captured \in BOOLEAN
      BY <1>2 DEF LayerTypes
    <3>. HIDE DEF any
    <3>1. DerivedWith(captured)'
      BY <1>5, <2>1, <2>2
    <3>2. CASE captured
      BY <3>0, <3>1, <3>2, <1>1
    <3>3. CASE ~captured
      BY <3>0, <3>1, <3>3, <1>1
    <3>. QED
      BY <3>2, <3>3
  <2>3. CASE ~any
    BY <1>1, <1>7, <2>1, <2>3
  <2>. QED
    BY <2>2, <2>3
<1>9. LayerRendered'
  <2>. SUFFICES ASSUME LayerIsOn', layer >= 2, config'.type < 5
                PROVE  rendered'
    BY <1>1 DEF LayerRendered
  <2>1. Layer!LayerType(disp.mode, layer) # 0
    BY <1>1 DEF LayerIsOn
  <2>2. CASE isDirty
    <3>0. any
      BY <2>2
    <3>1. config' = given.config
      BY <1>1, <3>0
    <3>2. config'.type \in 0 .. 8 /\ given.config.type < 6
      BY <1>5, <2>1, <3>0, <3>1 DEF DerivedWith, IsConfig
    <3>. QED
      BY <2>2, <3>0, <3>2, <1>1 DEF Layer!PrerenderLayer
  <2>3. CASE ~isDirty
    <3>1. /\ disp = seenDisp /\ ~dataDirty
          /\ ButBit13(cnt, seenCnt)
      BY <1>6, <2>3
    <3>2. LayerIsOn
      BY <2>1, <3>1 DEF LayerIsOn
    <3>3. PICK cap \in BOOLEAN : DerivedWith(cap)
      BY <3>2 DEF LayerInv, LayerDerived
    <3>. DEFINE was == Layer!Derived(engine, seenDisp, seenCnt, layer, cap, Old)
                is == Layer!Derived(engine, disp, cnt, layer, cap, Old)
    <3>4. IsConfig(config) /\ Alike(was.config, config) /\ texture = was.texture
      BY <3>3 DEF DerivedWith
    <3>5. Alike(is.config, was.config) /\ is.texture = was.texture
      <4>1. ASSUME NEW k
            PROVE  /\ Alike(Layer!Derived(engine, disp, cnt, layer, k, Old).config,
                            Layer!Derived(engine, disp, seenCnt, layer, k, Old).config)
                   /\ Layer!Derived(engine, disp, cnt, layer, k, Old).texture = Layer!Derived(engine, disp, seenCnt, layer, k, Old).texture
        <5>1. /\ disp \in Layer!AllDisps /\ cnt \in Layer!Cnts /\ seenCnt \in Layer!Cnts /\ layer \in Layers /\ layer >= 2
              /\ Layer!LayerType(disp.mode, layer) # 0
              /\ ButBit13(cnt, seenCnt)
          BY <1>2, <2>1, <3>1 DEF LayerTypes
        <5>. QED
          BY <5>1, Bit13IsWrapping
      <4>2. was = Layer!Derived(engine, disp, seenCnt, layer, cap, Old)
        BY <3>1
      <4>. QED
        BY <4>1, <4>2, Zenon
    <3>. HIDE DEF is, was
    <3>6. Alike(is.config, config) /\ texture = is.texture
      BY <3>4, <3>5 DEF Alike
    <3>7. CASE any
      <4>1. config' = given.config /\ new = given
        BY <1>1, <3>7
      <4>2. IsConfig(given.config) /\ given.config.type < 5 /\ given.config.type \notin {5, 7, 8}
        BY <1>2, <2>1, <4>1, DerivedIsConfig DEF IsConfig, LayerTypes
      <4>3. given = is
        BY <1>2, <2>1, <4>2, CaptureMakesCapture DEF LayerTypes, is
      <4>. HIDE DEF given, new, any, isDirty
      <4>4. [given.config EXCEPT !.clamp = config.clamp] = config
        BY <3>4, <3>6, <4>2, <4>3, AlikeIsEqual
      <4>5. Layer!SamePicture(new)
        BY <3>6, <4>1, <4>3, <4>4 DEF Layer!SamePicture
      <4>6. config.type < 5
        BY <3>6, <4>2, <4>3 DEF Alike
      <4>7. rendered
        BY <3>2, <4>6 DEF LayerInv, LayerRendered
      <4>. QED
        BY <1>1, <4>5, <4>7 DEF Layer!PrerenderLayer
    <3>8. CASE ~any
      <4>1. config' = config /\ new = Old
        BY <1>1, <3>8 DEF Old
      <4>2. [config EXCEPT !.clamp = config.clamp] = config
        BY <3>4, AlikeIsEqual DEF Alike
      <4>. HIDE DEF new, any, isDirty
      <4>3. Layer!SamePicture(new)
        BY <4>1, <4>2 DEF Layer!SamePicture, Old
      <4>4. rendered
        BY <3>2, <4>1 DEF LayerInv, LayerRendered
      <4>. QED
        BY <1>1, <4>3, <4>4 DEF Layer!PrerenderLayer
    <3>. QED
      BY <3>7, <3>8
  <2>. QED
    BY <2>2, <2>3
<1>. QED
  BY <1>4, <1>8, <1>9 DEF LayerInv

\* What a step does to the invariant, by the actions.
LEMMA LayerNext ==
  ASSUME DrawingAssumption, LayerInv, [Layer!Next]_LayerVars
  PROVE  LayerInv'
<1>0. LayerTypes
  BY DEF LayerInv
<1>1. ASSUME NEW d \in Layer!Disps, Layer!SetDispCnt(d)
      PROVE  LayerInv'
  BY <1>0, <1>1, LayerDataKeep DEF Layer!SetDispCnt, Layer!Disps, LayerTypes
<1>2. ASSUME NEW c \in Layer!Cnts, Layer!SetBgCnt(c)
      PROVE  LayerInv'
  BY <1>0, <1>2, LayerDataKeep DEF Layer!SetBgCnt, LayerTypes
<1>3. CASE Layer!AllocCapture
  BY <1>0, <1>3, LayerDataKeep DEF Layer!AllocCapture, LayerTypes
<1>4. ASSUME NEW within \in BOOLEAN, NEW isWatched \in BOOLEAN, Layer!WriteData(within, isWatched)
      PROVE  LayerInv'
  <2>1. captured' \in BOOLEAN /\ dataDirty' \in BOOLEAN
    BY <1>0, <1>4, Zenon DEF Layer!WriteData, LayerTypes
  <2>. QED
    BY <1>0, <1>4, <2>1, LayerDataKeep DEF Layer!WriteData, LayerTypes
<1>5. ASSUME NEW other \in BOOLEAN, Layer!UpdateAndRender(other)
      PROVE  LayerInv'
  BY <1>5, LayerUpdates
<1>6. CASE UNCHANGED LayerVars
  <2>1. /\ UNCHANGED <<layer, engine, seenDisp, seenCnt, Layer!cached>>
        /\ disp' = disp /\ cnt' = cnt
        /\ captured' = captured /\ configDirty' = configDirty /\ dataDirty' = dataDirty
    BY <1>6 DEF LayerVars, Layer!cached
  <2>2. captured' \in BOOLEAN /\ configDirty' \in BOOLEAN /\ dataDirty' \in BOOLEAN
    BY <1>0, <2>1, Zenon DEF LayerTypes
  <2>3. disp' \in Layer!AllDisps /\ (disp'.is3D => layer = 0) /\ cnt' \in Layer!Cnts
    BY <1>0, <2>1 DEF LayerTypes
  <2>4. /\ captured' /\ ~configDirty' => captured /\ ~configDirty
        /\ (configDirty => configDirty') /\ (dataDirty => dataDirty')
    BY <2>1, Zenon
  <2>. QED
    BY <2>1, <2>2, <2>3, <2>4, LayerDataKeep, Zenon
<1>. QED
  BY <1>1, <1>2, <1>3, <1>4, <1>5, <1>6 DEF Layer!Next

\* Where a line was just drawn, the invariant says what was to be shown.
LEMMA LayerIsSound ==
  ASSUME DrawingAssumption, LayerInv
  PROVE  Layer!ReadsAreWatched /\ Layer!ConfigIsCurrent /\ Layer!PictureIsCurrent
<1>0. LayerTypes /\ layer \in 0 .. 3
  BY DEF LayerInv, LayerTypes, DrawingAssumption, Layer!RegistersAssumption
<1>1. ASSUME Layer!UpToDate
      PROVE  /\ LayerIsOn /\ disp = seenDisp /\ cnt = seenCnt /\ ~configDirty
             /\ Layer!LayerType(disp.mode, layer) # 0
             /\ \E cap \in BOOLEAN : DerivedWith(cap) /\ (captured => cap)
  BY <1>1 DEF Layer!UpToDate, Layer!Fresh, LayerIsOn, LayerInv, LayerDerived
<1>. DEFINE D(cap) == Layer!Derived(engine, disp, cnt, layer, cap, Old)
<1>2. ASSUME Layer!UpToDate, NEW cap, DerivedWith(cap)
      PROVE  /\ IsConfig(config) /\ watched = D(cap).watched /\ Alike(D(cap).config, config)
             /\ layer < 2 => config = D(cap).config
  BY <1>0, <1>1, <1>2 DEF DerivedWith, Alike
<1>3. Layer!ReadsAreWatched
  <2>. SUFFICES ASSUME Layer!UpToDate, config.type # 5, ~(disp.mode = 6 /\ cnt.size \in {2, 3}),
                       NEW r \in Layer!Reads(config)
                PROVE  Layer!IsWatched(r)
    BY DEF Layer!ReadsAreWatched
  <2>1. PICK cap \in BOOLEAN : DerivedWith(cap)
    BY <1>1
  <2>2. /\ watched = D(cap).watched /\ Alike(D(cap).config, config)
    BY <1>2, <2>1
  <2>3. Layer!Reads(D(cap).config) = Layer!Reads(config) /\ D(cap).config.type # 5
    BY <2>2, ReadsAlike DEF Alike
  <2>4. ASSUME NEW k, D(k).config.type # 5
        PROVE  Noted(D(k))
    BY <1>0, <1>1, <2>4, DerivedIsNoted DEF LayerTypes
  <2>5. Noted(D(cap))
    BY <2>3, <2>4, Zenon
  <2>. QED
    BY <2>2, <2>3, <2>5, Zenon DEF Noted, Layer!IsWatched
<1>4. Layer!ConfigIsCurrent
  <2>. DEFINE new == Layer!Derived(engine, disp, cnt, layer, captured, Old)
  <2>. SUFFICES ASSUME Layer!UpToDate, config.type \in {7, 8} => captured
                PROVE  /\ watched = new.watched
                       /\ config = IF layer \in {2, 3} THEN [new.config EXCEPT !.clamp = config.clamp] ELSE new.config
    BY DEF Layer!ConfigIsCurrent, Old
  <2>1. PICK cap \in BOOLEAN : DerivedWith(cap) /\ (captured => cap)
    BY <1>1
  <2>2. /\ IsConfig(config) /\ watched = D(cap).watched /\ Alike(D(cap).config, config)
        /\ layer < 2 => config = D(cap).config
    BY <1>2, <2>1
  <2>3. D(cap) = new
    <3>0. captured \in BOOLEAN
      BY <1>0 DEF LayerTypes
    <3>1. CASE captured \/ ~cap
      <4>1. cap = captured
        <5>1. CASE captured
          <6>1. cap = TRUE
            BY <2>1, <5>1, Zenon
          <6>2. captured = TRUE
            BY <3>0, <5>1, Zenon
          <6>. QED
            BY <6>1, <6>2, Zenon
        <5>2. CASE ~captured
          <6>1. cap = FALSE
            BY <2>1, <3>1, <5>2, Zenon
          <6>2. captured = FALSE
            BY <3>0, <5>2, Zenon
          <6>. QED
            BY <6>1, <6>2, Zenon
        <5>. QED
          BY <5>1, <5>2
      <4>. QED
        BY <4>1
    <3>2. CASE ~captured /\ cap
      <4>1. Layer!BitmapType(cnt, cap) = 5 => Layer!BitmapType(cnt, captured) = 5
        BY <3>2 DEF Layer!BitmapType
      <4>2. ASSUME NEW j, NEW k, D(j).config.type \notin {7, 8},
                   Layer!BitmapType(cnt, j) = 5 => Layer!BitmapType(cnt, k) = 5
            PROVE  D(j) = D(k)
        BY <1>0, <1>1, <4>2, NoCaptureAnyway DEF LayerTypes
      <4>3. D(cap).config.type \notin {7, 8}
        BY <2>2, <3>2 DEF Alike
      <4>. QED
        BY <4>1, <4>2, <4>3, Zenon
    <3>. QED
      BY <3>1, <3>2
  <2>. HIDE DEF new, D
  <2>4. IsConfig(new.config)
    BY <1>0, <1>1, DerivedIsConfig DEF new, LayerTypes
  <2>5. layer >= 2 => [new.config EXCEPT !.clamp = config.clamp] = config
    BY <2>2, <2>3, <2>4, AlikeIsEqual
  <2>. QED
    BY <1>0, <2>2, <2>3, <2>5
<1>5. Layer!PictureIsCurrent
  BY <1>0, <1>1 DEF Layer!PictureIsCurrent, LayerInv, LayerRendered
<1>. QED
  BY <1>3, <1>4, <1>5

LayerOfAll == component = "Layer" => LayerInv

LEMMA LayerAlways == SpecAll => []LayerOfAll
<1>1. InitAll => LayerOfAll
  BY BeginningOfOne, LayerInit, DrawingAssumption DEF LayerOfAll
<1>2. LayerOfAll /\ [NextAll]_all => LayerOfAll'
  BY StepOfOne, LayerNext, DrawingAssumption DEF LayerOfAll
<1>. QED
  BY <1>1, <1>2, PTL DEF SpecAll

\* For every layer, engine and value of the registers: whichever of them were written, and
\* whether or not a capture lies where the bitmap is, the VRAM that the layer's shader reads
\* is watched (UpdateLayerConfig, the check of the dirty ranges in UpdateAndRender).
THEOREM ReadsAreAlwaysWatched == SpecAll => []ReadsAreWatched
<1>1. LayerOfAll => ReadsAreWatched
  BY LayerIsSound, DrawingAssumption DEF LayerOfAll, ReadsAreWatched
<1>. QED
  BY <1>1, LayerAlways, PTL

\* And the configuration is the one the registers ask for, the picture of BG2 and BG3 the
\* one of that configuration, although each of the three is renewed for reasons of its own.
THEOREM PictureStaysCurrent == SpecAll => []PictureIsCurrent
<1>1. LayerOfAll => PictureIsCurrent
  BY LayerIsSound, DrawingAssumption DEF LayerOfAll, PictureIsCurrent
<1>. QED
  BY <1>1, LayerAlways, PTL

-----------------------------------------------------------------------------
(* The passes of a 3D frame                                                 *)

With    == Order!Commands(TRUE)
Without == Order!Commands(FALSE)

AllCommands ==
  {Order!Upload("ySpans"), Order!Upload("indices"), Order!Upload("polygons"), Order!Upload("meta"), Order!ComputeBarrier,
   Order!ClearCoarseBinMask, Order!ClearIndirectWorkCount, Order!InterpXSpans, Order!BinCombined,
   Order!CalculateWorkListOffset, Order!SortWork, Order!Rasterise, Order!DepthBlend(TRUE), Order!DepthBlend(FALSE), Order!FinalPass}

\* What is so before the k-th command of a frame with polygons: the buffers that have been
\* written, and that nothing is under way where something is to be accessed.
BeforeWith(k) ==
  /\ k > 1 => "ySpans" \in fresh
  /\ k > 2 => "indices" \in fresh
  /\ k > 3 => "polygons" \in fresh
  /\ k > 4 => "meta" \in fresh
  /\ k > 5 => "coarse" \in fresh
  /\ k > 6 => "counts" \in fresh
  /\ k > 7 => "xSpans" \in fresh
  /\ k > 9 => {"masks", "offsets", "work"} \subseteq fresh
  /\ k > 11 => {"sorting", "starts"} \subseteq fresh
  /\ k > 13 => "sorted" \in fresh
  /\ k > 15 => "tiles" \in fresh
  /\ k > 17 => "result" \in fresh
  /\ k \in {5, 9, 11, 13, 15, 17, 19} => unordered = Order!None
  /\ k = 6 => unordered = [read |-> {"meta"}, written |-> {"coarse"}]
  /\ k = 7 => unordered = [read |-> {"meta"}, written |-> {"coarse", "counts"}]
  /\ k \in {13, 15} => hidden = {}

\* And without polygons.
BeforeWithout(k) ==
  /\ k > 1 => "meta" \in fresh
  /\ k > 2 => "coarse" \in fresh
  /\ k > 4 => "result" \in fresh
  /\ k \in {2, 4, 6} => unordered = Order!None

OrderInv ==
  /\ ~wrong
  /\ \/ rest = <<>>
     \/ \E k \in 1 .. 19 : rest = SubSeq(With, k, 19) /\ BeforeWith(k)
     \/ \E k \in 1 .. 6 : rest = SubSeq(Without, k, 6) /\ BeforeWithout(k)

\* Tuples, one after the other.
LEMMA SixInOrder ==
  ASSUME NEW a, NEW b, NEW c, NEW d, NEW e, NEW f
  PROVE  <<a, b, c, d, e, f>> = <<>> \o <<a, b>> \o <<>> \o <<c, d, e, f>>
<1>1. <<a, b>> = <<>> \o <<a, b>>
  OBVIOUS
<1>2. <<a, b>> = <<a, b>> \o <<>>
  OBVIOUS
<1>3. <<a, b, c, d, e, f>> = <<a, b>> \o <<c, d, e, f>>
  OBVIOUS
<1>. QED
  BY <1>1, <1>2, <1>3, Zenon

\* The commands of a frame without polygons, one by one.
LEMMA WithoutIs ==
  /\ Without \in Seq(AllCommands) /\ Len(Without) = 6
  /\ Without[1] = Order!Upload("meta") /\ Without[2] = Order!ClearCoarseBinMask /\ Without[3] = Order!ComputeBarrier
  /\ Without[4] = Order!DepthBlend(FALSE) /\ Without[5] = Order!ComputeBarrier /\ Without[6] = Order!FinalPass
<1>. DEFINE u == Order!Upload("meta")
            blend == Order!DepthBlend(FALSE)
            C == Order!ClearCoarseBinMask
            B == Order!ComputeBarrier
            F == Order!FinalPass
            S == AllCommands
            w == Without
<1>1. w = <<>> \o <<u, C>> \o <<>> \o <<B, blend, B, F>>
  BY Zenon DEF Without, Order!Commands
<1>2. u \in S /\ C \in S /\ B \in S /\ blend \in S /\ F \in S
  BY Zenon DEF AllCommands
<1>. HIDE DEF u, blend, C, B, F, S, w
<1>3. w = <<u, C, B, blend, B, F>>
  <2>1. <<u, C, B, blend, B, F>> = <<>> \o <<u, C>> \o <<>> \o <<B, blend, B, F>>
    BY SixInOrder
  <2>. QED
    BY <1>1, <2>1, Zenon
<1>4. /\ w \in Seq(S) /\ Len(w) = 6
      /\ w[1] = u /\ w[2] = C /\ w[3] = B /\ w[4] = blend /\ w[5] = B /\ w[6] = F
  BY <1>2, <1>3
<1>. QED
  BY <1>4, Zenon DEF u, blend, C, B, F, S, w

\* And of one with polygons.
LEMMA WithIs ==
  /\ With \in Seq(AllCommands) /\ Len(With) = 19
  /\ With[1] = Order!Upload("ySpans") /\ With[2] = Order!Upload("indices") /\ With[3] = Order!Upload("polygons")
  /\ With[4] = Order!Upload("meta") /\ With[5] = Order!ClearCoarseBinMask /\ With[6] = Order!ClearIndirectWorkCount
  /\ With[7] = Order!InterpXSpans /\ With[8] = Order!ComputeBarrier /\ With[9] = Order!BinCombined
  /\ With[10] = Order!ComputeBarrier /\ With[11] = Order!CalculateWorkListOffset /\ With[12] = Order!ComputeBarrier
  /\ With[13] = Order!SortWork /\ With[14] = Order!ComputeBarrier /\ With[15] = Order!Rasterise
  /\ With[16] = Order!ComputeBarrier /\ With[17] = Order!DepthBlend(TRUE) /\ With[18] = Order!ComputeBarrier
  /\ With[19] = Order!FinalPass
<1>. DEFINE a == Order!Upload("ySpans")
            b == Order!Upload("indices")
            c == Order!Upload("polygons")
            d == Order!Upload("meta")
            e == Order!ClearCoarseBinMask
            f == Order!ClearIndirectWorkCount
            g == Order!InterpXSpans
            B == Order!ComputeBarrier
            i == Order!BinCombined
            k == Order!CalculateWorkListOffset
            m == Order!SortWork
            o == Order!Rasterise
            q == Order!DepthBlend(TRUE)
            s == Order!FinalPass
            S == AllCommands
            w == With
<1>1. w = <<a, b, c>> \o <<d, e>> \o (<<f, g, B, i, B>> \o <<k, B, m, B>> \o <<o>>) \o <<B, q, B, s>>
  BY Zenon DEF With, Order!Commands, Order!SortLists
<1>2. /\ a \in S /\ b \in S /\ c \in S /\ d \in S /\ e \in S /\ f \in S /\ g \in S /\ B \in S
      /\ i \in S /\ k \in S /\ m \in S /\ o \in S /\ q \in S /\ s \in S
  BY Zenon DEF AllCommands
<1>. HIDE DEF a, b, c, d, e, f, g, B, i, k, m, o, q, s, S, w
<1>3. w = <<a, b, c, d, e, f, g, B, i, B, k, B, m, B, o, B, q, B, s>>
  <2>1. <<a, b, c, d, e>> = <<a, b, c>> \o <<d, e>>
    OBVIOUS
  <2>2. <<f, g, B, i, B, k, B, m, B>> = <<f, g, B, i, B>> \o <<k, B, m, B>>
    OBVIOUS
  <2>3. <<f, g, B, i, B, k, B, m, B, o>> = <<f, g, B, i, B, k, B, m, B>> \o <<o>>
    OBVIOUS
  <2>4. <<a, b, c, d, e, f, g, B, i, B, k, B, m, B, o>> =
          <<a, b, c, d, e>> \o <<f, g, B, i, B, k, B, m, B, o>>
    OBVIOUS
  <2>5. <<a, b, c, d, e, f, g, B, i, B, k, B, m, B, o, B, q, B, s>> =
          <<a, b, c, d, e, f, g, B, i, B, k, B, m, B, o>> \o <<B, q, B, s>>
    OBVIOUS
  <2>. QED
    BY <1>1, <2>1, <2>2, <2>3, <2>4, <2>5, Zenon
<1>4. /\ w \in Seq(S) /\ Len(w) = 19
      /\ w[1] = a /\ w[2] = b /\ w[3] = c /\ w[4] = d /\ w[5] = e /\ w[6] = f /\ w[7] = g
      /\ w[8] = B /\ w[9] = i /\ w[10] = B /\ w[11] = k /\ w[12] = B /\ w[13] = m /\ w[14] = B
      /\ w[15] = o /\ w[16] = B /\ w[17] = q /\ w[18] = B /\ w[19] = s
  BY <1>2, <1>3
<1>. QED
  BY <1>4, Zenon DEF a, b, c, d, e, f, g, B, i, k, m, o, q, s, S, w

\* A command at a time.
LEMMA NextCommand ==
  ASSUME NEW q \in Seq(AllCommands), NEW n \in Nat, Len(q) = n, NEW k \in 1 .. n, rest = SubSeq(q, k, n)
  PROVE  /\ rest # <<>> /\ Head(rest) = q[k]
         /\ k < n => Tail(rest) = SubSeq(q, k + 1, n)
         /\ k = n => Tail(rest) = <<>>
<1>1. Head(rest) = q[k] /\ Tail(rest) = SubSeq(q, k + 1, n)
  <2>1. n \in k .. Len(q) /\ k \in 1 .. Len(q)
    OBVIOUS
  <2>. QED
    BY <2>1, HeadTailOfSubSeq
<1>2. Len(rest) = n - k + 1 /\ n - k + 1 # 0
  OBVIOUS
<1>3. rest # <<>>
  BY <1>2, EmptySeq
<1>4. k = n => SubSeq(q, k + 1, n) = <<>>
  OBVIOUS
<1>. QED
  BY <1>1, <1>3, <1>4

\* The next command finds what it needs, and leaves what those after it need.
LEMMA WithKeeps ==
  ASSUME ~wrong, NEW k \in 1 .. 19, BeforeWith(k),
         Order!Dispatch(With[k]) \/ Order!Barrier(With[k]) \/ Order!UploadBuffer(With[k])
  PROVE  ~wrong' /\ BeforeWith(k + 1)'
<1>1. CASE k = 1
  <2>1. Order!UploadBuffer(Order!Upload("ySpans"))
    BY <1>1, WithIs DEF Order!Dispatch, Order!Barrier, Order!Upload
  <2>2. fresh' = fresh \cup {"ySpans"} /\ unordered' = Order!None /\ ~wrong'
    BY <2>1 DEF Order!UploadBuffer, Order!Upload
  <2>. QED
    BY <1>1, <2>2 DEF BeforeWith
<1>2. CASE k = 2
  <2>1. Order!UploadBuffer(Order!Upload("indices"))
    BY <1>2, WithIs DEF Order!Dispatch, Order!Barrier, Order!Upload
  <2>2. fresh' = fresh \cup {"indices"} /\ unordered' = Order!None /\ ~wrong'
    BY <2>1 DEF Order!UploadBuffer, Order!Upload
  <2>. QED
    BY <1>2, <2>2 DEF BeforeWith
<1>3. CASE k = 3
  <2>1. Order!UploadBuffer(Order!Upload("polygons"))
    BY <1>3, WithIs DEF Order!Dispatch, Order!Barrier, Order!Upload
  <2>2. fresh' = fresh \cup {"polygons"} /\ unordered' = Order!None /\ ~wrong'
    BY <2>1 DEF Order!UploadBuffer, Order!Upload
  <2>. QED
    BY <1>3, <2>2 DEF BeforeWith
<1>4. CASE k = 4
  <2>1. Order!UploadBuffer(Order!Upload("meta"))
    BY <1>4, WithIs DEF Order!Dispatch, Order!Barrier, Order!Upload
  <2>2. fresh' = fresh \cup {"meta"} /\ unordered' = Order!None /\ ~wrong'
    BY <2>1 DEF Order!UploadBuffer, Order!Upload
  <2>. QED
    BY <1>4, <2>2 DEF BeforeWith
<1>5. CASE k = 5
  <2>1. Order!Dispatch(Order!ClearCoarseBinMask)
    BY <1>5, WithIs DEF Order!Barrier, Order!UploadBuffer, Order!ClearCoarseBinMask, Order!Shader
  <2>2. ~Order!Conflicts(Order!ClearCoarseBinMask)
    BY <1>5 DEF Order!Conflicts, Order!None, BeforeWith, Order!ClearCoarseBinMask, Order!Shader
  <2>3. ~wrong' /\ fresh' = fresh \cup Order!ClearCoarseBinMask.writes
    BY <2>1, <2>2 DEF Order!Dispatch
  <2>4. unordered = Order!None
    BY <1>5 DEF BeforeWith
  <2>5. unordered.read \cup Order!ClearCoarseBinMask.reads \cup Order!ClearCoarseBinMask.count = {"meta"}
    BY <2>4 DEF Order!None, Order!ClearCoarseBinMask, Order!Shader
  <2>6. unordered.written \cup Order!ClearCoarseBinMask.writes = {"coarse"}
    BY <2>4 DEF Order!None, Order!ClearCoarseBinMask, Order!Shader
  <2>7. unordered' = [read |-> {"meta"}, written |-> {"coarse"}]
    BY <2>1, <2>5, <2>6, Zenon DEF Order!Dispatch
  <2>. QED
    BY <1>5, <2>3, <2>7 DEF BeforeWith, Order!ClearCoarseBinMask, Order!Shader
<1>6. CASE k = 6
  <2>1. Order!Dispatch(Order!ClearIndirectWorkCount)
    BY <1>6, WithIs DEF Order!Barrier, Order!UploadBuffer, Order!ClearIndirectWorkCount, Order!Shader
  <2>2. ~Order!Conflicts(Order!ClearIndirectWorkCount)
    BY <1>6 DEF Order!Conflicts, Order!None, BeforeWith, Order!ClearIndirectWorkCount, Order!Shader
  <2>3. ~wrong' /\ fresh' = fresh \cup Order!ClearIndirectWorkCount.writes
    BY <2>1, <2>2 DEF Order!Dispatch
  <2>4. unordered = [read |-> {"meta"}, written |-> {"coarse"}]
    BY <1>6 DEF BeforeWith
  <2>5. unordered.read \cup Order!ClearIndirectWorkCount.reads \cup Order!ClearIndirectWorkCount.count = {"meta"}
    BY <2>4 DEF Order!None, Order!ClearIndirectWorkCount, Order!Shader
  <2>6. unordered.written \cup Order!ClearIndirectWorkCount.writes = {"coarse", "counts"}
    BY <2>4 DEF Order!None, Order!ClearIndirectWorkCount, Order!Shader
  <2>7. unordered' = [read |-> {"meta"}, written |-> {"coarse", "counts"}]
    BY <2>1, <2>5, <2>6, Zenon DEF Order!Dispatch
  <2>. QED
    BY <1>6, <2>3, <2>7 DEF BeforeWith, Order!ClearIndirectWorkCount, Order!Shader
<1>7. CASE k = 7
  <2>1. Order!Dispatch(Order!InterpXSpans)
    BY <1>7, WithIs DEF Order!Barrier, Order!UploadBuffer, Order!InterpXSpans, Order!Shader
  <2>2. ~Order!Conflicts(Order!InterpXSpans)
    BY <1>7 DEF Order!Conflicts, Order!None, BeforeWith, Order!InterpXSpans, Order!Shader
  <2>3. ~wrong' /\ fresh' = fresh \cup Order!InterpXSpans.writes
    BY <2>1, <2>2 DEF Order!Dispatch
  <2>. QED
    BY <1>7, <2>3 DEF BeforeWith, Order!InterpXSpans, Order!Shader
<1>8. CASE k = 8
  <2>1. Order!Barrier(Order!ComputeBarrier)
    BY <1>8, WithIs DEF Order!Dispatch, Order!UploadBuffer, Order!ComputeBarrier
  <2>2. fresh' = fresh /\ unordered' = Order!None /\ hidden' = {} /\ ~wrong'
    BY <2>1 DEF Order!Barrier
  <2>. QED
    BY <1>8, <2>2 DEF BeforeWith
<1>9. CASE k = 9
  <2>1. Order!Dispatch(Order!BinCombined)
    BY <1>9, WithIs DEF Order!Barrier, Order!UploadBuffer, Order!BinCombined, Order!Shader
  <2>2. ~Order!Conflicts(Order!BinCombined)
    BY <1>9 DEF Order!Conflicts, Order!None, BeforeWith, Order!BinCombined, Order!Shader
  <2>3. ~wrong' /\ fresh' = fresh \cup Order!BinCombined.writes
    BY <2>1, <2>2 DEF Order!Dispatch
  <2>. QED
    BY <1>9, <2>3 DEF BeforeWith, Order!BinCombined, Order!Shader
<1>10. CASE k = 10
  <2>1. Order!Barrier(Order!ComputeBarrier)
    BY <1>10, WithIs DEF Order!Dispatch, Order!UploadBuffer, Order!ComputeBarrier
  <2>2. fresh' = fresh /\ unordered' = Order!None /\ hidden' = {} /\ ~wrong'
    BY <2>1 DEF Order!Barrier
  <2>. QED
    BY <1>10, <2>2 DEF BeforeWith
<1>11. CASE k = 11
  <2>1. Order!Dispatch(Order!CalculateWorkListOffset)
    BY <1>11, WithIs DEF Order!Barrier, Order!UploadBuffer, Order!CalculateWorkListOffset, Order!Shader
  <2>2. ~Order!Conflicts(Order!CalculateWorkListOffset)
    BY <1>11 DEF Order!Conflicts, Order!None, BeforeWith, Order!CalculateWorkListOffset, Order!Shader
  <2>3. ~wrong' /\ fresh' = fresh \cup Order!CalculateWorkListOffset.writes
    BY <2>1, <2>2 DEF Order!Dispatch
  <2>. QED
    BY <1>11, <2>3 DEF BeforeWith, Order!CalculateWorkListOffset, Order!Shader
<1>12. CASE k = 12
  <2>1. Order!Barrier(Order!ComputeBarrier)
    BY <1>12, WithIs DEF Order!Dispatch, Order!UploadBuffer, Order!ComputeBarrier
  <2>2. fresh' = fresh /\ unordered' = Order!None /\ hidden' = {} /\ ~wrong'
    BY <2>1 DEF Order!Barrier
  <2>. QED
    BY <1>12, <2>2 DEF BeforeWith
<1>13. CASE k = 13
  <2>1. Order!Dispatch(Order!SortWork)
    BY <1>13, WithIs DEF Order!Barrier, Order!UploadBuffer, Order!SortWork, Order!Shader
  <2>2. ~Order!Conflicts(Order!SortWork)
    BY <1>13 DEF Order!Conflicts, Order!None, BeforeWith, Order!SortWork, Order!Shader
  <2>3. ~wrong' /\ fresh' = fresh \cup Order!SortWork.writes
    BY <2>1, <2>2 DEF Order!Dispatch
  <2>. QED
    BY <1>13, <2>3 DEF BeforeWith, Order!SortWork, Order!Shader
<1>14. CASE k = 14
  <2>1. Order!Barrier(Order!ComputeBarrier)
    BY <1>14, WithIs DEF Order!Dispatch, Order!UploadBuffer, Order!ComputeBarrier
  <2>2. fresh' = fresh /\ unordered' = Order!None /\ hidden' = {} /\ ~wrong'
    BY <2>1 DEF Order!Barrier
  <2>. QED
    BY <1>14, <2>2 DEF BeforeWith
<1>15. CASE k = 15
  <2>1. Order!Dispatch(Order!Rasterise)
    BY <1>15, WithIs DEF Order!Barrier, Order!UploadBuffer, Order!Rasterise, Order!Shader
  <2>2. ~Order!Conflicts(Order!Rasterise)
    BY <1>15 DEF Order!Conflicts, Order!None, BeforeWith, Order!Rasterise, Order!Shader
  <2>3. ~wrong' /\ fresh' = fresh \cup Order!Rasterise.writes
    BY <2>1, <2>2 DEF Order!Dispatch
  <2>. QED
    BY <1>15, <2>3 DEF BeforeWith, Order!Rasterise, Order!Shader
<1>16. CASE k = 16
  <2>1. Order!Barrier(Order!ComputeBarrier)
    BY <1>16, WithIs DEF Order!Dispatch, Order!UploadBuffer, Order!ComputeBarrier
  <2>2. fresh' = fresh /\ unordered' = Order!None /\ hidden' = {} /\ ~wrong'
    BY <2>1 DEF Order!Barrier
  <2>. QED
    BY <1>16, <2>2 DEF BeforeWith
<1>17. CASE k = 17
  <2>1. Order!Dispatch(Order!DepthBlend(TRUE))
    BY <1>17, WithIs DEF Order!Barrier, Order!UploadBuffer, Order!DepthBlend, Order!Shader
  <2>2. ~Order!Conflicts(Order!DepthBlend(TRUE))
    BY <1>17 DEF Order!Conflicts, Order!None, BeforeWith, Order!DepthBlend, Order!Shader
  <2>3. ~wrong' /\ fresh' = fresh \cup Order!DepthBlend(TRUE).writes
    BY <2>1, <2>2 DEF Order!Dispatch
  <2>. QED
    BY <1>17, <2>3 DEF BeforeWith, Order!DepthBlend, Order!Shader
<1>18. CASE k = 18
  <2>1. Order!Barrier(Order!ComputeBarrier)
    BY <1>18, WithIs DEF Order!Dispatch, Order!UploadBuffer, Order!ComputeBarrier
  <2>2. fresh' = fresh /\ unordered' = Order!None /\ hidden' = {} /\ ~wrong'
    BY <2>1 DEF Order!Barrier
  <2>. QED
    BY <1>18, <2>2 DEF BeforeWith
<1>19. CASE k = 19
  <2>1. Order!Dispatch(Order!FinalPass)
    BY <1>19, WithIs DEF Order!Barrier, Order!UploadBuffer, Order!FinalPass, Order!Shader
  <2>2. ~Order!Conflicts(Order!FinalPass)
    BY <1>19 DEF Order!Conflicts, Order!None, BeforeWith, Order!FinalPass, Order!Shader
  <2>3. ~wrong' /\ fresh' = fresh \cup Order!FinalPass.writes
    BY <2>1, <2>2 DEF Order!Dispatch
  <2>. QED
    BY <1>19, <2>3 DEF BeforeWith, Order!FinalPass, Order!Shader
<1>. QED
  BY <1>1, <1>2, <1>3, <1>4, <1>5, <1>6, <1>7, <1>8, <1>9, <1>10, <1>11, <1>12, <1>13, <1>14, <1>15, <1>16, <1>17, <1>18, <1>19

\* The next command finds what it needs, and leaves what those after it need.
LEMMA WithoutKeeps ==
  ASSUME ~wrong, NEW k \in 1 .. 6, BeforeWithout(k),
         Order!Dispatch(Without[k]) \/ Order!Barrier(Without[k]) \/ Order!UploadBuffer(Without[k])
  PROVE  ~wrong' /\ BeforeWithout(k + 1)'
<1>1. CASE k = 1
  <2>1. Order!UploadBuffer(Order!Upload("meta"))
    BY <1>1, WithoutIs DEF Order!Dispatch, Order!Barrier, Order!Upload
  <2>2. fresh' = fresh \cup {"meta"} /\ unordered' = Order!None /\ ~wrong'
    BY <2>1 DEF Order!UploadBuffer, Order!Upload
  <2>. QED
    BY <1>1, <2>2 DEF BeforeWithout
<1>2. CASE k = 2
  <2>1. Order!Dispatch(Order!ClearCoarseBinMask)
    BY <1>2, WithoutIs DEF Order!Barrier, Order!UploadBuffer, Order!ClearCoarseBinMask, Order!Shader
  <2>2. ~Order!Conflicts(Order!ClearCoarseBinMask)
    BY <1>2 DEF Order!Conflicts, Order!None, BeforeWithout, Order!ClearCoarseBinMask, Order!Shader
  <2>3. ~wrong' /\ fresh' = fresh \cup Order!ClearCoarseBinMask.writes
    BY <2>1, <2>2 DEF Order!Dispatch
  <2>. QED
    BY <1>2, <2>3 DEF BeforeWithout, Order!ClearCoarseBinMask, Order!Shader
<1>3. CASE k = 3
  <2>1. Order!Barrier(Order!ComputeBarrier)
    BY <1>3, WithoutIs DEF Order!Dispatch, Order!UploadBuffer, Order!ComputeBarrier
  <2>2. fresh' = fresh /\ unordered' = Order!None /\ hidden' = {} /\ ~wrong'
    BY <2>1 DEF Order!Barrier
  <2>. QED
    BY <1>3, <2>2 DEF BeforeWithout
<1>4. CASE k = 4
  <2>1. Order!Dispatch(Order!DepthBlend(FALSE))
    BY <1>4, WithoutIs DEF Order!Barrier, Order!UploadBuffer, Order!DepthBlend, Order!Shader
  <2>2. ~Order!Conflicts(Order!DepthBlend(FALSE))
    BY <1>4 DEF Order!Conflicts, Order!None, BeforeWithout, Order!DepthBlend, Order!Shader
  <2>3. ~wrong' /\ fresh' = fresh \cup Order!DepthBlend(FALSE).writes
    BY <2>1, <2>2 DEF Order!Dispatch
  <2>. QED
    BY <1>4, <2>3 DEF BeforeWithout, Order!DepthBlend, Order!Shader
<1>5. CASE k = 5
  <2>1. Order!Barrier(Order!ComputeBarrier)
    BY <1>5, WithoutIs DEF Order!Dispatch, Order!UploadBuffer, Order!ComputeBarrier
  <2>2. fresh' = fresh /\ unordered' = Order!None /\ hidden' = {} /\ ~wrong'
    BY <2>1 DEF Order!Barrier
  <2>. QED
    BY <1>5, <2>2 DEF BeforeWithout
<1>6. CASE k = 6
  <2>1. Order!Dispatch(Order!FinalPass)
    BY <1>6, WithoutIs DEF Order!Barrier, Order!UploadBuffer, Order!FinalPass, Order!Shader
  <2>2. ~Order!Conflicts(Order!FinalPass)
    BY <1>6 DEF Order!Conflicts, Order!None, BeforeWithout, Order!FinalPass, Order!Shader
  <2>3. ~wrong' /\ fresh' = fresh \cup Order!FinalPass.writes
    BY <2>1, <2>2 DEF Order!Dispatch
  <2>. QED
    BY <1>6, <2>3 DEF BeforeWithout, Order!FinalPass, Order!Shader
<1>. QED
  BY <1>1, <1>2, <1>3, <1>4, <1>5, <1>6

LEMMA OrderStep ==
  ASSUME OrderInv, [Order!Next]_OrderVars
  PROVE  OrderInv'
<1>1. CASE UNCHANGED OrderVars
  BY <1>1 DEF OrderVars, OrderInv, BeforeWith, BeforeWithout
<1>2. CASE Order!SetRenderSettings
  BY <1>2 DEF Order!SetRenderSettings, OrderInv
<1>3. ASSUME NEW spans \in BOOLEAN, Order!RenderFrame(spans) PROVE OrderInv'
  <2>1. rest' = Order!Commands(spans) /\ ~wrong'
    BY <1>3 DEF Order!RenderFrame, OrderInv
  <2>2. CASE spans = TRUE
    <3>1. rest' = SubSeq(With, 1, 19)
      <4>1. rest' = With
        BY <2>1, <2>2, Zenon DEF With
      <4>. QED
        BY <4>1, WithIs
    <3>2. BeforeWith(1)'
      BY DEF BeforeWith
    <3>. QED
      BY <2>1, <3>1, <3>2 DEF OrderInv
  <2>3. CASE spans = FALSE
    <3>1. rest' = SubSeq(Without, 1, 6)
      <4>1. rest' = Without
        BY <2>1, <2>3, Zenon DEF Without
      <4>. QED
        BY <4>1, WithoutIs
    <3>2. BeforeWithout(1)'
      BY DEF BeforeWithout
    <3>. QED
      BY <2>1, <3>1, <3>2 DEF OrderInv
  <2>. QED
    BY <2>2, <2>3
<1>4. CASE Order!Record
  <2>. DEFINE c == Head(rest)
  <2>1. rest # <<>> /\ (Order!Dispatch(c) \/ Order!Barrier(c) \/ Order!UploadBuffer(c)) /\ rest' = Tail(rest) /\ ~wrong
    BY <1>4 DEF Order!Record, OrderInv
  <2>2. ASSUME NEW k \in 1 .. 19, rest = SubSeq(With, k, 19), BeforeWith(k) PROVE OrderInv'
    <3>1. c = With[k] /\ (k < 19 => rest' = SubSeq(With, k + 1, 19)) /\ (k = 19 => rest' = <<>>)
      <4>1. With \in Seq(AllCommands) /\ Len(With) = 19
        BY WithIs
      <4>2. 19 \in Nat
        OBVIOUS
      <4>. QED
        BY <2>1, <2>2, <4>1, <4>2, NextCommand, Zenon
    <3>2. ~wrong' /\ BeforeWith(k + 1)'
      BY <2>1, <2>2, <3>1, WithKeeps
    <3>3. k = 19 \/ (k < 19 /\ k + 1 \in 1 .. 19)
      OBVIOUS
    <3>4. CASE k = 19
      BY <3>1, <3>2, <3>4 DEF OrderInv
    <3>5. CASE k < 19 /\ k + 1 \in 1 .. 19
      <4>1. rest' = SubSeq(With, k + 1, 19)' /\ BeforeWith(k + 1)' /\ ~wrong'
        BY <3>1, <3>2, <3>5
      <4>. DEFINE j == k + 1
      <4>. HIDE DEF j
      <4>2. j \in 1 .. 19 /\ rest' = SubSeq(With, j, 19)' /\ BeforeWith(j)'
        BY <3>5, <4>1, Zenon DEF j
      <4>. QED
        BY <4>1, <4>2, Zenon DEF OrderInv
    <3>. QED
      BY <3>3, <3>4, <3>5
  <2>3. ASSUME NEW k \in 1 .. 6, rest = SubSeq(Without, k, 6), BeforeWithout(k) PROVE OrderInv'
    <3>1. c = Without[k] /\ (k < 6 => rest' = SubSeq(Without, k + 1, 6)) /\ (k = 6 => rest' = <<>>)
      BY <2>1, <2>3, NextCommand, WithoutIs
    <3>2. ~wrong' /\ BeforeWithout(k + 1)'
      BY <2>1, <2>3, <3>1, WithoutKeeps
    <3>3. k = 6 \/ (k < 6 /\ k + 1 \in 1 .. 6)
      OBVIOUS
    <3>4. CASE k = 6
      BY <3>1, <3>2, <3>4 DEF OrderInv
    <3>5. CASE k < 6 /\ k + 1 \in 1 .. 6
      <4>1. rest' = SubSeq(Without, k + 1, 6)' /\ BeforeWithout(k + 1)' /\ ~wrong'
        BY <3>1, <3>2, <3>5
      <4>. DEFINE j == k + 1
      <4>. HIDE DEF j
      <4>2. j \in 1 .. 6 /\ rest' = SubSeq(Without, j, 6)' /\ BeforeWithout(j)'
        BY <3>5, <4>1, Zenon DEF j
      <4>. QED
        BY <4>1, <4>2, Zenon DEF OrderInv
    <3>. QED
      BY <3>3, <3>4, <3>5
  <2>. QED
    BY <2>1, <2>2, <2>3 DEF OrderInv
<1>. QED
  BY <1>1, <1>2, <1>3, <1>4 DEF Order!Next

LEMMA OrderInit == Order!Init => OrderInv
BY DEF Order!Init, OrderInv

\* Whatever frames follow one another, with and without polygons and at changed scales, no
\* shader of RenderFrame reads what is not written and no two that conflict are
\* without a barrier between them.
THEOREM PassesStayInOrder == SpecAll => []PassesInOrder
<1>. DEFINE I == component = "Order" => OrderInv
<1>1. InitAll => I
  BY BeginningOfOne, OrderInit
<1>2. I /\ [NextAll]_all => I'
  BY StepOfOne, OrderStep
<1>3. I => PassesInOrder
  BY DEF PassesInOrder, Order!PassesInOrder, OrderInv
<1>. QED
  BY <1>1, <1>2, <1>3, PTL DEF SpecAll

-----------------------------------------------------------------------------
(* Captures.  The invariant says of every cell that may be read that what is shown of *)
(* it, and what VRAM has of it once it was copied, is the console's; of the capture     *)
(* that goes on, which of its lines are in the texture; and that the blocks of a          *)
(* capture share one flag, so that copying it for one of them serves all.                  *)

CaptValues == [frame : Nat, line : Nat, settings : Nat]
CaptMemory == [Capt!Cells -> CaptValues]
CaptFlags  == [is : BOOLEAN, start : Capt!Blocks, size : 0 .. 3, complete : BOOLEAN, synced : BOOLEAN]

\* Fields of flags.
LEMMA FlagFields ==
  ASSUME NEW f \in CaptFlags
  PROVE  /\ Capt!NoCapture \in CaptFlags /\ ~Capt!NoCapture.is /\ ~Capt!NoCapture.synced
         /\ [f EXCEPT !.synced = TRUE] \in CaptFlags
         /\ [f EXCEPT !.synced = TRUE].synced
         /\ [f EXCEPT !.synced = TRUE].is <=> f.is
         /\ [f EXCEPT !.synced = TRUE].start = f.start
         /\ [f EXCEPT !.synced = TRUE].size = f.size
         /\ [f EXCEPT !.complete = TRUE] \in CaptFlags
         /\ [f EXCEPT !.complete = TRUE].is <=> f.is
         /\ [f EXCEPT !.complete = TRUE].synced <=> f.synced
         /\ [f EXCEPT !.complete = TRUE].start = f.start
         /\ [f EXCEPT !.complete = TRUE].size = f.size
<1>1. Capt!NoCapture \in CaptFlags /\ ~Capt!NoCapture.is /\ ~Capt!NoCapture.synced
  BY DEF CaptFlags, Capt!NoCapture, Capt!Blocks
<1>2. [f EXCEPT !.synced = TRUE] \in CaptFlags /\ [f EXCEPT !.complete = TRUE] \in CaptFlags
  BY DEF CaptFlags
<1>3. /\ [f EXCEPT !.synced = TRUE].synced
      /\ [f EXCEPT !.synced = TRUE].is <=> f.is
      /\ [f EXCEPT !.synced = TRUE].start = f.start
      /\ [f EXCEPT !.synced = TRUE].size = f.size
  BY DEF CaptFlags
<1>4. /\ [f EXCEPT !.complete = TRUE].is <=> f.is
      /\ [f EXCEPT !.complete = TRUE].synced <=> f.synced
      /\ [f EXCEPT !.complete = TRUE].start = f.start
      /\ [f EXCEPT !.complete = TRUE].size = f.size
  BY DEF CaptFlags
<1>. QED
  BY <1>1, <1>2, <1>3, <1>4

FlagsOfNew(offset, size) == [Capt!NoCapture EXCEPT !.is = TRUE, !.start = offset, !.size = size]

LEMMA NewFields ==
  ASSUME NEW offset \in Capt!Blocks, NEW size \in 0 .. 3
  PROVE  LET g == FlagsOfNew(offset, size)
         IN g \in CaptFlags /\ g.is /\ ~g.synced /\ g.start = offset /\ g.size = size
BY DEF CaptFlags, Capt!NoCapture, Capt!Blocks, FlagsOfNew

LEMMA BlocksType ==
  ASSUME NEW start \in Capt!Blocks, NEW size \in 0 .. 3
  PROVE  /\ Capt!BlocksOf(start, size) \in SUBSET Capt!Blocks /\ start \in Capt!BlocksOf(start, size)
         /\ Capt!Length(size) \in 1 .. 3
BY DEF Capt!BlocksOf, Capt!Length, Capt!Blocks

\* A capture that does not run over the end of the bank is copied as it is.
LEMMA SyncedIs ==
  ASSUME NEW start \in Capt!Blocks, NEW size \in 0 .. 3, ~Capt!RunsOver(start, size)
  PROVE  Capt!SyncedBlocks(start, size) = Capt!BlocksOf(start, size)
<1>1. CASE size = 0
  BY <1>1 DEF Capt!SyncedBlocks, Capt!BlocksOf, Capt!Length, Capt!Blocks
<1>2. CASE size \in 1 .. 3
  <2>1. start + size <= 4 /\ Capt!Length(size) = size
    BY <1>2 DEF Capt!RunsOver, Capt!Length, Capt!Blocks
  <2>. DEFINE first == Capt!CopyTurn([start |-> start, done |-> 0, blocks |-> {}], size)
  <2>2. first = [start |-> (start + size) % 4, done |-> size, blocks |-> start .. start + size - 1]
    BY <1>2, <2>1 DEF Capt!CopyTurn, Capt!Blocks
  <2>3. Capt!CopyTurn(first, size) = first
    BY <1>2, <2>2 DEF Capt!CopyTurn
  <2>4. Capt!Copied(start, size) = start .. start + size - 1
    BY <2>2, <2>3 DEF Capt!Copied
  <2>5. Capt!BlocksOf(start, size) = start .. start + size - 1
    <3>1. \A i \in 0 .. size - 1 : (start + i) % 4 = start + i
      BY <1>2, <2>1 DEF Capt!Blocks
    <3>2. \A b \in start .. start + size - 1 : b - start \in 0 .. size - 1 /\ start + (b - start) = b
      BY <1>2 DEF Capt!Blocks
    <3>3. Capt!BlocksOf(start, size) = {start + i : i \in 0 .. size - 1}
      BY <2>1, <3>1 DEF Capt!BlocksOf
    <3>4. {start + i : i \in 0 .. size - 1} \subseteq start .. start + size - 1
      BY <1>2 DEF Capt!Blocks
    <3>5. start .. start + size - 1 \subseteq {start + i : i \in 0 .. size - 1}
      BY <3>2
    <3>. QED
      BY <3>3, <3>4, <3>5
  <2>. QED
    BY <1>2, <2>4, <2>5 DEF Capt!SyncedBlocks
<1>. QED
  BY <1>1, <1>2

\* What is shown of a cell with these flags and this VRAM, and what VRAM has of it if
\* it was copied, is what memory m has.
ShownAs(fs, v, c) ==
  IF ~fs[c[1]].is THEN v[c] ELSE IF fs[c[1]].size = 0 THEN narrow[c] ELSE wide[c]

SoundAt(fs, v, m, c) ==
  ShownAs(fs, v, c) = m[c] /\ (fs[c[1]].is /\ fs[c[1]].synced => v[c] = m[c])

\* The blocks of a capture have the same flags.
FlagsAgree(fs) ==
  \A b \in Capt!Blocks : fs[b].is =>
    /\ b \in Capt!BlocksOf(fs[b].start, fs[b].size)
    /\ \A a \in Capt!BlocksOf(fs[b].start, fs[b].size) : fs[a] = fs[b]

Texture(size) == IF size = 0 THEN narrow ELSE wide

\* The lines drawn so far are in the texture if they are captured, and in VRAM of the
\* console as the settings in force want them if not.
LinesDrawn ==
  \A l \in 0 .. 2 : l < captLine /\ l < Capt!Height(ongoing.size) =>
    \A c \in Capt!Cell(ongoing.offset, ongoing.size, l) :
      IF l < ongoing.from THEN Texture(ongoing.size)[c] = truth[c] ELSE truth[c] = Capt!Value(l, settings)

Captures == [on : BOOLEAN, offset : Capt!Blocks, size : 0 .. 3, from : 0 .. 3]

CaptTypes ==
  /\ truth \in CaptMemory /\ vram \in CaptMemory /\ wide \in CaptMemory /\ narrow \in CaptMemory
  /\ flags \in [Capt!Blocks -> CaptFlags]
  /\ ongoing \in Captures
  /\ captLine \in 0 .. 3 /\ settings \in Nat /\ frames \in Nat
  /\ split \in BOOLEAN /\ wrapped \in BOOLEAN

Begun(size, offset, from) == size > 0 /\ from < size => offset + from <= 4

\* The capture that is going on.
OngoingIsSound ==
  ongoing.on => /\ ongoing.from <= captLine
                /\ \A b \in Capt!BlocksOf(ongoing.offset, ongoing.size) :
                     flags[b] = FlagsOfNew(ongoing.offset, ongoing.size)
                /\ ~split => Begun(ongoing.size, ongoing.offset, ongoing.from)
                /\ ~split /\ ~wrapped => LinesDrawn

\* And all else.
RestIsSound ==
  ~split /\ ~wrapped => \A c \in Capt!Cells : Capt!Accessible(c[1]) => SoundAt(flags, vram, truth, c)

CaptInv ==
  /\ CaptTypes
  /\ FlagsAgree(flags)
  /\ OngoingIsSound
  /\ ~ongoing.on => captLine = 0
  /\ RestIsSound

\* Cells, lines and rows.
LEMMA CellsOfLines ==
  ASSUME NEW offset \in Capt!Blocks, NEW size \in 0 .. 3
  PROVE  /\ \A l \in 0 .. 2 : l < Capt!Height(size) => Capt!Cell(offset, size, l) \subseteq Capt!Cells
         /\ \A l \in 0 .. 2 : l < Capt!Height(size) => \A c \in Capt!Cell(offset, size, l) : c[1] \in Capt!BlocksOf(offset, size)
         /\ \A c \in Capt!Cells : c[1] \in Capt!BlocksOf(offset, size) =>
              \E l \in 0 .. 2 : l < Capt!Height(size) /\ c \in Capt!Cell(offset, size, l)
         /\ \A l, k \in 0 .. 2 : l < Capt!Height(size) /\ k < Capt!Height(size) =>
              \A c \in Capt!Cell(offset, size, l) : c \in Capt!Cell(offset, size, k) => l = k
<1>1. CASE size = 0
  <2>1. Capt!BlocksOf(offset, size) = {offset} /\ Capt!Height(size) = 2
    BY <1>1 DEF Capt!BlocksOf, Capt!Length, Capt!Blocks, Capt!Height
  <2>2. \A l : Capt!Cell(offset, size, l) = {<<offset, l>>}
    BY <1>1 DEF Capt!Cell
  <2>3. \A c \in Capt!Cells : c[1] = offset => \E l \in 0 .. 2 : l < 2 /\ c \in {<<offset, l>>}
    BY DEF Capt!Cells, Capt!Halves
  <2>. QED
    BY <2>1, <2>2, <2>3 DEF Capt!Cells, Capt!Halves
<1>2. CASE size \in 1 .. 3
  <2>1. Capt!Height(size) = size /\ Capt!Length(size) = size
    BY <1>2 DEF Capt!Height, Capt!Length
  <2>2. \A l : Capt!Cell(offset, size, l) = {(offset + l) % 4} \X Capt!Halves
    BY <1>2 DEF Capt!Cell
  <2>3. \A l \in 0 .. 2 : (offset + l) % 4 \in Capt!Blocks
    BY DEF Capt!Blocks
  <2>4. \A l \in 0 .. 2 : l < size => (offset + l) % 4 \in Capt!BlocksOf(offset, size)
    <3>1. \A l \in 0 .. 2 : l < size => l \in 0 .. Capt!Length(size) - 1
      BY <1>2, <2>1
    <3>. QED
      BY <3>1 DEF Capt!BlocksOf
  <2>5. \A b \in Capt!BlocksOf(offset, size) : \E l \in 0 .. 2 : l < size /\ b = (offset + l) % 4
    <3>1. \A l \in 0 .. Capt!Length(size) - 1 : l \in 0 .. 2 /\ l < size
      BY <1>2, <2>1
    <3>. QED
      BY <3>1 DEF Capt!BlocksOf
  <2>6. \A l, k \in 0 .. 2 : (offset + l) % 4 = (offset + k) % 4 => l = k
    BY DEF Capt!Blocks
  <2>7. \A b, l : \A c \in {(offset + l) % 4} \X Capt!Halves : c[1] = (offset + l) % 4
    OBVIOUS
  <2>8. \A c \in Capt!Cells : c \in {c[1]} \X Capt!Halves
    BY DEF Capt!Cells
  <2>9. \A l \in 0 .. 2 : l < Capt!Height(size) => Capt!Cell(offset, size, l) \subseteq Capt!Cells
    <3>1. \A b \in Capt!Blocks : {b} \X Capt!Halves \subseteq Capt!Cells
      BY DEF Capt!Cells
    <3>. QED
      BY <2>2, <2>3, <3>1
  <2>10. \A l \in 0 .. 2 : l < Capt!Height(size) => \A c \in Capt!Cell(offset, size, l) : c[1] \in Capt!BlocksOf(offset, size)
    BY <2>1, <2>2, <2>4, <2>7
  <2>11. ASSUME NEW c \in Capt!Cells, c[1] \in Capt!BlocksOf(offset, size)
         PROVE  \E l \in 0 .. 2 : l < Capt!Height(size) /\ c \in Capt!Cell(offset, size, l)
    <3>1. PICK l \in 0 .. 2 : l < size /\ c[1] = (offset + l) % 4
      BY <2>5, <2>11
    <3>. QED
      BY <2>1, <2>2, <2>8, <3>1
  <2>12. ASSUME NEW l \in 0 .. 2, NEW k \in 0 .. 2, NEW c \in Capt!Cell(offset, size, l), c \in Capt!Cell(offset, size, k)
         PROVE  l = k
    <3>1. c[1] = (offset + l) % 4 /\ c[1] = (offset + k) % 4
      BY <2>2, <2>7, <2>12
    <3>. QED
      BY <2>6, <3>1
  <2>. QED
    BY <2>9, <2>10, <2>11, <2>12
<1>. QED
  BY <1>1, <1>2

\* The rows a section draws are those of its lines.
RowAt(offset, size, l) == IF size = 0 THEN l ELSE (offset + l) % 4

LEMMA QuadsAre ==
  ASSUME NEW offset \in Capt!Blocks, NEW size \in 0 .. 3, NEW from \in 0 .. 3, NEW to \in 0 .. 3,
         from < to, to <= Capt!Height(size), Begun(size, offset, from)
  PROVE  Capt!Quads(offset, size, from, to) = {<<RowAt(offset, size, l), l>> : l \in from .. to - 1}
<1>1. CASE size = 0
  <2>1. to <= 2
    BY <1>1 DEF Capt!Height
  <2>2. Capt!Quads(offset, size, from, to) = {<<row, row - from + from>> : row \in from .. to - 1}
    BY <1>1, <2>1 DEF Capt!Quads
  <2>3. \A row \in from .. to - 1 : row - from + from = row
    OBVIOUS
  <2>. QED
    BY <1>1, <2>2, <2>3 DEF RowAt
<1>2. CASE size \in 1 .. 3
  <2>1. to <= size /\ offset + from <= 4
    BY <1>2 DEF Capt!Height, Begun
  <2>. DEFINE y0 == offset + from
              y1 == offset + to
  <2>2. CASE y1 <= 4
    <3>1. Capt!Quads(offset, size, from, to) = {<<row, row - y0 + from>> : row \in y0 .. y1 - 1}
      BY <1>2, <2>2 DEF Capt!Quads
    <3>2. \A l \in from .. to - 1 : offset + l \in y0 .. y1 - 1 /\ (offset + l) % 4 = offset + l /\ (offset + l) - y0 + from = l
      BY <2>2 DEF Capt!Blocks
    <3>3. \A row \in y0 .. y1 - 1 : row - y0 + from \in from .. to - 1 /\ offset + (row - y0 + from) = row
      BY DEF Capt!Blocks
    <3>4. \A l : RowAt(offset, size, l) = (offset + l) % 4
      BY <1>2 DEF RowAt
    <3>. HIDE DEF y0, y1
    <3>5. ASSUME NEW row \in y0 .. y1 - 1
          PROVE  <<row, row - y0 + from>> \in {<<RowAt(offset, size, l), l>> : l \in from .. to - 1}
      <4>1. RowAt(offset, size, row - y0 + from) = row
        BY <3>2, <3>3, <3>4
      <4>. QED
        BY <3>3, <4>1
    <3>6. ASSUME NEW l \in from .. to - 1
          PROVE  <<RowAt(offset, size, l), l>> \in {<<row, row - y0 + from>> : row \in y0 .. y1 - 1}
      BY <3>2, <3>4
    <3>. QED
      BY <3>1, <3>5, <3>6
  <2>3. CASE y1 > 4
    <3>1. Capt!Quads(offset, size, from, to) =
            {<<row, row - y0 + from>> : row \in y0 .. 3} \cup {<<row, row + 4 - y0 + from>> : row \in 0 .. y1 - 5}
      <4>1. ~ (y1 <= 4) /\ 4 - 1 = 3 /\ y1 - 4 - 1 = y1 - 5
        BY <2>3 DEF Capt!Blocks
      <4>2. Capt!Quads(offset, size, from, to) =
              {<<row, row - y0 + from>> : row \in y0 .. 4 - 1} \cup {<<row, row + 4 - y0 + from>> : row \in 0 .. y1 - 4 - 1}
        BY <1>2, <4>1 DEF Capt!Quads
      <4>. HIDE DEF y0, y1
      <4>. QED
        BY <4>1, <4>2
    <3>2. \A row \in y0 .. 3 : LET l == row - y0 + from IN l \in from .. to - 1 /\ (offset + l) % 4 = row
      BY <2>3 DEF Capt!Blocks
    <3>3. \A row \in 0 .. y1 - 5 : LET l == row + 4 - y0 + from IN l \in from .. to - 1 /\ (offset + l) % 4 = row
      BY <2>1, <2>3 DEF Capt!Blocks
    <3>4. \A l \in from .. to - 1 : offset + l < 4 => LET row == (offset + l) % 4 IN row \in y0 .. 3 /\ row - y0 + from = l
      BY DEF Capt!Blocks
    <3>5. \A l \in from .. to - 1 : offset + l >= 4 => LET row == (offset + l) % 4 IN row \in 0 .. y1 - 5 /\ row + 4 - y0 + from = l
      BY DEF Capt!Blocks
    <3>6. \A l : RowAt(offset, size, l) = (offset + l) % 4
      BY <1>2 DEF RowAt
    <3>7. \A l \in from .. to - 1 : offset + l < 4 \/ offset + l >= 4
      BY DEF Capt!Blocks
    <3>. HIDE DEF y0, y1
    <3>. DEFINE Q == {<<RowAt(offset, size, l), l>> : l \in from .. to - 1}
                upper == {<<row, row - y0 + from>> : row \in y0 .. 3}
                lower == {<<row, row + 4 - y0 + from>> : row \in 0 .. y1 - 5}
    <3>8. upper \subseteq Q
      BY <3>2, <3>6
    <3>9. lower \subseteq Q
      BY <3>3, <3>6
    <3>10. ASSUME NEW l \in from .. to - 1 PROVE <<RowAt(offset, size, l), l>> \in upper \cup lower
      <4>1. CASE offset + l < 4
        BY <3>4, <3>6, <4>1
      <4>2. CASE offset + l >= 4
        BY <3>5, <3>6, <4>2
      <4>. QED
        BY <3>7, <4>1, <4>2
    <3>11. Q \subseteq upper \cup lower
      BY <3>10
    <3>12. Capt!Quads(offset, size, from, to) = upper \cup lower
      BY <3>1
    <3>. HIDE DEF Q, upper, lower
    <3>13. Capt!Quads(offset, size, from, to) = Q
      BY <3>8, <3>9, <3>11, <3>12
    <3>. QED
      BY <3>13 DEF Q
  <2>. QED
    BY <2>2, <2>3 DEF Capt!Blocks
<1>. QED
  BY <1>1, <1>2

LEMMA RowsOfCells ==
  ASSUME NEW offset \in Capt!Blocks, NEW size \in 0 .. 3
  PROVE  /\ \A l \in 0 .. 2 : l < Capt!Height(size) =>
              \A c \in Capt!Cell(offset, size, l) : Capt!Row(offset, size, c) = RowAt(offset, size, l)
         /\ \A l, k \in 0 .. 2 : RowAt(offset, size, l) = RowAt(offset, size, k) => l = k
         /\ \A c \in Capt!Cells : c[1] \notin Capt!BlocksOf(offset, size) =>
              \A l \in 0 .. 2 : l < Capt!Height(size) => Capt!Row(offset, size, c) # RowAt(offset, size, l)
<1>1. CASE size = 0
  <2>1. Capt!BlocksOf(offset, size) = {offset} /\ Capt!Height(size) = 2
    BY <1>1 DEF Capt!BlocksOf, Capt!Length, Capt!Blocks, Capt!Height
  <2>2. \A l : Capt!Cell(offset, size, l) = {<<offset, l>>} /\ RowAt(offset, size, l) = l
    BY <1>1 DEF Capt!Cell, RowAt
  <2>3. \A c : Capt!Row(offset, size, c) = IF c[1] = offset THEN c[2] ELSE 4
    BY <1>1 DEF Capt!Row
  <2>. QED
    BY <2>1, <2>2, <2>3
<1>2. CASE size \in 1 .. 3
  <2>1. Capt!Height(size) = size /\ Capt!Length(size) = size
    BY <1>2 DEF Capt!Height, Capt!Length
  <2>2. \A l : Capt!Cell(offset, size, l) = {(offset + l) % 4} \X Capt!Halves /\ RowAt(offset, size, l) = (offset + l) % 4
    BY <1>2 DEF Capt!Cell, RowAt
  <2>3. \A c : Capt!Row(offset, size, c) = c[1]
    BY <1>2 DEF Capt!Row
  <2>4. \A l \in 0 .. 2 : l < size => (offset + l) % 4 \in Capt!BlocksOf(offset, size)
    <3>1. \A l \in 0 .. 2 : l < size => l \in 0 .. Capt!Length(size) - 1
      BY <1>2, <2>1
    <3>. QED
      BY <3>1 DEF Capt!BlocksOf
  <2>5. \A l, k \in 0 .. 2 : (offset + l) % 4 = (offset + k) % 4 => l = k
    BY DEF Capt!Blocks
  <2>6. \A l : \A c \in {(offset + l) % 4} \X Capt!Halves : c[1] = (offset + l) % 4
    OBVIOUS
  <2>7. ASSUME NEW l \in 0 .. 2, NEW c \in Capt!Cell(offset, size, l)
        PROVE  Capt!Row(offset, size, c) = RowAt(offset, size, l)
    BY <2>2, <2>3, <2>6
  <2>8. \A l, k \in 0 .. 2 : RowAt(offset, size, l) = RowAt(offset, size, k) => l = k
    BY <2>2, <2>5
  <2>9. ASSUME NEW c \in Capt!Cells, c[1] \notin Capt!BlocksOf(offset, size), NEW l \in 0 .. 2, l < Capt!Height(size)
        PROVE  Capt!Row(offset, size, c) # RowAt(offset, size, l)
    BY <2>1, <2>2, <2>3, <2>4, <2>9
  <2>. QED
    BY <2>7, <2>8, <2>9
<1>. QED
  BY <1>1, <1>2

\* What is drawn is a line's.
LEMMA DrawnTypes ==
  ASSUME CaptTypes, NEW from \in 0 .. 3, NEW to \in 0 .. 3, Capt!DoCapture(from, to)
  PROVE  narrow' \in CaptMemory /\ wide' \in CaptMemory
<1>. DEFINE o == ongoing.offset
            z == ongoing.size
            yend == IF to > Capt!Height(z) THEN Capt!Height(z) ELSE to
            rows == IF yend <= from THEN {} ELSE Capt!Quads(o, z, from, yend)
            InRow(r, c) == r \in rows /\ r[1] = Capt!Row(o, z, c)
            Drawn(old) == [c \in Capt!Cells |-> IF \E r \in rows : InRow(r, c)
                              THEN Capt!Value((CHOOSE r \in rows : InRow(r, c))[2], settings) ELSE old[c]]
<1>1. o \in Capt!Blocks /\ z \in 0 .. 3 /\ yend \in 0 .. 3
  BY DEF CaptTypes, Captures, Capt!Height
<1>2. IF z = 0 THEN narrow' = Drawn(narrow) /\ wide' = wide ELSE wide' = Drawn(wide) /\ narrow' = narrow
  BY Zenon DEF Capt!DoCapture
<1>3. \A r \in rows : r[2] \in Nat
  <2>. HIDE DEF o, z, yend
  <2>. DEFINE y0 == (IF z = 0 THEN 0 ELSE o) + from
              y1 == (IF z = 0 THEN 0 ELSE o) + yend
              end == IF z = 0 THEN 2 ELSE 4
  <2>1. \A row \in y0 .. y1 - 1 : row - y0 + from \in Nat
    BY <1>1 DEF Capt!Blocks
  <2>2. \A row \in y0 .. end - 1 : row - y0 + from \in Nat
    BY <1>1 DEF Capt!Blocks
  <2>3. \A row \in 0 .. y1 - end - 1 : row + end - y0 + from \in Nat
    BY <1>1 DEF Capt!Blocks
  <2>4. Capt!Quads(o, z, from, yend) =
          IF y1 <= end THEN {<<row, row - y0 + from>> : row \in y0 .. y1 - 1}
          ELSE {<<row, row - y0 + from>> : row \in y0 .. end - 1} \cup {<<row, row + end - y0 + from>> : row \in 0 .. y1 - end - 1}
    BY Zenon DEF Capt!Quads
  <2>. HIDE DEF y0, y1, end
  <2>5. \A r \in Capt!Quads(o, z, from, yend) : r[2] \in Nat
    BY <2>1, <2>2, <2>3, <2>4
  <2>. QED
    BY <2>5
<1>. HIDE DEF o, z, yend, rows
<1>4. ASSUME NEW old \in CaptMemory PROVE Drawn(old) \in CaptMemory
  <2>1. ASSUME NEW c \in Capt!Cells PROVE Drawn(old)[c] \in CaptValues
    <3>1. CASE \E r \in rows : InRow(r, c)
      <4>. DEFINE l == (CHOOSE r \in rows : InRow(r, c))[2]
      <4>1. l \in Nat
        BY <1>3, <3>1
      <4>2. Drawn(old)[c] = Capt!Value(l, settings)
        BY <3>1, Zenon
      <4>. HIDE DEF l
      <4>. QED
        BY <4>1, <4>2 DEF Capt!Value, CaptValues, CaptTypes
    <3>2. CASE ~ \E r \in rows : InRow(r, c)
      <4>1. Drawn(old)[c] = old[c]
        BY <3>2, Zenon
      <4>. QED
        BY <4>1 DEF CaptMemory
    <3>. QED
      BY <3>1, <3>2
  <2>. QED
    BY <2>1, Zenon DEF CaptMemory
<1>. HIDE DEF Drawn
<1>. QED
  BY <1>2, <1>4 DEF CaptTypes

\* A section draws its lines of the capture, and nothing else.
LEMMA CaptureDraws ==
  ASSUME CaptTypes, NEW from \in 0 .. 3, NEW to \in 0 .. 3, from <= to,
         Begun(ongoing.size, ongoing.offset, from), Capt!DoCapture(from, to)
  PROVE  /\ \A l \in 0 .. 2 : l < Capt!Height(ongoing.size) => \A c \in Capt!Cell(ongoing.offset, ongoing.size, l) :
              (IF ongoing.size = 0 THEN narrow' ELSE wide')[c] =
                 IF from <= l /\ l < to THEN Capt!Value(l, settings) ELSE Texture(ongoing.size)[c]
         /\ \A c \in Capt!Cells : c[1] \notin Capt!BlocksOf(ongoing.offset, ongoing.size) =>
              narrow'[c] = narrow[c] /\ wide'[c] = wide[c]
<1>. DEFINE o == ongoing.offset
            z == ongoing.size
            height == Capt!Height(z)
            yend == IF to > height THEN height ELSE to
            rows == IF yend <= from THEN {} ELSE Capt!Quads(o, z, from, yend)
            InRow(r, c) == r \in rows /\ r[1] = Capt!Row(o, z, c)
            Drawn(old) == [c \in Capt!Cells |-> IF \E r \in rows : InRow(r, c)
                              THEN Capt!Value((CHOOSE r \in rows : InRow(r, c))[2], settings) ELSE old[c]]
<1>1. o \in Capt!Blocks /\ z \in 0 .. 3 /\ height \in 1 .. 3 /\ yend \in 0 .. 3 /\ yend <= height /\ yend <= to
  BY DEF CaptTypes, Captures, Capt!Height
<1>2. (yend > from \/ yend <= from) /\ \A l \in 0 .. 2 : l < height => (from <= l /\ l < yend <=> from <= l /\ l < to)
  BY <1>1
<1>3. rows = {<<RowAt(o, z, l), l>> : l \in from .. yend - 1}
  <2>1. CASE yend <= from
    <3>1. from .. yend - 1 = {}
      BY <1>1, <2>1
    <3>. QED
      BY <2>1, <3>1
  <2>2. CASE yend > from
    <3>1. Capt!Quads(o, z, from, yend) = {<<RowAt(o, z, l), l>> : l \in from .. yend - 1}
      <4>. HIDE DEF o, z, yend, height
      <4>1. yend <= Capt!Height(z) /\ Begun(z, o, from) /\ from < yend
        BY <1>1, <2>2 DEF z, o, height
      <4>. QED
        BY <1>1, <4>1, QuadsAre
    <3>2. ~ (yend <= from)
      BY <1>1, <2>2
    <3>. QED
      BY <3>1, <3>2, Zenon
  <2>. QED
    BY <1>2, <2>1, <2>2
<1>4. IF z = 0 THEN narrow' = Drawn(narrow) /\ wide' = wide ELSE wide' = Drawn(wide) /\ narrow' = narrow
  BY Zenon DEF Capt!DoCapture
<1>. HIDE DEF o, z, height, yend, rows
<1>5. ASSUME NEW l \in 0 .. 2, l < height, NEW c \in Capt!Cell(o, z, l), NEW old
      PROVE  Drawn(old)[c] = IF from <= l /\ l < to THEN Capt!Value(l, settings) ELSE old[c]
  <2>1. c \in Capt!Cells /\ Capt!Row(o, z, c) = RowAt(o, z, l)
    BY <1>1, <1>5, CellsOfLines, RowsOfCells DEF height
  <2>2. \A r \in rows : \E k \in from .. yend - 1 : r = <<RowAt(o, z, k), k>> /\ k \in 0 .. 2
    BY <1>1, <1>3
  <2>3. \A r \in rows : InRow(r, c) => r = <<RowAt(o, z, l), l>> /\ l \in from .. yend - 1
    BY <1>1, <2>1, <2>2, RowsOfCells
  <2>4. CASE from <= l /\ l < yend
    <3>1. <<RowAt(o, z, l), l>> \in rows /\ InRow(<<RowAt(o, z, l), l>>, c)
      BY <1>1, <1>3, <2>1, <2>4
    <3>. DEFINE r == CHOOSE r \in rows : InRow(r, c)
    <3>2. r \in rows /\ InRow(r, c)
      BY <3>1, Zenon
    <3>3. r[2] = l
      BY <2>3, <3>2
    <3>4. Drawn(old)[c] = Capt!Value(r[2], settings)
      BY <2>1, <3>1, Zenon
    <3>. QED
      BY <1>2, <1>5, <2>4, <3>3, <3>4
  <2>5. CASE ~ (from <= l /\ l < yend)
    <3>1. ~ \E r \in rows : InRow(r, c)
      BY <1>1, <2>3, <2>5
    <3>2. Drawn(old)[c] = old[c]
      BY <2>1, <3>1, Zenon
    <3>. QED
      BY <1>2, <1>5, <2>5, <3>2
  <2>. QED
    BY <2>4, <2>5
<1>6. ASSUME NEW c \in Capt!Cells, c[1] \notin Capt!BlocksOf(o, z), NEW old
      PROVE  Drawn(old)[c] = old[c]
  <2>1. \A r \in rows : \E k \in 0 .. 2 : k < height /\ r = <<RowAt(o, z, k), k>>
    BY <1>1, <1>3
  <2>2. \A r \in rows : ~ InRow(r, c)
    BY <1>1, <1>6, <2>1, RowsOfCells DEF height
  <2>. QED
    BY <2>2, Zenon
<1>. HIDE DEF Drawn
<1>9. ASSUME NEW l \in 0 .. 2, l < Capt!Height(ongoing.size), NEW c \in Capt!Cell(ongoing.offset, ongoing.size, l)
      PROVE  (IF ongoing.size = 0 THEN narrow' ELSE wide')[c] =
               IF from <= l /\ l < to THEN Capt!Value(l, settings) ELSE Texture(ongoing.size)[c]
  BY <1>4, <1>5, <1>9 DEF o, z, height, Texture
<1>10. ASSUME NEW c \in Capt!Cells, c[1] \notin Capt!BlocksOf(ongoing.offset, ongoing.size)
       PROVE  narrow'[c] = narrow[c] /\ wide'[c] = wide[c]
  BY <1>4, <1>6, <1>10 DEF o, z
<1>. QED
  BY <1>9, <1>10

\* A capture whose blocks are copied to VRAM and forgotten, or marked otherwise.
LEMMA MarkIs ==
  ASSUME NEW fs \in [Capt!Blocks -> CaptFlags], NEW start \in Capt!Blocks, NEW size \in 0 .. 3, NEW value \in CaptFlags
  PROVE  /\ Capt!Mark(fs, start, size, value) \in [Capt!Blocks -> CaptFlags]
         /\ \A b \in Capt!Blocks : Capt!Mark(fs, start, size, value)[b] = IF b \in Capt!BlocksOf(start, size) THEN value ELSE fs[b]
BY DEF Capt!Mark

\* Blocks of different captures.
LEMMA Apart ==
  ASSUME NEW fs \in [Capt!Blocks -> CaptFlags], FlagsAgree(fs), NEW a \in Capt!Blocks, NEW b \in Capt!Blocks, fs[a].is, fs[b].is,
         b \notin Capt!BlocksOf(fs[a].start, fs[a].size)
  PROVE  Capt!BlocksOf(fs[b].start, fs[b].size) \cap Capt!BlocksOf(fs[a].start, fs[a].size) = {}
<1>1. ASSUME NEW c \in Capt!BlocksOf(fs[b].start, fs[b].size), c \in Capt!BlocksOf(fs[a].start, fs[a].size) PROVE FALSE
  <2>1. fs[c] = fs[b] /\ fs[c] = fs[a]
    BY <1>1 DEF FlagsAgree
  <2>2. b \in Capt!BlocksOf(fs[b].start, fs[b].size)
    BY DEF FlagsAgree
  <2>. QED
    BY <2>1, <2>2
<1>. QED
  BY <1>1

\* What SyncVRAMCapture makes of VRAM.
LEMMA SyncIs ==
  ASSUME CaptTypes, NEW v \in CaptMemory, NEW start \in Capt!Blocks, NEW size \in 0 .. 3
  PROVE  /\ Capt!SyncVRAMCapture(v, start, size) \in CaptMemory
         /\ ~Capt!RunsOver(start, size) => \A c \in Capt!Cells :
              Capt!SyncVRAMCapture(v, start, size)[c] =
                IF c[1] \in Capt!BlocksOf(start, size) THEN Texture(size)[c] ELSE v[c]
<1>1. Capt!SyncVRAMCapture(v, start, size) \in CaptMemory
  BY DEF Capt!SyncVRAMCapture, CaptTypes, CaptMemory
<1>2. ASSUME ~Capt!RunsOver(start, size), NEW c \in Capt!Cells
      PROVE  Capt!SyncVRAMCapture(v, start, size)[c] = IF c[1] \in Capt!BlocksOf(start, size) THEN Texture(size)[c] ELSE v[c]
  BY <1>2, SyncedIs DEF Capt!SyncVRAMCapture, Texture
<1>. QED
  BY <1>1, <1>2

\* A turn of Invalidated.
Forgotten(s, old) ==
  [flags |-> Capt!Mark(s.flags, old.start, old.size, Capt!NoCapture),
   vram |-> Capt!SyncVRAMCapture(s.vram, old.start, old.size),
   wrapped |-> s.wrapped \/ Capt!RunsOver(old.start, old.size)]

CaptStates == [flags : [Capt!Blocks -> CaptFlags], vram : CaptMemory, wrapped : BOOLEAN]

\* So far everything is sound, unless a capture that runs over was copied.
CaptSound(s) ==
  /\ s \in CaptStates /\ FlagsAgree(s.flags)
  /\ wrapped => s.wrapped
  /\ ~split /\ ~s.wrapped => \A c \in Capt!Cells : SoundAt(s.flags, s.vram, truth, c)

LEMMA ForgottenIsSound ==
  ASSUME CaptTypes, NEW s, CaptSound(s), NEW a \in Capt!Blocks, s.flags[a].is
  PROVE  LET e == Forgotten(s, s.flags[a])
         IN /\ CaptSound(e) /\ ~e.flags[a].is
            /\ \A b \in Capt!Blocks : e.flags[b] = s.flags[b] \/ ~e.flags[b].is
<1>. DEFINE old == s.flags[a]
            e == Forgotten(s, old)
<1>1. s \in CaptStates /\ old \in CaptFlags /\ old.start \in Capt!Blocks /\ old.size \in 0 .. 3
  BY DEF CaptSound, CaptStates, CaptFlags
<1>2. Capt!NoCapture \in CaptFlags /\ ~Capt!NoCapture.is
  BY <1>1, FlagFields
<1>3. /\ e.flags = Capt!Mark(s.flags, old.start, old.size, Capt!NoCapture)
      /\ e.vram = Capt!SyncVRAMCapture(s.vram, old.start, old.size)
      /\ e.wrapped <=> s.wrapped \/ Capt!RunsOver(old.start, old.size)
      /\ e \in CaptStates
  <2>1. Capt!Mark(s.flags, old.start, old.size, Capt!NoCapture) \in [Capt!Blocks -> CaptFlags]
    BY <1>1, <1>2, MarkIs DEF CaptStates
  <2>2. Capt!SyncVRAMCapture(s.vram, old.start, old.size) \in CaptMemory
    BY <1>1, SyncIs DEF CaptStates
  <2>. HIDE DEF old
  <2>3. (s.wrapped \/ Capt!RunsOver(old.start, old.size)) \in BOOLEAN
    OBVIOUS
  <2>. QED
    BY <2>1, <2>2, <2>3 DEF Forgotten, CaptStates
<1>4. a \in Capt!BlocksOf(old.start, old.size) /\ Capt!BlocksOf(old.start, old.size) \in SUBSET Capt!Blocks
  BY <1>1, BlocksType DEF CaptSound, FlagsAgree
<1>10. s.flags \in [Capt!Blocks -> CaptFlags] /\ s.vram \in CaptMemory
  BY <1>1 DEF CaptStates
<1>5. \A b \in Capt!Blocks : e.flags[b] = IF b \in Capt!BlocksOf(old.start, old.size) THEN Capt!NoCapture ELSE s.flags[b]
  <2>. HIDE DEF old, e
  <2>1. \A b \in Capt!Blocks : Capt!Mark(s.flags, old.start, old.size, Capt!NoCapture)[b] =
                          IF b \in Capt!BlocksOf(old.start, old.size) THEN Capt!NoCapture ELSE s.flags[b]
    BY DEF Capt!Mark
  <2>2. e.flags = Capt!Mark(s.flags, old.start, old.size, Capt!NoCapture)
    BY <1>3
  <2>. QED
    BY <2>1, <2>2, Zenon
<1>. HIDE DEF e
<1>6. FlagsAgree(e.flags)
  <2>1. ASSUME NEW b \in Capt!Blocks, e.flags[b].is
        PROVE  /\ b \in Capt!BlocksOf(e.flags[b].start, e.flags[b].size)
               /\ \A c \in Capt!BlocksOf(e.flags[b].start, e.flags[b].size) : e.flags[c] = e.flags[b]
    <3>1. b \notin Capt!BlocksOf(old.start, old.size) /\ e.flags[b] = s.flags[b]
      BY <1>2, <1>5, <2>1
    <3>2. s.flags[b].is /\ s.flags[b] \in CaptFlags
      BY <1>1, <2>1, <3>1 DEF CaptStates
    <3>3. Capt!BlocksOf(s.flags[b].start, s.flags[b].size) \cap Capt!BlocksOf(old.start, old.size) = {}
      BY <1>1, <3>1, <3>2, Apart DEF CaptSound, CaptStates
    <3>4. b \in Capt!BlocksOf(s.flags[b].start, s.flags[b].size) /\ Capt!BlocksOf(s.flags[b].start, s.flags[b].size) \in SUBSET Capt!Blocks
          /\ \A c \in Capt!BlocksOf(s.flags[b].start, s.flags[b].size) : s.flags[c] = s.flags[b]
      BY <3>2, BlocksType DEF CaptSound, FlagsAgree, CaptFlags
    <3>. QED
      BY <1>5, <3>1, <3>3, <3>4
  <2>. QED
    BY <2>1 DEF FlagsAgree
<1>7. ASSUME ~split, ~e.wrapped, NEW c \in Capt!Cells
      PROVE  SoundAt(e.flags, e.vram, truth, c)
  <2>1. ~s.wrapped /\ ~Capt!RunsOver(old.start, old.size) /\ SoundAt(s.flags, s.vram, truth, c)
    BY <1>3, <1>7 DEF CaptSound
  <2>2. c[1] \in Capt!Blocks
    BY DEF Capt!Cells
  <2>3. e.vram[c] = IF c[1] \in Capt!BlocksOf(old.start, old.size) THEN Texture(old.size)[c] ELSE s.vram[c]
    <3>. HIDE DEF old
    <3>1. Capt!SyncVRAMCapture(s.vram, old.start, old.size)[c] =
            IF c[1] \in Capt!BlocksOf(old.start, old.size) THEN Texture(old.size)[c] ELSE s.vram[c]
      <4>1. s.vram \in CaptMemory /\ old.start \in Capt!Blocks /\ old.size \in 0 .. 3 /\ ~Capt!RunsOver(old.start, old.size)
        BY <1>1, <1>10, <2>1, Zenon
      <4>2. \A d \in Capt!Cells : Capt!SyncVRAMCapture(s.vram, old.start, old.size)[d] =
              IF d[1] \in Capt!BlocksOf(old.start, old.size) THEN Texture(old.size)[d] ELSE s.vram[d]
        BY <4>1, SyncIs, Zenon
      <4>. QED
        BY <1>7, <4>2, Zenon
    <3>2. e.vram = Capt!SyncVRAMCapture(s.vram, old.start, old.size)
      BY <1>3
    <3>. QED
      BY <3>1, <3>2, Zenon
  <2>4. CASE c[1] \in Capt!BlocksOf(old.start, old.size)
    <3>1. s.flags[c[1]] = old /\ e.flags[c[1]] = Capt!NoCapture
      BY <1>5, <2>2, <2>4 DEF CaptSound, FlagsAgree
    <3>2. truth[c] = Texture(old.size)[c]
      BY <2>1, <3>1 DEF SoundAt, ShownAs, Texture
    <3>. QED
      BY <1>2, <2>3, <2>4, <3>1, <3>2 DEF SoundAt, ShownAs
  <2>5. CASE c[1] \notin Capt!BlocksOf(old.start, old.size)
    <3>1. e.flags[c[1]] = s.flags[c[1]] /\ e.vram[c] = s.vram[c]
      BY <1>5, <2>2, <2>3, <2>5
    <3>. QED
      BY <2>1, <3>1 DEF SoundAt, ShownAs
  <2>. QED
    BY <2>4, <2>5
<1>8. CaptSound(e)
  BY <1>3, <1>6, <1>7 DEF CaptSound
<1>9. ~e.flags[a].is /\ \A b \in Capt!Blocks : e.flags[b] = s.flags[b] \/ ~e.flags[b].is
  BY <1>2, <1>4, <1>5
<1>. QED
  BY <1>8, <1>9 DEF e

\* And all turns: what is left of old captures where the new one will be is of its own
\* place and size.
LEMMA InvalidatedIsSound ==
  ASSUME CaptInv, ~ongoing.on, NEW offset \in Capt!Blocks, NEW size \in 0 .. 3
  PROVE  /\ CaptSound(Capt!Invalidated(offset, size))
         /\ \A b \in Capt!BlocksOf(offset, size) :
              LET f == Capt!Invalidated(offset, size).flags[b]
              IN f.is => f.start = offset /\ f.size = size
<1>. DEFINE n == Capt!Length(size)
            Same(f) == f.start = offset /\ f.size = size
            begin == [flags |-> flags, vram |-> vram, wrapped |-> wrapped]
            Forget(s, old) == IF ~old.is \/ Same(old) THEN s ELSE Forgotten(s, old)
            Is(f, k) == f = [i \in 0 .. k |-> IF i = 0 THEN begin
                               ELSE Forget(f[i - 1], f[i - 1].flags[(offset + i - 1) % 4])]
            Have == {k \in Nat : \E f : Is(f, k)}
<1>1. n \in 1 .. 3
  BY BlocksType
<1>2. 0 \in Have
  <2>. HIDE DEF begin, Forget
  <2>. DEFINE f == [i \in 0 .. 0 |-> begin]
  <2>1. Is(f, 0)
    OBVIOUS
  <2>. HIDE DEF Is, f
  <2>2. 0 \in Nat
    OBVIOUS
  <2>. QED
    BY <2>1, <2>2, Zenon
<1>3. ASSUME NEW k \in Nat, k \in Have PROVE k + 1 \in Have
  <2>1. PICK f : Is(f, k)
    BY <1>3
  <2>. HIDE DEF begin, Forget
  <2>. DEFINE final == Forget(f[k], f[k].flags[(offset + (k + 1) - 1) % 4])
              g == [i \in 0 .. k + 1 |-> IF i <= k THEN f[i] ELSE final]
              Turn(h, i) == IF i = 0 THEN begin ELSE Forget(h[i - 1], h[i - 1].flags[(offset + i - 1) % 4])
  <2>2. \A i \in 0 .. k : g[i] = f[i] /\ f[i] = Turn(f, i)
    <3>1. \A i \in 0 .. k : i \in 0 .. k + 1 /\ i <= k
      OBVIOUS
    <3>2. \A i \in 0 .. k : g[i] = f[i]
      <4>. HIDE DEF final
      <4>. QED
        BY <3>1
    <3>3. \A i \in 0 .. k : f[i] = Turn(f, i)
      <4>. HIDE DEF g, final
      <4>. QED
        BY <2>1
    <3>. HIDE DEF g, Turn
    <3>. QED
      BY <3>2, <3>3
  <2>3. \A i \in 0 .. k : i = 0 \/ i - 1 \in 0 .. k
    OBVIOUS
  <2>4. \A i \in 0 .. k : g[i] = Turn(g, i)
    <3>. HIDE DEF g
    <3>. QED
      BY <2>2, <2>3
  <2>5. g[k + 1] = final /\ k + 1 # 0 /\ (k + 1) - 1 = k /\ k \in 0 .. k
    OBVIOUS
  <2>6. g[k + 1] = Turn(g, k + 1)
    <3>. HIDE DEF g
    <3>. QED
      BY <2>2, <2>5
  <2>7. \A i \in 0 .. k + 1 : g[i] = Turn(g, i)
    <3>1. \A i \in 0 .. k + 1 : i \in 0 .. k \/ i = k + 1
      OBVIOUS
    <3>. HIDE DEF g, Turn
    <3>. QED
      BY <2>4, <2>6, <3>1
  <2>8. g = [i \in 0 .. k + 1 |-> g[i]]
    OBVIOUS
  <2>. HIDE DEF g
  <2>9. Is(g, k + 1)
    BY <2>7, <2>8, Zenon
  <2>10. k + 1 \in Nat
    OBVIOUS
  <2>. HIDE DEF Is
  <2>. QED
    BY <2>9, <2>10, Zenon
<1>4. Have = Nat
  <2>. HIDE DEF Have
  <2>1. Have \in SUBSET Nat
    BY DEF Have
  <2>. QED
    BY <1>2, <1>3, <2>1, SetInduction, Zenon
<1>. DEFINE f == CHOOSE f : Is(f, n)
<1>5. Is(f, n)
  <2>. HIDE DEF Is
  <2>1. n \in Nat
    BY <1>1
  <2>. QED
    BY <1>4, <2>1, Zenon
<1>6. Capt!Invalidated(offset, size) = f[n]
  BY Zenon DEF Capt!Invalidated, Forgotten
<1>7. CaptSound(begin)
  BY DEF CaptSound, CaptStates, CaptInv, CaptTypes, Capt!Accessible, RestIsSound
<1>. HIDE DEF f, begin, Forget
<1>8. f[0] = begin /\ \A i \in 1 .. n : f[i] = Forget(f[i - 1], f[i - 1].flags[(offset + i - 1) % 4])
  BY <1>1, <1>5
<1>. HIDE DEF Is
<1>. DEFINE Upto(i) == /\ CaptSound(f[i])
                       /\ \A j \in 0 .. i - 1 : LET g == f[i].flags[(offset + j) % 4] IN g.is => Same(g)
<1>9. ASSUME NEW i \in 0 .. 2, i < n, Upto(i) PROVE Upto(i + 1)
  <2>. DEFINE a == (offset + i) % 4
              s == f[i]
              old == s.flags[a]
  <2>1. /\ a \in Capt!Blocks /\ i + 1 \in 1 .. n /\ (i + 1) - 1 = i /\ offset + (i + 1) - 1 = offset + i
        /\ \A j \in 0 .. (i + 1) - 1 : (j \in 0 .. i - 1 \/ j = i) /\ (offset + j) % 4 \in Capt!Blocks
    <3>. HIDE DEF n
    <3>1. i + 1 \in 1 .. n /\ (i + 1) - 1 = i /\ offset + (i + 1) - 1 = offset + i
      BY <1>1, <1>9 DEF Capt!Blocks
    <3>2. \A j \in 0 .. (i + 1) - 1 : j \in 0 .. i - 1 \/ j = i
      OBVIOUS
    <3>3. \A j \in Nat : (offset + j) % 4 \in Capt!Blocks
      BY DEF Capt!Blocks
    <3>. QED
      BY <3>1, <3>2, <3>3
  <2>2. f[i + 1] = Forget(s, old)
    <3>1. i + 1 \in 1 .. n /\ (i + 1) - 1 = i /\ offset + (i + 1) - 1 = offset + i
      BY <2>1
    <3>2. f[i + 1] = Forget(f[(i + 1) - 1], f[(i + 1) - 1].flags[(offset + (i + 1) - 1) % 4])
      BY <1>8, <3>1
    <3>. QED
      BY <3>1, <3>2
  <2>3. CASE ~old.is \/ Same(old)
    <3>1. f[i + 1] = s
      BY <2>2, <2>3 DEF Forget
    <3>. QED
      BY <1>9, <2>1, <2>3, <3>1
  <2>4. CASE old.is /\ ~Same(old)
    <3>1. f[i + 1] = Forgotten(s, old)
      BY <2>2, <2>4 DEF Forget
    <3>. HIDE DEF s, a
    <3>2. /\ CaptSound(f[i + 1]) /\ ~f[i + 1].flags[a].is
          /\ \A b \in Capt!Blocks : f[i + 1].flags[b] = s.flags[b] \/ ~f[i + 1].flags[b].is
      BY <1>9, <2>1, <2>4, <3>1, ForgottenIsSound DEF CaptInv, s
    <3>. QED
      BY <1>9, <2>1, <3>2 DEF s, a
  <2>. QED
    BY <2>3, <2>4
<1>10. Upto(0)
  BY <1>7, <1>8
<1>. HIDE DEF Upto
<1>11. Upto(1) /\ (n > 1 => Upto(2)) /\ (n > 2 => Upto(3))
  BY <1>1, <1>9, <1>10
<1>12. Upto(n)
  BY <1>1, <1>11
<1>13. Capt!BlocksOf(offset, size) = {(offset + j) % 4 : j \in 0 .. n - 1}
  BY DEF Capt!BlocksOf
<1>. QED
  BY <1>6, <1>12, <1>13 DEF Upto
LEMMA CaptInit == Capt!Init => CaptInv
<1>. SUFFICES ASSUME Capt!Init PROVE CaptInv
  OBVIOUS
<1>1. Capt!Old \in CaptValues /\ Capt!NoCapture \in CaptFlags /\ ~Capt!NoCapture.is
  BY DEF Capt!Old, CaptValues, Capt!NoCapture, CaptFlags, Capt!Blocks
<1>2. Capt!Idle \in Captures /\ ~Capt!Idle.on
  BY DEF Capt!Idle, Captures, Capt!Blocks
<1>3. CaptTypes
  <2>1. [c \in Capt!Cells |-> Capt!Old] \in CaptMemory /\ [b \in Capt!Blocks |-> Capt!NoCapture] \in [Capt!Blocks -> CaptFlags]
    BY <1>1, Zenon DEF CaptMemory
  <2>2. truth \in CaptMemory /\ vram \in CaptMemory /\ wide \in CaptMemory /\ narrow \in CaptMemory /\ flags \in [Capt!Blocks -> CaptFlags]
    BY <2>1, Zenon DEF Capt!Init
  <2>3. captLine = 0 /\ settings = 0 /\ frames = 0 /\ split = FALSE /\ wrapped = FALSE
    BY Zenon DEF Capt!Init
  <2>4. ongoing \in Captures
    BY <1>2 DEF Capt!Init
  <2>5. captLine \in 0 .. 3 /\ settings \in Nat /\ frames \in Nat
    BY <2>3
  <2>6. split \in BOOLEAN /\ wrapped \in BOOLEAN
    BY <2>3, Zenon
  <2>. QED
    BY <2>2, <2>4, <2>5, <2>6, Zenon DEF CaptTypes
<1>4. \A b \in Capt!Blocks : ~flags[b].is
  BY <1>1 DEF Capt!Init
<1>5. FlagsAgree(flags)
  BY <1>4 DEF FlagsAgree
<1>6. \A c \in Capt!Cells : c[1] \in Capt!Blocks /\ vram[c] = truth[c]
  BY DEF Capt!Init, Capt!Cells
<1>7. \A c \in Capt!Cells : SoundAt(flags, vram, truth, c)
  BY <1>4, <1>6 DEF SoundAt, ShownAs
<1>8. ~ongoing.on /\ captLine = 0
  BY <1>2 DEF Capt!Init
<1>. QED
  BY <1>3, <1>5, <1>7, <1>8 DEF CaptInv, OngoingIsSound, RestIsSound

\* A capture begins.
LEMMA CaptureStarts ==
  ASSUME CaptInv, NEW offset \in Capt!Blocks, NEW size \in 0 .. 3, Capt!StartCapture(offset, size)
  PROVE  CaptInv'
<1>. DEFINE others == Capt!Invalidated(offset, size)
            new == FlagsOfNew(offset, size)
            own == Capt!BlocksOf(offset, size)
<1>1. CaptTypes /\ ~ongoing.on /\ captLine = 0
  BY DEF CaptInv, Capt!StartCapture
<1>2. /\ CaptSound(others)
      /\ \A b \in own : others.flags[b].is => others.flags[b].start = offset /\ others.flags[b].size = size
  BY <1>1, InvalidatedIsSound
<1>3. new \in CaptFlags /\ new.is /\ ~new.synced /\ new.start = offset /\ new.size = size
  BY NewFields
<1>4. flags' = Capt!Mark(others.flags, offset, size, new) /\ vram' = others.vram /\ (wrapped' <=> others.wrapped)
  BY DEF Capt!StartCapture, FlagsOfNew
<1>. HIDE DEF others
<1>5. others.flags \in [Capt!Blocks -> CaptFlags] /\ others.vram \in CaptMemory /\ others.wrapped \in BOOLEAN /\ FlagsAgree(others.flags)
  BY <1>2 DEF CaptSound, CaptStates
<1>. HIDE DEF new
<1>6. /\ flags' \in [Capt!Blocks -> CaptFlags]
      /\ \A b \in Capt!Blocks : flags'[b] = IF b \in own THEN new ELSE others.flags[b]
  BY <1>3, <1>4, <1>5 DEF Capt!Mark
<1>7. /\ ongoing' \in Captures /\ ongoing'.on
      /\ ongoing'.offset = offset /\ ongoing'.size = size /\ ongoing'.from = 0
  BY DEF Capt!StartCapture, Captures
<1>8. /\ UNCHANGED <<truth, wide, narrow, captLine, settings, split>>
      /\ frames' \in Nat /\ wrapped' \in BOOLEAN
  <2>1. wrapped' = others.wrapped
    BY DEF Capt!StartCapture, others
  <2>. QED
    BY <1>1, <1>5, <2>1 DEF Capt!StartCapture, CaptTypes
<1>9. CaptTypes'
  BY <1>1, <1>4, <1>5, <1>6, <1>7, <1>8 DEF CaptTypes
<1>10. own \in SUBSET Capt!Blocks /\ offset \in own
  BY BlocksType
<1>11. ASSUME NEW b \in Capt!Blocks, flags'[b].is
       PROVE  /\ b \in Capt!BlocksOf(flags'[b].start, flags'[b].size)
              /\ \A a \in Capt!BlocksOf(flags'[b].start, flags'[b].size) : flags'[a] = flags'[b]
  <2>1. CASE b \in own
    BY <1>3, <1>6, <1>10, <2>1
  <2>2. CASE b \notin own
    <3>. DEFINE f == others.flags[b]
    <3>1. flags'[b] = f /\ f.is /\ f.start \in Capt!Blocks /\ f.size \in 0 .. 3
      BY <1>5, <1>6, <1>11, <2>2 DEF CaptFlags
    <3>2. b \in Capt!BlocksOf(f.start, f.size) /\ \A a \in Capt!BlocksOf(f.start, f.size) : others.flags[a] = f
      BY <1>5, <3>1 DEF FlagsAgree
    <3>3. Capt!BlocksOf(f.start, f.size) \in SUBSET Capt!Blocks
      BY <3>1, BlocksType
    <3>4. \A a \in Capt!BlocksOf(f.start, f.size) : a \notin own
      BY <1>2, <2>2, <3>1, <3>2
    <3>. QED
      BY <1>6, <3>1, <3>2, <3>3, <3>4
  <2>. QED
    BY <2>1, <2>2
<1>12. FlagsAgree(flags')
  BY <1>11 DEF FlagsAgree
<1>13. Begun(size, offset, 0)
  BY DEF Begun, Capt!Blocks
<1>14. LinesDrawn'
  BY <1>1, <1>8 DEF LinesDrawn
<1>15. ASSUME ~split', ~wrapped', NEW c \in Capt!Cells, Capt!Accessible(c[1])'
       PROVE  SoundAt(flags, vram, truth, c)'
  <2>1. c[1] \in Capt!Blocks /\ c[1] \notin own
    BY <1>7, <1>15 DEF Capt!Cells, Capt!Accessible
  <2>2. SoundAt(others.flags, others.vram, truth, c)
    BY <1>2, <1>4, <1>8, <1>15 DEF CaptSound
  <2>3. flags'[c[1]] = others.flags[c[1]]
    BY <1>6, <2>1
  <2>. QED
    BY <1>4, <1>8, <2>2, <2>3 DEF SoundAt, ShownAs
<1>. QED
  <2>1. \A b \in own : flags'[b] = FlagsOfNew(offset, size)
    BY <1>6, <1>10 DEF new
  <2>2. ongoing'.from <= captLine'
    BY <1>1, <1>7, <1>8
  <2>3. OngoingIsSound'
    BY <1>7, <1>13, <1>14, <2>1, <2>2 DEF OngoingIsSound
  <2>4. RestIsSound'
    BY <1>15 DEF RestIsSound
  <2>. QED
    BY <1>7, <1>9, <1>12, <2>3, <2>4 DEF CaptInv

\* A line is drawn.
LEMMA LineIsDrawn ==
  ASSUME CaptInv, Capt!DrawLine
  PROVE  CaptInv'
<1>. DEFINE o == ongoing.offset
            z == ongoing.size
<1>1. /\ CaptTypes /\ o \in Capt!Blocks /\ z \in 0 .. 3 /\ ongoing.from \in 0 .. 3
      /\ ongoing.on /\ captLine \in 0 .. 2 /\ ongoing.from <= captLine
  BY DEF CaptInv, OngoingIsSound, CaptTypes, Captures, Capt!DrawLine
<1>2. UNCHANGED <<vram, wide, narrow, flags, ongoing, settings, frames, split, wrapped>> /\ captLine' = captLine + 1
  BY DEF Capt!DrawLine
<1>3. truth' \in CaptMemory
  <2>1. Capt!Value(captLine, settings) \in CaptValues
    BY <1>1 DEF Capt!Value, CaptValues, CaptTypes
  <2>. QED
    BY <1>1, <2>1 DEF Capt!DrawLine, CaptMemory, CaptTypes
<1>4. \A c \in Capt!Cells : c[1] \notin Capt!BlocksOf(o, z) => truth'[c] = truth[c]
  <2>1. ASSUME captLine < Capt!Height(z), NEW c \in Capt!Cells, c[1] \notin Capt!BlocksOf(o, z)
        PROVE  c \notin Capt!Cell(o, z, captLine)
    BY <1>1, <2>1, CellsOfLines
  <2>. QED
    BY <2>1 DEF Capt!DrawLine
<1>5. ASSUME NEW l \in 0 .. 2, l < Capt!Height(z), NEW c \in Capt!Cell(o, z, l)
      PROVE  truth'[c] = IF l = captLine THEN Capt!Value(captLine, settings) ELSE truth[c]
  <2>1. c \in Capt!Cells
    BY <1>1, <1>5, CellsOfLines
  <2>2. l # captLine /\ captLine < Capt!Height(z) => c \notin Capt!Cell(o, z, captLine)
    BY <1>1, <1>5, CellsOfLines
  <2>. QED
    BY <1>5, <2>1, <2>2 DEF Capt!DrawLine
<1>6. CaptTypes'
  BY <1>1, <1>2, <1>3 DEF CaptTypes
<1>7. ASSUME ~split, ~wrapped PROVE LinesDrawn'
  <2>1. ASSUME NEW l \in 0 .. 2, l < captLine + 1, l < Capt!Height(z), NEW c \in Capt!Cell(o, z, l)
        PROVE  IF l < ongoing.from THEN Texture(z)[c] = truth'[c] ELSE truth'[c] = Capt!Value(l, settings)
    <3>1. CASE l = captLine
      BY <1>1, <1>5, <2>1, <3>1
    <3>2. CASE l < captLine
      BY <1>1, <1>5, <1>7, <2>1, <3>2 DEF CaptInv, OngoingIsSound, LinesDrawn
    <3>. QED
      BY <1>1, <2>1, <3>1, <3>2
  <2>. QED
    BY <1>2, <2>1 DEF LinesDrawn, Texture, Capt!Value
<1>8. OngoingIsSound'
  <2>1. ongoing.from <= captLine + 1
    BY <1>1
  <2>. QED
    BY <1>1, <1>2, <1>7, <2>1 DEF OngoingIsSound, CaptInv
<1>9. RestIsSound'
  <2>1. ASSUME ~split, ~wrapped, NEW c \in Capt!Cells, Capt!Accessible(c[1])
        PROVE  SoundAt(flags, vram, truth, c)'
    <3>1. truth'[c] = truth[c]
      BY <1>1, <1>4, <2>1 DEF Capt!Accessible
    <3>2. SoundAt(flags, vram, truth, c)
      BY <2>1 DEF CaptInv, RestIsSound
    <3>. QED
      BY <1>2, <3>1, <3>2 DEF SoundAt, ShownAs
  <2>. QED
    BY <1>2, <2>1 DEF RestIsSound, Capt!Accessible
<1>10. FlagsAgree(flags') /\ ongoing'.on
  BY <1>1, <1>2 DEF CaptInv
<1>. QED
  BY <1>6, <1>8, <1>9, <1>10 DEF CaptInv

\* What a section that is drawn leaves of the other cells.
LEMMA OthersStay ==
  ASSUME CaptInv, ongoing.on, NEW from \in 0 .. 3, NEW to \in 0 .. 3, from <= to,
         Begun(ongoing.size, ongoing.offset, from), Capt!DoCapture(from, to),
         truth' = truth, vram' = vram, ~split, ~wrapped,
         NEW c \in Capt!Cells, c[1] \notin Capt!BlocksOf(ongoing.offset, ongoing.size),
         flags'[c[1]] = flags[c[1]]
  PROVE  SoundAt(flags, vram, truth, c)'
<1>1. narrow'[c] = narrow[c] /\ wide'[c] = wide[c]
  BY CaptureDraws DEF CaptInv
<1>2. SoundAt(flags, vram, truth, c)
  BY DEF CaptInv, RestIsSound, Capt!Accessible
<1>. QED
  BY <1>1, <1>2 DEF SoundAt, ShownAs

\* The settings change.
LEMMA SettingsChange ==
  ASSUME CaptInv, Capt!ChangeSettings
  PROVE  CaptInv'
<1>. DEFINE o == ongoing.offset
            z == ongoing.size
            from == ongoing.from
<1>1. /\ CaptTypes /\ o \in Capt!Blocks /\ z \in 0 .. 3 /\ from \in 0 .. 3
      /\ ongoing.on /\ captLine \in 1 .. 2 /\ from <= captLine /\ Capt!DoCapture(from, captLine)
  BY DEF CaptInv, OngoingIsSound, CaptTypes, Captures, Capt!ChangeSettings
<1>2. UNCHANGED <<truth, vram, flags, captLine, frames, wrapped>> /\ settings' = 1
  BY DEF Capt!ChangeSettings
<1>3. /\ ongoing' \in Captures /\ ongoing'.on
      /\ ongoing'.offset = o /\ ongoing'.size = z /\ ongoing'.from = captLine
  BY <1>1 DEF Capt!ChangeSettings, CaptTypes, Captures
<1>4. /\ split' \in BOOLEAN
      /\ ~split' => ~split /\ Begun(z, o, captLine)
  <2>1. split' = (split \/ (z > 0 /\ o + captLine > 4 /\ captLine < z))
    BY Zenon DEF Capt!ChangeSettings
  <2>2. ~split' => ~split /\ ~(z > 0 /\ o + captLine > 4 /\ captLine < z)
    BY <2>1, Zenon
  <2>3. ~(z > 0 /\ o + captLine > 4 /\ captLine < z) => Begun(z, o, captLine)
    BY <1>1 DEF Begun, Capt!Blocks
  <2>4. split' \in BOOLEAN
    BY <2>1, Zenon
  <2>. QED
    BY <2>2, <2>3, <2>4
<1>5. narrow' \in CaptMemory /\ wide' \in CaptMemory
  BY <1>1, DrawnTypes
<1>6. CaptTypes'
  BY <1>1, <1>2, <1>3, <1>4, <1>5 DEF CaptTypes
<1>7. ASSUME ~split', ~wrapped' PROVE LinesDrawn'
  <2>1. ~split /\ ~wrapped /\ Begun(z, o, from) /\ LinesDrawn
    BY <1>1, <1>2, <1>4, <1>7 DEF CaptInv, OngoingIsSound
  <2>2. ASSUME NEW l \in 0 .. 2, l < captLine, l < Capt!Height(z), NEW c \in Capt!Cell(o, z, l)
        PROVE  (IF z = 0 THEN narrow' ELSE wide')[c] = truth[c]
    <3>1. (IF z = 0 THEN narrow' ELSE wide')[c] = IF from <= l /\ l < captLine THEN Capt!Value(l, settings) ELSE Texture(z)[c]
      BY <1>1, <2>1, <2>2, CaptureDraws
    <3>2. IF l < from THEN Texture(z)[c] = truth[c] ELSE truth[c] = Capt!Value(l, settings)
      BY <2>1, <2>2 DEF LinesDrawn
    <3>. QED
      BY <1>1, <2>2, <3>1, <3>2
  <2>. QED
    BY <1>2, <1>3, <2>2 DEF LinesDrawn, Texture
<1>8. OngoingIsSound'
  <2>1. \A b \in Capt!BlocksOf(o, z) : flags'[b] = FlagsOfNew(o, z)
    BY <1>1, <1>2 DEF CaptInv, OngoingIsSound
  <2>2. ongoing'.from <= captLine'
    BY <1>1, <1>2, <1>3
  <2>. QED
    BY <1>3, <1>4, <1>7, <2>1, <2>2 DEF OngoingIsSound
<1>9. RestIsSound'
  <2>1. ASSUME ~split', ~wrapped', NEW c \in Capt!Cells, Capt!Accessible(c[1])'
        PROVE  SoundAt(flags, vram, truth, c)'
    <3>1. ~split /\ ~wrapped /\ Begun(z, o, from)
      BY <1>1, <1>2, <1>4, <2>1 DEF CaptInv, OngoingIsSound
    <3>2. c[1] \notin Capt!BlocksOf(o, z) /\ flags'[c[1]] = flags[c[1]]
      BY <1>2, <1>3, <2>1 DEF Capt!Accessible
    <3>. QED
      BY <1>1, <1>2, <3>1, <3>2, OthersStay
  <2>. QED
    BY <2>1 DEF RestIsSound
<1>10. FlagsAgree(flags')
  BY <1>2 DEF CaptInv
<1>. QED
  BY <1>3, <1>6, <1>8, <1>9, <1>10 DEF CaptInv

\* The capture ends.
LEMMA CaptureEnds ==
  ASSUME CaptInv, Capt!EndCapture
  PROVE  CaptInv'
<1>. DEFINE o == ongoing.offset
            z == ongoing.size
            from == ongoing.from
            own == Capt!BlocksOf(o, z)
            new == FlagsOfNew(o, z)
            done == [new EXCEPT !.complete = TRUE]
<1>1. /\ CaptTypes /\ o \in Capt!Blocks /\ z \in 0 .. 3 /\ from \in 0 .. 3
      /\ ongoing.on /\ captLine = 3 /\ Capt!DoCapture(from, 3)
      /\ flags \in [Capt!Blocks -> CaptFlags] /\ FlagsAgree(flags)
  BY DEF CaptInv, OngoingIsSound, CaptTypes, Captures, Capt!EndCapture
<1>2. UNCHANGED <<truth, vram, frames, split, wrapped>> /\ settings' = 0 /\ captLine' = 0 /\ ongoing' = Capt!Idle
  BY DEF Capt!EndCapture
<1>3. narrow' \in CaptMemory /\ wide' \in CaptMemory
  BY <1>1, DrawnTypes
<1>4. Capt!Idle \in Captures /\ ~Capt!Idle.on
  BY DEF Capt!Idle, Captures, Capt!Blocks
<1>5. own \in SUBSET Capt!Blocks /\ o \in own /\ \A b \in own : flags[b] = new
  BY <1>1, BlocksType DEF CaptInv, OngoingIsSound
<1>6. new \in CaptFlags /\ new.is /\ ~new.synced /\ new.start = o /\ new.size = z
  BY <1>1, NewFields
<1>. HIDE DEF new
<1>7. done \in CaptFlags /\ done.is /\ ~done.synced /\ done.start = o /\ done.size = z
  BY <1>6, FlagFields
<1>8. flags' \in [Capt!Blocks -> CaptFlags] /\ \A b \in Capt!Blocks : flags'[b] = IF b \in own THEN done ELSE flags[b]
  <2>1. flags' = [b \in Capt!Blocks |-> IF b \in own THEN [flags[b] EXCEPT !.complete = TRUE] ELSE flags[b]]
    BY Zenon DEF Capt!EndCapture
  <2>2. \A b \in own : [flags[b] EXCEPT !.complete = TRUE] = done
    BY <1>5
  <2>. HIDE DEF done, own
  <2>3. \A b \in Capt!Blocks : flags'[b] = IF b \in own THEN done ELSE flags[b]
    BY <2>1, <2>2
  <2>4. \A b \in Capt!Blocks : flags'[b] \in CaptFlags
    BY <1>1, <1>7, <2>3
  <2>. QED
    BY <2>1, <2>3, <2>4
<1>. HIDE DEF done
<1>9. CaptTypes'
  BY <1>1, <1>2, <1>3, <1>4, <1>8 DEF CaptTypes
<1>10. ASSUME NEW b \in Capt!Blocks, flags'[b].is
       PROVE  /\ b \in Capt!BlocksOf(flags'[b].start, flags'[b].size)
              /\ \A a \in Capt!BlocksOf(flags'[b].start, flags'[b].size) : flags'[a] = flags'[b]
  <2>1. CASE b \in own
    BY <1>5, <1>7, <1>8, <2>1
  <2>2. CASE b \notin own
    <3>. DEFINE f == flags[b]
    <3>1. flags'[b] = f /\ f.is /\ f.start \in Capt!Blocks /\ f.size \in 0 .. 3
      BY <1>1, <1>8, <1>10, <2>2 DEF CaptFlags
    <3>2. b \in Capt!BlocksOf(f.start, f.size) /\ \A a \in Capt!BlocksOf(f.start, f.size) : flags[a] = f
      BY <1>1, <3>1 DEF FlagsAgree
    <3>3. Capt!BlocksOf(f.start, f.size) \in SUBSET Capt!Blocks
      BY <3>1, BlocksType
    <3>4. \A a \in Capt!BlocksOf(f.start, f.size) : a \notin own
      BY <1>5, <1>6, <2>2, <3>1, <3>2
    <3>. QED
      BY <1>8, <3>1, <3>2, <3>3, <3>4
  <2>. QED
    BY <2>1, <2>2
<1>11. FlagsAgree(flags')
  BY <1>10 DEF FlagsAgree
<1>12. ASSUME ~split, ~wrapped, NEW c \in Capt!Cells
       PROVE  SoundAt(flags, vram, truth, c)'
  <2>1. Begun(z, o, from) /\ LinesDrawn /\ c[1] \in Capt!Blocks
    BY <1>1, <1>12 DEF CaptInv, OngoingIsSound, Capt!Cells
  <2>2. CASE c[1] \in own
    <3>1. PICK l \in 0 .. 2 : l < Capt!Height(z) /\ c \in Capt!Cell(o, z, l)
      BY <1>1, <2>2, CellsOfLines
    <3>2. (IF z = 0 THEN narrow' ELSE wide')[c] = IF from <= l /\ l < 3 THEN Capt!Value(l, settings) ELSE Texture(z)[c]
      <4>1. from <= 3 /\ 3 \in 0 .. 3
        BY <1>1
      <4>. QED
        BY <1>1, <2>1, <3>1, <4>1, CaptureDraws
    <3>3. IF l < from THEN Texture(z)[c] = truth[c] ELSE truth[c] = Capt!Value(l, settings)
      BY <1>1, <2>1, <3>1 DEF LinesDrawn
    <3>4. (IF z = 0 THEN narrow' ELSE wide')[c] = truth[c]
      BY <1>1, <3>1, <3>2, <3>3
    <3>5. flags'[c[1]] = done
      BY <1>8, <2>1, <2>2
    <3>. QED
      BY <1>2, <1>7, <3>4, <3>5 DEF SoundAt, ShownAs
  <2>3. CASE c[1] \notin own
    <3>1. flags'[c[1]] = flags[c[1]] /\ from <= 3 /\ 3 \in 0 .. 3
      BY <1>1, <1>8, <2>1, <2>3
    <3>. QED
      BY <1>1, <1>2, <1>12, <2>1, <2>3, <3>1, OthersStay
  <2>. QED
    BY <2>2, <2>3
<1>13. ~ongoing'.on
  BY <1>2, <1>4
<1>14. OngoingIsSound' /\ RestIsSound'
  BY <1>2, <1>12, <1>13 DEF OngoingIsSound, RestIsSound
<1>. QED
  BY <1>2, <1>9, <1>11, <1>14 DEF CaptInv

\* The CPU reads or writes.
LEMMA AccessIsSound ==
  ASSUME CaptInv, NEW b \in Capt!Blocks, NEW write \in BOOLEAN, Capt!Access(b, write)
  PROVE  CaptInv'
<1>. DEFINE f == flags[b]
            known == Capt!BlocksOf(f.start, f.size)
            value == IF write THEN Capt!NoCapture ELSE [f EXCEPT !.synced = TRUE]
            synced == IF f.is /\ ~f.synced THEN Capt!SyncVRAMCapture(vram, f.start, f.size) ELSE vram
            Written(m) == [c \in Capt!Cells |-> IF write /\ c[1] = b THEN Capt!Old ELSE m[c]]
            own == Capt!BlocksOf(ongoing.offset, ongoing.size)
<1>1. /\ CaptTypes /\ flags \in [Capt!Blocks -> CaptFlags] /\ FlagsAgree(flags)
      /\ f \in CaptFlags /\ f.start \in Capt!Blocks /\ f.size \in 0 .. 3
      /\ ongoing.offset \in Capt!Blocks /\ ongoing.size \in 0 .. 3
  BY DEF CaptInv, CaptTypes, Captures, CaptFlags
<1>2. vram' = Written(synced) /\ truth' = Written(truth)
  BY Zenon DEF Capt!Access
<1>3. flags' = IF ~f.is THEN flags ELSE Capt!Mark(flags, f.start, f.size, value)
  BY Zenon DEF Capt!Access
<1>4. /\ wrapped' \in BOOLEAN
      /\ ~wrapped' => ~wrapped /\ ~(f.is /\ ~f.synced /\ Capt!RunsOver(f.start, f.size))
  <2>1. wrapped' = (wrapped \/ (f.is /\ ~f.synced /\ Capt!RunsOver(f.start, f.size)))
    BY Zenon DEF Capt!Access
  <2>. QED
    BY <2>1, Zenon
<1>5. UNCHANGED <<wide, narrow, ongoing, captLine, settings, frames, split>>
  BY DEF Capt!Access
<1>6. synced \in CaptMemory
  BY <1>1, SyncIs DEF CaptTypes
<1>7. known \in SUBSET Capt!Blocks
  BY <1>1, BlocksType
<1>8. Capt!Old \in CaptValues
  BY DEF Capt!Old, CaptValues
<1>9. \A m \in CaptMemory : Written(m) \in CaptMemory
  BY <1>8 DEF CaptMemory
<1>. HIDE DEF synced
<1>10. vram' \in CaptMemory /\ truth' \in CaptMemory
  BY <1>1, <1>2, <1>6, <1>9 DEF CaptTypes
<1>11. \A c \in Capt!Cells : /\ vram'[c] = (IF write /\ c[1] = b THEN Capt!Old ELSE synced[c])
                         /\ truth'[c] = (IF write /\ c[1] = b THEN Capt!Old ELSE truth[c])
  BY <1>2
<1>12. value \in CaptFlags
  BY <1>1, FlagFields
<1>13. /\ value.is => ~write /\ f.is /\ value.synced /\ value.start = f.start /\ value.size = f.size
       /\ ~write => (value.is <=> f.is)
       /\ write => ~value.is
  <2>1. CASE write
    <3>1. value = Capt!NoCapture
      BY <2>1, Zenon
    <3>. QED
      BY <1>1, <2>1, <3>1, FlagFields
  <2>2. CASE ~write
    <3>1. value = [f EXCEPT !.synced = TRUE]
      BY <2>2, Zenon
    <3>. QED
      BY <1>1, <2>2, <3>1, FlagFields
  <2>. QED
    BY <2>1, <2>2
<1>. HIDE DEF value
<1>14. /\ flags' \in [Capt!Blocks -> CaptFlags]
       /\ f.is => \A a \in Capt!Blocks : flags'[a] = IF a \in known THEN value ELSE flags[a]
       /\ ~f.is => flags' = flags
  BY <1>1, <1>3, <1>12 DEF Capt!Mark
<1>15. CaptTypes'
  BY <1>1, <1>4, <1>5, <1>10, <1>14 DEF CaptTypes
<1>16. f.is => b \in known /\ \A a \in known : flags[a] = f
  BY <1>1 DEF FlagsAgree
<1>17. ASSUME NEW a \in Capt!Blocks, flags'[a].is
       PROVE  /\ a \in Capt!BlocksOf(flags'[a].start, flags'[a].size)
              /\ \A d \in Capt!BlocksOf(flags'[a].start, flags'[a].size) : flags'[d] = flags'[a]
  <2>1. CASE ~f.is
    BY <1>1, <1>14, <1>17, <2>1 DEF FlagsAgree
  <2>2. CASE f.is /\ a \in known
    <3>1. flags'[a] = value /\ value.is
      BY <1>14, <1>17, <2>2
    <3>2. Capt!BlocksOf(value.start, value.size) = known
      BY <1>13, <3>1
    <3>. QED
      BY <1>7, <1>14, <2>2, <3>1, <3>2
  <2>3. CASE f.is /\ a \notin known
    <3>1. flags'[a] = flags[a] /\ flags[a].is /\ flags[a].start \in Capt!Blocks /\ flags[a].size \in 0 .. 3
      BY <1>1, <1>14, <1>17, <2>3 DEF CaptFlags
    <3>2. Capt!BlocksOf(flags[a].start, flags[a].size) \cap known = {}
      BY <1>1, <2>3, <3>1, Apart
    <3>3. Capt!BlocksOf(flags[a].start, flags[a].size) \in SUBSET Capt!Blocks
      BY <3>1, BlocksType
    <3>. QED
      BY <1>1, <1>14, <2>3, <3>1, <3>2, <3>3 DEF FlagsAgree
  <2>. QED
    BY <2>1, <2>2, <2>3
<1>18. FlagsAgree(flags')
  BY <1>17 DEF FlagsAgree
<1>19. ASSUME ongoing.on
       PROVE  b \notin own /\ \A a \in own : flags'[a] = flags[a]
  <2>1. b \notin own
    BY <1>19 DEF Capt!Access, Capt!Accessible
  <2>2. /\ own \in SUBSET Capt!Blocks /\ ongoing.offset \in own
        /\ \A a \in own : flags[a] = FlagsOfNew(ongoing.offset, ongoing.size)
    BY <1>1, <1>19, BlocksType DEF CaptInv, OngoingIsSound
  <2>3. CASE ~f.is
    BY <1>14, <2>1, <2>3
  <2>4. CASE f.is
    <3>. DEFINE g == flags[ongoing.offset]
    <3>1. g.is /\ g.start = ongoing.offset /\ g.size = ongoing.size
      BY <1>1, <2>2, NewFields
    <3>2. known \cap own = {}
      <4>1. b \notin Capt!BlocksOf(g.start, g.size)
        BY <2>1, <3>1
      <4>2. known \cap Capt!BlocksOf(g.start, g.size) = {}
        BY <1>1, <2>4, <3>1, <4>1, Apart
      <4>. QED
        BY <3>1, <4>2
    <3>. QED
      BY <1>14, <2>1, <2>2, <2>4, <3>2
  <2>. QED
    BY <2>3, <2>4
<1>20. ASSUME ongoing.on, ~split, ~wrapped' PROVE LinesDrawn'
  <2>1. LinesDrawn
    BY <1>4, <1>20 DEF CaptInv, OngoingIsSound
  <2>2. ASSUME NEW l \in 0 .. 2, l < Capt!Height(ongoing.size), NEW c \in Capt!Cell(ongoing.offset, ongoing.size, l)
        PROVE  truth'[c] = truth[c]
    <3>1. c \in Capt!Cells /\ c[1] \in own
      BY <1>1, <2>2, CellsOfLines
    <3>. QED
      BY <1>11, <1>19, <1>20, <3>1
  <2>. QED
    BY <1>5, <2>1, <2>2 DEF LinesDrawn, Texture, Capt!Value
<1>21. OngoingIsSound'
  <2>1. ASSUME ongoing.on
        PROVE  /\ ongoing.from <= captLine
               /\ \A a \in own : flags'[a] = FlagsOfNew(ongoing.offset, ongoing.size)
               /\ ~split => Begun(ongoing.size, ongoing.offset, ongoing.from)
    BY <1>19, <2>1 DEF CaptInv, OngoingIsSound
  <2>. QED
    BY <1>5, <1>20, <2>1 DEF OngoingIsSound
<1>22. ASSUME ~split, ~wrapped', NEW c \in Capt!Cells, Capt!Accessible(c[1])
       PROVE  SoundAt(flags, vram, truth, c)'
  <2>1. c[1] \in Capt!Blocks /\ SoundAt(flags, vram, truth, c)
    BY <1>4, <1>22 DEF Capt!Cells, CaptInv, RestIsSound
  <2>2. CASE ~f.is
    <3>1. synced = vram /\ flags' = flags
      BY <1>14, <2>2 DEF synced
    <3>. QED
      BY <1>5, <1>11, <2>1, <2>2, <3>1 DEF SoundAt, ShownAs
  <2>3. CASE f.is /\ c[1] \in known
    <3>1. flags[c[1]] = f /\ flags'[c[1]] = value
      BY <1>14, <1>16, <2>1, <2>3
    <3>2. Texture(f.size)[c] = truth[c]
      BY <2>1, <2>3, <3>1 DEF SoundAt, ShownAs, Texture
    <3>3. synced[c] = truth[c]
      <4>1. CASE f.synced
        BY <2>1, <2>3, <3>1, <4>1 DEF SoundAt, synced
      <4>2. CASE ~f.synced
        <5>1. ~Capt!RunsOver(f.start, f.size) /\ synced = Capt!SyncVRAMCapture(vram, f.start, f.size)
          BY <1>4, <1>22, <2>3, <4>2 DEF synced
        <5>2. synced[c] = Texture(f.size)[c]
          BY <1>1, <2>3, <5>1, SyncIs DEF CaptTypes
        <5>. QED
          BY <3>2, <5>2
      <4>. QED
        BY <4>1, <4>2
    <3>4. vram'[c] = truth'[c]
      BY <1>11, <3>3
    <3>5. CASE write
      BY <1>13, <3>1, <3>4, <3>5 DEF SoundAt, ShownAs
    <3>6. CASE ~write
      <4>1. truth'[c] = truth[c] /\ value.is /\ value.size = f.size
        BY <1>11, <1>13, <2>3, <3>6
      <4>. QED
        BY <1>5, <3>1, <3>2, <3>4, <4>1 DEF SoundAt, ShownAs, Texture
    <3>. QED
      BY <3>5, <3>6
  <2>4. CASE f.is /\ c[1] \notin known
    <3>1. flags'[c[1]] = flags[c[1]] /\ c[1] # b
      BY <1>14, <1>16, <2>1, <2>4
    <3>2. synced[c] = vram[c]
      <4>1. CASE f.synced
        BY <4>1 DEF synced
      <4>2. CASE ~f.synced
        <5>1. ~Capt!RunsOver(f.start, f.size) /\ synced = Capt!SyncVRAMCapture(vram, f.start, f.size)
          BY <1>4, <1>22, <2>4, <4>2 DEF synced
        <5>2. vram \in CaptMemory
          BY <1>1 DEF CaptTypes
        <5>3. synced[c] = IF c[1] \in known THEN Texture(f.size)[c] ELSE vram[c]
          BY <1>1, <5>1, <5>2, SyncIs
        <5>. QED
          BY <2>4, <5>3
      <4>. QED
        BY <4>1, <4>2
    <3>3. vram'[c] = vram[c] /\ truth'[c] = truth[c]
      BY <1>11, <3>1, <3>2
    <3>. QED
      BY <1>5, <2>1, <3>1, <3>3 DEF SoundAt, ShownAs
  <2>. QED
    BY <2>2, <2>3, <2>4
<1>23. RestIsSound'
  BY <1>5, <1>22 DEF RestIsSound, Capt!Accessible
<1>24. ~ongoing'.on => captLine' = 0
  BY <1>5 DEF CaptInv
<1>. QED
  BY <1>15, <1>18, <1>21, <1>23, <1>24 DEF CaptInv

\* The invariant is what the properties want.
LEMMA CaptureFollows ==
  ASSUME CaptInv
  PROVE  Capt!CaptureIsShown /\ Capt!CaptureIsRead
<1>1. ASSUME ~split, ~wrapped, NEW c \in Capt!Cells, Capt!Accessible(c[1])
      PROVE  Capt!Shown(c) = truth[c]
  BY <1>1 DEF CaptInv, RestIsSound, SoundAt, ShownAs, Capt!Shown
<1>2. ASSUME ~split, ~wrapped, NEW c \in Capt!Cells, Capt!Accessible(c[1]),
             ~Capt!RunsOver(flags[c[1]].start, flags[c[1]].size)
      PROVE  Capt!Read(c) = truth[c]
  <2>. DEFINE f == flags[c[1]]
  <2>1. SoundAt(flags, vram, truth, c)
    BY <1>2 DEF CaptInv, RestIsSound
  <2>2. c[1] \in Capt!Blocks /\ CaptTypes /\ f \in CaptFlags /\ f.start \in Capt!Blocks /\ f.size \in 0 .. 3
    BY DEF Capt!Cells, CaptInv, CaptTypes, CaptFlags
  <2>3. CASE f.is /\ ~f.synced
    <3>1. c[1] \in Capt!BlocksOf(f.start, f.size)
      BY <2>2, <2>3 DEF CaptInv, FlagsAgree
    <3>2. Capt!SyncVRAMCapture(vram, f.start, f.size)[c] = Texture(f.size)[c]
      BY <1>2, <2>2, <3>1, SyncIs DEF CaptTypes
    <3>. QED
      BY <2>1, <2>3, <3>2 DEF Capt!Read, SoundAt, ShownAs, Texture
  <2>4. CASE ~(f.is /\ ~f.synced)
    BY <2>1, <2>4 DEF Capt!Read, SoundAt, ShownAs
  <2>. QED
    BY <2>3, <2>4
<1>. QED
  BY <1>1, <1>2 DEF Capt!CaptureIsShown, Capt!CaptureIsRead

LEMMA CaptStep ==
  ASSUME CaptInv, [Capt!Next]_CaptVars
  PROVE  CaptInv'
<1>1. CASE UNCHANGED CaptVars
  <2>1. CaptTypes' /\ FlagsAgree(flags') /\ OngoingIsSound' /\ (~ongoing'.on => captLine' = 0)
    BY <1>1 DEF CaptVars, CaptInv, CaptTypes, OngoingIsSound, LinesDrawn, Texture, Capt!Value
  <2>2. RestIsSound'
    BY <1>1 DEF CaptVars, CaptInv, RestIsSound, SoundAt, ShownAs, Capt!Accessible
  <2>. QED
    BY <2>1, <2>2 DEF CaptInv
<1>2. CASE Capt!Next
  <2>1. CASE \E offset \in Capt!Blocks, size \in 0 .. 3 : Capt!StartCapture(offset, size)
    BY <2>1, CaptureStarts
  <2>2. CASE Capt!DrawLine
    BY <2>2, LineIsDrawn
  <2>3. CASE Capt!ChangeSettings
    BY <2>3, SettingsChange
  <2>4. CASE Capt!EndCapture
    BY <2>4, CaptureEnds
  <2>5. CASE \E b \in Capt!Blocks, write \in BOOLEAN : Capt!Access(b, write)
    BY <2>5, AccessIsSound
  <2>. QED
    BY <1>2, <2>1, <2>2, <2>3, <2>4, <2>5 DEF Capt!Next
<1>. QED
  BY <1>1, <1>2

CaptOfAll == component = "Capt" => CaptInv

\* Whatever captures are begun, split, overwritten, and read or written by the CPU in
\* between, a layer is shown and the CPU reads what the console's VRAM has.
THEOREM CaptureStaysSound == SpecAll => []CaptureIsSound
<1>1. InitAll => CaptOfAll
  BY BeginningOfOne, CaptInit DEF CaptOfAll
<1>2. CaptOfAll /\ [NextAll]_all => CaptOfAll'
  BY StepOfOne, CaptStep DEF CaptOfAll
<1>3. CaptOfAll => CaptureIsSound
  BY CaptureFollows DEF CaptOfAll, CaptureIsSound
<1>. QED
  BY <1>1, <1>2, <1>3, PTL DEF SpecAll

-----------------------------------------------------------------------------
(* Edges of polygons.  Down either chain every vertex comes, the bottom one too, so a walk  *)
(* ends; it ends at the first edge that reaches below the line, and what it passed          *)
(* before does not, so the edge begins above.                                                 *)

LEMMA ProductIs ==
  ASSUME NEW a \in Nat, NEW b \in Nat
  PROVE  a * b \in Nat
OBVIOUS

LEMMA MoreTimes ==
  ASSUME NEW a \in Nat, NEW b \in Nat, a <= b, NEW s \in Nat
  PROVE  a * s <= b * s
<1>1. PICK d \in Nat : b = a + d
  <2>1. b - a \in Nat /\ b = a + (b - a)
    OBVIOUS
  <2>. QED
    BY <2>1
<1>2. (a + d) * s = a * s + d * s
  OBVIOUS
<1>3. a * s \in Nat /\ d * s \in Nat
  BY ProductIs
<1>. QED
  BY <1>1, <1>2, <1>3

LEMMA ScreenIs ==
  /\ Columns \in Nat /\ Rows \in Nat /\ ScaleFactor \in Nat \ {0} /\ MaxCorners \in Nat
  /\ Edge!ScreenHeight \in Nat /\ 256 * ScaleFactor \in Nat /\ Columns * ScaleFactor \in Nat
<1>1. Columns \in Nat /\ Rows \in Nat /\ ScaleFactor \in Nat \ {0} /\ MaxCorners \in Nat
  BY DrawingAssumption DEF Edge!ScreenAssumption
<1>. QED
  BY <1>1, ProductIs DEF Edge!ScreenHeight

Corners == polygon.corners

VertexIs(p) == /\ p.x \in Nat /\ p.y \in 0 .. 256 * ScaleFactor
               /\ p.column \in 0 .. 511 /\ p.row \in 0 .. 255

LEMMA PolygonIs ==
  ASSUME polygon \in Edge!Polygons
  PROVE  /\ Corners \in Nat /\ Corners >= 3 /\ Edge!Verts(polygon) = 1 .. Corners
         /\ \A v \in 1 .. Corners : VertexIs(Edge!At(polygon, v))
<1>1. PICK n \in 3 .. MaxCorners : polygon \in [vertices : [1 .. n -> Vertices], corners : {n}, facing : BOOLEAN]
  BY DEF Edge!Polygons
<1>2. polygon.corners = n /\ polygon.vertices \in [1 .. n -> Vertices] /\ n \in Nat /\ n >= 3
  BY <1>1, ScreenIs
<1>3. ASSUME NEW v \in 1 .. n PROVE VertexIs(Edge!At(polygon, v))
  <2>1. polygon.vertices[v] \in Vertices
    BY <1>2
  <2>2. Vertices \subseteq [x : 0 .. 512 * ScaleFactor, y : 0 .. 256 * ScaleFactor, column : 0 .. 511, row : 0 .. 255]
    BY DrawingAssumption DEF Edge!ScreenAssumption
  <2>3. polygon.vertices[v] \in [x : 0 .. 512 * ScaleFactor, y : 0 .. 256 * ScaleFactor, column : 0 .. 511, row : 0 .. 255]
    BY <2>1, <2>2
  <2>4. Edge!At(polygon, v) = polygon.vertices[v]
    BY Zenon DEF Edge!At
  <2>. DEFINE p == polygon.vertices[v]
  <2>. HIDE DEF p
  <2>5. p \in [x : 0 .. 512 * ScaleFactor, y : 0 .. 256 * ScaleFactor, column : 0 .. 511, row : 0 .. 255]
    BY <2>3 DEF p
  <2>6. p.x \in 0 .. 512 * ScaleFactor /\ p.y \in 0 .. 256 * ScaleFactor /\ p.column \in 0 .. 511 /\ p.row \in 0 .. 255
    BY <2>5, SMT
  <2>7. \A n1 \in 0 .. 512 * ScaleFactor : n1 \in Nat
    OBVIOUS
  <2>8. VertexIs(p)
    BY <2>6, <2>7, Zenon DEF VertexIs
  <2>. QED
    BY <2>4, <2>8, Zenon DEF p
<1>. QED
  BY <1>2, <1>3 DEF Corners, Edge!Verts

\* What the numbers of a vertex are.
LEMMA NumbersAre ==
  ASSUME NEW p, VertexIs(p)
  PROVE  /\ p.x \in Nat /\ p.y \in Nat /\ p.y <= 256 * ScaleFactor
         /\ p.row \in Nat /\ p.row <= 255 /\ p.column \in Nat /\ p.column <= 511
<1>1. p.x \in Nat /\ p.y \in 0 .. 256 * ScaleFactor /\ p.row \in 0 .. 255 /\ p.column \in 0 .. 511
  BY Zenon DEF VertexIs
<1>2. 256 * ScaleFactor \in Nat
  BY ScreenIs, Zenon
<1>. QED
  BY <1>1, <1>2, SMT

-----------------------------------------------------------------------------
(* Top and bottom                                                           *)

\* Numbers up to a bound have a greatest one.
LEMMA GreatestOfSet ==
  ASSUME NEW bound \in Nat, NEW T \in SUBSET (0 .. bound), T # {}
  PROVE  \E m \in T : \A k \in T : k <= m
<1>. DEFINE U == {bound - k : k \in T}
<1>1. U \in SUBSET Nat /\ U # {}
  <2>1. \A k \in T : bound - k \in Nat
    OBVIOUS
  <2>2. PICK k \in T : TRUE
    OBVIOUS
  <2>3. bound - k \in U
    BY <2>2
  <2>. QED
    BY <2>1, <2>3, Zenon
<1>. HIDE DEF U
<1>2. PICK u \in U : \A k \in U : u <= k
  BY <1>1, LeastOfSet
<1>3. PICK m \in T : u = bound - m
  BY DEF U
<1>4. ASSUME NEW k \in T PROVE k <= m
  <2>1. bound - k \in U
    BY DEF U
  <2>2. u <= bound - k
    BY <1>2, <2>1
  <2>3. k \in 0 .. bound /\ m \in 0 .. bound
    OBVIOUS
  <2>. QED
    BY <1>3, <2>2, <2>3
<1>. QED
  BY <1>4

LEMMA YTopIs ==
  ASSUME polygon \in Edge!Polygons
  PROVE  /\ Edge!YTop(polygon) \in Nat /\ Edge!YTop(polygon) <= Edge!ScreenHeight
         /\ \A v \in 1 .. Corners : Edge!YTop(polygon) <= Edge!At(polygon, v).y
         /\ Edge!YTop(polygon) = Edge!ScreenHeight \/ \E v \in 1 .. Corners : Edge!At(polygon, v).y = Edge!YTop(polygon)
<1>1. Corners \in Nat /\ Corners >= 3 /\ Edge!Verts(polygon) = 1 .. Corners /\ \A v \in 1 .. Corners : VertexIs(Edge!At(polygon, v))
  BY PolygonIs
<1>. DEFINE T == {Edge!ScreenHeight} \cup {Edge!At(polygon, v).y : v \in 1 .. Corners}
<1>2. T \in SUBSET Nat /\ T # {}
  BY <1>1, ScreenIs DEF VertexIs
<1>3. PICK m \in T : \A k \in T : m <= k
  BY <1>2, LeastOfSet
<1>4. m <= Edge!ScreenHeight /\ \A v \in 1 .. Corners : m <= Edge!At(polygon, v).y
  BY <1>3
<1>5. m = Edge!ScreenHeight \/ \E v \in 1 .. Corners : Edge!At(polygon, v).y = m
  BY <1>3
<1>6. m \in 0 .. 256 * ScaleFactor
  <2>1. m <= Edge!At(polygon, 1).y /\ VertexIs(Edge!At(polygon, 1))
    BY <1>1, <1>4
  <2>2. m \in Nat
    BY <1>2
  <2>. QED
    BY <2>1, <2>2, ScreenIs DEF VertexIs
<1>. HIDE DEF T
<1>. DEFINE P(r) == /\ r = Edge!ScreenHeight \/ \E v \in Edge!Verts(polygon) : Edge!At(polygon, v).y = r
                    /\ r <= Edge!ScreenHeight /\ \A v \in Edge!Verts(polygon) : r <= Edge!At(polygon, v).y
<1>7. Edge!YTop(polygon) = CHOOSE r \in 0 .. 256 * ScaleFactor : P(r)
  BY Zenon DEF Edge!YTop
<1>8. P(m)
  BY <1>1, <1>4, <1>5
<1>9. Edge!YTop(polygon) \in 0 .. 256 * ScaleFactor /\ P(Edge!YTop(polygon))
  <2>. HIDE DEF P
  <2>. QED
    BY <1>6, <1>7, <1>8
<1>. QED
  BY <1>1, <1>9

LEMMA YBotIs ==
  ASSUME polygon \in Edge!Polygons
  PROVE  /\ Edge!YBot(polygon) \in Nat /\ Edge!YTop(polygon) <= Edge!YBot(polygon)
         /\ \A v \in 1 .. Corners : Edge!At(polygon, v).y <= Edge!YBot(polygon)
         /\ \E v \in 1 .. Corners : Edge!At(polygon, v).y = Edge!YBot(polygon)
<1>1. Corners \in Nat /\ Corners >= 3 /\ Edge!Verts(polygon) = 1 .. Corners /\ \A v \in 1 .. Corners : VertexIs(Edge!At(polygon, v))
  BY PolygonIs
<1>. DEFINE T == {Edge!At(polygon, v).y : v \in 1 .. Corners}
            H == 256 * ScaleFactor
<1>2. H \in Nat /\ T \in SUBSET (0 .. H) /\ T # {}
  <2>1. Edge!At(polygon, 1).y \in T
    BY <1>1
  <2>. QED
    BY <1>1, <2>1, ScreenIs DEF VertexIs
<1>. HIDE DEF H
<1>3. PICK m \in T : \A k \in T : k <= m
  <2>. HIDE DEF T
  <2>. QED
    BY <1>2, GreatestOfSet
<1>4. m \in 0 .. H /\ (\A v \in 1 .. Corners : Edge!At(polygon, v).y <= m) /\ \E v \in 1 .. Corners : Edge!At(polygon, v).y = m
  BY <1>2, <1>3
<1>. HIDE DEF T
<1>. DEFINE P(r) == /\ \E v \in Edge!Verts(polygon) : Edge!At(polygon, v).y = r
                    /\ \A v \in Edge!Verts(polygon) : Edge!At(polygon, v).y <= r
<1>5. Edge!YBot(polygon) = CHOOSE r \in 0 .. H : P(r)
  BY Zenon DEF Edge!YBot, H
<1>6. P(m)
  BY <1>1, <1>4
<1>7. Edge!YBot(polygon) \in 0 .. H /\ P(Edge!YBot(polygon))
  <2>. HIDE DEF P
  <2>. QED
    BY <1>4, <1>5, <1>6
<1>8. Edge!YTop(polygon) <= Edge!YBot(polygon)
  BY <1>1, <1>2, <1>7, YTopIs DEF VertexIs
<1>. QED
  BY <1>1, <1>2, <1>7, <1>8

\* Of the vertices of which something holds, one is the first.
LEMMA FirstVertex ==
  ASSUME polygon \in Edge!Polygons, NEW V \in SUBSET (1 .. Corners), V # {}
  PROVE  \E v \in V : \A w \in V : v <= w
<1>1. V \in SUBSET Nat
  BY PolygonIs
<1>. QED
  BY <1>1, LeastOfSet

LEMMA VTopIs ==
  ASSUME polygon \in Edge!Polygons
  PROVE  /\ Edge!VTop(polygon) \in 1 .. Corners
         /\ Edge!At(polygon, Edge!VTop(polygon)).row < Rows =>
              \A v \in 1 .. Corners : Edge!At(polygon, Edge!VTop(polygon)).row <= Edge!At(polygon, v).row
<1>1. Corners \in Nat /\ Corners >= 3 /\ Edge!Verts(polygon) = 1 .. Corners /\ \A v \in 1 .. Corners : VertexIs(Edge!At(polygon, v))
  BY PolygonIs
<1>2. CASE \E v \in Edge!Verts(polygon) : Edge!IsTop(polygon, v)
  <2>1. Edge!VTop(polygon) = CHOOSE v \in Edge!Verts(polygon) : Edge!IsTop(polygon, v)
    BY <1>2, Zenon DEF Edge!VTop
  <2>2. Edge!VTop(polygon) \in Edge!Verts(polygon) /\ Edge!IsTop(polygon, Edge!VTop(polygon))
    BY <1>2, <2>1, Zenon
  <2>. QED
    BY <1>1, <2>2 DEF Edge!IsTop
<1>3. CASE ~\E v \in Edge!Verts(polygon) : Edge!IsTop(polygon, v)
  <2>1. Edge!VTop(polygon) = 1
    BY <1>3, Zenon DEF Edge!VTop
  <2>2. ASSUME Edge!At(polygon, 1).row < Rows PROVE FALSE
    <3>. DEFINE T == {Edge!At(polygon, v).row : v \in 1 .. Corners}
    <3>0. /\ \A v \in 1 .. Corners : Edge!At(polygon, v).row \in Nat
          /\ 1 \in 1 .. Corners
      <4>1. \A v \in 1 .. Corners : Edge!At(polygon, v).row \in Nat
        BY <1>1, NumbersAre, Zenon
      <4>2. 1 \in 1 .. Corners
        BY <1>1, SMT
      <4>. QED
        BY <4>1, <4>2
    <3>1. T \in SUBSET Nat /\ T # {}
      BY <3>0, Zenon
    <3>2. PICK m \in T : \A k \in T : m <= k
      BY <3>1, LeastOfSet
    <3>3. PICK u \in 1 .. Corners : Edge!At(polygon, u).row = m
      BY <3>2
    <3>4. \A w \in 1 .. Corners : m <= Edge!At(polygon, w).row
      BY <3>2
    <3>. DEFINE V == {v \in 1 .. Corners : Edge!At(polygon, v).row = m}
    <3>5. PICK v \in V : \A w \in V : v <= w
      BY <3>3, FirstVertex
    <3>6. m < Rows /\ m \in Nat
      <4>1. m <= Edge!At(polygon, 1).row /\ Edge!At(polygon, 1).row \in Nat /\ m \in Nat
        BY <3>0, <3>3, <3>4
      <4>. QED
        BY <2>2, <4>1, ScreenIs
    <3>7. v \in 1 .. Corners /\ Edge!At(polygon, v).row = m /\ \A w \in 1 .. Corners : Edge!At(polygon, w).row = m => v <= w
      BY <3>5
    <3>. HIDE DEF T, V
    <3>8. Edge!IsTop(polygon, v)
      BY <1>1, <3>4, <3>6, <3>7, Zenon DEF Edge!IsTop
    <3>. QED
      BY <1>1, <1>3, <3>7, <3>8, Zenon
  <2>. QED
    BY <1>1, <2>1, <2>2
<1>. QED
  BY <1>2, <1>3

LEMMA RowsComeFirst ==
  /\ \A r, c \in Int : 0 <= r /\ r <= 255 /\ 0 <= c /\ c <= 511 => 0 <= 512 * r + c /\ 512 * r + c <= 131071
  /\ \A r1, r2, c1, c2 \in Int : 0 <= c1 /\ c2 <= 511 /\ 512 * r1 + c1 <= 512 * r2 + c2 => r1 <= r2
BY SMT

LEMMA VBottomIs ==
  ASSUME polygon \in Edge!Polygons
  PROVE  /\ Edge!VBottom(polygon) \in 1 .. Corners
         /\ \A v \in 1 .. Corners : Edge!At(polygon, v).row <= Edge!At(polygon, Edge!VBottom(polygon)).row
<1>1. Corners \in Nat /\ Corners >= 3 /\ Edge!Verts(polygon) = 1 .. Corners /\ \A v \in 1 .. Corners : VertexIs(Edge!At(polygon, v))
  BY PolygonIs
<1>. DEFINE R(v) == Edge!Reach(Edge!At(polygon, v))
            bound == 131071
            T == {R(v) : v \in 1 .. Corners}
<1>2. \A v \in 1 .. Corners : R(v) = 512 * Edge!At(polygon, v).row + Edge!At(polygon, v).column
  BY DEF Edge!Reach
<1>3. \A v \in 1 .. Corners : R(v) \in Int /\ 0 <= R(v) /\ R(v) <= bound
  <2>1. ASSUME NEW v \in 1 .. Corners PROVE R(v) \in Int /\ 0 <= R(v) /\ R(v) <= bound
    <3>. DEFINE row == Edge!At(polygon, v).row
                column == Edge!At(polygon, v).column
    <3>1. row \in Int /\ 0 <= row /\ row <= 255 /\ column \in Int /\ 0 <= column /\ column <= 511
      <4>1. VertexIs(Edge!At(polygon, v))
        BY <1>1, Zenon
      <4>2. row \in Nat /\ row <= 255 /\ column \in Nat /\ column <= 511
        BY <4>1, NumbersAre
      <4>. HIDE DEF row, column
      <4>. QED
        BY <4>2, SMT
    <3>2. R(v) = 512 * row + column
      BY <1>2 DEF row, column
    <3>. HIDE DEF row, column, R
    <3>3. 0 <= 512 * row + column /\ 512 * row + column <= 131071 /\ 512 * row + column \in Int
      BY <3>1, RowsComeFirst, SMT
    <3>. QED
      BY <3>2, <3>3, SMT
  <2>. HIDE DEF R, bound
  <2>. QED
    BY <2>1, Zenon
<1>. HIDE DEF R
<1>4. T \in SUBSET (0 .. bound) /\ T # {}
  <2>1. 1 \in 1 .. Corners
    BY <1>1
  <2>2. \A v \in 1 .. Corners : R(v) \in 0 .. bound
    <3>1. bound \in Int
      BY SMT
    <3>. HIDE DEF bound
    <3>. QED
      BY <1>3, <3>1, SMT
  <2>. HIDE DEF bound
  <2>. QED
    BY <2>1, <2>2, Zenon
<1>5. PICK m \in T : \A k \in T : k <= m
  <2>1. bound \in Nat
    BY SMT
  <2>. HIDE DEF T, bound
  <2>. QED
    BY <1>4, <2>1, GreatestOfSet
<1>6. PICK u \in 1 .. Corners : R(u) = m
  BY <1>5
<1>7. \A w \in 1 .. Corners : R(w) <= m
  BY <1>5
<1>. DEFINE V == {v \in 1 .. Corners : R(v) = m}
<1>8. PICK v \in V : \A w \in V : v <= w
  BY <1>6, FirstVertex
<1>9. v \in 1 .. Corners /\ R(v) = m /\ \A w \in 1 .. Corners : R(w) = m => v <= w
  BY <1>8
<1>. HIDE DEF T, V
<1>. DEFINE P(i) == \A w \in Edge!Verts(polygon) : R(w) <= R(i) /\ (R(w) = R(i) => i <= w)
<1>10. Edge!VBottom(polygon) = CHOOSE i \in Edge!Verts(polygon) : P(i)
  BY Zenon DEF Edge!VBottom, R
<1>11. P(v)
  BY <1>1, <1>7, <1>9
<1>12. Edge!VBottom(polygon) \in 1 .. Corners /\ P(Edge!VBottom(polygon))
  <2>. HIDE DEF P
  <2>. QED
    BY <1>1, <1>9, <1>10, <1>11, Zenon
<1>13. ASSUME NEW w \in 1 .. Corners PROVE Edge!At(polygon, w).row <= Edge!At(polygon, Edge!VBottom(polygon)).row
  <2>. DEFINE a == Edge!At(polygon, w)
              b == Edge!At(polygon, Edge!VBottom(polygon))
  <2>1. 512 * a.row + a.column <= 512 * b.row + b.column
    BY <1>1, <1>2, <1>12
  <2>2. /\ a.row \in Int /\ b.row \in Int /\ a.column \in Int /\ b.column \in Int
        /\ 0 <= a.column /\ b.column <= 511
    <3>1. VertexIs(a) /\ VertexIs(b)
      BY <1>1, <1>12, Zenon
    <3>. HIDE DEF a, b
    <3>2. a.row \in Int /\ a.column \in Int /\ 0 <= a.column
      BY <3>1, NumbersAre, SMT
    <3>3. b.row \in Int /\ b.column \in Int /\ b.column <= 511
      BY <3>1, NumbersAre, SMT
    <3>. QED
      BY <3>2, <3>3, SMT
  <2>. HIDE DEF a, b
  <2>3. a.row <= b.row
    BY <2>1, <2>2, RowsComeFirst, SMT
  <2>. QED
    BY <2>3 DEF a, b
<1>. QED
  BY <1>12, <1>13

-----------------------------------------------------------------------------
(* Chains                                                                   *)

\* Left and right.
Sides == {0, 1}

\* Down a chain one goes up or down in the vertices' numbers.
LEMMA DownIs ==
  ASSUME polygon \in Edge!Polygons, NEW side \in Sides
  PROVE  \/ \A v, k : Edge!Down(side, v, k) = IF v + k > Corners THEN v + k - Corners ELSE v + k
         \/ \A v, k : Edge!Down(side, v, k) = IF v - k < 1 THEN v - k + Corners ELSE v - k
<1>1. CASE polygon.facing = (side = 0)
  BY <1>1, Zenon DEF Edge!Down, Corners
<1>2. CASE ~(polygon.facing = (side = 0))
  BY <1>2, Zenon DEF Edge!Down, Corners
<1>. QED
  BY <1>1, <1>2

LEMMA DownTheChain ==
  ASSUME polygon \in Edge!Polygons, NEW side \in Sides, NEW v \in 1 .. Corners
  PROVE  /\ Edge!Down(side, v, 0) = v
         /\ \A k \in 0 .. Corners - 1 : Edge!Down(side, v, k) \in 1 .. Corners
         /\ Edge!NextDown(side, v) \in 1 .. Corners
         /\ \A k \in 1 .. Corners - 1 : Edge!Down(side, v, k) = Edge!NextDown(side, Edge!Down(side, v, k - 1))
         /\ \A w \in 1 .. Corners : \E k \in 0 .. Corners - 1 : Edge!Down(side, v, k) = w
<1>1. PICK n \in Nat : n = Corners /\ n >= 3 /\ v \in 1 .. n
  BY PolygonIs
<1>2. CASE \A u, k : Edge!Down(side, u, k) = IF u + k > n THEN u + k - n ELSE u + k
  <2>1. Edge!Down(side, v, 0) = v /\ \A k \in 0 .. n - 1 : Edge!Down(side, v, k) \in 1 .. n
    BY <1>1, <1>2
  <2>2. \A u : Edge!NextDown(side, u) = IF u + 1 > n THEN u + 1 - n ELSE u + 1
    BY <1>2 DEF Edge!NextDown
  <2>3. Edge!NextDown(side, v) \in 1 .. n
    BY <1>1, <2>2
  <2>4. ASSUME NEW k \in 1 .. n - 1
        PROVE  Edge!Down(side, v, k) = Edge!NextDown(side, Edge!Down(side, v, k - 1))
    <3>1. PICK u \in Int : u = Edge!Down(side, v, k - 1) /\ u = IF v + (k - 1) > n THEN v + (k - 1) - n ELSE v + (k - 1)
      BY <1>1, <1>2
    <3>. QED
      BY <1>1, <1>2, <2>2, <3>1
  <2>5. ASSUME NEW w \in 1 .. n PROVE \E k \in 0 .. n - 1 : Edge!Down(side, v, k) = w
    <3>. DEFINE k == IF w >= v THEN w - v ELSE w - v + n
    <3>1. k \in 0 .. n - 1 /\ w = IF v + k > n THEN v + k - n ELSE v + k
      BY <1>1
    <3>. HIDE DEF k
    <3>2. Edge!Down(side, v, k) = w
      BY <1>2, <3>1
    <3>. QED
      BY <3>1, <3>2
  <2>. QED
    BY <1>1, <2>1, <2>3, <2>4, <2>5
<1>3. CASE \A u, k : Edge!Down(side, u, k) = IF u - k < 1 THEN u - k + n ELSE u - k
  <2>1. Edge!Down(side, v, 0) = v /\ \A k \in 0 .. n - 1 : Edge!Down(side, v, k) \in 1 .. n
    BY <1>1, <1>3
  <2>2. \A u : Edge!NextDown(side, u) = IF u - 1 < 1 THEN u - 1 + n ELSE u - 1
    BY <1>3 DEF Edge!NextDown
  <2>3. Edge!NextDown(side, v) \in 1 .. n
    BY <1>1, <2>2
  <2>4. ASSUME NEW k \in 1 .. n - 1
        PROVE  Edge!Down(side, v, k) = Edge!NextDown(side, Edge!Down(side, v, k - 1))
    <3>1. PICK u \in Int : u = Edge!Down(side, v, k - 1) /\ u = IF v - (k - 1) < 1 THEN v - (k - 1) + n ELSE v - (k - 1)
      BY <1>1, <1>3
    <3>. QED
      BY <1>1, <1>3, <2>2, <3>1
  <2>5. ASSUME NEW w \in 1 .. n PROVE \E k \in 0 .. n - 1 : Edge!Down(side, v, k) = w
    <3>. DEFINE k == IF w <= v THEN v - w ELSE v - w + n
    <3>1. k \in 0 .. n - 1 /\ w = IF v - k < 1 THEN v - k + n ELSE v - k
      BY <1>1
    <3>. HIDE DEF k
    <3>2. Edge!Down(side, v, k) = w
      BY <1>3, <3>1
    <3>. QED
      BY <3>1, <3>2
  <2>. QED
    BY <1>1, <2>1, <2>3, <2>4, <2>5
<1>. QED
  BY <1>1, <1>2, <1>3, DownIs

\* Where a chain is: at an edge that began at or above this line, or at its first.
ChainAt(chain, side, at, c) ==
  /\ c \in 1 .. Corners /\ chain.cur = c
  /\ \E new \in BOOLEAN : chain = [cur |-> c, span |-> Edge!Span(c, Edge!NextDown(side, c), side), new |-> new]
  /\ c = Edge!VTop(polygon) \/ Edge!At(polygon, c).y <= at

ChainIs(chain, side, at) == \E c \in 1 .. Corners : ChainAt(chain, side, at, c)

\* The walk ends, at an edge that reaches below the line or at the bottom vertex.
LEMMA WalkIs ==
  ASSUME polygon \in Edge!Polygons, NEW side \in Sides, y \in Nat, NEW chain, ChainIs(chain, side, y)
  PROVE  /\ \E c \in 1 .. Corners : ChainAt(Edge!Walk(chain, side), side, y, c) /\ Edge!Stays(side, c)
         /\ ~Edge!Walk(chain, side).new => Edge!Walk(chain, side).span = chain.span
<1>1. PICK n \in Nat : n = Corners /\ n >= 3
  BY PolygonIs
<1>2. PICK c \in 1 .. n : ChainAt(chain, side, y, c)
  BY <1>1 DEF ChainIs
<1>3. PICK new \in BOOLEAN : chain = [cur |-> c, span |-> Edge!Span(c, Edge!NextDown(side, c), side), new |-> new]
  BY <1>2 DEF ChainAt
<1>4. chain.cur = c /\ (c = Edge!VTop(polygon) \/ Edge!At(polygon, c).y <= y)
  BY <1>2 DEF ChainAt
<1>5. \A v \in 1 .. n : Edge!At(polygon, v).y \in Nat
  BY <1>1, PolygonIs, NumbersAre
<1>. DEFINE down(k) == Edge!Down(side, chain.cur, k)
            T == {k \in 0 .. n - 1 : Edge!Stays(side, down(k))}
<1>6. /\ down(0) = c /\ (\A k \in 0 .. n - 1 : down(k) \in 1 .. n)
      /\ \A k \in 1 .. n - 1 : down(k) = Edge!NextDown(side, down(k - 1))
      /\ \A w \in 1 .. n : \E k \in 0 .. n - 1 : down(k) = w
  <2>1. \A k : down(k) = Edge!Down(side, c, k)
    BY <1>4, Zenon
  <2>2. /\ Edge!Down(side, c, 0) = c
        /\ \A k \in 0 .. n - 1 : Edge!Down(side, c, k) \in 1 .. n
        /\ \A k \in 1 .. n - 1 : Edge!Down(side, c, k) = Edge!NextDown(side, Edge!Down(side, c, k - 1))
        /\ \A w \in 1 .. n : \E k \in 0 .. n - 1 : Edge!Down(side, c, k) = w
    <3>1. c \in 1 .. Corners
      BY <1>1
    <3>2. /\ Edge!Down(side, c, 0) = c
          /\ \A k \in 0 .. Corners - 1 : Edge!Down(side, c, k) \in 1 .. Corners
          /\ \A k \in 1 .. Corners - 1 : Edge!Down(side, c, k) = Edge!NextDown(side, Edge!Down(side, c, k - 1))
          /\ \A w \in 1 .. Corners : \E k \in 0 .. Corners - 1 : Edge!Down(side, c, k) = w
      BY <3>1, DownTheChain, Zenon
    <3>. QED
      BY <1>1, <3>2
  <2>. HIDE DEF down
  <2>3. ASSUME NEW k \in 1 .. n - 1 PROVE down(k) = Edge!NextDown(side, down(k - 1))
    <3>1. down(k) = Edge!Down(side, c, k) /\ down(k - 1) = Edge!Down(side, c, k - 1)
      BY <2>1, Zenon
    <3>2. Edge!Down(side, c, k) = Edge!NextDown(side, Edge!Down(side, c, k - 1))
      BY <2>2, Zenon
    <3>. QED
      BY <3>1, <3>2, Zenon
  <2>4. ASSUME NEW w \in 1 .. n PROVE \E k \in 0 .. n - 1 : down(k) = w
    BY <2>1, <2>2, Zenon
  <2>. QED
    BY <2>1, <2>2, <2>3, <2>4, Zenon
<1>. HIDE DEF down
<1>7. T # {} /\ T \in SUBSET Nat
  <2>1. Edge!VBottom(polygon) \in 1 .. n
    BY <1>1, VBottomIs
  <2>2. PICK k \in 0 .. n - 1 : down(k) = Edge!VBottom(polygon)
    BY <1>6, <2>1
  <2>3. Edge!Stays(side, down(k))
    BY <2>2 DEF Edge!Stays
  <2>. QED
    BY <2>3
<1>8. PICK m \in T : \A k \in T : m <= k
  BY <1>7, LeastOfSet
<1>. DEFINE P(k) == Edge!Stays(side, down(k)) /\ \A j \in 0 .. k - 1 : ~Edge!Stays(side, down(j))
            steps == CHOOSE k \in 0 .. polygon.corners - 1 : P(k)
<1>9. m \in 0 .. n - 1 /\ P(m)
  BY <1>8
<1>10. steps \in 0 .. n - 1 /\ P(steps)
  <2>1. n = polygon.corners
    BY <1>1 DEF Corners
  <2>. HIDE DEF P
  <2>. QED
    BY <1>9, <2>1
<1>11. Edge!Walk(chain, side) =
         IF steps = 0 THEN [chain EXCEPT !.new = FALSE]
         ELSE [cur |-> down(steps), span |-> Edge!Span(down(steps), Edge!NextDown(side, down(steps)), side), new |-> TRUE]
  BY Zenon DEF Edge!Walk, down
<1>. HIDE DEF T, P, steps
<1>12. Edge!Stays(side, down(steps)) /\ down(steps) \in 1 .. n
  BY <1>6, <1>10 DEF P
<1>13. CASE steps = 0
  <2>1. Edge!Walk(chain, side) = [cur |-> c, span |-> Edge!Span(c, Edge!NextDown(side, c), side), new |-> FALSE]
    BY <1>3, <1>11, <1>13
  <2>2. Edge!Walk(chain, side).cur = c /\ Edge!Walk(chain, side).span = chain.span
    BY <1>3, <2>1
  <2>3. c = Edge!VTop(polygon) \/ Edge!At(polygon, c).y <= y
    BY <1>4
  <2>4. ChainAt(Edge!Walk(chain, side), side, y, c)
    BY <1>1, <2>1, <2>2, <2>3, Zenon DEF ChainAt
  <2>5. Edge!Stays(side, c)
    BY <1>6, <1>12, <1>13
  <2>. QED
    BY <1>1, <2>2, <2>4, <2>5
<1>14. CASE steps # 0
  <2>1. steps \in 1 .. n - 1 /\ steps - 1 \in 0 .. steps - 1 /\ steps - 1 \in 0 .. n - 1
    BY <1>10, <1>14
  <2>2. ~Edge!Stays(side, down(steps - 1))
    BY <1>10, <2>1 DEF P
  <2>3. down(steps) = Edge!NextDown(side, down(steps - 1))
    BY <1>6, <2>1
  <2>4. ~(y < Edge!At(polygon, down(steps)).y)
    BY <2>2, <2>3, Zenon DEF Edge!Stays
  <2>5. Edge!At(polygon, down(steps)).y <= y
    BY <1>5, <1>12, <2>4
  <2>6. Edge!Walk(chain, side) =
          [cur |-> down(steps), span |-> Edge!Span(down(steps), Edge!NextDown(side, down(steps)), side), new |-> TRUE]
    BY <1>11, <1>14
  <2>7. Edge!Walk(chain, side).cur = down(steps) /\ Edge!Walk(chain, side).new = TRUE
    BY <2>6
  <2>8. ChainAt(Edge!Walk(chain, side), side, y, down(steps))
    BY <1>1, <1>12, <2>5, <2>6, <2>7, Zenon DEF ChainAt
  <2>. QED
    BY <1>1, <1>12, <2>7, <2>8
<1>. QED
  BY <1>13, <1>14

-----------------------------------------------------------------------------
(* Spans                                                                    *)

Bounded(span, b) == span.xmin \in Int /\ span.xmax \in Int /\ b.min <= span.xmin /\ span.xmax <= b.max

IsBounds(b) == b.min \in Int /\ b.max \in Int

Wider(b, w) == IsBounds(b) /\ IsBounds(w) /\ w.min <= b.min /\ b.max <= w.max

LEMMA SpanIs ==
  ASSUME polygon \in Edge!Polygons, NEW a \in 1 .. Corners, NEW b \in 1 .. Corners, NEW side \in Sides
  PROVE  /\ Edge!Span(a, b, side).xmin \in Int /\ Edge!Span(a, b, side).xmax \in Int
         /\ Edge!Span(a, b, side).from = a /\ Edge!Span(a, b, side).to = b /\ Edge!Span(a, b, side).dummy = FALSE
         /\ Edge!DummySpan(a, side).xmin \in Int /\ Edge!DummySpan(a, side).xmax \in Int
         /\ Edge!DummySpan(a, side).from = a /\ Edge!DummySpan(a, side).dummy = TRUE
<1>1. Edge!At(polygon, a).x \in Nat /\ Edge!At(polygon, b).x \in Nat
  BY PolygonIs, NumbersAre
<1>. QED
  BY <1>1 DEF Edge!Span, Edge!DummySpan, Sides

\* What widens the bounds is bounded then, and what was bounded stays so.
LEMMA WithinIs ==
  ASSUME NEW b, IsBounds(b), NEW span, span.xmin \in Int, span.xmax \in Int
  PROVE  Wider(b, Edge!Within(b, span)) /\ Bounded(span, Edge!Within(b, span))
<1>. DEFINE min == IF span.xmin < b.min THEN span.xmin ELSE b.min
            max == IF span.xmax > b.max THEN span.xmax ELSE b.max
<1>1. min \in Int /\ max \in Int /\ min <= b.min /\ b.max <= max /\ min <= span.xmin /\ span.xmax <= max
  BY DEF IsBounds
<1>2. Edge!Within(b, span).min = min /\ Edge!Within(b, span).max = max
  BY DEF Edge!Within
<1>. HIDE DEF min, max
<1>. QED
  BY <1>1, <1>2 DEF Wider, Bounded, IsBounds

LEMMA WiderIs ==
  /\ \A b : IsBounds(b) => Wider(b, b)
  /\ \A b, w, span : Wider(b, w) /\ Bounded(span, b) => Bounded(span, w)
  /\ \A b, w, x : Wider(b, w) /\ Wider(w, x) => Wider(b, x)
BY DEF Wider, Bounded, IsBounds

-----------------------------------------------------------------------------
(* The lines                                                                *)

\* What is said of the line at, whose entry this is.
LineIs(poly, entry, at, b) ==
  LET top == Edge!At(poly, Edge!VTop(poly))  bottom == Edge!At(poly, Edge!VBottom(poly)) IN
  /\ entry.l.dummy = entry.r.dummy
  /\ entry.l.dummy => Edge!At(poly, entry.l.from).x <= Edge!At(poly, entry.r.from).x
  /\ ~entry.l.dummy /\ top.y <= at /\ at < bottom.y =>
       \A s \in {entry.l, entry.r} : Edge!At(poly, s.from).y <= at /\ at < Edge!At(poly, s.to).y
  /\ Bounded(entry.l, b) /\ Bounded(entry.r, b)

LEMMA LineStays ==
  ASSUME NEW poly, NEW entry, NEW at, NEW b, NEW w, Wider(b, w), LineIs(poly, entry, at, b)
  PROVE  LineIs(poly, entry, at, w)
BY WiderIs, Zenon DEF LineIs

\* An edge a walk ends at crosses the line.
LEMMA EdgeCrosses ==
  ASSUME polygon \in Edge!Polygons, NEW side \in Sides, y \in Nat, NEW chain, NEW c \in 1 .. Corners,
         ChainAt(chain, side, y, c), Edge!Stays(side, c)
  PROVE  /\ chain.span.dummy = FALSE /\ chain.span.xmin \in Int /\ chain.span.xmax \in Int
         /\ Edge!At(polygon, Edge!VTop(polygon)).y <= y /\ y < Edge!At(polygon, Edge!VBottom(polygon)).y =>
              Edge!At(polygon, chain.span.from).y <= y /\ y < Edge!At(polygon, chain.span.to).y
<1>. DEFINE next == Edge!NextDown(side, c)
<1>1. next \in 1 .. Corners
  BY DownTheChain
<1>2. chain.span = Edge!Span(c, next, side) /\ (c = Edge!VTop(polygon) \/ Edge!At(polygon, c).y <= y)
  BY DEF ChainAt
<1>. HIDE DEF next
<1>3. /\ chain.span.from = c /\ chain.span.to = next /\ chain.span.dummy = FALSE
      /\ chain.span.xmin \in Int /\ chain.span.xmax \in Int
  <2>1. /\ Edge!Span(c, next, side).from = c /\ Edge!Span(c, next, side).to = next
        /\ Edge!Span(c, next, side).dummy = FALSE
    BY DEF Edge!Span
  <2>2. Edge!At(polygon, c).x \in Nat /\ Edge!At(polygon, next).x \in Nat
    BY <1>1, PolygonIs, NumbersAre
  <2>3. Edge!Span(c, next, side).xmin \in Int /\ Edge!Span(c, next, side).xmax \in Int
    BY <2>2 DEF Edge!Span, Sides
  <2>. QED
    BY <1>2, <2>1, <2>3, Zenon
<1>4. y < Edge!At(polygon, next).y \/ c = Edge!VBottom(polygon)
  BY DEF Edge!Stays, next
<1>5. Edge!At(polygon, Edge!VTop(polygon)).y \in Nat /\ Edge!At(polygon, Edge!VBottom(polygon)).y \in Nat
  BY VTopIs, VBottomIs, PolygonIs, NumbersAre
<1>6. ASSUME Edge!At(polygon, Edge!VTop(polygon)).y <= y, y < Edge!At(polygon, Edge!VBottom(polygon)).y
      PROVE  Edge!At(polygon, c).y <= y /\ y < Edge!At(polygon, next).y
  <2>1. Edge!At(polygon, c).y <= y
    BY <1>2, <1>6
  <2>2. c # Edge!VBottom(polygon)
    <3>1. SUFFICES ASSUME c = Edge!VBottom(polygon) PROVE FALSE
      OBVIOUS
    <3>2. Edge!At(polygon, Edge!VBottom(polygon)).y <= y
      BY <2>1, <3>1
    <3>. QED
      BY <1>5, <1>6, <3>2
  <2>. QED
    BY <1>4, <2>1, <2>2
<1>. QED
  BY <1>3, <1>6

\* The inductive invariant.
EdgeInv ==
  /\ polygon \in Edge!Polygons /\ y \in Nat /\ Edge!YTop(polygon) <= y /\ IsBounds(bounds)
  /\ DOMAIN lines = Edge!YTop(polygon) .. y - 1
  /\ \A at \in Edge!YTop(polygon) .. y - 1 : LineIs(polygon, lines[at], at, bounds)
  /\ left = Edge!None => y = Edge!YTop(polygon)
  /\ left # Edge!None =>
       \/ Edge!YTop(polygon) = Edge!YBot(polygon) /\ y = Edge!YBot(polygon) + 1
       \/ /\ Edge!YTop(polygon) # Edge!YBot(polygon) /\ y <= Edge!YBot(polygon)
          /\ ChainIs(left, 0, y) /\ ChainIs(right, 1, y) /\ Bounded(left.span, bounds) /\ Bounded(right.span, bounds)

LEMMA EdgeInit == Edge!Init => EdgeInv
<1>. SUFFICES ASSUME Edge!Init PROVE EdgeInv
  OBVIOUS
<1>1. polygon \in Edge!Polygons /\ left = Edge!None /\ y = Edge!YTop(polygon) /\ lines = <<>>
  BY Zenon DEF Edge!Init
<1>2. y \in Nat
  BY <1>1, YTopIs
<1>3. IsBounds(bounds)
  BY ScreenIs DEF Edge!Init, IsBounds
<1>4. DOMAIN lines = Edge!YTop(polygon) .. y - 1 /\ \A at : at \notin Edge!YTop(polygon) .. y - 1
  BY <1>1, <1>2
<1>5. Edge!YTop(polygon) <= y
  BY <1>1, <1>2
<1>. QED
  BY <1>1, <1>2, <1>3, <1>4, <1>5, Zenon DEF EdgeInv

LEMMA SetupFlatKeeps ==
  ASSUME EdgeInv, Edge!SetupFlat
  PROVE  EdgeInv'
<1>1. /\ polygon \in Edge!Polygons /\ y \in Nat /\ y = Edge!YTop(polygon) /\ IsBounds(bounds)
      /\ Edge!YTop(polygon) = Edge!YBot(polygon)
  BY Zenon DEF EdgeInv, Edge!SetupFlat
<1>. DEFINE x(v) == Edge!At(polygon, v).x
            l1 == IF x(2) < x(1) THEN 2 ELSE 1
            r1 == IF x(2) > x(1) THEN 2 ELSE 1
            vl == IF x(Corners) < x(l1) THEN Corners ELSE l1
            vr == IF x(Corners) > x(r1) THEN Corners ELSE r1
            l == Edge!DummySpan(vl, 0)
            r == Edge!DummySpan(vr, 1)
            b == Edge!Within(bounds, l)
<1>2. /\ left' = [cur |-> 1, span |-> l, new |-> TRUE] /\ lines' = [at \in {y} |-> [l |-> l, r |-> r]]
      /\ bounds' = Edge!Within(b, r) /\ y' = y + 1 /\ polygon' = polygon
  BY Zenon DEF Edge!SetupFlat, Corners
<1>3. vl \in 1 .. Corners /\ vr \in 1 .. Corners /\ x(vl) <= x(vr)
  <2>1. 1 \in 1 .. Corners /\ 2 \in 1 .. Corners /\ Corners \in 1 .. Corners
    BY <1>1, PolygonIs
  <2>2. \A v \in 1 .. Corners : x(v) \in Nat
    BY <1>1, PolygonIs, NumbersAre
  <2>. HIDE DEF x
  <2>. QED
    BY <2>1, <2>2
<1>4. /\ l.xmin \in Int /\ l.xmax \in Int /\ l.from = vl /\ l.dummy = TRUE
      /\ r.xmin \in Int /\ r.xmax \in Int /\ r.from = vr /\ r.dummy = TRUE
  <2>. HIDE DEF vl, vr
  <2>. QED
    BY <1>1, <1>3, SpanIs DEF Sides
<1>. HIDE DEF vl, vr, l, r, b
<1>5. IsBounds(bounds') /\ Bounded(l, bounds') /\ Bounded(r, bounds')
  <2>1. Wider(bounds, b) /\ Bounded(l, b)
    BY <1>1, <1>4, WithinIs DEF b
  <2>2. Wider(b, bounds') /\ Bounded(r, bounds')
    BY <1>2, <1>4, <2>1, WithinIs DEF Wider
  <2>. QED
    BY <2>1, <2>2, WiderIs, Zenon DEF Wider
<1>6. LineIs(polygon, [l |-> l, r |-> r], y, bounds')
  <2>. DEFINE entry == [l |-> l, r |-> r]
  <2>1. entry.l = l /\ entry.r = r
    OBVIOUS
  <2>. HIDE DEF entry
  <2>2. Edge!At(polygon, vl).x <= Edge!At(polygon, vr).x
    BY <1>3
  <2>3. LineIs(polygon, entry, y, bounds')
    BY <1>4, <1>5, <2>1, <2>2, Zenon DEF LineIs
  <2>. QED
    BY <2>3 DEF entry
<1>7. y' \in Nat /\ Edge!YTop(polygon') <= y' /\ y' = Edge!YBot(polygon') + 1 /\ Edge!YTop(polygon') .. y' - 1 = {y}
  BY <1>1, <1>2
<1>8. left' # Edge!None
  BY <1>2 DEF Edge!None
<1>9. DOMAIN lines' = {y} /\ \A at \in {y} : lines'[at] = [l |-> l, r |-> r] /\ at = y
  BY <1>2
<1>10. \A at \in {y} : LineIs(polygon', lines'[at], at, bounds')
  BY <1>2, <1>6, <1>9
<1>11. Edge!None' = Edge!None
  BY DEF Edge!None
<1>. QED
  BY <1>1, <1>2, <1>5, <1>7, <1>8, <1>9, <1>10, <1>11, Zenon DEF EdgeInv

\* While the polygon is the same, so is all that is said of it.
LEMMA SamePolygon ==
  ASSUME polygon' = polygon
  PROVE  /\ Corners' = Corners
         /\ \A side, v : Edge!NextDown(side, v)' = Edge!NextDown(side, v)
         /\ \A from, to, side : Edge!Span(from, to, side)' = Edge!Span(from, to, side)
<1>1. Corners' = Corners
  BY DEF Corners
<1>2. \A side, v : Edge!NextDown(side, v)' = Edge!NextDown(side, v)
  BY Zenon DEF Edge!NextDown, Edge!Down
<1>3. \A from, to, side : Edge!Span(from, to, side)' = Edge!Span(from, to, side)
  <2>1. ASSUME NEW from, NEW to, NEW side PROVE Edge!Span(from, to, side)' = Edge!Span(from, to, side)
    <3>1. Edge!At(polygon, from)' = Edge!At(polygon, from) /\ Edge!At(polygon, to)' = Edge!At(polygon, to)
      OBVIOUS
    <3>. QED
      BY <3>1 DEF Edge!Span
  <2>. QED
    BY <2>1
<1>. QED
  BY <1>1, <1>2, <1>3

LEMMA ChainStays ==
  ASSUME polygon \in Edge!Polygons, polygon' = polygon, y \in Nat, y' \in {y, y + 1}, NEW side \in Sides
  PROVE  /\ ChainIs(left', side, y) => ChainIs(left, side, y)'
         /\ ChainIs(right', side, y) => ChainIs(right, side, y)'
<1>1. \A c \in 1 .. Corners : Edge!At(polygon, c).y <= y => Edge!At(polygon, c).y <= y'
  BY PolygonIs, NumbersAre
<1>2. \A chain, c : ChainAt(chain, side, y, c) => ChainAt(chain, side, y', c)
  BY <1>1, Zenon DEF ChainAt
<1>3. \A c : ChainAt(left', side, y', c) => ChainAt(left, side, y, c)'
  BY SamePolygon, Zenon DEF ChainAt
<1>4. \A c : ChainAt(right', side, y', c) => ChainAt(right, side, y, c)'
  BY SamePolygon, Zenon DEF ChainAt
<1>5. Corners' = Corners
  BY SamePolygon
<1>. QED
  BY <1>2, <1>3, <1>4, <1>5, Zenon DEF ChainIs

LEMMA SetupKeeps ==
  ASSUME EdgeInv, Edge!Setup
  PROVE  EdgeInv'
<1>1. /\ polygon \in Edge!Polygons /\ y \in Nat /\ y = Edge!YTop(polygon) /\ IsBounds(bounds)
      /\ Edge!YTop(polygon) # Edge!YBot(polygon)
      /\ \A at \in Edge!YTop(polygon) .. y - 1 : LineIs(polygon, lines[at], at, bounds)
      /\ DOMAIN lines = Edge!YTop(polygon) .. y - 1
  BY Zenon DEF EdgeInv, Edge!Setup
<1>. DEFINE v == Edge!VTop(polygon)
            l == Edge!Span(v, Edge!NextDown(0, v), 0)
            r == Edge!Span(v, Edge!NextDown(1, v), 1)
            b == Edge!Within(bounds, l)
<1>2. /\ left' = [cur |-> v, span |-> l, new |-> TRUE] /\ right' = [cur |-> v, span |-> r, new |-> TRUE]
      /\ bounds' = Edge!Within(b, r) /\ polygon' = polygon /\ y' = y /\ lines' = lines
  BY Zenon DEF Edge!Setup
<1>3. 0 \in Sides /\ 1 \in Sides
  BY DEF Sides
<1>4. v \in 1 .. Corners /\ Edge!NextDown(0, v) \in 1 .. Corners /\ Edge!NextDown(1, v) \in 1 .. Corners
  <2>1. v \in 1 .. Corners
    BY <1>1, VTopIs
  <2>. HIDE DEF v
  <2>. QED
    BY <1>1, <1>3, <2>1, DownTheChain
<1>5. l.xmin \in Int /\ l.xmax \in Int /\ r.xmin \in Int /\ r.xmax \in Int
  <2>. HIDE DEF v
  <2>. QED
    BY <1>1, <1>3, <1>4, SpanIs
<1>6. ChainIs(left', 0, y) /\ ChainIs(right', 1, y)
  <2>1. left'.cur = v /\ right'.cur = v
    BY <1>2
  <2>2. ChainAt(left', 0, y, v) /\ ChainAt(right', 1, y, v)
    BY <1>2, <1>4, <2>1, Zenon DEF ChainAt
  <2>. QED
    BY <1>4, <2>2, Zenon DEF ChainIs
<1>7. ChainIs(left, 0, y)' /\ ChainIs(right, 1, y)'
  BY <1>1, <1>2, <1>3, <1>6, ChainStays
<1>8. left'.span = l /\ right'.span = r
  BY <1>2
<1>. HIDE DEF v, l, r, b
<1>9. Wider(bounds, bounds') /\ Bounded(l, bounds') /\ Bounded(r, bounds')
  <2>1. Wider(bounds, b) /\ Bounded(l, b)
    BY <1>1, <1>5, WithinIs DEF b
  <2>2. Wider(b, bounds') /\ Bounded(r, bounds')
    BY <1>2, <1>5, <2>1, WithinIs DEF Wider
  <2>. QED
    BY <2>1, <2>2, WiderIs, Zenon
<1>10. \A at \in Edge!YTop(polygon) .. y - 1 : LineIs(polygon, lines[at], at, bounds')
  BY <1>1, <1>9, LineStays, Zenon
<1>11. y <= Edge!YBot(polygon) /\ Edge!YTop(polygon) <= y
  BY <1>1, YBotIs
<1>12. IsBounds(bounds')
  BY <1>9 DEF Wider
<1>. QED
  BY <1>1, <1>2, <1>7, <1>8, <1>9, <1>10, <1>11, <1>12, Zenon DEF EdgeInv

LEMMA LineKeeps ==
  ASSUME EdgeInv, Edge!Line
  PROVE  EdgeInv'
<1>1. /\ polygon \in Edge!Polygons /\ y \in Nat /\ Edge!YTop(polygon) <= y /\ IsBounds(bounds)
      /\ y < Edge!YBot(polygon) /\ Edge!YBot(polygon) \in Nat /\ Edge!YTop(polygon) \in Nat
      /\ Edge!YTop(polygon) # Edge!YBot(polygon)
      /\ ChainIs(left, 0, y) /\ ChainIs(right, 1, y) /\ Bounded(left.span, bounds) /\ Bounded(right.span, bounds)
      /\ \A at \in Edge!YTop(polygon) .. y - 1 : LineIs(polygon, lines[at], at, bounds)
      /\ DOMAIN lines = Edge!YTop(polygon) .. y - 1
  <2>1. polygon \in Edge!Polygons /\ y \in Nat /\ y < Edge!YBot(polygon) /\ left # Edge!None
    BY DEF EdgeInv, Edge!Line
  <2>2. Edge!YBot(polygon) \in Nat /\ Edge!YTop(polygon) \in Nat
    BY <2>1, YBotIs, YTopIs
  <2>3. y # Edge!YBot(polygon) + 1
    BY <2>1, <2>2
  <2>. QED
    BY <2>1, <2>2, <2>3, Zenon DEF EdgeInv
<1>2. /\ left' = Edge!Walk(left, 0) /\ right' = Edge!Walk(right, 1)
      /\ lines' = [at \in DOMAIN lines \cup {y} |-> IF at = y THEN [l |-> left'.span, r |-> right'.span] ELSE lines[at]]
      /\ bounds' = (LET b == IF left'.new THEN Edge!Within(bounds, left'.span) ELSE bounds
                    IN IF right'.new THEN Edge!Within(b, right'.span) ELSE b)
      /\ y' = y + 1 /\ polygon' = polygon
  BY Zenon DEF Edge!Line
<1>3. 0 \in Sides /\ 1 \in Sides
  BY DEF Sides
<1>4. PICK c \in 1 .. Corners : ChainAt(left', 0, y, c) /\ Edge!Stays(0, c)
  BY <1>1, <1>2, <1>3, WalkIs
<1>5. PICK d \in 1 .. Corners : ChainAt(right', 1, y, d) /\ Edge!Stays(1, d)
  BY <1>1, <1>2, <1>3, WalkIs
<1>6. (~left'.new => left'.span = left.span) /\ (~right'.new => right'.span = right.span)
  BY <1>1, <1>2, <1>3, WalkIs
<1>. DEFINE l == left'.span
            r == right'.span
            entry == [l |-> l, r |-> r]
            b == IF left'.new THEN Edge!Within(bounds, l) ELSE bounds
<1>7. /\ l.dummy = FALSE /\ l.xmin \in Int /\ l.xmax \in Int
      /\ Edge!At(polygon, Edge!VTop(polygon)).y <= y /\ y < Edge!At(polygon, Edge!VBottom(polygon)).y =>
           Edge!At(polygon, l.from).y <= y /\ y < Edge!At(polygon, l.to).y
  BY <1>1, <1>3, <1>4, EdgeCrosses
<1>8. /\ r.dummy = FALSE /\ r.xmin \in Int /\ r.xmax \in Int
      /\ Edge!At(polygon, Edge!VTop(polygon)).y <= y /\ y < Edge!At(polygon, Edge!VBottom(polygon)).y =>
           Edge!At(polygon, r.from).y <= y /\ y < Edge!At(polygon, r.to).y
  BY <1>1, <1>3, <1>5, EdgeCrosses
<1>9. Wider(bounds, bounds') /\ Bounded(l, bounds') /\ Bounded(r, bounds')
  <2>1. Wider(bounds, b) /\ Bounded(l, b)
    <3>1. CASE left'.new
      BY <1>1, <1>7, <3>1, WithinIs
    <3>2. CASE ~left'.new
      <4>1. b = bounds /\ l = left.span
        BY <1>6, <3>2
      <4>. HIDE DEF b, l
      <4>. QED
        BY <1>1, <4>1, WiderIs, Zenon
    <3>. QED
      BY <3>1, <3>2
  <2>2. bounds' = IF right'.new THEN Edge!Within(b, r) ELSE b
    BY <1>2
  <2>. HIDE DEF b
  <2>3. Wider(b, bounds') /\ Bounded(r, bounds')
    <3>1. CASE right'.new
      BY <1>8, <2>1, <2>2, <3>1, WithinIs DEF Wider
    <3>2. CASE ~right'.new
      <4>1. bounds' = b /\ r = right.span
        BY <1>6, <2>2, <3>2
      <4>2. IsBounds(b)
        BY <2>1 DEF Wider
      <4>. QED
        BY <1>1, <2>1, <4>1, <4>2, WiderIs, Zenon
    <3>. QED
      BY <3>1, <3>2
  <2>. QED
    BY <2>1, <2>3, WiderIs, Zenon
<1>10. LineIs(polygon, entry, y, bounds')
  <2>1. entry.l = l /\ entry.r = r
    OBVIOUS
  <2>. HIDE DEF entry, l, r
  <2>. QED
    BY <1>7, <1>8, <1>9, <2>1, Zenon DEF LineIs
<1>11. DOMAIN lines' = Edge!YTop(polygon) .. y' - 1
  <2>1. DOMAIN lines' = (Edge!YTop(polygon) .. y - 1) \cup {y}
    BY <1>1, <1>2
  <2>. QED
    BY <1>1, <1>2, <2>1
<1>12. ASSUME NEW at \in Edge!YTop(polygon) .. y' - 1 PROVE LineIs(polygon, lines'[at], at, bounds')
  <2>1. at \in DOMAIN lines \cup {y} /\ lines'[at] = IF at = y THEN entry ELSE lines[at]
    <3>1. at \in DOMAIN lines'
      BY <1>11
    <3>. QED
      BY <1>2, <3>1
  <2>. HIDE DEF entry
  <2>2. CASE at = y
    BY <1>10, <2>1, <2>2, Zenon
  <2>3. CASE at # y
    <3>1. LineIs(polygon, lines[at], at, bounds) /\ lines'[at] = lines[at]
      BY <1>1, <2>1, <2>3
    <3>. QED
      BY <1>9, <3>1, LineStays, Zenon
  <2>. QED
    BY <2>2, <2>3
<1>13. ChainIs(left, 0, y)' /\ ChainIs(right, 1, y)'
  <2>1. ChainIs(left', 0, y) /\ ChainIs(right', 1, y)
    BY <1>4, <1>5, Zenon DEF ChainIs
  <2>. QED
    BY <1>1, <1>2, <1>3, <2>1, ChainStays
<1>14. y' \in Nat /\ Edge!YTop(polygon) <= y' /\ y' <= Edge!YBot(polygon)
  BY <1>1, <1>2
<1>15. left' # Edge!None /\ Edge!None' = Edge!None
  <2>1. left'.cur = c /\ c # 0
    BY <1>4, <1>1, PolygonIs DEF ChainAt
  <2>. QED
    BY <2>1 DEF Edge!None
<1>16. IsBounds(bounds')
  BY <1>9 DEF Wider
<1>. QED
  BY <1>1, <1>2, <1>9, <1>11, <1>12, <1>13, <1>14, <1>15, <1>16, Zenon DEF EdgeInv

LEMMA EdgeStep ==
  ASSUME EdgeInv, [Edge!Next]_EdgeVars
  PROVE  EdgeInv'
<1>1. CASE UNCHANGED EdgeVars
  <2>1. /\ polygon' = polygon /\ left' = left /\ right' = right /\ y' = y /\ lines' = lines /\ bounds' = bounds
    BY <1>1 DEF EdgeVars
  <2>2. polygon \in Edge!Polygons /\ y \in Nat /\ 0 \in Sides /\ 1 \in Sides
    BY DEF EdgeInv, Sides
  <2>3. /\ ChainIs(left, 0, y) => ChainIs(left, 0, y)'
        /\ ChainIs(right, 1, y) => ChainIs(right, 1, y)'
    BY <2>1, <2>2, ChainStays
  <2>4. Edge!None' = Edge!None
    BY DEF Edge!None
  <2>. QED
    BY <2>1, <2>3, <2>4, Zenon DEF EdgeInv
<1>. QED
  BY <1>1, SetupFlatKeeps, SetupKeeps, LineKeeps, Zenon DEF Edge!Next

\* What the pixels of the vertices say of the lines.
LEMMA LinesInPixels ==
  ASSUME polygon \in Edge!Polygons, Edge!InPixels, Edge!At(polygon, Edge!VTop(polygon)).row < Rows,
         NEW at \in Nat, Edge!YTop(polygon) <= at, at <= Edge!YBot(polygon)
  PROVE  /\ Edge!At(polygon, Edge!VTop(polygon)).row * ScaleFactor <= at
         /\ at < (Edge!At(polygon, Edge!VBottom(polygon)).row + 1) * ScaleFactor
<1>. DEFINE top == Edge!At(polygon, Edge!VTop(polygon)).row
            bottom == Edge!At(polygon, Edge!VBottom(polygon)).row
            row(v) == Edge!At(polygon, v).row
            yOf(v) == Edge!At(polygon, v).y
<1>1. /\ Edge!Verts(polygon) = 1 .. Corners /\ ScaleFactor \in Nat /\ Rows \in Nat
      /\ Edge!VTop(polygon) \in 1 .. Corners /\ Edge!VBottom(polygon) \in 1 .. Corners
  BY PolygonIs, VTopIs, VBottomIs, ScreenIs
<1>2. \A v \in 1 .. Corners : row(v) \in Nat /\ yOf(v) \in Nat
  BY PolygonIs, NumbersAre
<1>3. \A v \in 1 .. Corners : row(v) * ScaleFactor <= yOf(v) /\ yOf(v) < (row(v) + 1) * ScaleFactor
  BY <1>1 DEF Edge!InPixels
<1>4. \A v \in 1 .. Corners : top <= row(v) /\ row(v) <= bottom
  BY VTopIs, VBottomIs
<1>5. top \in Nat /\ bottom \in Nat /\ top < Rows
  BY <1>1, <1>2
<1>6. PICK u \in 1 .. Corners : yOf(u) = Edge!YBot(polygon)
  BY YBotIs
<1>7. /\ Edge!YTop(polygon) \in Nat /\ Edge!YBot(polygon) \in Nat
      /\ Edge!YTop(polygon) = Edge!ScreenHeight \/ \E v \in 1 .. Corners : yOf(v) = Edge!YTop(polygon)
  BY YTopIs, YBotIs
<1>. HIDE DEF top, bottom, row, yOf
<1>8. top * ScaleFactor <= Edge!YTop(polygon)
  <2>1. CASE Edge!YTop(polygon) = Edge!ScreenHeight
    <3>1. top * ScaleFactor <= Rows * ScaleFactor
      BY <1>1, <1>5, MoreTimes
    <3>. QED
      BY <2>1, <3>1 DEF Edge!ScreenHeight
  <2>2. ASSUME NEW v \in 1 .. Corners, yOf(v) = Edge!YTop(polygon) PROVE top * ScaleFactor <= Edge!YTop(polygon)
    <3>1. top * ScaleFactor <= row(v) * ScaleFactor
      BY <1>1, <1>2, <1>4, <1>5, MoreTimes
    <3>2. row(v) * ScaleFactor <= yOf(v) /\ row(v) * ScaleFactor \in Nat /\ top * ScaleFactor \in Nat
      BY <1>1, <1>2, <1>3, <1>5, ProductIs
    <3>. QED
      BY <1>7, <2>2, <3>1, <3>2
  <2>. QED
    BY <1>7, <2>1, <2>2
<1>9. Edge!YBot(polygon) < (bottom + 1) * ScaleFactor
  <2>1. row(u) \in Nat /\ row(u) <= bottom /\ yOf(u) < (row(u) + 1) * ScaleFactor
    BY <1>2, <1>3, <1>4
  <2>2. row(u) + 1 \in Nat /\ bottom + 1 \in Nat /\ row(u) + 1 <= bottom + 1
    BY <1>5, <2>1
  <2>3. (row(u) + 1) * ScaleFactor <= (bottom + 1) * ScaleFactor
    BY <1>1, <2>2, MoreTimes
  <2>4. (row(u) + 1) * ScaleFactor \in Nat /\ (bottom + 1) * ScaleFactor \in Nat
    BY <1>1, <2>2, ProductIs
  <2>. QED
    BY <1>6, <1>7, <2>1, <2>3, <2>4
<1>10. top * ScaleFactor \in Nat /\ (bottom + 1) * ScaleFactor \in Nat
  BY <1>1, <1>5, ProductIs
<1>11. top * ScaleFactor <= at /\ at < (bottom + 1) * ScaleFactor
  BY <1>7, <1>8, <1>9, <1>10
<1>. QED
  BY <1>11 DEF top, bottom

LEMMA LinesThen == EdgeInv => Edge!LinesAreBounded
<1>. SUFFICES ASSUME EdgeInv PROVE Edge!LinesAreBounded
  OBVIOUS
<1>1. /\ polygon \in Edge!Polygons /\ y \in Nat /\ Edge!YTop(polygon) <= y
      /\ DOMAIN lines = Edge!YTop(polygon) .. y - 1
  BY DEF EdgeInv
<1>2. Edge!YTop(polygon) \in Nat /\ Edge!YBot(polygon) \in Nat /\ Edge!YTop(polygon) <= Edge!YBot(polygon)
  BY <1>1, YTopIs, YBotIs
<1>3. y <= Edge!YBot(polygon) + 1
  BY <1>1, <1>2 DEF EdgeInv
<1>4. ASSUME NEW at \in DOMAIN lines
      PROVE  LineIs(polygon, lines[at], at, bounds) /\ at \in Nat /\ Edge!YTop(polygon) <= at /\ at <= Edge!YBot(polygon)
  <2>1. at \in Edge!YTop(polygon) .. y - 1
    BY <1>1
  <2>2. LineIs(polygon, lines[at], at, bounds)
    BY <2>1 DEF EdgeInv
  <2>. QED
    BY <1>1, <1>2, <1>3, <2>1, <2>2
<1>5. ASSUME NEW at \in DOMAIN lines, Edge!InPixels, Edge!At(polygon, Edge!VTop(polygon)).row < Rows
      PROVE  /\ Edge!At(polygon, Edge!VTop(polygon)).row * ScaleFactor <= at
             /\ at < (Edge!At(polygon, Edge!VBottom(polygon)).row + 1) * ScaleFactor
  BY <1>1, <1>4, <1>5, LinesInPixels, Zenon
<1>. QED
  BY <1>1, <1>4, <1>5, Zenon DEF Edge!LinesAreBounded, Edge!Crosses, LineIs, Bounded

EdgeOfAll == component = "Edge" => EdgeInv

\* Whatever the polygon, convex or not, of whatever number of corners, and wherever in their
\* pixels its vertices are: each of its lines, in order, has a left and a right edge, which
\* cross it between the top and the bottom vertex, within the columns the polygon is sorted
\* into tiles by; and its lines are in the pixel rows from the top vertex to the bottom one
\* (RenderFrame, GPU3D_Vulkan.cpp:846-980).  So no walk runs past the bottom vertex.
THEOREM LinesStayBounded == SpecAll => []LinesAreBounded
<1>1. InitAll => EdgeOfAll
  BY BeginningOfOne, EdgeInit DEF EdgeOfAll
<1>2. EdgeOfAll /\ [NextAll]_all => EdgeOfAll'
  BY StepOfOne, EdgeStep DEF EdgeOfAll
<1>3. EdgeOfAll => LinesAreBounded
  BY LinesThen DEF EdgeOfAll, LinesAreBounded
<1>. QED
  BY <1>1, <1>2, <1>3, PTL DEF SpecAll
=============================================================================
