---------------------------- MODULE VkPassProofs ----------------------------
(***************************************************************************)
(* Proofs about VkPass, for any textures: whatever closes and reopens the     *)
(* pass behind the renderer's back, what is sampled is readable, the target is   *)
(* the open pass and the scissor is the renderer's.  The lemmas say what each      *)
(* operator of the stream does to a state of it.                                     *)
(***************************************************************************)
EXTENDS VkPass, TLAPS

Passes == [target : Textures \cup {NoTexture}, viewport : Areas, scissor : Areas,
           layout : [Textures -> Layouts], written : [Textures -> BOOLEAN]]

\* An open pass has its target in the target's layout.
Sound(p) == p \in Passes /\ (p.target # NoTexture => p.layout[p.target] = "target")

\* A texture a draw may sample.
Readable(p, t) == p.layout[t] = "sampled" /\ ~p.written[t]

LEMMA EndRenderingEnds ==
  ASSUME NEW p, Sound(p)
  PROVE  LET q == EndRendering(p)
         IN /\ Sound(q)
            /\ q.target = NoTexture
            /\ q.layout = p.layout /\ q.written = p.written /\ q.scissor = p.scissor
BY DEF EndRendering, Sound, Passes

\* The two ways to use a texture.
Written(p, t, layout) == Use(p, t, layout, TRUE)
ReadFrom(p, t, layout) == Use(p, t, layout, FALSE)

\* What they leave of a pass.
AfterWrite(p, q, t, layout) ==
  /\ Sound(q) /\ q.target = NoTexture
  /\ q.layout[t] = layout
  /\ \A u \in Textures \ {t} : q.layout[u] = p.layout[u] /\ q.written[u] = p.written[u]
AfterRead(p, q, t, layout) ==
  /\ Sound(q)
  /\ q.layout[t] = layout /\ ~q.written[t]
  /\ q = p \/ q.target = NoTexture

\* A write to t ends the pass and is about t only.
LEMMA UseWrites ==
  ASSUME NEW p, Sound(p), NEW t \in Textures, NEW layout \in Layouts
  PROVE  AfterWrite(p, Written(p, t, layout), t, layout)
<1>. DEFINE e == EndRendering(p)
            q == Written(p, t, layout)
<1>1. /\ e \in Passes /\ e.target = NoTexture
      /\ e.layout = p.layout /\ e.written = p.written
  BY EndRenderingEnds DEF Sound
<1>2. q = [e EXCEPT !.layout[t] = layout, !.written[t] = TRUE]
  BY DEF Use, Written
<1>. HIDE DEF e, q
<1>3. /\ q \in Passes /\ q.target = NoTexture
      /\ q.layout = [p.layout EXCEPT ![t] = layout]
      /\ q.written = [p.written EXCEPT ![t] = TRUE]
  BY <1>1, <1>2 DEF Passes
<1>. QED
  BY <1>3 DEF q, Sound, Passes, AfterWrite

\* A read of t ends the pass if it needs a barrier, and waits for t's writer.
LEMMA UseReads ==
  ASSUME NEW p, Sound(p), NEW t \in Textures, NEW layout \in Layouts
  PROVE  AfterRead(p, ReadFrom(p, t, layout), t, layout)
<1>1. CASE p.layout[t] = layout /\ ~p.written[t]
  BY <1>1 DEF Use, ReadFrom, AfterRead
<1>2. CASE ~(p.layout[t] = layout /\ ~p.written[t])
  <2>. DEFINE e == EndRendering(p)
              q == ReadFrom(p, t, layout)
  <2>1. /\ e \in Passes /\ e.target = NoTexture
        /\ e.layout = p.layout /\ e.written = p.written
    BY EndRenderingEnds DEF Sound
  <2>2. q = [e EXCEPT !.layout[t] = layout, !.written[t] = FALSE]
    BY <1>2 DEF Use, ReadFrom
  <2>. HIDE DEF e, q
  <2>3. /\ q \in Passes /\ q.target = NoTexture
        /\ q.layout = [p.layout EXCEPT ![t] = layout]
        /\ q.written = [p.written EXCEPT ![t] = FALSE]
    BY <2>1, <2>2 DEF Passes
  <2>. QED
    BY <2>3 DEF q, Sound, Passes, AfterRead
<1>. QED
  BY <1>1, <1>2

\* A pass opened where none was is on t, with the whole target as its areas.
LEMMA BeginRenderingOpens ==
  ASSUME NEW p, Sound(p), NEW t \in Textures
  PROVE  LET q == BeginRendering(p, t)
         IN /\ Sound(q)
            /\ q.target = t
            /\ \A u \in Textures \ {t} : q.layout[u] = p.layout[u] /\ q.written[u] = p.written[u]
            /\ IF p.target = t THEN q = p ELSE q.scissor = "whole"
<1>1. CASE p.target = t
  BY <1>1 DEF BeginRendering
<1>2. CASE p.target # t
  <2>. DEFINE e == EndRendering(p)
              b == Written(e, t, "target")
  <2>1. Sound(e) /\ e.layout = p.layout /\ e.written = p.written
    BY EndRenderingEnds
  <2>. HIDE DEF e
  <2>2. /\ Sound(b) /\ b.layout[t] = "target"
        /\ \A u \in Textures \ {t} : b.layout[u] = e.layout[u] /\ b.written[u] = e.written[u]
    <3>1. "target" \in Layouts
      BY DEF Layouts
    <3>2. Sound(e)
      BY <2>1
    <3>3. AfterWrite(e, b, t, "target")
      BY <3>1, <3>2, UseWrites, Zenon
    <3>. HIDE DEF b
    <3>. QED
      BY <3>3 DEF AfterWrite
  <2>3. BeginRendering(p, t) = [b EXCEPT !.target = t, !.viewport = "whole", !.scissor = "whole"]
    BY <1>2 DEF BeginRendering, Written, e
  <2>. HIDE DEF b
  <2>4. /\ Sound(BeginRendering(p, t)) /\ BeginRendering(p, t).target = t
        /\ BeginRendering(p, t).layout = b.layout /\ BeginRendering(p, t).written = b.written
        /\ BeginRendering(p, t).scissor = "whole"
    BY <2>2, <2>3 DEF Sound, Passes, Areas
  <2>. QED
    BY <1>2, <2>1, <2>2, <2>4
<1>. QED
  BY <1>1, <1>2

\* Reopening brings the target and the scissor back, and touches no other texture.
LEMMA ReopenRestores ==
  ASSUME NEW p, Sound(p), p.target # NoTexture, NEW q, Sound(q), q.target = NoTexture
  PROVE  LET r == Reopen(p, q)
         IN /\ Sound(r)
            /\ r.target = p.target /\ r.scissor = p.scissor
            /\ \A u \in Textures \ {p.target} : r.layout[u] = q.layout[u] /\ r.written[u] = q.written[u]
<1>. DEFINE b == BeginRendering(q, p.target)
<1>1. p.target \in Textures
  BY DEF Sound, Passes
<1>2. /\ Sound(b) /\ b.target = p.target
      /\ \A u \in Textures \ {p.target} : b.layout[u] = q.layout[u] /\ b.written[u] = q.written[u]
  BY <1>1, BeginRenderingOpens
<1>3. Reopen(p, q) = [b EXCEPT !.scissor = p.scissor]
  BY DEF Reopen
<1>. HIDE DEF b
<1>. QED
  BY <1>2, <1>3 DEF Sound, Passes

\* A new frame slot goes on with the same pass (Stream::RestartSlot).
LEMMA RestartSlotKeeps ==
  ASSUME NEW p, Sound(p)
  PROVE  LET r == RestartSlot(p)
         IN /\ Sound(r)
            /\ r.target = p.target /\ r.scissor = p.scissor
            /\ \A u \in Textures \ {p.target} : r.layout[u] = p.layout[u] /\ r.written[u] = p.written[u]
<1>1. CASE p.target = NoTexture
  BY <1>1 DEF RestartSlot
<1>2. CASE p.target # NoTexture
  <2>1. /\ Sound(EndRendering(p)) /\ EndRendering(p).target = NoTexture
        /\ EndRendering(p).layout = p.layout /\ EndRendering(p).written = p.written
    BY EndRenderingEnds
  <2>2. RestartSlot(p) = Reopen(p, EndRendering(p))
    BY <1>2 DEF RestartSlot
  <2>. QED
    BY <1>2, <2>1, <2>2, ReopenRestores
<1>. QED
  BY <1>1, <1>2

\* Draw's barrier makes t readable and keeps the pass.
LEMMA MakeReadableMakesReadable ==
  ASSUME NEW p, Sound(p), NEW t \in Textures, p.target \notin {NoTexture, t}
  PROVE  LET r == MakeReadable(p, t)
         IN /\ Sound(r)
            /\ r.target = p.target /\ r.scissor = p.scissor
            /\ Readable(r, t)
<1>1. CASE Readable(p, t)
  BY <1>1 DEF MakeReadable, Readable
<1>2. CASE ~Readable(p, t)
  <2>. DEFINE e == EndRendering(p)
              q == ReadFrom(e, t, "sampled")
  <2>1. Sound(e) /\ e.target = NoTexture
    BY EndRenderingEnds
  <2>. HIDE DEF e
  <2>2. Sound(q) /\ q.target = NoTexture /\ q.layout[t] = "sampled" /\ ~q.written[t]
    <3>1. "sampled" \in Layouts
      BY DEF Layouts
    <3>2. Sound(q) /\ q.layout[t] = "sampled" /\ ~q.written[t] /\ (q = e \/ q.target = NoTexture)
      <4>1. Sound(e)
        BY <2>1
      <4>2. AfterRead(e, q, t, "sampled")
        BY <3>1, <4>1, UseReads, Zenon
      <4>. HIDE DEF q
      <4>. QED
        BY <4>2 DEF AfterRead
    <3>. QED
      BY <2>1, <3>2
  <2>3. MakeReadable(p, t) = Reopen(p, q)
    BY <1>2 DEF MakeReadable, Readable, ReadFrom, e
  <2>. HIDE DEF q
  <2>4. t \in Textures \ {p.target}
    OBVIOUS
  <2>5. /\ Sound(Reopen(p, q)) /\ Reopen(p, q).target = p.target /\ Reopen(p, q).scissor = p.scissor
        /\ Reopen(p, q).layout[t] = q.layout[t] /\ Reopen(p, q).written[t] = q.written[t]
    BY <2>2, <2>4, ReopenRestores
  <2>. QED
    BY <2>2, <2>3, <2>5 DEF Readable
<1>. QED
  BY <1>1, <1>2

-----------------------------------------------------------------------------

Inv == TypeOK /\ SampledIsReadable /\ ScissorKept

LEMMA InvInit == Init => Inv
BY PassAssumption DEF Init, Inv, TypeOK, Areas, Layouts, SampledIsReadable, ScissorKept

\* What Inv says of the next state, in the terms of the lemmas.
Kept == /\ Sound(pass)
        /\ asked \in [viewport : Areas, scissor : Areas]
        /\ drawn \in [into : Textures \cup {NoTexture}, from : Textures \cup {NoTexture}]
        /\ SampledIsReadable
        /\ ScissorKept

LEMMA InvIsKept == Inv <=> Kept
BY DEF Inv, Kept, TypeOK, Sound, Passes

LEMMA NothingDrawnIsFine ==
  ASSUME NothingDrawn
  PROVE  /\ SampledIsReadable'
         /\ drawn' \in [into : Textures \cup {NoTexture}, from : Textures \cup {NoTexture}]
BY DEF NothingDrawn, SampledIsReadable

LEMMA KeptNext == Kept /\ [Next]_vars => Kept'
<1>. SUFFICES ASSUME Kept, [Next]_vars PROVE Kept'
  OBVIOUS
<1>1. ASSUME NEW area \in Areas, SetViewport(area) \/ SetScissor(area) PROVE Kept'
  <2>1. Sound(pass') /\ ScissorKept' /\ asked' \in [viewport : Areas, scissor : Areas] /\ NothingDrawn
    BY <1>1 DEF Kept, SetViewport, SetScissor, Sound, Passes, ScissorKept
  <2>. QED
    BY <2>1, NothingDrawnIsFine DEF Kept
<1>2. ASSUME NEW t \in Textures, OpenPass(t) PROVE Kept'
  <2>1. /\ Sound(pass')
        /\ IF pass.target = t THEN pass' = pass ELSE pass'.scissor = "whole"
    BY <1>2, BeginRenderingOpens DEF Kept, OpenPass
  <2>2. ScissorKept' /\ asked' \in [viewport : Areas, scissor : Areas] /\ NothingDrawn
    BY <1>2, <2>1 DEF Kept, OpenPass, ScissorKept, Areas
  <2>. QED
    BY <2>1, <2>2, NothingDrawnIsFine DEF Kept
<1>3. ASSUME NEW t \in Textures, EndFrame(t) \/ ReadTexture(t) PROVE Kept'
  <2>1. ASSUME NEW layout \in Layouts, pass' = EndRendering(ReadFrom(pass, t, layout))
        PROVE  Sound(pass') /\ ScissorKept'
    <3>1. Sound(ReadFrom(pass, t, layout))
      BY UseReads DEF Kept, AfterRead
    <3>2. Sound(pass') /\ pass'.target = NoTexture
      BY <2>1, <3>1, EndRenderingEnds
    <3>. QED
      BY <3>2 DEF ScissorKept
  <2>2. Sound(pass') /\ ScissorKept'
    BY <1>3, <2>1 DEF EndFrame, ReadTexture, Layouts, ReadFrom
  <2>. QED
    BY <1>3, <2>2, NothingDrawnIsFine DEF Kept, EndFrame, ReadTexture
<1>4. ASSUME NEW t \in Textures, NEW restarts \in BOOLEAN, UploadTexture(t, restarts) PROVE Kept'
  <2>. DEFINE p == IF restarts THEN RestartSlot(pass) ELSE pass
  <2>1. Sound(p)
    BY RestartSlotKeeps DEF Kept
  <2>2. pass' = Written(p, t, "transfer") /\ "transfer" \in Layouts
    BY <1>4 DEF UploadTexture, Layouts, Written
  <2>. HIDE DEF p
  <2>3. Sound(pass') /\ pass'.target = NoTexture
    BY <2>1, <2>2, UseWrites DEF AfterWrite
  <2>4. ScissorKept'
    BY <2>3 DEF ScissorKept
  <2>. QED
    BY <1>4, <2>3, <2>4, NothingDrawnIsFine DEF Kept, UploadTexture
<1>5. ASSUME NEW t \in Textures, NEW restarts \in BOOLEAN, Draw(t, restarts) PROVE Kept'
  <2>. DEFINE p == MakeReadable(pass, t)
  <2>1. /\ pass.target \notin {NoTexture, t} /\ pass.target \in Textures
        /\ drawn' = [into |-> pass.target, from |-> t] /\ asked' = asked
        /\ pass' = IF restarts THEN RestartSlot(p) ELSE p
    BY <1>5 DEF Draw, Kept, Sound, Passes
  <2>2. Sound(p) /\ p.target = pass.target /\ p.scissor = pass.scissor /\ Readable(p, t)
    BY <2>1, MakeReadableMakesReadable DEF Kept
  <2>. HIDE DEF p
  <2>3. Sound(pass') /\ pass'.target = pass.target /\ pass'.scissor = pass.scissor
    BY <2>1, <2>2, RestartSlotKeeps
  <2>4. Readable(pass', t)
    <3>1. CASE restarts
      <4>1. t \in Textures \ {p.target}
        BY <2>1, <2>2
      <4>2. pass'.layout[t] = p.layout[t] /\ pass'.written[t] = p.written[t]
        BY <2>1, <2>2, <3>1, <4>1, RestartSlotKeeps
      <4>. QED
        BY <2>2, <4>2 DEF Readable
    <3>2. CASE ~restarts
      BY <2>1, <2>2, <3>2
    <3>. QED
      BY <3>1, <3>2
  <2>5. SampledIsReadable' /\ ScissorKept'
    BY <2>1, <2>3, <2>4 DEF Kept, SampledIsReadable, ScissorKept, Readable
  <2>. QED
    BY <2>1, <2>3, <2>5 DEF Kept
<1>6. CASE UNCHANGED vars
  BY <1>6 DEF Kept, vars, SampledIsReadable, ScissorKept
<1>. QED
  BY <1>1, <1>2, <1>3, <1>4, <1>5, <1>6 DEF Next

LEMMA InvNext == Inv /\ [Next]_vars => Inv'
<1>1. Inv' <=> Kept'
  BY DEF Inv, Kept, TypeOK, Sound, Passes
<1>. QED
  BY <1>1, InvIsKept, KeptNext

-----------------------------------------------------------------------------

\* Type correctness, and the layout of an open pass's target.
THEOREM TypeCorrect == Spec => []TypeOK
<1>1. Inv => TypeOK
  BY DEF Inv
<1>. QED
  BY <1>1, InvInit, InvNext, PTL DEF Spec

\* A draw samples a readable texture into the target the renderer opened,
\* wherever the stream ended and reopened the pass (Stream::Draw).
THEOREM DrawsSampleReadable == Spec => []SampledIsReadable
<1>1. Inv => SampledIsReadable
  BY DEF Inv
<1>. QED
  BY <1>1, InvInit, InvNext, PTL DEF Spec

\* The scissor of an open pass is the one the renderer set last (Stream::Draw,
\* Stream::RestartSlot).
THEOREM ScissorSurvives == Spec => []ScissorKept
<1>1. Inv => ScissorKept
  BY DEF Inv
<1>. QED
  BY <1>1, InvInit, InvNext, PTL DEF Spec
=============================================================================
