--------------------------- MODULE VkStreamProofs ---------------------------
(***************************************************************************)
(* Proofs about VkStream, for every number of slots, ring size, alignment,  *)
(* set of textures and set of draws.                                        *)
(***************************************************************************)
EXTENDS VkStream, FiniteSetTheorems, SequenceTheorems, NaturalsInduction,
        WellFoundedInduction, TLAPS

-----------------------------------------------------------------------------
(* The inductive invariant                                                  *)

SlotIds == 0 .. Slots - 1
Submissions == [slot : SlotIds, images : SUBSET Images]
Streams ==
  [slot : [SlotIds -> [recording : BOOLEAN, submitted : BOOLEAN, frees : SUBSET Images]],
   current : SlotIds, ring : Nat, sets : Nat, queue : Seq(Submissions),
   recorded : SUBSET Images, freed : SUBSET Images, atOnce : SUBSET Images]

\* Only the current slot records, a slot that records has no submission the GPU
\* still works on, and a slot has at most one.
SlotsInTurn(s) ==
  /\ \A k \in SlotIds : s.slot[k].recording => k = s.current /\ ~ s.slot[k].submitted
  /\ s.slot[s.current].recording \/ s.recorded = {}
  /\ \A i \in 1 .. Len(s.queue) : s.slot[s.queue[i].slot].submitted
  /\ \A i, j \in 1 .. Len(s.queue) : s.queue[i].slot = s.queue[j].slot => i = j

\* Image i is used by the commands of slot k alone.
UsedBy(s, i, k) ==
  /\ i \in s.recorded => k = s.current
  /\ \A n \in 1 .. Len(s.queue) : i \in s.queue[n].images => s.queue[n].slot = k

\* An image that waits on a slot's list is used by that slot alone; between the
\* halves of DestroyTexture, those of the current slot may be used by others.
FreesWait(s, but) == \A k \in SlotIds \ but : \A i \in s.slot[k].frees : UsedBy(s, i, k)

Used(s, i) == i \in s.recorded \/ \E n \in 1 .. Len(s.queue) : i \in s.queue[n].images

FreedUnused(s) == \A i \in s.freed : i \in s.atOnce \/ ~ Used(s, i)

\* The first n images are in one place each: live, waiting on one slot, or freed.
Kept(s, live, n) ==
  /\ \A k, l \in SlotIds : \A i \in s.slot[k].frees : i \in s.slot[l].frees => k = l
  /\ \A i \in live : i \notin s.freed /\ \A k \in SlotIds : i \notin s.slot[k].frees
  /\ \A i \in s.freed : \A k \in SlotIds : i \notin s.slot[k].frees
  /\ \A i \in Images : i <= n <=> i \in live \/ i \in s.freed \/ \E k \in SlotIds : i \in s.slot[k].frees

Good(s, live, n) ==
  s \in Streams /\ SlotsInTurn(s) /\ FreesWait(s, {}) /\ FreedUnused(s) /\ Kept(s, live, n)

LiveImages == {i \in Images : \E t \in Textures : image[t] = i}

StreamInv ==
  /\ stream \in Streams
  /\ image \in [Textures -> Images \cup {NoImage}]
  /\ created \in 0 .. MaxImages
  /\ destroying \in BOOLEAN
  /\ SlotsInTurn(stream)
  /\ FreesWait(stream, IF destroying THEN {stream.current} ELSE {})
  /\ FreedUnused(stream)
  /\ Kept(stream, LiveImages, created)
  /\ \A t, u \in Textures : image[t] = image[u] /\ image[t] # NoImage => t = u
  /\ \A i, j \in drawn : i = j

-----------------------------------------------------------------------------
(* Numbers                                                                  *)

\* A set of natural numbers has a least one: the numbers are well-ordered.
LEMMA LeastOfSet ==
  ASSUME NEW T \in SUBSET Nat, T # {}
  PROVE  \E m \in T : \A k \in T : m <= k
<1>. DEFINE R == OpToRel(<, Nat)
<1>1. IsWellFoundedOn(R, Nat)
  BY NatLessThanWellFounded
<1>2. \A i, j \in Nat : i < j => <<i, j>> \in R
  BY DEF OpToRel
<1>. HIDE DEF R
<1>3. PICK m \in T : \A k \in T : ~ (<<k, m>> \in R)
  BY <1>1, WFMin, Zenon
<1>4. m \in Nat /\ \A k \in T : k \in Nat /\ ~ (<<k, m>> \in R)
  BY <1>3
<1>5. \A k \in T : m <= k
  <2>1. SUFFICES ASSUME NEW k \in T, k < m PROVE FALSE
    BY <1>4
  <2>2. <<k, m>> \in R
    BY <1>2, <1>4, <2>1, Zenon
  <2>. QED
    BY <1>4, <2>2, Zenon
<1>. QED
  BY <1>3, <1>5

\* And induction over one.
LEMMA SetInduction ==
  ASSUME NEW S \in SUBSET Nat, 0 \in S, \A k \in Nat : k \in S => k + 1 \in S
  PROVE  S = Nat
<1>1. SUFFICES ASSUME Nat \ S # {} PROVE FALSE
  OBVIOUS
<1>2. PICK m \in Nat \ S : \A k \in Nat \ S : m <= k
  <2>1. Nat \ S \in SUBSET Nat
    OBVIOUS
  <2>. QED
    BY <1>1, <2>1, LeastOfSet, Zenon
<1>3. m \in Nat \ {0} /\ m - 1 \in Nat
  BY <1>2
<1>4. m - 1 \notin Nat \ S
  BY <1>2, <1>3
<1>. QED
  BY <1>2, <1>3, <1>4
-----------------------------------------------------------------------------
(* Operators of the stream                                                  *)

LEMMA AlignFacts ==
  ASSUME NEW n \in Nat, NEW a \in Nat \ {0}
  PROVE  AlignUp(n, a) \in Nat /\ n <= AlignUp(n, a) /\ AlignUp(n, a) < n + a
<1>. DEFINE m == n + a - 1
            d == m \div a
            r == m % a
<1>1. m \in Nat
  OBVIOUS
<1>. HIDE DEF m
<1>2. d \in Nat /\ r \in 0 .. a - 1 /\ m = a * d + r
  BY <1>1
<1>. HIDE DEF d, r
<1>3. d * a = a * d /\ a * d \in Nat
  BY <1>2
<1>4. AlignUp(n, a) = a * d
  BY <1>3 DEF AlignUp, m, d
<1>. DEFINE p == a * d
<1>5. p \in Nat /\ m = p + r
  BY <1>2, <1>3
<1>. HIDE DEF p
<1>. QED
  BY <1>2, <1>4, <1>5 DEF m, p

\* r is the end of q, and none of its submissions is of a slot in ks.
EndOf(r, q, ks) ==
  /\ r \in Seq(Submissions)
  /\ \E d \in Nat : /\ Len(r) + d = Len(q)
                    /\ \A i \in 1 .. Len(r) : i + d \in 1 .. Len(q) /\ r[i] = q[i + d]
  /\ \A i \in 1 .. Len(r) : r[i].slot \notin ks

LEMMA FencesLeave ==
  ASSUME NEW q \in Seq(Submissions), NEW ks
  PROVE  EndOf(AfterFences(q, ks), q, ks)
<1>. DEFINE done == {i \in 1 .. Len(q) : q[i].slot \in ks}
            Last(i) == i \in done /\ \A j \in done : j <= i
            top == CHOOSE i \in done : \A j \in done : j <= i
<1>1. CASE done = {}
  <2>1. AfterFences(q, ks) = q
    BY <1>1 DEF AfterFences
  <2>2. \E d \in Nat : Len(q) + d = Len(q) /\ \A i \in 1 .. Len(q) : i + d \in 1 .. Len(q) /\ q[i] = q[i + d]
    <3>1. Len(q) + 0 = Len(q) /\ \A i \in 1 .. Len(q) : i + 0 \in 1 .. Len(q) /\ q[i] = q[i + 0]
      OBVIOUS
    <3>. QED
      BY <3>1
  <2>. QED
    BY <1>1, <2>1, <2>2 DEF EndOf
<1>2. CASE done # {}
  <2>1. \E i \in done : \A j \in done : j <= i
    <3>. DEFINE T == {Len(q) - i : i \in done}
    <3>1. T \in SUBSET Nat /\ T # {}
      BY <1>2
    <3>2. PICK m \in T : \A k \in T : m <= k
      BY <3>1, LeastOfSet
    <3>3. PICK i \in done : m = Len(q) - i
      BY <3>2
    <3>4. ASSUME NEW j \in done PROVE j <= i
      <4>1. Len(q) - i <= Len(q) - j
        BY <3>2, <3>3
      <4>. QED
        BY <4>1
    <3>. QED
      BY <3>4
  <2>2. top \in done /\ \A j \in done : j <= top
    BY <2>1
  <2>3. AfterFences(q, ks) = SubSeq(q, top + 1, Len(q))
    BY <1>2 DEF AfterFences
  <2>4. top \in 1 .. Len(q) /\ Len(q) \in Nat
    BY <2>2
  <2>5. \A i \in 1 .. Len(q) : q[i].slot \in ks => i <= top
    BY <2>2
  <2>. HIDE DEF top, done
  <2>. DEFINE r == SubSeq(q, top + 1, Len(q))
  <2>6. /\ r \in Seq(Submissions) /\ Len(r) = Len(q) - top
        /\ \A i \in 1 .. Len(r) : r[i] = q[i + top]
    <3>1. r \in Seq(Submissions) /\ Len(r) = Len(q) - top
      BY <2>4
    <3>2. ASSUME NEW i \in 1 .. Len(q) - top PROVE r[i] = q[i + top]
      BY <2>4
    <3>. QED
      BY <3>1, <3>2
  <2>. HIDE DEF r
  <2>7. \A i \in 1 .. Len(r) : i + top \in 1 .. Len(q) /\ ~ (i + top <= top)
    BY <2>4, <2>6
  <2>8. Len(r) + top = Len(q) /\ top \in Nat
    BY <2>4, <2>6
  <2>9. \E d \in Nat : Len(r) + d = Len(q) /\ \A i \in 1 .. Len(r) : i + d \in 1 .. Len(q) /\ r[i] = q[i + d]
    BY <2>6, <2>7, <2>8
  <2>10. \A i \in 1 .. Len(r) : r[i].slot \notin ks
    BY <2>5, <2>6, <2>7
  <2>. QED
    BY <2>3, <2>6, <2>9, <2>10 DEF EndOf, r
<1>. QED
  BY <1>1, <1>2

\* When work leaves the queue, nothing else of the stream is disturbed.
LEMMA ShorterQueue ==
  ASSUME NEW s \in Streams, NEW r, NEW ks, EndOf(r, s.queue, ks), NEW but,
         SlotsInTurn(s), FreesWait(s, but), FreedUnused(s)
  PROVE  LET e == [s EXCEPT !.queue = r]
         IN /\ e \in Streams /\ SlotsInTurn(e) /\ FreesWait(e, but) /\ FreedUnused(e)
            /\ \A live, n : Kept(s, live, n) => Kept(e, live, n)
<1>. DEFINE e == [s EXCEPT !.queue = r]
<1>1. /\ e \in Streams
      /\ e.slot = s.slot /\ e.current = s.current /\ e.queue = r /\ e.recorded = s.recorded
      /\ e.freed = s.freed /\ e.atOnce = s.atOnce
  BY DEF EndOf, Streams
<1>. HIDE DEF e
<1>2. PICK d \in Nat : Len(r) + d = Len(s.queue) /\ \A i \in 1 .. Len(r) : i + d \in 1 .. Len(s.queue) /\ r[i] = s.queue[i + d]
  BY DEF EndOf
<1>3. SlotsInTurn(e)
  <2>1. ASSUME NEW i \in 1 .. Len(r), NEW j \in 1 .. Len(r), r[i].slot = r[j].slot PROVE i = j
    <3>1. i + d \in 1 .. Len(s.queue) /\ j + d \in 1 .. Len(s.queue) /\ s.queue[i + d].slot = s.queue[j + d].slot
      BY <1>2, <2>1
    <3>2. i + d = j + d
      BY <3>1 DEF SlotsInTurn
    <3>. QED
      BY <3>2, <1>2
  <2>2. \A i \in 1 .. Len(r) : s.slot[r[i].slot].submitted
    BY <1>2 DEF SlotsInTurn
  <2>. QED
    BY <1>1, <2>1, <2>2 DEF SlotsInTurn
<1>4. FreesWait(e, but)
  <2>1. ASSUME NEW k \in SlotIds \ but, NEW i \in s.slot[k].frees PROVE UsedBy(e, i, k)
    <3>1. UsedBy(s, i, k)
      BY DEF FreesWait
    <3>2. \A n \in 1 .. Len(r) : i \in r[n].images => r[n].slot = k
      BY <1>2, <3>1 DEF UsedBy
    <3>. QED
      BY <1>1, <3>1, <3>2 DEF UsedBy
  <2>. QED
    BY <1>1, <2>1 DEF FreesWait
<1>5. FreedUnused(e)
  <2>1. ASSUME NEW i \in s.freed, i \notin s.atOnce PROVE ~ Used(e, i)
    BY <1>1, <1>2, <2>1 DEF FreedUnused, Used
  <2>. QED
    BY <1>1, <2>1 DEF FreedUnused
<1>6. \A live, n : Kept(s, live, n) => Kept(e, live, n)
  BY <1>1 DEF Kept
<1>. QED
  BY <1>1, <1>3, <1>4, <1>5, <1>6 DEF e

\* What the operators leave of a stream's fields.
LEMMA BeginIs ==
  ASSUME NEW s \in Streams, ~ Current(s).recording
  PROVE  LET b == BeginSlot(s)
         IN /\ b \in Streams
            /\ b.current = s.current /\ b.recorded = {} /\ b.ring = 0 /\ b.sets = 0
            /\ b.freed = s.freed \cup s.slot[s.current].frees /\ b.atOnce = s.atOnce
            /\ b.slot = [s.slot EXCEPT ![s.current] = RecordingSlot]
            /\ b.queue = IF s.slot[s.current].submitted THEN AfterFences(s.queue, {s.current}) ELSE s.queue
<1>. DEFINE q == IF s.slot[s.current].submitted THEN AfterFences(s.queue, {s.current}) ELSE s.queue
            b == [slot |-> [s.slot EXCEPT ![s.current] = RecordingSlot], current |-> s.current, ring |-> 0,
                  sets |-> 0, queue |-> q, recorded |-> {},
                  freed |-> s.freed \cup s.slot[s.current].frees, atOnce |-> s.atOnce]
<1>1. s.queue \in Seq(Submissions) /\ s.current \in SlotIds /\ s.slot[s.current].frees \in SUBSET Images
  BY DEF Streams
<1>2. q \in Seq(Submissions)
  BY <1>1, FencesLeave DEF EndOf
<1>. HIDE DEF q
<1>3. RecordingSlot \in [recording : BOOLEAN, submitted : BOOLEAN, frees : SUBSET Images]
  BY DEF RecordingSlot
<1>4. BeginSlot(s) = [s EXCEPT !.queue = q, !.slot[s.current] = RecordingSlot, !.recorded = {}, !.ring = 0,
                               !.sets = 0, !.freed = @ \cup s.slot[s.current].frees]
  BY Zenon DEF BeginSlot, Current, q
<1>5. BeginSlot(s) = b
  BY <1>4 DEF Streams
<1>6. b \in Streams
  BY <1>1, <1>2, <1>3 DEF Streams
<1>. QED
  BY <1>5, <1>6 DEF q

LEMMA SubmitIs ==
  ASSUME NEW s \in Streams, Current(s).recording
  PROVE  LET e == Submit(s)
         IN /\ e \in Streams
            /\ e.current = NextSlot(s) /\ e.recorded = {}
            /\ e.freed = s.freed /\ e.atOnce = s.atOnce
            /\ e.slot = [s.slot EXCEPT ![s.current] = SubmittedSlot(s.slot[s.current].frees)]
            /\ e.queue = Append(s.queue, [slot |-> s.current, images |-> s.recorded])
<1>. DEFINE new == SubmittedSlot(s.slot[s.current].frees)
            q == Append(s.queue, [slot |-> s.current, images |-> s.recorded])
            e == [slot |-> [s.slot EXCEPT ![s.current] = new], current |-> NextSlot(s), ring |-> s.ring,
                  sets |-> s.sets, queue |-> q, recorded |-> {}, freed |-> s.freed, atOnce |-> s.atOnce]
<1>1. /\ s.queue \in Seq(Submissions) /\ s.current \in SlotIds /\ s.recorded \in SUBSET Images
      /\ s.slot[s.current].frees \in SUBSET Images
  BY DEF Streams
<1>2. q \in Seq(Submissions)
  BY <1>1 DEF Submissions
<1>3. NextSlot(s) \in SlotIds
  BY <1>1, StreamAssumption DEF NextSlot, SlotIds
<1>4. new \in [recording : BOOLEAN, submitted : BOOLEAN, frees : SUBSET Images]
  BY <1>1 DEF SubmittedSlot
<1>. HIDE DEF q
<1>5. Submit(s) = [s EXCEPT !.queue = q, !.slot[s.current] = new, !.recorded = {}, !.current = NextSlot(s)]
  BY DEF Submit, Current, q
<1>. HIDE DEF new
<1>6. Submit(s) = e
  BY <1>5 DEF Streams
<1>7. e \in Streams
  BY <1>1, <1>2, <1>3, <1>4 DEF Streams
<1>. QED
  BY <1>6, <1>7 DEF new, q

LEMMA WaitIs ==
  ASSUME NEW s \in Streams, Current(s).recording
  PROVE  LET e == SubmitAndWait(s)
         IN /\ e \in Streams
            /\ e.current = NextSlot(s) /\ e.recorded = {} /\ e.queue = << >>
            /\ e.freed = s.freed \cup s.slot[s.current].frees /\ e.atOnce = s.atOnce
            /\ e.slot = [s.slot EXCEPT ![s.current] = FreshSlot]
<1>. DEFINE e == [slot |-> [s.slot EXCEPT ![s.current] = FreshSlot], current |-> NextSlot(s), ring |-> s.ring,
                  sets |-> s.sets, queue |-> << >>, recorded |-> {},
                  freed |-> s.freed \cup s.slot[s.current].frees, atOnce |-> s.atOnce]
<1>1. s.current \in SlotIds /\ s.slot[s.current].frees \in SUBSET Images
  BY DEF Streams
<1>2. NextSlot(s) \in SlotIds
  BY <1>1, StreamAssumption DEF NextSlot, SlotIds
<1>3. FreshSlot \in [recording : BOOLEAN, submitted : BOOLEAN, frees : SUBSET Images]
  BY DEF FreshSlot
<1>4. SubmitAndWait(s) = e
  BY DEF SubmitAndWait, Current, Streams
<1>5. e \in Streams
  BY <1>1, <1>2, <1>3 DEF Streams
<1>. QED
  BY <1>4, <1>5

-----------------------------------------------------------------------------
(* They keep a good stream good                                             *)

\* A slot begins when the GPU is done with it, so what waited on it goes unused.
LEMMA BeginGood ==
  ASSUME NEW s, NEW live, NEW n, Good(s, live, n)
  PROVE  Good(BeginSlot(s), live, n) /\ Current(BeginSlot(s)).recording
<1>1. CASE Current(s).recording
  BY <1>1 DEF BeginSlot
<1>2. CASE ~ Current(s).recording
  <2>. DEFINE b == BeginSlot(s)
              c == s.current
  <2>1. s \in Streams /\ SlotsInTurn(s) /\ FreesWait(s, {}) /\ FreedUnused(s) /\ Kept(s, live, n)
    BY DEF Good
  <2>2. PICK q : q = IF s.slot[c].submitted THEN AfterFences(s.queue, {c}) ELSE s.queue
    OBVIOUS
  <2>3. EndOf(q, s.queue, {c})
    <3>0. s.queue \in Seq(Submissions)
      BY <2>1 DEF Streams
    <3>1. CASE s.slot[c].submitted
      BY <2>2, <3>0, <3>1, FencesLeave
    <3>2. CASE ~ s.slot[c].submitted
      <4>1. q = s.queue /\ \A i \in 1 .. Len(q) : q[i].slot \notin {c}
        BY <2>1, <2>2, <3>2 DEF SlotsInTurn
      <4>2. Len(q) + 0 = Len(s.queue) /\ \A i \in 1 .. Len(q) : i + 0 \in 1 .. Len(s.queue) /\ q[i] = s.queue[i + 0]
        BY <3>0, <4>1
      <4>3. \E d \in Nat : Len(q) + d = Len(s.queue) /\ \A i \in 1 .. Len(q) : i + d \in 1 .. Len(s.queue) /\ q[i] = s.queue[i + d]
        BY <4>2
      <4>. QED
        BY <3>0, <4>1, <4>3 DEF EndOf
    <3>. QED
      BY <3>1, <3>2
  <2>. DEFINE e == [s EXCEPT !.queue = q]
  <2>4. e \in Streams /\ SlotsInTurn(e) /\ FreesWait(e, {}) /\ FreedUnused(e) /\ Kept(e, live, n)
    BY <2>1, <2>3, ShorterQueue
  <2>5. /\ e.slot = s.slot /\ e.current = c /\ e.queue = q /\ e.recorded = s.recorded
        /\ e.freed = s.freed /\ e.atOnce = s.atOnce
    BY <2>1 DEF Streams
  <2>6. /\ b \in Streams
        /\ b.current = e.current /\ b.recorded = {}
        /\ b.freed = e.freed \cup e.slot[e.current].frees /\ b.atOnce = e.atOnce
        /\ b.slot = [e.slot EXCEPT ![e.current] = RecordingSlot]
        /\ b.queue = e.queue
    BY <1>2, <2>1, <2>2, <2>5, BeginIs
  <2>7. \A i \in 1 .. Len(e.queue) : e.queue[i].slot # e.current /\ e.queue[i].slot \in SlotIds
    <3>1. \A i \in 1 .. Len(q) : q[i].slot \notin {c} /\ q[i] \in Submissions
      BY <2>3 DEF EndOf
    <3>. HIDE DEF e, c
    <3>. QED
      BY <2>5, <3>1 DEF Submissions
  <2>8. /\ ~ e.slot[e.current].recording /\ e.recorded = {} /\ e.current \in SlotIds
        /\ e.slot \in [SlotIds -> [recording : BOOLEAN, submitted : BOOLEAN, frees : SUBSET Images]]
    BY <1>2, <2>4, <2>5 DEF Current, SlotsInTurn, Streams
  <2>. HIDE DEF e, b
  <2>9. /\ \A k \in SlotIds \ {e.current} : b.slot[k] = e.slot[k]
        /\ b.slot[e.current].recording /\ ~ b.slot[e.current].submitted /\ b.slot[e.current].frees = {}
    BY <2>6, <2>8 DEF RecordingSlot
  <2>10. SlotsInTurn(b)
    BY <2>4, <2>6, <2>7, <2>8, <2>9 DEF SlotsInTurn
  <2>11. FreesWait(b, {})
    <3>1. ASSUME NEW k \in SlotIds, NEW i \in b.slot[k].frees PROVE UsedBy(b, i, k)
      <4>1. k # e.current /\ i \in e.slot[k].frees
        BY <2>9, <3>1
      <4>2. UsedBy(e, i, k)
        BY <2>4, <4>1 DEF FreesWait
      <4>. QED
        BY <2>6, <4>2 DEF UsedBy
    <3>. QED
      BY <3>1 DEF FreesWait
  <2>12. FreedUnused(b)
    <3>1. ASSUME NEW i \in b.freed, i \notin b.atOnce, Used(b, i) PROVE FALSE
      <4>1. PICK m \in 1 .. Len(e.queue) : i \in e.queue[m].images
        BY <2>6, <3>1 DEF Used
      <4>2. CASE i \in e.freed
        BY <2>4, <2>6, <3>1, <4>1, <4>2 DEF FreedUnused, Used
      <4>3. CASE i \in e.slot[e.current].frees
        <5>1. UsedBy(e, i, e.current)
          BY <2>4, <2>8, <4>3 DEF FreesWait
        <5>. QED
          BY <2>7, <4>1, <5>1 DEF UsedBy
      <4>. QED
        BY <2>6, <3>1, <4>2, <4>3
    <3>. QED
      BY <3>1 DEF FreedUnused
  <2>13. Kept(b, live, n)
    <3>1. \A k, l \in SlotIds : \A i \in b.slot[k].frees : i \in b.slot[l].frees => k = l
      BY <2>4, <2>9 DEF Kept
    <3>2. \A i \in live : i \notin b.freed /\ \A k \in SlotIds : i \notin b.slot[k].frees
      BY <2>4, <2>6, <2>8, <2>9 DEF Kept
    <3>3. \A i \in b.freed : \A k \in SlotIds : i \notin b.slot[k].frees
      BY <2>4, <2>6, <2>8, <2>9 DEF Kept
    <3>4. ASSUME NEW i \in Images
          PROVE  (i \in e.freed \/ \E k \in SlotIds : i \in e.slot[k].frees) <=> (i \in b.freed \/ \E k \in SlotIds : i \in b.slot[k].frees)
      BY <2>6, <2>8, <2>9
    <3>5. \A i \in Images : i <= n <=> i \in live \/ i \in b.freed \/ \E k \in SlotIds : i \in b.slot[k].frees
      BY <2>4, <3>4 DEF Kept
    <3>. QED
      BY <3>1, <3>2, <3>3, <3>5 DEF Kept
  <2>14. Current(b).recording
    BY <2>6, <2>9 DEF Current
  <2>. QED
    BY <2>6, <2>10, <2>11, <2>12, <2>13, <2>14 DEF Good, b
<1>. QED
  BY <1>1, <1>2

\* Facts about a good stream that most proofs start from.
LEMMA GoodIs ==
  ASSUME NEW s, NEW live, NEW n, Good(s, live, n)
  PROVE  /\ s \in Streams /\ s.current \in SlotIds /\ s.queue \in Seq(Submissions)
         /\ s.slot \in [SlotIds -> [recording : BOOLEAN, submitted : BOOLEAN, frees : SUBSET Images]]
         /\ SlotsInTurn(s) /\ FreesWait(s, {}) /\ FreedUnused(s) /\ Kept(s, live, n)
         /\ s.recorded \in SUBSET Images
  BY DEF Good, Streams

\* The images of the commands submitted stay with the slot they were recorded in.
LEMMA SubmitGood ==
  ASSUME NEW s, NEW live, NEW n, Good(s, live, n)
  PROVE  Good(Submit(s), live, n)
<1>1. CASE ~ Current(s).recording
  BY <1>1 DEF Submit
<1>2. CASE Current(s).recording
  <2>. DEFINE e == Submit(s)
              c == s.current
              last == [slot |-> c, images |-> s.recorded]
              m == Len(s.queue)
  <2>1. /\ s \in Streams /\ c \in SlotIds /\ s.queue \in Seq(Submissions)
        /\ s.slot \in [SlotIds -> [recording : BOOLEAN, submitted : BOOLEAN, frees : SUBSET Images]]
        /\ SlotsInTurn(s) /\ FreesWait(s, {}) /\ FreedUnused(s) /\ Kept(s, live, n)
    BY GoodIs
  <2>2. /\ e \in Streams /\ e.recorded = {} /\ e.freed = s.freed /\ e.atOnce = s.atOnce
        /\ e.slot = [s.slot EXCEPT ![c] = SubmittedSlot(s.slot[c].frees)]
        /\ e.queue = Append(s.queue, last)
    BY <1>2, <2>1, SubmitIs
  <2>3. s.slot[c].recording
    BY <1>2 DEF Current
  <2>. HIDE DEF e
  <2>4. /\ \A k \in SlotIds \ {c} : e.slot[k] = s.slot[k]
        /\ ~ e.slot[c].recording /\ e.slot[c].submitted
        /\ \A k \in SlotIds : e.slot[k].frees = s.slot[k].frees
    BY <2>1, <2>2 DEF SubmittedSlot
  <2>5. /\ m \in Nat /\ Len(e.queue) = m + 1 /\ e.queue[m + 1] = last
        /\ \A i \in 1 .. m : e.queue[i] = s.queue[i] /\ s.queue[i] \in Submissions
    <3>. HIDE DEF last
    <3>. QED
      BY <2>1, <2>2
  <2>6. \A i \in 1 .. m : s.queue[i].slot # c
    BY <2>1, <2>3 DEF SlotsInTurn
  <2>7. e.queue[m + 1].slot = c /\ e.queue[m + 1].images = s.recorded
    BY <2>5
  <2>. HIDE DEF m, last
  <2>8. SlotsInTurn(e)
    <3>1. \A k \in SlotIds : ~ e.slot[k].recording
      BY <2>1, <2>3, <2>4 DEF SlotsInTurn
    <3>2. \A i \in 1 .. m + 1 : e.slot[e.queue[i].slot].submitted
      <4>1. ASSUME NEW i \in 1 .. m + 1 PROVE e.slot[e.queue[i].slot].submitted
        <5>1. CASE i = m + 1
          BY <2>4, <2>7, <5>1
        <5>2. CASE i \in 1 .. m
          <6>1. e.queue[i] = s.queue[i] /\ s.queue[i].slot \in SlotIds /\ s.queue[i].slot # c
            BY <2>5, <2>6, <5>2 DEF Submissions
          <6>2. s.slot[s.queue[i].slot].submitted
            BY <2>1, <5>2 DEF SlotsInTurn, m
          <6>. QED
            BY <2>4, <6>1, <6>2
        <5>. QED
          BY <2>5, <5>1, <5>2
      <4>. QED
        BY <4>1
    <3>3. \A i, j \in 1 .. m + 1 : e.queue[i].slot = e.queue[j].slot => i = j
      <4>1. ASSUME NEW i \in 1 .. m + 1, NEW j \in 1 .. m + 1, e.queue[i].slot = e.queue[j].slot PROVE i = j
        <5>1. CASE i \in 1 .. m /\ j \in 1 .. m
          BY <2>1, <2>5, <4>1, <5>1 DEF SlotsInTurn, m
        <5>2. CASE i = m + 1 /\ j \in 1 .. m
          BY <2>5, <2>6, <2>7, <4>1, <5>2
        <5>3. CASE i \in 1 .. m /\ j = m + 1
          BY <2>5, <2>6, <2>7, <4>1, <5>3
        <5>4. i = m + 1 \/ i \in 1 .. m
          BY <2>5
        <5>5. j = m + 1 \/ j \in 1 .. m
          BY <2>5
        <5>. QED
          BY <5>1, <5>2, <5>3, <5>4, <5>5
      <4>. QED
        BY <4>1
    <3>. QED
      BY <2>2, <2>5, <3>1, <3>2, <3>3 DEF SlotsInTurn
  <2>9. FreesWait(e, {})
    <3>1. ASSUME NEW k \in SlotIds, NEW i \in e.slot[k].frees PROVE UsedBy(e, i, k)
      <4>1. UsedBy(s, i, k)
        BY <2>1, <2>4 DEF FreesWait
      <4>2. ASSUME NEW x \in 1 .. m + 1, i \in e.queue[x].images PROVE e.queue[x].slot = k
        <5>1. CASE x = m + 1
          BY <2>7, <4>1, <4>2, <5>1 DEF UsedBy
        <5>2. CASE x \in 1 .. m
          BY <2>5, <4>1, <4>2, <5>2 DEF UsedBy, m
        <5>. QED
          BY <2>5, <5>1, <5>2
      <4>. QED
        BY <2>2, <2>5, <4>2 DEF UsedBy
    <3>. QED
      BY <3>1 DEF FreesWait
  <2>10. FreedUnused(e)
    <3>1. ASSUME NEW i \in s.freed, i \notin s.atOnce, NEW x \in 1 .. m + 1, i \in e.queue[x].images PROVE FALSE
      <4>1. ~ Used(s, i)
        BY <2>1, <3>1 DEF FreedUnused
      <4>2. CASE x = m + 1
        BY <2>7, <3>1, <4>1, <4>2 DEF Used
      <4>3. CASE x \in 1 .. m
        BY <2>5, <3>1, <4>1, <4>3 DEF Used, m
      <4>. QED
        BY <2>5, <4>2, <4>3
    <3>. QED
      BY <2>2, <2>5, <3>1 DEF FreedUnused, Used
  <2>11. Kept(e, live, n)
    BY <2>1, <2>2, <2>4 DEF Kept
  <2>. QED
    BY <2>2, <2>8, <2>9, <2>10, <2>11 DEF Good, e
<1>. QED
  BY <1>1, <1>2

\* Waiting for the last submission leaves no work at all.
LEMMA WaitGood ==
  ASSUME NEW s, NEW live, NEW n, Good(s, live, n), Current(s).recording
  PROVE  Good(SubmitAndWait(s), live, n)
<1>. DEFINE e == SubmitAndWait(s)
            c == s.current
<1>1. /\ s \in Streams /\ c \in SlotIds
      /\ s.slot \in [SlotIds -> [recording : BOOLEAN, submitted : BOOLEAN, frees : SUBSET Images]]
      /\ SlotsInTurn(s) /\ Kept(s, live, n)
  BY GoodIs
<1>2. /\ e \in Streams /\ e.recorded = {} /\ e.queue = << >>
      /\ e.freed = s.freed \cup s.slot[c].frees
      /\ e.slot = [s.slot EXCEPT ![c] = FreshSlot]
  BY <1>1, WaitIs
<1>. HIDE DEF e
<1>3. /\ \A k \in SlotIds \ {c} : e.slot[k] = s.slot[k]
      /\ ~ e.slot[c].recording /\ e.slot[c].frees = {}
  BY <1>1, <1>2 DEF FreshSlot
<1>4. Len(e.queue) = 0
  BY <1>2
<1>5. \A k \in SlotIds : ~ e.slot[k].recording
  BY <1>1, <1>3 DEF SlotsInTurn
<1>6. SlotsInTurn(e) /\ FreesWait(e, {}) /\ FreedUnused(e)
  BY <1>2, <1>4, <1>5 DEF SlotsInTurn, FreesWait, FreedUnused, UsedBy, Used
<1>7. Kept(e, live, n)
  <2>1. \A k, l \in SlotIds : \A i \in e.slot[k].frees : i \in e.slot[l].frees => k = l
    BY <1>1, <1>3 DEF Kept
  <2>2. \A i \in live : i \notin e.freed /\ \A k \in SlotIds : i \notin e.slot[k].frees
    BY <1>1, <1>2, <1>3 DEF Kept
  <2>3. \A i \in e.freed : \A k \in SlotIds : i \notin e.slot[k].frees
    BY <1>1, <1>2, <1>3 DEF Kept
  <2>4. ASSUME NEW i \in Images
        PROVE  (i \in s.freed \/ \E k \in SlotIds : i \in s.slot[k].frees) <=> (i \in e.freed \/ \E k \in SlotIds : i \in e.slot[k].frees)
    BY <1>1, <1>2, <1>3
  <2>5. \A i \in Images : i <= n <=> i \in live \/ i \in e.freed \/ \E k \in SlotIds : i \in e.slot[k].frees
    BY <1>1, <2>4 DEF Kept
  <2>. QED
    BY <2>1, <2>2, <2>3, <2>5 DEF Kept
<1>. QED
  BY <1>2, <1>6, <1>7 DEF Good, e

\* A command may use an image that a texture stands for.
LEMMA RecordGood ==
  ASSUME NEW s, NEW live, NEW n, Good(s, live, n), NEW i \in live, i \in Images
  PROVE  Good(Record(s, i), live, n) /\ Current(Record(s, i)).recording
<1>. DEFINE b == BeginSlot(s)
            e == Record(s, i)
<1>1. Good(b, live, n) /\ b.slot[b.current].recording
  BY BeginGood DEF Current
<1>2. e = [b EXCEPT !.recorded = @ \cup {i}]
  BY DEF Record
<1>. HIDE DEF b, e
<1>3. /\ b \in Streams /\ SlotsInTurn(b) /\ FreesWait(b, {}) /\ FreedUnused(b) /\ Kept(b, live, n)
  BY <1>1, GoodIs
<1>4. /\ e \in Streams /\ e.slot = b.slot /\ e.current = b.current /\ e.queue = b.queue
      /\ e.recorded = b.recorded \cup {i} /\ e.freed = b.freed /\ e.atOnce = b.atOnce
  BY <1>2, <1>3 DEF Streams
<1>5. SlotsInTurn(e)
  BY <1>1, <1>3, <1>4 DEF SlotsInTurn
<1>6. FreesWait(e, {})
  BY <1>3, <1>4 DEF FreesWait, UsedBy, Kept
<1>7. FreedUnused(e)
  BY <1>3, <1>4 DEF FreedUnused, Used, Kept
<1>8. Kept(e, live, n)
  BY <1>3, <1>4 DEF Kept
<1>. QED
  BY <1>1, <1>4, <1>5, <1>6, <1>7, <1>8 DEF Good, Current, e

\* How full the ring and the pool are does not matter to a good stream.
LEMMA FillGood ==
  ASSUME NEW s, NEW live, NEW n, Good(s, live, n), NEW ring \in Nat, NEW sets \in Nat, NEW e,
         e = [s EXCEPT !.ring = ring] \/ e = [s EXCEPT !.sets = sets]
  PROVE  Good(e, live, n) /\ e.current = s.current /\ Current(e) = Current(s)
<1>1. s \in Streams /\ SlotsInTurn(s) /\ FreesWait(s, {}) /\ FreedUnused(s) /\ Kept(s, live, n)
  BY GoodIs
<1>2. /\ e \in Streams /\ e.slot = s.slot /\ e.current = s.current /\ e.queue = s.queue
      /\ e.recorded = s.recorded /\ e.freed = s.freed /\ e.atOnce = s.atOnce
  BY <1>1 DEF Streams
<1>3. SlotsInTurn(e)
  BY <1>1, <1>2 DEF SlotsInTurn
<1>4. FreesWait(e, {})
  BY <1>1, <1>2 DEF FreesWait, UsedBy
<1>5. FreedUnused(e)
  BY <1>1, <1>2 DEF FreedUnused, Used
<1>6. Kept(e, live, n)
  BY <1>1, <1>2 DEF Kept
<1>. QED
  BY <1>2, <1>3, <1>4, <1>5, <1>6 DEF Good, Current

-----------------------------------------------------------------------------
(* The ring and the pool of a slot                                          *)

\* A new slot of a good stream has an empty ring.
LEMMA RestartGood ==
  ASSUME NEW s, NEW live, NEW n, Good(s, live, n), Current(s).recording
  PROVE  /\ Good(RestartSlot(s), live, n) /\ Current(RestartSlot(s)).recording
         /\ RestartSlot(s).ring = 0 /\ RestartSlot(s).sets = 0
<1>. DEFINE e == Submit(s)
<1>1. Good(e, live, n)
  BY SubmitGood
<1>2. ~ Current(e).recording
  <2>1. s \in Streams /\ s.current \in SlotIds /\ SlotsInTurn(s)
        /\ s.slot \in [SlotIds -> [recording : BOOLEAN, submitted : BOOLEAN, frees : SUBSET Images]]
    BY GoodIs
  <2>2. e \in Streams /\ e.slot = [s.slot EXCEPT ![s.current] = SubmittedSlot(s.slot[s.current].frees)]
    BY <2>1, SubmitIs
  <2>. HIDE DEF e
  <2>3. e.current \in SlotIds
    BY <2>2 DEF Streams
  <2>4. \A k \in SlotIds : ~ e.slot[k].recording
    BY <2>1, <2>2 DEF SlotsInTurn, SubmittedSlot
  <2>. QED
    BY <2>3, <2>4 DEF Current
<1>3. e \in Streams
  BY <1>1, GoodIs
<1>. HIDE DEF e
<1>4. Good(BeginSlot(e), live, n) /\ Current(BeginSlot(e)).recording
  BY <1>1, BeginGood
<1>5. BeginSlot(e).ring = 0 /\ BeginSlot(e).sets = 0
  BY <1>2, <1>3, BeginIs
<1>6. RestartSlot(s) = BeginSlot(e)
  BY DEF RestartSlot, e
<1>. QED
  BY <1>4, <1>5, <1>6

LEMMA EnsureGood ==
  ASSUME NEW s, NEW live, NEW n, Good(s, live, n), NEW m \in Nat, m <= RingSize
  PROVE  LET e == EnsureSpace(s, m)
         IN Good(e, live, n) /\ Current(e).recording /\ e.ring + m <= RingSize
<1>. DEFINE b == BeginSlot(s)
            e == EnsureSpace(s, m)
<1>1. Good(b, live, n) /\ Current(b).recording
  BY BeginGood
<1>2. e = IF b.ring + m > RingSize THEN RestartSlot(b) ELSE b
  BY DEF EnsureSpace
<1>3. b.ring \in Nat
  BY <1>1 DEF Good, Streams
<1>. HIDE DEF b, e
<1>4. CASE b.ring + m > RingSize
  <2>1. e = RestartSlot(b)
    BY <1>2, <1>4
  <2>. QED
    BY <1>1, <2>1, RestartGood DEF e
<1>5. CASE ~ (b.ring + m > RingSize)
  <2>1. e = b
    BY <1>2, <1>5
  <2>. QED
    BY <1>1, <1>3, <1>5, <2>1, StreamAssumption DEF e
<1>. QED
  BY <1>4, <1>5 DEF e

LEMMA AllocateSetGood ==
  ASSUME NEW s, NEW live, NEW n, Good(s, live, n), Current(s).recording
  PROVE  LET e == AllocateSet(s)
         IN Good(e, live, n) /\ Current(e).recording /\ e.ring \in Nat /\ e.ring <= s.ring
<1>. DEFINE r == IF s.sets = PoolSets THEN RestartSlot(s) ELSE s
            e == AllocateSet(s)
<1>1. e = [r EXCEPT !.sets = r.sets + 1]
  BY DEF AllocateSet, BeginSlot
<1>2. s.ring \in Nat
  BY DEF Good, Streams
<1>3. Good(r, live, n) /\ Current(r).recording /\ r.ring <= s.ring
  BY <1>2, RestartGood
<1>. HIDE DEF r, e
<1>4. r \in Streams /\ r.ring \in Nat /\ r.sets + 1 \in Nat
  BY <1>3 DEF Good, Streams
<1>5. Good(e, live, n) /\ Current(e) = Current(r)
  BY <1>1, <1>3, <1>4, FillGood
<1>6. e.ring = r.ring
  BY <1>1, <1>4 DEF Streams
<1>. QED
  BY <1>3, <1>4, <1>5, <1>6 DEF e

\* A block fits in the ring of one slot: this one while there is room.
LEMMA AllocateGood ==
  ASSUME NEW s, NEW live, NEW n, Good(s, live, n), NEW m \in Nat, NEW a \in Nat \ {0}
  PROVE  LET e == Allocate(s, m, a)
         IN /\ Good(e, live, n) /\ Current(e).recording
            /\ Current(s).recording /\ s.ring + AlignUp(m, a) + a <= RingSize =>
                 e.current = s.current /\ e.ring <= s.ring + AlignUp(m, a) + a
<1>. DEFINE b == BeginSlot(s)
            offset == AlignUp(b.ring, a)
            r == IF offset + m > RingSize THEN RestartSlot(b) ELSE b
            ring == IF offset + m > RingSize THEN m ELSE offset + m
            e == Allocate(s, m, a)
<1>1. Good(b, live, n) /\ Current(b).recording /\ b.ring \in Nat
  <2>1. Good(b, live, n) /\ Current(b).recording
    BY BeginGood
  <2>. HIDE DEF b
  <2>. QED
    BY <2>1 DEF Good, Streams
<1>2. e = [r EXCEPT !.ring = ring]
  BY DEF Allocate
<1>3. offset \in Nat /\ offset < b.ring + a
  <2>. HIDE DEF b
  <2>. QED
    BY <1>1, AlignFacts
<1>4. ring \in Nat
  <2>. HIDE DEF offset
  <2>. QED
    BY <1>3
<1>5. Good(r, live, n) /\ Current(r).recording
  BY <1>1, RestartGood
<1>6. ASSUME Current(s).recording, s.ring + AlignUp(m, a) + a <= RingSize
      PROVE  r = s /\ ring = offset + m /\ ring <= s.ring + AlignUp(m, a) + a
  <2>1. b = s
    BY <1>6 DEF BeginSlot
  <2>2. AlignUp(m, a) \in Nat /\ m <= AlignUp(m, a) /\ s.ring \in Nat
    BY <1>1, <2>1, AlignFacts
  <2>. HIDE DEF b, offset
  <2>3. offset + m <= s.ring + AlignUp(m, a) + a
    BY <1>3, <2>1, <2>2
  <2>4. ~ (offset + m > RingSize)
    BY <1>3, <1>6, <2>2, <2>3, StreamAssumption
  <2>. QED
    BY <2>1, <2>3, <2>4
<1>. HIDE DEF r, ring, e
<1>7. r \in Streams
  BY <1>5, GoodIs
<1>8. Good(e, live, n) /\ e.current = r.current /\ Current(e) = Current(r) /\ e.ring = ring
  <2>1. e.ring = ring
    BY <1>2, <1>7 DEF Streams
  <2>. QED
    BY <1>2, <1>4, <1>5, <2>1, FillGood
<1>. QED
  BY <1>5, <1>6, <1>8 DEF e

\* The function that UniformSpace defines exists, and is what it says.
LEMMA UniformSpaceIs ==
  ASSUME NEW sizes \in Seq(Nat)
  PROVE  \E f : /\ f[0] = 0 /\ UniformSpace(sizes) = f[Len(sizes)]
                /\ \A i \in 1 .. Len(sizes) : f[i] = f[i - 1] + AlignUp(sizes[i], UniformAlign) + UniformAlign
<1>. DEFINE Is(f, k) == f = [i \in 0 .. k |-> IF i = 0 THEN 0 ELSE f[i - 1] + AlignUp(sizes[i], UniformAlign) + UniformAlign]
            Have == {k \in Nat : \E f : Is(f, k)}
<1>1. 0 \in Have
  <2>. DEFINE f == [i \in 0 .. 0 |-> 0]
  <2>1. Is(f, 0)
    OBVIOUS
  <2>. QED
    BY <2>1
<1>2. ASSUME NEW k \in Nat, k \in Have PROVE k + 1 \in Have
  <2>1. PICK f : Is(f, k)
    BY <1>2
  <2>. DEFINE g == [i \in 0 .. k + 1 |-> IF i <= k THEN f[i] ELSE f[k] + AlignUp(sizes[k + 1], UniformAlign) + UniformAlign]
  <2>2. Is(g, k + 1)
    BY <2>1
  <2>. HIDE DEF Is
  <2>. QED
    BY <2>2
<1>3. Have = Nat
  <2>. HIDE DEF Have
  <2>1. Have \in SUBSET Nat
    BY DEF Have
  <2>. QED
    BY <1>1, <1>2, <2>1, SetInduction, Zenon
<1>. DEFINE n == Len(sizes)
            f == CHOOSE f : Is(f, n)
<1>4. n \in Nat
  OBVIOUS
<1>5. Is(f, n)
  BY <1>3, <1>4, Zenon
<1>6. UniformSpace(sizes) = f[n]
  BY Zenon DEF UniformSpace
<1>. HIDE DEF f
<1>7. f[0] = 0 /\ \A i \in 1 .. n : f[i] = f[i - 1] + AlignUp(sizes[i], UniformAlign) + UniformAlign
  BY <1>4, <1>5
<1>. QED
  BY <1>6, <1>7

\* And the one of PutUniforms.
LEMMA PutUniformsIs ==
  ASSUME NEW run, NEW sizes \in Seq(Nat)
  PROVE  \E f : /\ f[0] = run /\ PutUniforms(run, sizes) = f[Len(sizes)]
                /\ \A i \in 1 .. Len(sizes) : f[i] = Put(f[i - 1], sizes[i], UniformAlign)
<1>. DEFINE Is(f, k) == f = [i \in 0 .. k |-> IF i = 0 THEN run ELSE Put(f[i - 1], sizes[i], UniformAlign)]
            Have == {k \in Nat : \E f : Is(f, k)}
<1>1. 0 \in Have
  <2>. DEFINE f == [i \in 0 .. 0 |-> run]
  <2>1. Is(f, 0)
    OBVIOUS
  <2>. QED
    BY <2>1
<1>2. ASSUME NEW k \in Nat, k \in Have PROVE k + 1 \in Have
  <2>1. PICK f : Is(f, k)
    BY <1>2
  <2>. DEFINE g == [i \in 0 .. k + 1 |-> IF i <= k THEN f[i] ELSE Put(f[k], sizes[k + 1], UniformAlign)]
  <2>2. Is(g, k + 1)
    BY <2>1
  <2>. HIDE DEF Is
  <2>. QED
    BY <2>2
<1>3. Have = Nat
  <2>. HIDE DEF Have
  <2>1. Have \in SUBSET Nat
    BY DEF Have
  <2>. QED
    BY <1>1, <1>2, <2>1, SetInduction, Zenon
<1>. DEFINE n == Len(sizes)
            f == CHOOSE f : Is(f, n)
<1>4. n \in Nat
  OBVIOUS
<1>5. Is(f, n)
  BY <1>3, <1>4, Zenon
<1>6. PutUniforms(run, sizes) = f[n]
  BY Zenon DEF PutUniforms
<1>. HIDE DEF f
<1>7. f[0] = run /\ \A i \in 1 .. n : f[i] = Put(f[i - 1], sizes[i], UniformAlign)
  BY <1>4, <1>5
<1>. QED
  BY <1>6, <1>7

\* The space of the blocks grows with each of them.
LEMMA SpaceGrows ==
  ASSUME NEW sizes \in Seq(Nat), NEW f, f[0] = 0,
         \A i \in 1 .. Len(sizes) : f[i] = f[i - 1] + AlignUp(sizes[i], UniformAlign) + UniformAlign
  PROVE  \A k \in 0 .. Len(sizes) : f[k] \in Nat /\ \A j \in 0 .. k : f[j] <= f[k]
<1>. DEFINE n == Len(sizes)
            P(k) == f[k] \in Nat /\ \A j \in 0 .. k : f[j] \in Nat /\ f[j] <= f[k]
            S == {k \in Nat : k <= n => P(k)}
<1>1. 0 \in S
  OBVIOUS
<1>2. ASSUME NEW k \in Nat, k \in S PROVE k + 1 \in S
  <2>1. SUFFICES ASSUME k + 1 <= n PROVE P(k + 1)
    OBVIOUS
  <2>2. n \in Nat /\ k + 1 \in 1 .. n /\ k <= n /\ sizes[k + 1] \in Nat /\ (k + 1) - 1 = k
    BY <2>1
  <2>3. P(k)
    BY <1>2, <2>2
  <2>. DEFINE step == AlignUp(sizes[k + 1], UniformAlign)
  <2>4. step \in Nat /\ UniformAlign \in Nat
    BY <2>2, AlignFacts, StreamAssumption
  <2>5. f[k + 1] = f[k] + step + UniformAlign
    BY <2>2
  <2>. HIDE DEF step
  <2>6. f[k + 1] \in Nat /\ f[k] <= f[k + 1]
    BY <2>3, <2>4, <2>5
  <2>7. ASSUME NEW j \in 0 .. k + 1 PROVE f[j] \in Nat /\ f[j] <= f[k + 1]
    <3>1. CASE j = k + 1
      BY <2>6, <3>1
    <3>2. CASE j \in 0 .. k
      <4>1. f[j] \in Nat /\ f[j] <= f[k] /\ f[k] \in Nat
        BY <2>3, <3>2
      <4>2. j <= n /\ j \in Nat
        BY <2>2, <3>2
      <4>. QED
        BY <2>4, <2>5, <4>1
    <3>. QED
      BY <3>1, <3>2
  <2>. QED
    BY <2>6, <2>7
<1>3. S = Nat
  <2>. HIDE DEF S
  <2>1. S \in SUBSET Nat
    BY DEF S
  <2>. QED
    BY <1>1, <1>2, <2>1, SetInduction, Zenon
<1>. QED
  BY <1>3

\* What is within a bound stays so when the same is added to both.
LEMMA BothGrow ==
  ASSUME NEW r \in Nat, NEW bound \in Nat, r <= bound, NEW a \in Nat, NEW b \in Nat
  PROVE  r + a + b \in Nat /\ r + a + b <= bound + a + b
OBVIOUS

LEMMA RoomIsLeft ==
  ASSUME NEW r \in Nat, NEW s \in Nat, NEW a \in Nat, NEW b \in Nat, NEW bound \in Nat,
         r <= s, s + (a + b) <= bound
  PROVE  r + a + b <= bound /\ r + b <= bound
OBVIOUS

\* The blocks of a draw whose space is reserved all go to the slot that records.
LEMMA UniformsGood ==
  ASSUME NEW run, NEW live, NEW n, Good(run.s, live, n), Current(run.s).recording,
         NEW sizes \in Seq(Nat), run.s.ring \in Nat, run.s.ring + UniformSpace(sizes) <= RingSize,
         run.slots = {run.s.current}
  PROVE  LET e == PutUniforms(run, sizes)
         IN /\ Good(e.s, live, n) /\ Current(e.s).recording /\ e.slots = {e.s.current}
            /\ UniformSpace(sizes) \in Nat /\ e.s.ring <= run.s.ring + UniformSpace(sizes)
<1>. DEFINE len == Len(sizes)
            c == run.s.current
            used == run.s.ring
<1>1. PICK f : /\ f[0] = 0 /\ UniformSpace(sizes) = f[len]
               /\ \A i \in 1 .. len : f[i] = f[i - 1] + AlignUp(sizes[i], UniformAlign) + UniformAlign
  BY UniformSpaceIs
<1>2. PICK g : /\ g[0] = run /\ PutUniforms(run, sizes) = g[len]
               /\ \A i \in 1 .. len : g[i] = Put(g[i - 1], sizes[i], UniformAlign)
  BY PutUniformsIs
<1>3. len \in Nat /\ \A k \in 0 .. len : f[k] \in Nat /\ f[k] <= f[len]
  BY <1>1, SpaceGrows
<1>. DEFINE P(k) == /\ Good(g[k].s, live, n) /\ Current(g[k].s).recording /\ g[k].s.current = c
                    /\ g[k].slots = {c} /\ g[k].s.ring <= used + f[k]
            S == {k \in Nat : k <= len => P(k)}
<1>4. 0 \in S
  BY <1>1, <1>2
<1>5. ASSUME NEW k \in Nat, k \in S PROVE k + 1 \in S
  <2>1. SUFFICES ASSUME k + 1 <= len PROVE P(k + 1)
    OBVIOUS
  <2>2. k + 1 \in 1 .. len /\ k <= len /\ (k + 1) - 1 = k /\ k \in 0 .. len /\ k + 1 \in 0 .. len
    BY <1>3, <2>1
  <2>3. P(k)
    BY <1>5, <2>2
  <2>. DEFINE size == sizes[k + 1]
              step == AlignUp(size, UniformAlign)
              s == g[k].s
              e == Allocate(s, size, UniformAlign)
  <2>4. size \in Nat /\ UniformAlign \in Nat \ {0} /\ step \in Nat
    <3>1. size \in Nat /\ UniformAlign \in Nat \ {0}
      BY <2>2, StreamAssumption
    <3>. HIDE DEF size
    <3>. QED
      BY <3>1, AlignFacts
  <2>5. f[k + 1] = f[k] + step + UniformAlign /\ f[k] \in Nat /\ f[k + 1] \in Nat /\ f[k + 1] <= f[len] /\ f[len] \in Nat
    BY <1>1, <1>3, <2>2
  <2>6. g[k + 1] = [s |-> e, slots |-> {c} \cup {e.current}]
    <3>1. g[k + 1] = Put(g[k], size, UniformAlign)
      BY <1>2, <2>2
    <3>2. g[k].slots = {c}
      BY <2>3
    <3>. HIDE DEF size, c
    <3>. QED
      BY <3>1, <3>2 DEF Put
  <2>. HIDE DEF size, step, s
  <2>7. s.ring \in Nat /\ s.ring <= used + f[k]
    BY <2>3 DEF Good, Streams, s
  <2>. DEFINE full == s.ring + step + UniformAlign
  <2>14. used \in Nat /\ used + f[len] <= RingSize /\ RingSize \in Nat
    BY <1>1, StreamAssumption
  <2>15. full \in Nat /\ full <= used + f[k + 1] /\ full <= used + f[len]
    <3>. HIDE DEF used, step, len
    <3>2. used + f[k + 1] = used + f[k] + step + UniformAlign
      BY <2>4, <2>5, <2>14
    <3>0. UniformAlign \in Nat /\ used + f[k] \in Nat
      BY <2>4, <2>5, <2>14
    <3>1. full \in Nat
      BY <2>4, <2>7, <3>0, BothGrow, Zenon
    <3>3. full <= used + f[k] + step + UniformAlign
      BY <2>4, <2>7, <3>0, BothGrow, Zenon
    <3>4. used + f[k + 1] <= used + f[len] /\ used + f[k + 1] \in Nat /\ used + f[len] \in Nat
      BY <2>5, <2>14
    <3>. HIDE DEF full
    <3>. QED
      BY <3>1, <3>2, <3>3, <3>4
  <2>8. full <= RingSize
    <3>. HIDE DEF full, used
    <3>. QED
      BY <2>5, <2>14, <2>15
  <2>9. /\ Good(e, live, n) /\ Current(e).recording
        /\ e.current = s.current /\ e.ring <= s.ring + step + UniformAlign
    BY <2>3, <2>4, <2>8, AllocateGood DEF s, step
  <2>10. e.ring \in Nat
    BY <2>9 DEF Good, Streams
  <2>11. e.ring <= used + f[k + 1]
    <3>. HIDE DEF e, used
    <3>1. e.ring <= full
      BY <2>9
    <3>. HIDE DEF full
    <3>. QED
      BY <2>5, <2>10, <2>14, <2>15, <3>1
  <2>. HIDE DEF e
  <2>12. g[k + 1].s = e /\ g[k + 1].slots = {c} \cup {e.current}
    BY <2>6
  <2>13. e.current = c
    BY <2>3, <2>9 DEF s
  <2>. QED
    BY <2>9, <2>11, <2>12, <2>13
<1>6. S = Nat
  <2>. HIDE DEF S
  <2>1. S \in SUBSET Nat
    BY DEF S
  <2>. QED
    BY <1>4, <1>5, <2>1, SetInduction, Zenon
<1>7. P(len)
  BY <1>3, <1>6
<1>8. len \in 0 .. len
  BY <1>3
<1>. QED
  BY <1>1, <1>2, <1>3, <1>7, <1>8

-----------------------------------------------------------------------------
(* Every step keeps the invariant                                           *)

LEMMA InitStream == Init => StreamInv
<1>. SUFFICES ASSUME Init PROVE StreamInv
  OBVIOUS
<1>. DEFINE fresh == [k \in 0 .. Slots - 1 |-> FreshSlot]
<1>1. /\ 0 \in SlotIds /\ fresh \in [SlotIds -> [recording : BOOLEAN, submitted : BOOLEAN, frees : SUBSET Images]]
      /\ \A k \in SlotIds : ~ fresh[k].recording /\ fresh[k].frees = {}
  BY StreamAssumption DEF SlotIds, FreshSlot
<1>2. /\ stream.slot = fresh /\ stream.current = 0 /\ stream.queue = << >> /\ stream.recorded = {}
      /\ stream.freed = {} /\ stream.atOnce = {} /\ stream.ring = 0 /\ stream.sets = 0
  BY DEF Init
<1>3. stream \in Streams
  <2>. HIDE DEF fresh
  <2>1. stream = [slot |-> fresh, current |-> 0, ring |-> 0, sets |-> 0, queue |-> << >>,
                  recorded |-> {}, freed |-> {}, atOnce |-> {}]
    BY DEF Init, fresh
  <2>. QED
    BY <1>1, <2>1 DEF Streams
<1>. HIDE DEF fresh
<1>4. Len(stream.queue) = 0
  BY <1>2
<1>5. SlotsInTurn(stream) /\ FreesWait(stream, {}) /\ FreedUnused(stream)
  BY <1>1, <1>2, <1>4 DEF SlotsInTurn, FreesWait, FreedUnused
<1>6. /\ image \in [Textures -> Images \cup {NoImage}] /\ created = 0 /\ destroying = FALSE /\ drawn = {}
      /\ \A t \in Textures : image[t] = NoImage
  BY DEF Init
<1>7. LiveImages = {}
  BY <1>6 DEF LiveImages, Images, NoImage
<1>8. Kept(stream, LiveImages, created)
  BY <1>1, <1>2, <1>6, <1>7 DEF Kept, Images
<1>9. created \in 0 .. MaxImages
  BY <1>6, StreamAssumption
<1>. QED
  BY <1>3, <1>5, <1>6, <1>8, <1>9 DEF StreamInv

LEMMA InvIsGood ==
  ASSUME StreamInv, ~ destroying
  PROVE  Good(stream, LiveImages, created)
  BY DEF StreamInv, Good

LEMMA LiveIs ==
  ASSUME StreamInv, NEW t \in Textures, Live(t)
  PROVE  image[t] \in LiveImages /\ image[t] \in Images
  BY DEF StreamInv, Live, LiveImages

\* A step that uses the stream and leaves the textures as they are.
LEMMA StreamStep ==
  ASSUME StreamInv, ~ destroying, UNCHANGED <<image, created, destroying>>,
         Good(stream', LiveImages, created), \A i, j \in drawn' : i = j
  PROVE  StreamInv'
<1>1. LiveImages' = LiveImages
  BY DEF LiveImages
<1>2. /\ stream' \in Streams /\ SlotsInTurn(stream') /\ FreesWait(stream', {}) /\ FreedUnused(stream')
      /\ Kept(stream', LiveImages, created)
  BY DEF Good
<1>. QED
  BY <1>1, <1>2 DEF StreamInv

LEMMA UploadInv == ASSUME StreamInv, NEW t \in Textures, UploadTexture(t) PROVE StreamInv'
<1>1. ~ destroying /\ Live(t) /\ UNCHANGED <<image, created, destroying, drawn>>
  BY DEF UploadTexture
<1>2. PICK m \in Uploads : stream' = Record(Allocate(stream, m, VertexAlign), image[t])
  BY DEF UploadTexture
<1>3. Good(stream, LiveImages, created) /\ image[t] \in LiveImages /\ image[t] \in Images
  BY <1>1, InvIsGood, LiveIs
<1>4. m \in Nat /\ VertexAlign \in Nat \ {0}
  BY StreamAssumption
<1>5. Good(Allocate(stream, m, VertexAlign), LiveImages, created)
  BY <1>3, <1>4, AllocateGood
<1>6. Good(stream', LiveImages, created)
  BY <1>2, <1>3, <1>5, RecordGood
<1>7. \A i, j \in drawn' : i = j
  BY <1>1 DEF StreamInv
<1>. QED
  BY <1>1, <1>6, <1>7, StreamStep

\* Space and set come first, so that the parts of a draw share one slot.
LEMMA DrawInv ==
  ASSUME StreamInv, NEW t \in Textures, NEW u \in Textures, NEW d \in Draws, Draw(t, u, d)
  PROVE  StreamInv'
<1>. DEFINE r0 == Record(Record(stream, image[t]), image[u])
            s0 == EnsureSpace(r0, Needed(d))
            s1 == AllocateSet(s0)
            first == [s |-> s1, slots |-> {s1.current}]
            uniforms == PutUniforms(first, d.uniforms)
            all == Put(uniforms, d.vertices, VertexAlign)
            G(s) == Good(s, LiveImages, created) /\ Current(s).recording
<1>1. ~ destroying /\ Live(t) /\ Live(u) /\ UNCHANGED <<image, created, destroying>>
  BY DEF Draw
<1>2. stream' = Record(Record(all.s, image[t]), image[u]) /\ drawn' = all.slots
  BY DEF Draw
<1>3. Good(stream, LiveImages, created)
  BY <1>1, InvIsGood
<1>4. image[t] \in LiveImages /\ image[t] \in Images /\ image[u] \in LiveImages /\ image[u] \in Images
  BY <1>1, LiveIs
<1>5. G(r0)
  BY <1>3, <1>4, RecordGood
<1>. DEFINE v == AlignUp(d.vertices, VertexAlign) + VertexAlign
<1>6. d.uniforms \in Seq(Nat) /\ d.vertices \in Nat /\ VertexAlign \in Nat \ {0}
  BY StreamAssumption
<1>7. v \in Nat
  <2>1. AlignUp(d.vertices, VertexAlign) \in Nat
    BY <1>6, AlignFacts
  <2>. QED
    BY <1>6, <2>1
<1>8. UniformSpace(d.uniforms) \in Nat
  <2>1. PICK f : /\ f[0] = 0 /\ UniformSpace(d.uniforms) = f[Len(d.uniforms)]
                 /\ \A i \in 1 .. Len(d.uniforms) : f[i] = f[i - 1] + AlignUp(d.uniforms[i], UniformAlign) + UniformAlign
    BY <1>6, UniformSpaceIs
  <2>2. Len(d.uniforms) \in 0 .. Len(d.uniforms)
    BY <1>6
  <2>. QED
    <3>1. \A k \in 0 .. Len(d.uniforms) : f[k] \in Nat
      BY <1>6, <2>1, SpaceGrows
    <3>. QED
      BY <2>1, <2>2, <3>1
<1>9. Needed(d) = v + UniformSpace(d.uniforms) /\ Needed(d) <= RingSize
  BY DrawAssumption DEF Needed
<1>. DEFINE space == UniformSpace(d.uniforms)
<1>10. Needed(d) \in Nat
  <2>. HIDE DEF v, space
  <2>. QED
    BY <1>7, <1>8, <1>9 DEF space
<1>. HIDE DEF r0
<1>11. G(s0) /\ s0.ring + Needed(d) <= RingSize
  BY <1>5, <1>9, <1>10, EnsureGood
<1>. HIDE DEF s0
<1>12. G(s1) /\ s1.ring \in Nat /\ s1.ring <= s0.ring
  BY <1>11, AllocateSetGood
<1>13. s0.ring \in Nat
  BY <1>11 DEF Good, Streams
<1>. HIDE DEF s1
<1>14. s1.ring + v + space <= RingSize /\ s1.ring + space <= RingSize
  <2>1. space \in Nat /\ RingSize \in Nat /\ s0.ring + (v + space) <= RingSize
    BY <1>8, <1>9, <1>11, StreamAssumption
  <2>. HIDE DEF v, space
  <2>. QED
    BY <1>7, <1>12, <1>13, <2>1, RoomIsLeft, Zenon
<1>15. s1.ring + space <= RingSize
  BY <1>14
<1>16. first.s = s1 /\ first.slots = {s1.current}
  OBVIOUS
<1>. HIDE DEF first
<1>17. G(uniforms.s) /\ uniforms.slots = {uniforms.s.current} /\ uniforms.s.ring <= s1.ring + space
  BY <1>6, <1>12, <1>15, <1>16, UniformsGood
<1>18. uniforms.s.ring \in Nat
  BY <1>17 DEF Good, Streams
<1>. HIDE DEF uniforms
<1>19. uniforms.s.ring + v <= RingSize
  <2>. HIDE DEF v, space
  <2>. QED
    BY <1>7, <1>8, <1>12, <1>14, <1>17, <1>18, StreamAssumption DEF space
<1>20. uniforms.s.ring + AlignUp(d.vertices, VertexAlign) + VertexAlign <= RingSize
  <2>1. AlignUp(d.vertices, VertexAlign) \in Nat
    BY <1>6, AlignFacts
  <2>. QED
    BY <1>6, <1>18, <1>19, <2>1
<1>. DEFINE e == Allocate(uniforms.s, d.vertices, VertexAlign)
<1>21. G(e) /\ e.current = uniforms.s.current
  <2>1. Good(uniforms.s, LiveImages, created) /\ Current(uniforms.s).recording
    BY <1>17
  <2>. HIDE DEF e
  <2>2. Good(e, LiveImages, created) /\ Current(e).recording /\ e.current = uniforms.s.current
    <3>1. d.vertices \in Nat /\ VertexAlign \in Nat \ {0}
      BY <1>6
    <3>. QED
      BY <1>20, <2>1, <3>1, AllocateGood, Zenon DEF e
  <2>. QED
    BY <2>2
<1>22. all.s = e /\ all.slots = {uniforms.s.current} \cup {e.current}
  BY <1>17 DEF Put
<1>. HIDE DEF e, all
<1>23. Good(stream', LiveImages, created)
  BY <1>2, <1>4, <1>21, <1>22, RecordGood
<1>24. \A i, j \in drawn' : i = j
  BY <1>2, <1>21, <1>22
<1>. QED
  BY <1>1, <1>23, <1>24, StreamStep

LEMMA EndFrameInv == ASSUME StreamInv, NEW t \in Textures, EndFrame(t) PROVE StreamInv'
<1>1. /\ ~ destroying /\ Live(t) /\ UNCHANGED <<image, created, destroying, drawn>>
      /\ stream' = Submit(Record(stream, image[t]))
  BY DEF EndFrame
<1>2. Good(stream, LiveImages, created) /\ image[t] \in LiveImages /\ image[t] \in Images
  BY <1>1, InvIsGood, LiveIs
<1>3. Good(stream', LiveImages, created)
  BY <1>1, <1>2, RecordGood, SubmitGood
<1>4. \A i, j \in drawn' : i = j
  BY <1>1 DEF StreamInv
<1>. QED
  BY <1>1, <1>3, <1>4, StreamStep

LEMMA ReadInv == ASSUME StreamInv, NEW t \in Textures, ReadTexture(t) PROVE StreamInv'
<1>1. /\ ~ destroying /\ Live(t) /\ UNCHANGED <<image, created, destroying, drawn>>
      /\ stream' = SubmitAndWait(Record(stream, image[t]))
  BY DEF ReadTexture
<1>2. Good(stream, LiveImages, created) /\ image[t] \in LiveImages /\ image[t] \in Images
  BY <1>1, InvIsGood, LiveIs
<1>3. Good(stream', LiveImages, created)
  BY <1>1, <1>2, RecordGood, WaitGood
<1>4. \A i, j \in drawn' : i = j
  BY <1>1 DEF StreamInv
<1>. QED
  BY <1>1, <1>3, <1>4, StreamStep

\* The next image was never used, so it waits nowhere.
LEMMA CreateInv == ASSUME StreamInv, NEW t \in Textures, CreateTexture(t) PROVE StreamInv'
<1>1. /\ ~ destroying /\ image[t] = NoImage /\ created < MaxImages /\ created' = created + 1
      /\ image' = [image EXCEPT ![t] = created + 1] /\ UNCHANGED <<stream, drawn, destroying>>
  BY DEF CreateTexture, Live
<1>2. /\ image \in [Textures -> Images \cup {NoImage}] /\ created \in 0 .. MaxImages
      /\ \A v, u \in Textures : image[v] = image[u] /\ image[v] # NoImage => v = u
      /\ Kept(stream, LiveImages, created)
  BY DEF StreamInv
<1>3. created + 1 \in Images /\ created + 1 # NoImage /\ created + 1 > created
  BY <1>1, <1>2, StreamAssumption DEF Images, NoImage
<1>. DEFINE new == created + 1
<1>4. ~ (new <= created) /\ new \in Images /\ new # NoImage /\ \A i \in Images : i <= new <=> i <= created \/ i = new
  BY <1>2, <1>3 DEF Images
<1>. HIDE DEF new
<1>5. new \notin LiveImages /\ new \notin stream.freed /\ \A k \in SlotIds : new \notin stream.slot[k].frees
  BY <1>2, <1>4 DEF Kept
<1>6. LiveImages' = LiveImages \cup {new}
  <2>1. \A v \in Textures : image'[v] = IF v = t THEN new ELSE image[v]
    BY <1>1, <1>2 DEF new
  <2>. QED
    BY <1>1, <1>2, <1>4, <2>1 DEF LiveImages, Images, NoImage
<1>7. Kept(stream, LiveImages \cup {new}, new)
  <2>1. \A i \in Images : i <= new <=> i \in LiveImages \cup {new} \/ i \in stream.freed \/ \E k \in SlotIds : i \in stream.slot[k].frees
    BY <1>2, <1>4 DEF Kept
  <2>. QED
    BY <1>2, <1>5, <2>1 DEF Kept
<1>8. image' \in [Textures -> Images \cup {NoImage}]
  BY <1>1, <1>2, <1>4 DEF new
<1>9. ASSUME NEW v \in Textures, NEW u \in Textures, image'[v] = image'[u], image'[v] # NoImage PROVE v = u
  <2>1. \A w \in Textures : image[w] # new
    BY <1>4, <1>5 DEF LiveImages
  <2>2. \A w \in Textures : image'[w] = IF w = t THEN new ELSE image[w]
    BY <1>1, <1>2 DEF new
  <2>. QED
    BY <1>2, <1>9, <2>1, <2>2
<1>10. created' = new /\ created' \in 0 .. MaxImages
  BY <1>1, <1>2, StreamAssumption DEF new
<1>11. destroying' = FALSE /\ stream' = stream /\ drawn' = drawn /\ destroying = FALSE
  BY <1>1 DEF StreamInv
<1>12. Kept(stream', LiveImages', created')
  BY <1>6, <1>7, <1>10, <1>11
<1>. QED
  BY <1>8, <1>9, <1>10, <1>11, <1>12 DEF StreamInv

LEMMA DestroyInv == ASSUME StreamInv, NEW t \in Textures, DestroyTexture(t) PROVE StreamInv'
<1>. DEFINE old == image[t]
            c == stream.current
<1>1. /\ ~ destroying /\ old # NoImage /\ image' = [image EXCEPT ![t] = NoImage] /\ destroying' = TRUE
      /\ UNCHANGED <<created, drawn>>
      /\ stream' = IF Idle(stream)
                   THEN [stream EXCEPT !.freed = @ \cup {old}, !.atOnce = @ \cup {old}]
                   ELSE [stream EXCEPT !.slot[c].frees = @ \cup {old}]
  BY DEF DestroyTexture, Live
<1>2. /\ image \in [Textures -> Images \cup {NoImage}] /\ created \in 0 .. MaxImages
      /\ \A v, u \in Textures : image[v] = image[u] /\ image[v] # NoImage => v = u
      /\ stream \in Streams /\ SlotsInTurn(stream) /\ FreesWait(stream, {}) /\ FreedUnused(stream)
      /\ Kept(stream, LiveImages, created)
  BY <1>1 DEF StreamInv
<1>3. old \in LiveImages /\ old \in Images
  BY <1>2, <1>1, LiveIs DEF Live
<1>4. LiveImages' = LiveImages \ {old}
  <2>1. \A v \in Textures : image'[v] = IF v = t THEN NoImage ELSE image[v]
    BY <1>1, <1>2
  <2>2. \A v \in Textures : image[v] = old => v = t
    BY <1>1, <1>2
  <2>3. NoImage \notin Images
    BY DEF NoImage, Images
  <2>. QED
    BY <2>1, <2>2, <2>3 DEF LiveImages
<1>5. image' \in [Textures -> Images \cup {NoImage}]
  BY <1>1, <1>2
<1>6. \A v, u \in Textures : image'[v] = image'[u] /\ image'[v] # NoImage => v = u
  BY <1>1, <1>2
<1>7. c \in SlotIds /\ stream.slot \in [SlotIds -> [recording : BOOLEAN, submitted : BOOLEAN, frees : SUBSET Images]]
      /\ stream.queue \in Seq(Submissions)
  BY <1>2 DEF Streams
<1>. HIDE DEF old, c
<1>8. /\ stream' \in Streams /\ SlotsInTurn(stream') /\ FreesWait(stream', {c}) /\ FreedUnused(stream')
      /\ Kept(stream', LiveImages \ {old}, created) /\ stream'.current = c
  <2>1. CASE Idle(stream)
    <3>. DEFINE e == [stream EXCEPT !.freed = @ \cup {old}, !.atOnce = @ \cup {old}]
    <3>1. /\ e \in Streams /\ e.slot = stream.slot /\ e.current = c /\ e.queue = stream.queue
          /\ e.recorded = stream.recorded /\ e.freed = stream.freed \cup {old} /\ e.atOnce = stream.atOnce \cup {old}
      BY <1>2, <1>3 DEF Streams, c
    <3>2. stream' = e
      BY <1>1, <2>1
    <3>. HIDE DEF e
    <3>3. SlotsInTurn(e)
      BY <1>2, <3>1 DEF SlotsInTurn, c
    <3>4. FreesWait(e, {c})
      BY <1>2, <3>1 DEF FreesWait, UsedBy, c
    <3>5. FreedUnused(e)
      BY <1>2, <3>1 DEF FreedUnused, Used
    <3>6. Kept(e, LiveImages \ {old}, created)
      BY <1>2, <1>3, <3>1 DEF Kept
    <3>. QED
      BY <3>1, <3>2, <3>3, <3>4, <3>5, <3>6
  <2>2. CASE ~ Idle(stream)
    <3>. DEFINE e == [stream EXCEPT !.slot[c].frees = @ \cup {old}]
                next == [stream.slot EXCEPT ![c].frees = @ \cup {old}]
    <3>0. next \in [SlotIds -> [recording : BOOLEAN, submitted : BOOLEAN, frees : SUBSET Images]]
      BY <1>3, <1>7
    <3>1. /\ e \in Streams /\ e.slot = next /\ e.current = c /\ e.queue = stream.queue
          /\ e.recorded = stream.recorded /\ e.freed = stream.freed /\ e.atOnce = stream.atOnce
      <4>1. e = [stream EXCEPT !.slot = next]
        OBVIOUS
      <4>. HIDE DEF next, e
      <4>. QED
        BY <1>2, <3>0, <4>1 DEF Streams, c
    <3>2. stream' = e
      BY <1>1, <2>2 DEF c
    <3>3. /\ \A k \in SlotIds \ {c} : next[k] = stream.slot[k]
          /\ next[c].recording = stream.slot[c].recording /\ next[c].submitted = stream.slot[c].submitted
          /\ next[c].frees = stream.slot[c].frees \cup {old}
      BY <1>7
    <3>. HIDE DEF e, next
    <3>4. SlotsInTurn(e)
      <4>1. \A k \in SlotIds : (next[k].recording <=> stream.slot[k].recording) /\ (next[k].submitted <=> stream.slot[k].submitted)
        BY <3>3
      <4>2. \A i \in 1 .. Len(stream.queue) : stream.queue[i].slot \in SlotIds
        <5>1. \A i \in 1 .. Len(stream.queue) : stream.queue[i] \in Submissions
          BY <1>7
        <5>2. \A x \in Submissions : x.slot \in SlotIds
          BY DEF Submissions
        <5>. QED
          BY <5>1, <5>2
      <4>. QED
        BY <1>2, <1>7, <3>1, <4>1, <4>2 DEF SlotsInTurn, c
    <3>5. FreesWait(e, {c})
      BY <1>2, <3>1, <3>3 DEF FreesWait, UsedBy, c
    <3>6. FreedUnused(e)
      BY <1>2, <3>1 DEF FreedUnused, Used
    <3>7. Kept(e, LiveImages \ {old}, created)
      <4>1. \A k \in SlotIds : \A i : i \in e.slot[k].frees <=> i \in stream.slot[k].frees \/ (k = c /\ i = old)
        BY <3>1, <3>3
      <4>2. \A k, l \in SlotIds : \A i \in e.slot[k].frees : i \in e.slot[l].frees => k = l
        BY <1>2, <1>3, <4>1 DEF Kept
      <4>3. \A i \in LiveImages \ {old} : i \notin e.freed /\ \A k \in SlotIds : i \notin e.slot[k].frees
        BY <1>2, <1>3, <3>1, <4>1 DEF Kept
      <4>4. \A i \in e.freed : \A k \in SlotIds : i \notin e.slot[k].frees
        BY <1>2, <1>3, <3>1, <4>1 DEF Kept
      <4>5. \A i \in Images : i <= created <=> i \in LiveImages \ {old} \/ i \in e.freed \/ \E k \in SlotIds : i \in e.slot[k].frees
        BY <1>2, <1>3, <1>7, <3>1, <4>1 DEF Kept
      <4>. QED
        BY <4>2, <4>3, <4>4, <4>5 DEF Kept
    <3>. QED
      BY <3>1, <3>2, <3>4, <3>5, <3>6, <3>7
  <2>. QED
    BY <2>1, <2>2
<1>9. FreesWait(stream', IF destroying' THEN {stream'.current} ELSE {})
  BY <1>1, <1>8
<1>10. Kept(stream', LiveImages', created')
  BY <1>1, <1>4, <1>8
<1>11. destroying' \in BOOLEAN /\ drawn' = drawn /\ created' = created
  BY <1>1
<1>12. \A i, j \in drawn : i = j
  BY DEF StreamInv
<1>. QED
  BY <1>2, <1>5, <1>6, <1>8, <1>9, <1>10, <1>11, <1>12 DEF StreamInv

\* A step that only takes work off the queue.
LEMMA QueueStep ==
  ASSUME StreamInv, NEW r, NEW ks, EndOf(r, stream.queue, ks), stream' = [stream EXCEPT !.queue = r],
         UNCHANGED <<image, created, drawn>>, destroying' \in BOOLEAN,
         destroying' # destroying => /\ destroying /\ ks = {k \in SlotIds : k # stream.current /\ stream.slot[k].submitted}
  PROVE  StreamInv'
<1>. DEFINE but == IF destroying THEN {stream.current} ELSE {}
<1>1. /\ stream \in Streams /\ SlotsInTurn(stream) /\ FreesWait(stream, but) /\ FreedUnused(stream)
      /\ Kept(stream, LiveImages, created) /\ destroying \in BOOLEAN
  BY DEF StreamInv
<1>. HIDE DEF but
<1>2. /\ stream' \in Streams /\ SlotsInTurn(stream') /\ FreesWait(stream', but) /\ FreedUnused(stream')
      /\ Kept(stream', LiveImages, created)
  BY <1>1, ShorterQueue
<1>3. stream'.current = stream.current /\ stream'.queue = r /\ stream'.slot = stream.slot
  BY <1>1 DEF Streams
<1>4. LiveImages' = LiveImages
  BY DEF LiveImages
<1>5. FreesWait(stream', IF destroying' THEN {stream'.current} ELSE {})
  <2>1. CASE destroying' = destroying
    BY <1>2, <1>3, <2>1 DEF but
  <2>2. CASE destroying' # destroying
    <3>1. destroying' = FALSE /\ but = {stream'.current} /\ ks = {k \in SlotIds : k # stream.current /\ stream.slot[k].submitted}
      BY <1>1, <1>3, <2>2 DEF but
    <3>2. \A i \in 1 .. Len(r) : r[i].slot = stream'.current
      <4>1. \A i \in 1 .. Len(r) : r[i].slot \in SlotIds /\ r[i].slot \notin ks
        <5>1. \A i \in 1 .. Len(r) : r[i] \in Submissions /\ r[i].slot \notin ks
          BY DEF EndOf
        <5>2. \A x \in Submissions : x.slot \in SlotIds
          BY DEF Submissions
        <5>. QED
          BY <5>1, <5>2
      <4>2. \A i \in 1 .. Len(r) : stream.slot[r[i].slot].submitted
        BY <1>2, <1>3 DEF SlotsInTurn
      <4>. QED
        BY <1>3, <3>1, <4>1, <4>2
    <3>3. ASSUME NEW k \in SlotIds, NEW i \in stream'.slot[k].frees PROVE UsedBy(stream', i, k)
      <4>1. CASE k = stream'.current
        BY <1>3, <3>2, <4>1 DEF UsedBy
      <4>2. CASE k # stream'.current
        BY <1>2, <3>1, <4>2 DEF FreesWait
      <4>. QED
        BY <4>1, <4>2
    <3>. QED
      BY <3>1, <3>3 DEF FreesWait
  <2>. QED
    BY <2>1, <2>2
<1>. QED
  BY <1>2, <1>4, <1>5 DEF StreamInv

LEMMA WaitInv == ASSUME StreamInv, WaitForOtherSlots PROVE StreamInv'
<1>. DEFINE others == {k \in SlotIds : k # stream.current /\ stream.slot[k].submitted}
            r == AfterFences(stream.queue, others)
<1>1. /\ destroying /\ destroying' = FALSE /\ UNCHANGED <<image, created, drawn>>
      /\ stream' = [stream EXCEPT !.queue = r]
  BY DEF WaitForOtherSlots, SlotIds
<1>2. EndOf(r, stream.queue, others)
  BY FencesLeave DEF StreamInv, Streams
<1>. QED
  BY <1>1, <1>2, QueueStep

LEMMA GpuInv == ASSUME StreamInv, GpuFinishes PROVE StreamInv'
<1>. DEFINE r == Tail(stream.queue)
<1>1. stream.queue # << >> /\ stream' = [stream EXCEPT !.queue = r] /\ UNCHANGED <<image, created, destroying, drawn>>
  BY DEF GpuFinishes
<1>2. stream.queue \in Seq(Submissions)
  BY DEF StreamInv, Streams
<1>3. EndOf(r, stream.queue, {})
  <2>1. /\ r \in Seq(Submissions) /\ Len(r) + 1 = Len(stream.queue)
        /\ \A i \in 1 .. Len(r) : i + 1 \in 1 .. Len(stream.queue) /\ r[i] = stream.queue[i + 1]
    BY <1>1, <1>2
  <2>. HIDE DEF r
  <2>2. \E d \in Nat : Len(r) + d = Len(stream.queue) /\ \A i \in 1 .. Len(r) : i + d \in 1 .. Len(stream.queue) /\ r[i] = stream.queue[i + d]
    BY <2>1
  <2>. QED
    BY <2>1, <2>2 DEF EndOf
<1>4. destroying' \in BOOLEAN
  BY <1>1 DEF StreamInv
<1>. HIDE DEF r
<1>. QED
  BY <1>1, <1>3, <1>4, QueueStep

\* StreamInv holds in every state of the stream.
THEOREM StreamInvAlways == Spec => []StreamInv
<1>1. ASSUME StreamInv, [Next]_vars PROVE StreamInv'
  <2>1. CASE UNCHANGED vars
    <3>1. LiveImages' = LiveImages
      BY <2>1 DEF LiveImages, vars
    <3>. QED
      BY <1>1, <2>1, <3>1 DEF StreamInv, vars
  <2>2. ASSUME NEW t \in Textures, CreateTexture(t) PROVE StreamInv'
    BY <1>1, <2>2, CreateInv
  <2>3. ASSUME NEW t \in Textures, DestroyTexture(t) PROVE StreamInv'
    BY <1>1, <2>3, DestroyInv
  <2>4. ASSUME NEW t \in Textures, UploadTexture(t) PROVE StreamInv'
    BY <1>1, <2>4, UploadInv
  <2>5. ASSUME NEW t \in Textures, EndFrame(t) PROVE StreamInv'
    BY <1>1, <2>5, EndFrameInv
  <2>6. ASSUME NEW t \in Textures, ReadTexture(t) PROVE StreamInv'
    BY <1>1, <2>6, ReadInv
  <2>7. ASSUME NEW t \in Textures, NEW u \in Textures, NEW d \in Draws, Draw(t, u, d) PROVE StreamInv'
    BY <1>1, <2>7, DrawInv
  <2>8. CASE WaitForOtherSlots
    BY <1>1, <2>8, WaitInv
  <2>9. CASE GpuFinishes
    BY <1>1, <2>9, GpuInv
  <2>. QED
    BY <1>1, <2>1, <2>2, <2>3, <2>4, <2>5, <2>6, <2>7, <2>8, <2>9, Zenon DEF Next
<1>. QED
  BY <1>1, InitStream, PTL DEF Spec

-----------------------------------------------------------------------------
(* What it says                                                             *)

\* A set whose elements are equal has at most one, exactly one when it has any.
LEMMA OneAtMost ==
  ASSUME NEW S, \A i, j \in S : i = j
  PROVE  /\ S = {} => Cardinality(S) = 0
         /\ S # {} => Cardinality(S) = 1
         /\ Cardinality(S) <= 1
<1>1. CASE S = {}
  BY <1>1, FS_EmptySet
<1>2. CASE S # {}
  <2>1. PICK x \in S : TRUE
    BY <1>2
  <2>2. S = {x}
    BY <2>1
  <2>. QED
    BY <1>2, <2>2, FS_Singleton
<1>. QED
  BY <1>1, <1>2

\* A slot's command buffer, ring and descriptor pool are written again only when the
\* GPU is done with them, and the descriptor set, uniforms and vertices of a draw
\* are in the slot whose commands use them (Stream::BeginSlot, EnsureSpace, Draw).
THEOREM SlotsStaySound == Spec => []SlotsAreSound
<1>1. ASSUME StreamInv PROVE SlotsAreSound
  <2>1. SlotsInTurn(stream) /\ \A i, j \in drawn : i = j
    BY <1>1 DEF StreamInv
  <2>2. ASSUME NEW k \in 0 .. Slots - 1
        PROVE  Cardinality(Queued(k)) <= 1 /\ (Queued(k) # {} => stream.slot[k].submitted)
    <3>1. \A i, j \in Queued(k) : i = j
      BY <2>1 DEF Queued, SlotsInTurn
    <3>2. Queued(k) # {} => stream.slot[k].submitted
      BY <2>1 DEF Queued, SlotsInTurn
    <3>. QED
      BY <3>1, <3>2, OneAtMost
  <2>3. Cardinality(drawn) <= 1
    BY <2>1, OneAtMost
  <2>. QED
    BY <2>2, <2>3 DEF SlotsAreSound, SlotReusedWhenDone, DrawInOneSlot
<1>. QED
  BY <1>1, StreamInvAlways, PTL

\* An image whose destruction was deferred is destroyed when no command that uses
\* it is recorded or in flight, and every image is freed at most once and never
\* lost (Stream::DestroyTexture, Stream::BeginSlot, Stream::Flush).
THEOREM FreesStaySound == Spec => []FreesAreSound
<1>1. ASSUME StreamInv PROVE FreesAreSound
  <2>1. FreedUnused(stream) /\ Kept(stream, LiveImages, created) /\ created \in 0 .. MaxImages
        /\ \A t, u \in Textures : image[t] = image[u] /\ image[t] # NoImage => t = u
    BY <1>1 DEF StreamInv
  <2>2. DeferredFreeIsSafe
    <3>1. \A i : i \in InUse <=> Used(stream, i)
      BY DEF InUse, Used
    <3>. QED
      BY <2>1, <3>1 DEF DeferredFreeIsSafe, FreedUnused
  <2>3. ASSUME NEW i \in 1 .. created
        PROVE  Cardinality({t \in Textures : image[t] = i})
                 + Cardinality({k \in 0 .. Slots - 1 : i \in stream.slot[k].frees})
                 + (IF i \in stream.freed THEN 1 ELSE 0) = 1
    <3>. DEFINE T == {t \in Textures : image[t] = i}
                K == {k \in SlotIds : i \in stream.slot[k].frees}
    <3>1. i \in Images /\ i # NoImage /\ i <= created
      BY <2>1, StreamAssumption DEF Images, NoImage
    <3>2. (\A x, y \in T : x = y) /\ (\A x, y \in K : x = y)
      BY <2>1, <3>1 DEF Kept
    <3>3. (T # {} <=> i \in LiveImages) /\ (K # {} <=> \E k \in SlotIds : i \in stream.slot[k].frees)
      BY <3>1 DEF LiveImages
    <3>4. i \in LiveImages \/ i \in stream.freed \/ K # {}
      BY <2>1, <3>1, <3>3 DEF Kept
    <3>5. /\ i \in LiveImages => i \notin stream.freed /\ K = {}
          /\ i \in stream.freed => K = {}
      BY <2>1 DEF Kept
    <3>6. /\ (T = {} => Cardinality(T) = 0) /\ (T # {} => Cardinality(T) = 1)
          /\ (K = {} => Cardinality(K) = 0) /\ (K # {} => Cardinality(K) = 1)
      BY <3>2, OneAtMost
    <3>. HIDE DEF T, K
    <3>7. Cardinality(T) + Cardinality(K) + (IF i \in stream.freed THEN 1 ELSE 0) = 1
      BY <3>3, <3>4, <3>5, <3>6
    <3>. QED
      BY <3>7 DEF T, K, SlotIds
  <2>. QED
    BY <2>2, <2>3 DEF FreesAreSound, FreedOnce
<1>. QED
  BY <1>1, StreamInvAlways, PTL

=============================================================================
