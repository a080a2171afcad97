------------------------- MODULE RewindSessionProofs ------------------------
(***************************************************************************)
(* Proofs about RewindSession, for every set of games, interval and bound:  *)
(* how far a snapshot that outlives ClearRewind can reach.                  *)
(***************************************************************************)
EXTENDS RewindSession, SequenceTheorems, TLAPS

-----------------------------------------------------------------------------
(* The inductive invariant *)

Busy == worker # "waiting"

\* Whether a snapshot is in each place, the place holds one.
Held ==
  /\ game # NoGame => now \in Moments
  /\ Busy => work \in Snapshots
  /\ pending => capture \in Snapshots

\* A stale snapshot is at most second in line: ClearRewind leaves at most the
\* worker's and the pending one, and later ones queue behind them.
StaleInFront ==
  /\ \A i \in 3 .. Len(history) : history[i].epoch = epoch
  /\ Busy /\ Len(history) > 1 => work.epoch = epoch
  /\ pending /\ Len(history) > 1 => capture.epoch = epoch
  /\ pending /\ Busy /\ Len(history) > 0 => capture.epoch = epoch

\* Epochs never decrease along the line and never exceed the present one.
Ordered ==
  /\ \A i \in 1 .. Len(history) : history[i].epoch <= epoch
  /\ \A i, j \in 1 .. Len(history) : i < j => history[i].epoch <= history[j].epoch
  /\ Busy => work.epoch <= epoch
  /\ pending => capture.epoch <= epoch
  /\ Busy => \A i \in 1 .. Len(history) : history[i].epoch <= work.epoch
  /\ pending => \A i \in 1 .. Len(history) : history[i].epoch <= capture.epoch
  /\ pending /\ Busy => work.epoch <= capture.epoch

IInv == TypeOK /\ Held /\ StaleInFront /\ Ordered

-----------------------------------------------------------------------------
(* Pieces of the actions *)

LEMMA LaterType ==
  ASSUME NEW m \in Moments, m.frame <= MaxFrame
  PROVE  Later(m) \in Moments
  BY SessionAssumption DEF Later, Moments

LEMMA NewLineType ==
  ASSUME NEW g \in Games, epoch \in 0 .. MaxEpoch, epoch < MaxEpoch
  PROVE  NewLine(g) \in Moments
  BY SessionAssumption DEF NewLine, Moments

\* The end of a sequence, from some place on.
LEMMA SliceIs ==
  ASSUME NEW S, NEW a \in Seq(S), NEW first \in 1 .. Len(a)
  PROVE  /\ SubSeq(a, first, Len(a)) \in Seq(S)
         /\ Len(SubSeq(a, first, Len(a))) = Len(a) - first + 1
         /\ \A i \in 1 .. Len(a) - first + 1 : SubSeq(a, first, Len(a))[i] = a[first + i - 1]
<1>1. first \in Int /\ Len(a) \in Int /\ first <= Len(a) /\ \A i \in first .. Len(a) : a[i] \in S
  OBVIOUS
<1> QED
  BY <1>1, SubSeqProperties

\* What pushing a snapshot leaves in the buffer: the end of what was there, and
\* the snapshot on top.
LEMMA SnapshotKeepsEnd ==
  ASSUME NEW S, NEW q \in Seq(S), NEW s \in S, NEW first \in 1 .. Len(q) + 1,
         NEW r, r = SubSeq(Append(q, s), first, Len(q) + 1)
  PROVE  /\ r \in Seq(S)
         /\ Len(r) = Len(q) + 2 - first
         /\ r[Len(r)] = s
         /\ \A i \in 1 .. Len(r) - 1 : /\ i + first - 1 \in 1 .. Len(q)
                                       /\ r[i] = q[i + first - 1]
<1> DEFINE a == Append(q, s)
<1>1. /\ a \in Seq(S)
      /\ Len(a) = Len(q) + 1
      /\ a[Len(q) + 1] = s
      /\ \A i \in 1 .. Len(q) : a[i] = q[i]
  OBVIOUS
<1>2. /\ r \in Seq(S)
      /\ Len(r) = Len(q) + 2 - first
      /\ \A i \in 1 .. Len(r) : r[i] = a[i + first - 1]
  <2> HIDE DEF a
  <2>1. r = SubSeq(a, first, Len(a))
    BY <1>1 DEF a
  <2>2. first \in 1 .. Len(a) /\ Len(a) \in first - 1 .. Len(a) /\ Len(a) - first + 1 = Len(q) + 2 - first
    BY <1>1
  <2>3. /\ r \in Seq(S) /\ Len(r) = Len(a) - first + 1
        /\ \A i \in 1 .. Len(a) - first + 1 : r[i] = a[first + i - 1]
    BY <1>1, <2>1, <2>2, SliceIs, Zenon
  <2>4. \A i \in 1 .. Len(a) - first + 1 : first + i - 1 = i + first - 1
    BY <2>2
  <2> QED
    BY <2>2, <2>3, <2>4
<1>3. Len(r) \in Nat \ {0} /\ Len(r) + first - 1 = Len(q) + 1
  BY <1>2
<1>4. r[Len(r)] = s
  BY <1>1, <1>2, <1>3
<1>5. ASSUME NEW i \in 1 .. Len(r) - 1
      PROVE  i + first - 1 \in 1 .. Len(q) /\ r[i] = q[i + first - 1]
  <2>1. i \in 1 .. Len(r) /\ i + first - 1 \in 1 .. Len(q)
    BY <1>2, <1>3
  <2> QED
    BY <1>1, <1>2, <2>1
<1> QED
  BY <1>2, <1>4, <1>5

LEMMA PushIInv ==
  ASSUME IInv, WorkerPush
  PROVE  IInv'
<1> USE DEF IInv
<1>1. history \in Seq(Snapshots) /\ work \in Snapshots /\ Busy
  BY DEF TypeOK, Held, Busy, WorkerPush
<1>2. PICK first \in 1 .. Len(history) + 1 :
        history' = SubSeq(Append(history, work), first, Len(history) + 1)
  BY DEF WorkerPush, H!Snapshot
<1>3. /\ history' \in Seq(Snapshots)
      /\ Len(history') = Len(history) + 2 - first
      /\ history'[Len(history')] = work
      /\ \A i \in 1 .. Len(history') - 1 : /\ i + first - 1 \in 1 .. Len(history)
                                           /\ history'[i] = history[i + first - 1]
  BY <1>1, <1>2, SnapshotKeepsEnd
<1>4. /\ handed' = handed
      /\ worker' = "waiting"
      /\ UNCHANGED <<game, now, epoch, backup, counter, paused, rewinding, capture, pending, work>>
  BY DEF WorkerPush, H!Snapshot, consoleVars, uiVars
<1>5. Len(history) \in Nat /\ Len(history') \in Nat \ {0} /\ Len(history') <= Len(history) + 1
  BY <1>1, <1>3
<1>6. TypeOK' /\ Held'
  BY <1>3, <1>4 DEF TypeOK, Held, Busy
<1>7. StaleInFront'
  <2>1. ASSUME NEW i \in 3 .. Len(history')
        PROVE  history'[i].epoch = epoch
    <3>1. CASE i = Len(history')
      BY <1>1, <1>3, <1>5, <3>1 DEF StaleInFront
    <3>2. CASE i # Len(history')
      <4>1. i \in 1 .. Len(history') - 1
        BY <1>5, <3>2
      <4>2. i + first - 1 \in 1 .. Len(history) /\ history'[i] = history[i + first - 1]
        BY <1>3, <4>1
      <4>3. i + first - 1 \in 3 .. Len(history)
        BY <4>2, <1>5
      <4> QED
        BY <4>2, <4>3 DEF StaleInFront
    <3> QED
      BY <3>1, <3>2
  <2>2. pending /\ Len(history') > 1 => capture.epoch = epoch
    BY <1>1, <1>5 DEF StaleInFront
  <2> QED
    BY <1>4, <2>1, <2>2 DEF StaleInFront, Busy
<1>8. Ordered'
  <2>1. ASSUME NEW i \in 1 .. Len(history')
        PROVE  /\ history'[i].epoch <= epoch
               /\ history'[i].epoch <= work.epoch
               /\ pending => history'[i].epoch <= capture.epoch
    <3>1. CASE i = Len(history')
      <4>1. history'[i] = work /\ work.epoch \in Int
        BY <1>1, <1>3, <3>1 DEF Snapshots
      <4> QED
        BY <1>1, <4>1 DEF Ordered
    <3>2. CASE i # Len(history')
      <4>1. i \in 1 .. Len(history') - 1
        BY <1>5, <3>2
      <4> QED
        BY <1>1, <1>3, <4>1 DEF Ordered
    <3> QED
      BY <3>1, <3>2
  <2>2. ASSUME NEW i \in 1 .. Len(history'), NEW j \in 1 .. Len(history'), i < j
        PROVE  history'[i].epoch <= history'[j].epoch
    <3>1. i \in 1 .. Len(history') - 1
      BY <1>5, <2>2
    <3>2. CASE j = Len(history')
      BY <1>3, <2>1, <3>2
    <3>3. CASE j # Len(history')
      <4>1. j \in 1 .. Len(history') - 1 /\ i + first - 1 < j + first - 1
        BY <1>2, <1>5, <2>2, <3>3
      <4> QED
        BY <1>3, <3>1, <4>1 DEF Ordered
    <3> QED
      BY <3>2, <3>3
  <2> QED
    BY <1>4, <2>1, <2>2 DEF Ordered, Busy
<1> QED
  BY <1>6, <1>7, <1>8

LEMMA TakeIInv ==
  ASSUME IInv, WorkerTake \/ WorkerLock
  PROVE  IInv'
<1> USE DEF IInv
<1>1. CASE WorkerTake
  <2>1. /\ UNCHANGED <<game, now, epoch, backup, counter, paused, rewinding, capture, history, handed>>
        /\ work' = capture
        /\ worker' = "holding"
        /\ pending' = FALSE /\ pending /\ ~Busy
        /\ capture \in Snapshots
    BY <1>1 DEF WorkerTake, consoleVars, uiVars, historyVars, Busy, Held, TypeOK
  <2>2. TypeOK' /\ Held'
    BY <2>1 DEF TypeOK, Held, Busy
  <2>3. StaleInFront' /\ Ordered'
    BY <2>1 DEF StaleInFront, Ordered, Busy
  <2> QED
    BY <2>2, <2>3
<1>2. CASE WorkerLock
  <2>1. /\ UNCHANGED <<game, now, epoch, backup, counter, paused, rewinding, capture, pending, work,
                       history, handed>>
        /\ worker' = "packing"
        /\ Busy
    BY <1>2 DEF WorkerLock, consoleVars, uiVars, historyVars, Busy
  <2> QED
    BY <2>1 DEF TypeOK, Held, StaleInFront, Ordered, Busy
<1> QED
  BY <1>1, <1>2

LEMMA FrameIInv ==
  ASSUME IInv, RunOneFrame
  PROVE  IInv'
<1> USE DEF IInv
<1>1. now \in Moments /\ game \in Games
  BY DEF RunOneFrame, Held, TypeOK
<1>2. now' \in Moments
  <2>1. now.frame <= MaxFrame
    BY <1>1, SessionAssumption DEF RunOneFrame, Moments
  <2> QED
    BY <1>1, <2>1, LaterType DEF RunOneFrame
<1>3. UNCHANGED <<game, epoch, backup, paused, rewinding, worker, work, history, handed>>
  BY DEF RunOneFrame, uiVars, historyVars
<1>4. /\ counter' \in 0 .. Interval - 1
      /\ \/ UNCHANGED <<capture, pending>>
         \/ pending' = TRUE /\ ~pending /\ capture' = [epoch |-> epoch, at |-> now']
  <2>1. PICK enabled \in BOOLEAN, captured \in BOOLEAN :
          CaptureRewind(now', enabled, captured)
    BY DEF RunOneFrame
  <2>2. counter \in 0 .. Interval - 1
    BY DEF TypeOK
  <2> QED
    BY <2>1, <2>2, SessionAssumption DEF CaptureRewind
<1>5. CASE UNCHANGED <<capture, pending>>
  BY <1>2, <1>3, <1>4, <1>5 DEF TypeOK, Held, StaleInFront, Ordered, Busy
<1>6. CASE pending' = TRUE /\ ~pending /\ capture' = [epoch |-> epoch, at |-> now']
  <2>1. capture' \in Snapshots /\ capture'.epoch = epoch
    BY <1>2, <1>6 DEF TypeOK, Snapshots
  <2>2. TypeOK'
    BY <1>2, <1>3, <1>4, <1>6, <2>1 DEF TypeOK
  <2>3. Held'
    BY <1>2, <1>3, <2>1 DEF Held, Busy
  <2>4. StaleInFront'
    BY <1>3, <1>6, <2>1 DEF StaleInFront, Busy
  <2>5. epoch \in Int
    BY DEF TypeOK
  <2>6. Ordered'
    BY <1>3, <1>6, <2>1, <2>5 DEF Ordered, Busy
  <2> QED
    BY <2>2, <2>3, <2>4, <2>6
<1> QED
  BY <1>4, <1>5, <1>6

LEMMA RewindStepIInv ==
  ASSUME IInv, DoRewindStep
  PROVE  IInv'
<1> USE DEF IInv
<1>1. UNCHANGED <<game, epoch, backup, counter, paused, rewinding, capture, pending, worker, work>>
  BY DEF DoRewindStep, uiVars, workerVars
<1>2. now \in Moments /\ history \in Seq(Snapshots)
  BY DEF DoRewindStep, Held, TypeOK
<1>3. CASE H!StepBack
  <2>1. /\ Len(history) \in Nat
        /\ Len(history) > 1
        /\ history' = SubSeq(history, 1, Len(history) - 1)
        /\ handed' = history[Len(history) - 1]
    BY <1>2, <1>3 DEF H!StepBack
  <2>2. /\ history' \in Seq(Snapshots)
        /\ Len(history') = Len(history) - 1
        /\ \A i \in 1 .. Len(history') : i \in 1 .. Len(history) /\ history'[i] = history[i]
    BY <1>2, <2>1
  <2>3. handed' \in Snapshots
    BY <1>2, <2>1
  <2>4. now' \in Moments
    <3>1. handed'.at \in Moments
      BY <2>3 DEF Snapshots
    <3>2. handed' # NoSnapshot
      BY <2>3, SentinelAssumption
    <3>3. \E m \in Restored(handed'.at) : m.frame <= MaxFrame /\ now' = Later(m)
      BY <3>2 DEF DoRewindStep, H!Refuse, H!Lose
    <3> QED
      BY <1>2, <3>1, <3>3, LaterType DEF Restored
  <2>5. TypeOK' /\ Held'
    BY <1>1, <2>2, <2>3, <2>4 DEF TypeOK, Held, Busy
  <2>6. StaleInFront'
    BY <1>1, <2>1, <2>2 DEF StaleInFront, Busy
  <2>7. Ordered'
    BY <1>1, <2>1, <2>2 DEF Ordered, Busy
  <2> QED
    BY <2>5, <2>6, <2>7
<1>4. CASE (H!Refuse \/ H!Lose) /\ UNCHANGED now
  <2>1. handed' = NoSnapshot /\ now' = now /\ history' \in {history, <<>>}
    BY <1>4 DEF H!Refuse, H!Lose
  <2>2. history' \in Seq(Snapshots)
    <3>1. <<>> \in Seq(Snapshots)
      OBVIOUS
    <3> QED
      BY <1>2, <2>1, <3>1
  <2>3. TypeOK' /\ Held'
    BY <1>1, <2>1, <2>2 DEF TypeOK, Held, Busy
  <2>4. StaleInFront' /\ Ordered'
    <3>1. CASE history' = history
      BY <1>1, <3>1 DEF StaleInFront, Ordered, Busy
    <3>2. CASE history' = <<>>
      BY <1>1, <3>2 DEF StaleInFront, Ordered, Busy
    <3> QED
      BY <2>1, <3>1, <3>2
  <2> QED
    BY <2>3, <2>4
<1> QED
  BY <1>3, <1>4 DEF DoRewindStep

\* What every command that empties the buffer does to the invariant.
LEMMA ClearIInv ==
  ASSUME IInv, NEW m \in Moments \union {NoMoment}, ClearRewind(m),
         game' \in Games \union {NoGame}, game' # NoGame => m \in Moments,
         backup' \in Moments \union {NoMoment}, counter' \in 0 .. Interval - 1
  PROVE  IInv'
<1> USE DEF IInv
<1>1. /\ UNCHANGED <<paused, rewinding, capture, pending, worker, work, handed>>
      /\ epoch \in Int /\ epoch' = epoch + 1 /\ epoch' \in 0 .. MaxEpoch
      /\ history' = <<>>
      /\ now' = m
  BY SessionAssumption DEF ClearRewind, uiVars, workerVars, H!Forget, TypeOK
<1>2. TypeOK' /\ Held'
  BY <1>1 DEF TypeOK, Held, Busy
<1>3. StaleInFront'
  BY <1>1 DEF StaleInFront
<1>4. Ordered'
  <2>1. /\ Busy => work.epoch \in Int
        /\ pending => capture.epoch \in Int
    BY DEF Held, Snapshots
  <2> QED
    BY <1>1, <2>1 DEF Ordered, Busy
<1> QED
  BY <1>2, <1>3, <1>4

LEMMA CommandIInv ==
  ASSUME IInv,
         \/ \E next \in Games \union {NoGame} : SwapCore(next)
         \/ Reset \/ LoadState \/ UndoLoadState
  PROVE  IInv'
<1> USE SessionAssumption
<1>1. /\ epoch \in 0 .. MaxEpoch
      /\ game \in Games \union {NoGame}
      /\ game # NoGame => now \in Moments
      /\ backup \in Moments \union {NoMoment}
      /\ counter \in 0 .. Interval - 1
  BY DEF IInv, TypeOK, Held
<1>2. ASSUME NEW next \in Games \union {NoGame}, SwapCore(next)
      PROVE  IInv'
  <2> DEFINE m == IF next = NoGame THEN NoMoment ELSE NewLine(next)
  <2>1. /\ ClearRewind(m)
        /\ epoch < MaxEpoch
        /\ game' = next /\ backup' = NoMoment /\ counter' = 0
    BY <1>2 DEF SwapCore, ClearRewind
  <2>2. next # NoGame => m \in Moments
    BY <1>1, <2>1, NewLineType
  <2>3. m \in Moments \union {NoMoment}
    BY <2>2
  <2>4. counter' \in 0 .. Interval - 1
    BY <2>1
  <2> HIDE DEF m
  <2> QED
    BY <2>1, <2>2, <2>3, <2>4, ClearIInv
<1>3. ASSUME game # NoGame, ClearRewind(NewLine(game)),
             UNCHANGED <<game, counter>>, backup' \in Moments \union {NoMoment}
      PROVE  IInv'
  <2>1. NewLine(game) \in Moments
    BY <1>1, <1>3, NewLineType DEF ClearRewind
  <2> QED
    BY <1>1, <1>3, <2>1, ClearIInv
<1>4. CASE Reset
  BY <1>1, <1>3, <1>4 DEF Reset
<1>5. CASE LoadState
  BY <1>1, <1>3, <1>5 DEF LoadState
<1>6. CASE UndoLoadState
  <2>1. PICK m \in {backup, now} : ClearRewind(m)
    BY <1>6 DEF UndoLoadState
  <2>2. m \in Moments /\ UNCHANGED <<game, counter>> /\ backup' = NoMoment
    BY <1>1, <1>6, <2>1 DEF UndoLoadState
  <2> QED
    BY <1>1, <2>1, <2>2, ClearIInv
<1> QED
  BY <1>2, <1>4, <1>5, <1>6

-----------------------------------------------------------------------------
(* Theorems *)

LEMMA InitIInv == Init => IInv
<1> SUFFICES ASSUME Init PROVE IInv
  OBVIOUS
<1>1. history = <<>> /\ handed = NoSnapshot
  BY DEF Init, H!Init
<1>2. TypeOK
  <2>1. history \in Seq(Snapshots) /\ handed \in Snapshots \union {NoSnapshot}
    BY <1>1
  <2>2. epoch \in 0 .. MaxEpoch /\ counter \in 0 .. Interval - 1
    BY SessionAssumption DEF Init
  <2> QED
    BY <2>1, <2>2 DEF Init, TypeOK
<1>3. Held /\ StaleInFront /\ Ordered
  BY <1>1 DEF Init, Held, StaleInFront, Ordered, Busy
<1> QED
  BY <1>2, <1>3 DEF IInv

LEMMA NextIInv ==
  ASSUME IInv, [Next]_vars
  PROVE  IInv'
<1>1. CASE Worker
  BY <1>1, TakeIInv, PushIInv DEF Worker
<1>2. CASE RunOneFrame
  BY <1>2, FrameIInv
<1>3. CASE DoRewindStep
  BY <1>3, RewindStepIInv
<1>4. CASE (\E next \in Games \union {NoGame} : SwapCore(next)) \/ Reset \/ LoadState \/ UndoLoadState
  BY <1>4, CommandIInv
<1>5. ASSUME NEW active \in BOOLEAN, SetRewinding(active)
      PROVE  IInv'
  BY <1>5 DEF SetRewinding, consoleVars, workerVars, historyVars,
              IInv, TypeOK, Held, StaleInFront, Ordered, Busy
<1>6. ASSUME NEW p \in BOOLEAN, SetPaused(p)
      PROVE  IInv'
  BY <1>6 DEF SetPaused, consoleVars, workerVars, historyVars,
              IInv, TypeOK, Held, StaleInFront, Ordered, Busy
<1>7. CASE UNCHANGED vars
  BY <1>7 DEF vars, IInv, TypeOK, Held, StaleInFront, Ordered, Busy
<1> QED
  BY <1>1, <1>2, <1>3, <1>4, <1>5, <1>6, <1>7 DEF Next

LEMMA AlwaysIInv == Spec => []IInv
  BY InitIInv, NextIInv, PTL DEF Spec

\* The session's rewind fields keep their types.
THEOREM TypeCorrect == Spec => []TypeOK
<1>1. IInv => TypeOK
  BY DEF IInv
<1> QED
  BY <1>1, AlwaysIInv, PTL

\* Where the elements of a concatenation with two more are.
LEMMA TwoMore ==
  ASSUME NEW S, NEW q \in Seq(S), NEW a \in S, NEW b \in S
  PROVE  LET line == q \o Append(<<a>>, b)
         IN  /\ Len(line) = Len(q) + 2
             /\ \A i \in 1 .. Len(q) : line[i] = q[i]
             /\ line[Len(q) + 1] = a
             /\ line[Len(q) + 2] = b
<1>1. q \o Append(<<a>>, b) = Append(Append(q, a), b)
  OBVIOUS
<1>2. /\ Append(q, a) \in Seq(S)
      /\ Len(Append(q, a)) = Len(q) + 1
      /\ \A i \in 1 .. Len(q) : Append(q, a)[i] = q[i]
      /\ Append(q, a)[Len(q) + 1] = a
  BY AppendProperties
<1> QED
  BY <1>1, <1>2, AppendProperties

\* The whole line, buffer first: who is where.
LEMMA LineOf ==
  ASSUME IInv
  PROVE  LET line == history \o InFlight
             n    == Len(history)
         IN  /\ n \in Nat
             /\ Len(line) \in Nat
             /\ \A i \in 1 .. n : line[i] = history[i]
             /\ ~Busy /\ ~pending => Len(line) = n
             /\ Busy => Len(line) >= n + 1 /\ line[n + 1] = work
             /\ Busy /\ ~pending => Len(line) = n + 1
             /\ ~Busy /\ pending => Len(line) = n + 1 /\ line[n + 1] = capture
             /\ Busy /\ pending => Len(line) = n + 2 /\ line[n + 2] = capture
<1>1. history \in Seq(Snapshots)
  BY DEF IInv, TypeOK
<1>2. CASE ~Busy /\ ~pending
  <2>1. InFlight = <<>>
    BY <1>2 DEF InFlight, Busy
  <2> QED
    BY <1>1, <1>2, <2>1
<1>3. CASE Busy /\ ~pending
  <2>1. InFlight = <<work>>
    BY <1>3 DEF InFlight, Busy
  <2> QED
    BY <1>1, <1>3, <2>1
<1>4. CASE ~Busy /\ pending
  <2>1. InFlight = <<capture>>
    BY <1>4 DEF InFlight, Busy
  <2> QED
    BY <1>1, <1>4, <2>1
<1>5. CASE Busy /\ pending
  <2>1. InFlight = Append(<<work>>, capture)
    BY <1>5 DEF InFlight, Busy
  <2>2. work \in Snapshots /\ capture \in Snapshots
    BY <1>5 DEF IInv, Held
  <2> QED
    BY <1>1, <1>5, <2>1, <2>2, TwoMore
<1> QED
  BY <1>2, <1>3, <1>4, <1>5

\* However the worker and the emulation thread interleave, a snapshot that
\* outlives a reset, a state load or a change of game is one of the two oldest
\* in the line.
THEOREM StaleIsBounded == Spec => []StaleOnlyOldest
<1>1. ASSUME IInv
      PROVE  StaleOnlyOldest
  <2> DEFINE line == history \o InFlight
             n    == Len(history)
  <2> SUFFICES ASSUME NEW i \in 3 .. Len(line)
               PROVE  line[i].epoch = epoch
    BY DEF StaleOnlyOldest
  <2> HIDE DEF line
  <2>1. CASE i <= n
    BY <1>1, <2>1, LineOf DEF line, IInv, StaleInFront
  <2>2. CASE i > n
    <3>1. i = n + 1 \/ i = n + 2
      BY <1>1, <2>2, LineOf DEF line
    <3>2. CASE i = n + 1
      <4>1. n > 1
        BY <1>1, <3>2, LineOf
      <4> QED
        BY <1>1, <2>2, <3>2, <4>1, LineOf DEF line, IInv, StaleInFront
    <3>3. CASE i = n + 2
      <4>1. Busy /\ pending /\ n > 0
        BY <1>1, <3>3, LineOf DEF line
      <4> QED
        BY <1>1, <3>3, <4>1, LineOf DEF line, IInv, StaleInFront
    <3> QED
      BY <3>1, <3>2, <3>3
  <2> QED
    BY <1>1, <2>1, <2>2, LineOf
<1> QED
  BY <1>1, AlwaysIInv, PTL

\* Snapshots are queued in the order of their epochs.
THEOREM EpochsAlwaysInOrder == Spec => []EpochsInOrder
<1>1. ASSUME IInv
      PROVE  EpochsInOrder
  <2> DEFINE line == history \o InFlight
             n    == Len(history)
  <2> SUFFICES ASSUME NEW i \in 1 .. Len(line), NEW j \in 1 .. Len(line), i < j
               PROVE  line[i].epoch <= line[j].epoch
    BY DEF EpochsInOrder
  <2> HIDE DEF line
  <2>1. CASE j <= n
    <3>1. i \in 1 .. n /\ j \in 1 .. n /\ line[i] = history[i] /\ line[j] = history[j]
      BY <1>1, <2>1, LineOf DEF line
    <3> QED
      BY <1>1, <3>1 DEF IInv, Ordered
  <2>2. CASE j > n
    <3>1. j = n + 1 \/ j = n + 2
      BY <1>1, <2>2, LineOf DEF line
    <3>2. CASE i <= n
      <4>1. i \in 1 .. n /\ line[i] = history[i]
        BY <1>1, <3>2, LineOf DEF line
      <4>2. \/ Busy /\ line[j] = work
            \/ pending /\ line[j] = capture
        BY <1>1, <2>2, <3>1, LineOf DEF line
      <4> QED
        BY <1>1, <4>1, <4>2 DEF IInv, Ordered
    <3>3. CASE i > n
      <4>1. i = n + 1 /\ j = n + 2
        BY <1>1, <3>1, <3>3, LineOf
      <4>2. Busy /\ pending /\ line[i] = work /\ line[j] = capture
        BY <1>1, <4>1, LineOf DEF line
      <4> QED
        BY <1>1, <4>2 DEF IInv, Ordered
    <3> QED
      BY <1>1, <3>2, <3>3, LineOf
  <2> QED
    BY <1>1, <2>1, <2>2, LineOf
<1> QED
  BY <1>1, AlwaysIInv, PTL

=============================================================================
