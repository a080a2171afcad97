-------------------------- MODULE RewindBufferProofs ------------------------
(***************************************************************************)
(* Proofs about RewindBuffer, for every set of layouts, budgets and         *)
(* compressed sizes.  ChainSound is inductive once TypeOK is known; it is   *)
(* what makes a step of the buffer a step of RewindHistory.  The running    *)
(* total is exact because a cost is a sum over the chain: what is cut off   *)
(* at one end is what the sum loses there.                                  *)
(***************************************************************************)
EXTENDS RewindBuffer, FiniteSetTheorems, WellFoundedInduction, TLAPS

-----------------------------------------------------------------------------
(* Facts about deltas *)

\* XOR with the same page twice gives the page back: what lets one delta serve
\* to walk from the newer state to the older one.
LEMMA XorTwice ==
  ASSUME NEW a, NEW b
  PROVE  Xor(a, Xor(a, b)) = b
<1>1. ASSUME NEW x
      PROVE  x \in Xor(a, Xor(a, b)) <=> x \in b
  BY DEF Xor
<1> QED
  BY <1>1

\* Undoing the delta Push made from two states of one layout gives the older
\* state back exactly.
LEMMA DeltaUndoes ==
  ASSUME NEW len, NEW new \in [Pages(len) -> SUBSET Bits],
         NEW old \in [Pages(len) -> SUBSET Bits], NEW packed
  PROVE  Apply(new, MakeDelta(new, old, packed)) = old
<1> DEFINE d == MakeDelta(new, old, packed)
<1>1. d.pages = [p \in ChangedPages(new, old) |-> Xor(new[p], old[p])]
  BY DEF MakeDelta
<1>2. ASSUME NEW p \in Pages(len)
      PROVE  Apply(new, d)[p] = old[p]
  <2>1. CASE p \in ChangedPages(new, old)
    <3>1. Apply(new, d)[p] = Xor(new[p], Xor(new[p], old[p]))
      BY <1>1, <2>1 DEF Apply, ChangedPages
    <3> QED
      BY <3>1, XorTwice
  <2>2. CASE p \notin ChangedPages(new, old)
    BY <1>1, <2>2 DEF Apply, ChangedPages
  <2> QED
    BY <2>1, <2>2
<1>3. DOMAIN Apply(new, d) = Pages(len)
  BY DEF Apply
<1>4. Apply(new, d) = [p \in Pages(len) |-> Apply(new, d)[p]]
  BY <1>3 DEF Apply
<1> QED
  BY <1>2, <1>4

\* A delta made by Push has the type of the deltas of that layout.
LEMMA DeltaType ==
  ASSUME NEW len, NEW new \in [Pages(len) -> SUBSET Bits],
         NEW old \in [Pages(len) -> SUBSET Bits], NEW packed \in PackedSizes \union {0}
  PROVE  MakeDelta(new, old, packed) \in Deltas(len)
<1> DEFINE ps == ChangedPages(new, old)
<1>1. ps \in SUBSET Pages(len)
  BY DEF ChangedPages
<1>2. [p \in ps |-> Xor(new[p], old[p])] \in [ps -> SUBSET Bits]
  BY <1>1 DEF Xor
<1>3. [p \in ps |-> Xor(new[p], old[p])] \in UNION {[q -> SUBSET Bits] : q \in SUBSET Pages(len)}
  BY <1>1, <1>2
<1> QED
  BY <1>3 DEF MakeDelta, Deltas

\* Undoing a delta of a layout leaves a state of that layout.
LEMMA ApplyType ==
  ASSUME NEW len, NEW state \in [Pages(len) -> SUBSET Bits], NEW delta \in Deltas(len)
  PROVE  Apply(state, delta) \in [Pages(len) -> SUBSET Bits]
<1>1. PICK ps \in SUBSET Pages(len) : delta.pages \in [ps -> SUBSET Bits]
  BY DEF Deltas
<1> QED
  BY <1>1 DEF Apply, Xor

\* A state that can be pushed has at least one page, so it is never Empty.
LEMMA EmptyIsNoState ==
  /\ DOMAIN Empty = {}
  /\ \A s \in States : s # Empty
<1>1. DOMAIN Empty = {}
  BY DEF Empty
<1>2. ASSUME NEW s \in States
      PROVE  s # Empty
  <2>1. PICK len \in Lengths : s \in [Pages(len) -> SUBSET Bits]
    BY DEF States
  <2>2. 0 \in DOMAIN s
    BY <2>1, BufferAssumption DEF Pages
  <2> QED
    BY <2>2, <1>1
<1> QED
  BY <1>1, <1>2

-----------------------------------------------------------------------------
(* The inductive invariant *)

IInv == TypeOK /\ ChainSound

LEMMA InitIInv == Init => IInv
<1> SUFFICES ASSUME Init PROVE IInv
  OBVIOUS
<1>1. TypeOK
  BY BufferAssumption DEF Init, TypeOK
<1>2. ChainSound
  BY DEF Init, ChainSound
<1> QED
  BY <1>1, <1>2 DEF IInv

\* What holds whenever the buffer restarts at a pushed state.
LEMMA StartFromIInv ==
  ASSUME IInv, NEW s \in States, StartFrom(s)
  PROVE  IInv'
<1>1. PICK len \in Lengths : s \in [Pages(len) -> SUBSET Bits]
  BY DEF States
<1>2. TypeOK'
  BY <1>1 DEF IInv, TypeOK, StartFrom
<1>3. ChainSound'
  BY EmptyIsNoState DEF StartFrom, ChainSound
<1> QED
  BY <1>2, <1>3 DEF IInv

\* Dropping the k oldest links of a sound chain leaves a sound chain with the
\* same newest state.
LEMMA ChainTail ==
  ASSUME NEW S, NEW D, NEW ds \in Seq(D), NEW ms \in Seq(S),
         Len(ms) = Len(ds) + 1,
         \A i \in 1 .. Len(ds) : ms[i] = Apply(ms[i + 1], ds[i]),
         NEW k \in 0 .. Len(ds),
         NEW ds2, ds2 = SubSeq(ds, k + 1, Len(ds)),
         NEW ms2, ms2 = SubSeq(ms, k + 1, Len(ms))
  PROVE  /\ ds2 \in Seq(D)
         /\ ms2 \in Seq(S)
         /\ Len(ms2) = Len(ds2) + 1
         /\ ms2[Len(ms2)] = ms[Len(ms)]
         /\ \A i \in 1 .. Len(ds2) : ms2[i] = Apply(ms2[i + 1], ds2[i])
<1>1. /\ ds2 \in Seq(D)
      /\ Len(ds2) = Len(ds) - k
      /\ \A i \in 1 .. Len(ds2) : ds2[i] = ds[k + i]
  OBVIOUS
<1>2. /\ ms2 \in Seq(S)
      /\ Len(ms2) = Len(ms) - k
      /\ \A i \in 1 .. Len(ms2) : ms2[i] = ms[k + i]
  OBVIOUS
<1>3. ASSUME NEW i \in 1 .. Len(ds2)
      PROVE  ms2[i] = Apply(ms2[i + 1], ds2[i])
  <2>1. /\ k + i \in 1 .. Len(ds)
        /\ i \in 1 .. Len(ms2)
        /\ i + 1 \in 1 .. Len(ms2)
        /\ k + (i + 1) = k + i + 1
    BY <1>1, <1>2
  <2>2. /\ ms2[i] = ms[k + i]
        /\ ms2[i + 1] = ms[k + i + 1]
        /\ ds2[i] = ds[k + i]
    BY <1>1, <1>2, <2>1
  <2> QED
    BY <2>1, <2>2
<1>4. Len(ms2) = Len(ds2) + 1 /\ Len(ms2) \in 1 .. Len(ms2)
  BY <1>1, <1>2
<1>5. ms2[Len(ms2)] = ms[Len(ms)]
  <2>1. k + Len(ms2) = Len(ms)
    BY <1>2
  <2> QED
    BY <1>2, <1>4, <2>1
<1> QED
  BY <1>1, <1>2, <1>3, <1>4, <1>5

\* Adding one link to a sound chain.
LEMMA ChainAppend ==
  ASSUME NEW S, NEW D, NEW ds \in Seq(D), NEW ms \in Seq(S),
         Len(ms) = Len(ds) + 1,
         \A i \in 1 .. Len(ds) : ms[i] = Apply(ms[i + 1], ds[i]),
         NEW d \in D, NEW s \in S, ms[Len(ms)] = Apply(s, d)
  PROVE  /\ Append(ds, d) \in Seq(D)
         /\ Append(ms, s) \in Seq(S)
         /\ Len(Append(ds, d)) = Len(ds) + 1
         /\ Len(Append(ms, s)) = Len(ms) + 1
         /\ Append(ms, s)[Len(ms) + 1] = s
         /\ \A i \in 1 .. Len(ds) + 1 :
              Append(ms, s)[i] = Apply(Append(ms, s)[i + 1], Append(ds, d)[i])
<1>1. ASSUME NEW i \in 1 .. Len(ds) + 1
      PROVE  Append(ms, s)[i] = Apply(Append(ms, s)[i + 1], Append(ds, d)[i])
  <2>1. CASE i = Len(ds) + 1
    BY <2>1
  <2>2. CASE i # Len(ds) + 1
    <3>1. i \in 1 .. Len(ds) /\ i + 1 \in 1 .. Len(ms) /\ i \in 1 .. Len(ms)
      BY <2>2
    <3>2. /\ Append(ms, s)[i] = ms[i]
          /\ Append(ms, s)[i + 1] = ms[i + 1]
          /\ Append(ds, d)[i] = ds[i]
      BY <3>1
    <3> QED
      BY <3>1, <3>2
  <2> QED
    BY <2>1, <2>2
<1> QED
  BY <1>1

LEMMA PushDeltaIInv ==
  ASSUME IInv, NEW s \in States, NEW packed \in PackedSizes \union {0}, PushDelta(s, packed)
  PROVE  IInv'
<1> DEFINE delta == MakeDelta(s, latest, packed)
           all   == Append(deltas, delta)
           more  == Append(moments, s)
<1>1. PICK len \in Lengths : /\ latest \in [Pages(len) -> SUBSET Bits]
                             /\ deltas \in Seq(Deltas(len))
  BY DEF IInv, TypeOK, PushDelta
<1>2. s \in [Pages(len) -> SUBSET Bits]
  <2>1. PICK n \in Lengths : s \in [Pages(n) -> SUBSET Bits]
    BY DEF States
  <2>2. Pages(n) = Pages(len)
    BY <1>1, <2>1 DEF PushDelta, SameLayout
  <2> QED
    BY <2>1, <2>2
<1>3. delta \in Deltas(len)
  BY <1>1, <1>2, DeltaType
<1>4. /\ moments \in Seq(States)
      /\ Len(moments) = Len(deltas) + 1
      /\ \A i \in 1 .. Len(deltas) : moments[i] = Apply(moments[i + 1], deltas[i])
  BY DEF IInv, TypeOK, ChainSound, PushDelta
<1>5. moments[Len(moments)] = Apply(s, delta)
  <2>1. Apply(s, delta) = latest
    BY <1>1, <1>2, DeltaUndoes
  <2> QED
    BY <2>1 DEF IInv, ChainSound, PushDelta
<1>6. /\ all \in Seq(Deltas(len))
      /\ more \in Seq(States)
      /\ Len(all) = Len(deltas) + 1
      /\ Len(more) = Len(moments) + 1
      /\ more[Len(moments) + 1] = s
      /\ \A i \in 1 .. Len(deltas) + 1 : more[i] = Apply(more[i + 1], all[i])
  <2> HIDE DEF delta
  <2> QED
    BY <1>1, <1>3, <1>4, <1>5, ChainAppend
<1>7. PICK k \in 0 .. Len(all) :
        /\ deltas' = SubSeq(all, k + 1, Len(all))
        /\ moments' = SubSeq(more, k + 1, Len(moments) + 1)
  BY DEF PushDelta, Evicted
<1>8. latest' = s /\ budget' = budget /\ popped' = popped
  BY DEF PushDelta
<1> HIDE DEF delta, all, more
<1>9. /\ deltas' \in Seq(Deltas(len))
      /\ moments' \in Seq(States)
      /\ Len(moments') = Len(deltas') + 1
      /\ moments'[Len(moments')] = s
      /\ \A i \in 1 .. Len(deltas') : moments'[i] = Apply(moments'[i + 1], deltas'[i])
  <2>1. Len(more) = Len(all) + 1 /\ moments' = SubSeq(more, k + 1, Len(more))
    BY <1>4, <1>6, <1>7
  <2>2. more[Len(more)] = s
    BY <1>6
  <2>3. \A i \in 1 .. Len(all) : more[i] = Apply(more[i + 1], all[i])
    BY <1>6
  <2>4. /\ all \in Seq(Deltas(len))
        /\ more \in Seq(States)
        /\ k \in 0 .. Len(all)
        /\ deltas' = SubSeq(all, k + 1, Len(all))
    BY <1>6, <1>7
  <2>5. /\ deltas' \in Seq(Deltas(len))
        /\ moments' \in Seq(States)
        /\ Len(moments') = Len(deltas') + 1
        /\ moments'[Len(moments')] = more[Len(more)]
        /\ \A i \in 1 .. Len(deltas') : moments'[i] = Apply(moments'[i + 1], deltas'[i])
    BY <2>1, <2>3, <2>4, ChainTail
  <2> QED
    BY <2>2, <2>5
<1>10. TypeOK'
  BY <1>2, <1>8, <1>9 DEF IInv, TypeOK, States
<1>11. ChainSound'
  BY <1>8, <1>9, EmptyIsNoState DEF ChainSound
<1> QED
  BY <1>10, <1>11 DEF IInv

\* What is left of a sequence without its last element.
LEMMA WithoutLast ==
  ASSUME NEW D, NEW q \in Seq(D), NEW n \in Nat \ {0}, Len(q) = n,
         NEW front, front = SubSeq(q, 1, n - 1)
  PROVE  /\ front \in Seq(D)
         /\ Len(front) = n - 1
         /\ \A i \in 1 .. n - 1 : front[i] = q[i]
  OBVIOUS

LEMMA PopDeltaIInv ==
  ASSUME IInv, PopDelta
  PROVE  IInv'
<1> DEFINE n == Len(deltas)
<1>1. deltas # <<>>
  BY DEF PopDelta
<1>2. PICK len \in Lengths : /\ latest \in [Pages(len) -> SUBSET Bits]
                             /\ deltas \in Seq(Deltas(len))
  BY <1>1 DEF IInv, TypeOK
<1>14. latest # Empty
  BY <1>2, EmptyIsNoState DEF States
<1>3. /\ n \in Nat \ {0}
      /\ deltas[n] \in Deltas(len)
  BY <1>1, <1>2
<1>4. /\ latest' = Apply(latest, deltas[n])
      /\ popped' = latest'
      /\ deltas' = SubSeq(deltas, 1, n - 1)
      /\ moments' = SubSeq(moments, 1, Len(moments) - 1)
      /\ budget' = budget
  BY DEF PopDelta
<1>5. latest' \in [Pages(len) -> SUBSET Bits]
  BY <1>2, <1>3, <1>4, ApplyType
<1>6. /\ moments \in Seq(States)
      /\ Len(moments) = n + 1
      /\ latest = moments[n + 1]
      /\ \A i \in 1 .. n : moments[i] = Apply(moments[i + 1], deltas[i])
  BY <1>14 DEF IInv, TypeOK, ChainSound
<1>7. /\ moments' \in Seq(States)
      /\ Len(moments') = n
      /\ \A i \in 1 .. n : moments'[i] = moments[i]
  BY <1>3, <1>4, <1>6
<1>8. /\ deltas' \in Seq(Deltas(len))
      /\ Len(deltas') = n - 1
      /\ \A i \in 1 .. n - 1 : deltas'[i] = deltas[i]
  <2>1. /\ deltas \in Seq(Deltas(len))
        /\ n \in Nat \ {0}
        /\ Len(deltas) = n
        /\ deltas' = SubSeq(deltas, 1, n - 1)
    BY <1>2, <1>3, <1>4
  <2> HIDE DEF n
  <2> QED
    BY <2>1, WithoutLast
<1>9. latest' \in States
  BY <1>5 DEF States
<1>10. TypeOK'
  BY <1>4, <1>5, <1>7, <1>8, <1>9 DEF IInv, TypeOK
<1>11. latest' = moments'[n]
  BY <1>3, <1>4, <1>6, <1>7
<1>12. ASSUME NEW i \in 1 .. Len(deltas')
       PROVE  moments'[i] = Apply(moments'[i + 1], deltas'[i])
  <2>1. i \in 1 .. n /\ i + 1 \in 1 .. n /\ i \in 1 .. n - 1
    BY <1>3, <1>8
  <2> QED
    BY <1>6, <1>7, <1>8, <2>1
<1>13. ChainSound'
  BY <1>3, <1>7, <1>8, <1>9, <1>11, <1>12, EmptyIsNoState DEF ChainSound
<1> QED
  BY <1>10, <1>13 DEF IInv

LEMMA EmptiedIInv ==
  ASSUME IInv, latest' = Empty, deltas' = <<>>, moments' = <<>>, budget' = budget,
         popped' \in States \union {NoState}
  PROVE  IInv'
<1>1. TypeOK'
  BY DEF IInv, TypeOK
<1>2. ChainSound'
  BY DEF ChainSound
<1> QED
  BY <1>1, <1>2 DEF IInv

LEMMA NextIInv ==
  ASSUME IInv, [Next]_vars
  PROVE  IInv'
<1>1. ASSUME NEW b \in Budgets, SetBudget(b)
      PROVE  IInv'
  BY <1>1 DEF IInv, TypeOK, ChainSound, SetBudget
<1>2. ASSUME NEW s \in States, Push(s)
      PROVE  IInv'
  <2>1. CASE PushFirst(s)
    BY <2>1, StartFromIInv DEF PushFirst
  <2>2. CASE PushUnpackable(s)
    BY <2>2, StartFromIInv DEF PushUnpackable
  <2>3. ASSUME NEW packed \in PackedSizes \union {0}, PushDelta(s, packed)
        PROVE  IInv'
    BY <2>3, PushDeltaIInv
  <2> QED
    BY <1>2, <2>1, <2>2, <2>3 DEF Push
<1>3. CASE Clear
  BY <1>3, EmptiedIInv DEF Clear, IInv, TypeOK
<1>4. CASE PopNothing
  BY <1>4 DEF IInv, TypeOK, ChainSound, PopNothing
<1>5. CASE PopCorrupt
  BY <1>5, EmptiedIInv DEF PopCorrupt
<1>6. CASE PopDelta
  BY <1>6, PopDeltaIInv
<1>7. CASE UNCHANGED vars
  BY <1>7 DEF IInv, TypeOK, ChainSound, vars
<1> QED
  BY <1>1, <1>2, <1>3, <1>4, <1>5, <1>6, <1>7 DEF Next, Pop

-----------------------------------------------------------------------------
(* What a chain costs                                                       *)

\* A set of natural numbers has a least one: the numbers are well-ordered.
LEMMA LeastOfSet ==
  ASSUME NEW T \in SUBSET Nat, T # {}
  PROVE  \E m \in T : \A k \in T : m <= k
<1> DEFINE R == OpToRel(<, Nat)
<1>1. IsWellFoundedOn(R, Nat)
  BY NatLessThanWellFounded
<1>2. \A i, j \in Nat : i < j => <<i, j>> \in R
  BY DEF OpToRel
<1> HIDE DEF R
<1>3. PICK m \in T : \A k \in T : ~ (<<k, m>> \in R)
  BY <1>1, WFMin, Zenon
<1>4. \A k \in T : ~ (k < m)
  BY <1>2, <1>3
<1> QED
  BY <1>3, <1>4

\* And induction over one.
LEMMA SetInduction ==
  ASSUME NEW S \in SUBSET Nat, 0 \in S, \A k \in Nat : k \in S => k + 1 \in S
  PROVE  S = Nat
<1>1. SUFFICES ASSUME Nat \ S # {} PROVE FALSE
  OBVIOUS
<1>2. PICK m \in Nat \ S : \A k \in Nat \ S : m <= k
  <2>1. Nat \ S \in SUBSET Nat
    OBVIOUS
  <2> QED
    BY <1>1, <2>1, LeastOfSet, Zenon
<1>3. m \in Nat \ {0} /\ m - 1 \in Nat
  BY <1>2
<1>4. m - 1 \notin Nat \ S
  BY <1>2, <1>3
<1> QED
  BY <1>2, <1>3, <1>4

\* A delta costs a number of bytes.
LEMMA CostType ==
  ASSUME NEW len \in Lengths, NEW delta \in Deltas(len)
  PROVE  DeltaCost(delta) \in Nat
<1>1. IsFiniteSet(Pages(len))
  BY BufferAssumption, FS_Interval DEF Pages
<1>2. DOMAIN delta.pages \subseteq Pages(len) /\ delta.packed \in Nat
  <2>1. PICK ps \in SUBSET Pages(len) : delta.pages \in [ps -> SUBSET Bits]
    BY DEF Deltas
  <2>2. delta.packed \in PackedSizes \union {0}
    BY DEF Deltas
  <2>3. DOMAIN delta.pages \subseteq Pages(len)
    BY <2>1
  <2>4. PackedSizes \union {0} \subseteq Nat
    BY BufferAssumption
  <2> QED
    BY <2>2, <2>3, <2>4
<1>3. Cardinality(DOMAIN delta.pages) \in Nat
  BY <1>1, <1>2, FS_Subset, FS_CardinalityType
<1>4. IndexSize * Cardinality(DOMAIN delta.pages) \in Nat
  BY <1>3, BufferAssumption
<1> QED
  BY <1>2, <1>4 DEF DeltaCost

\* f has the costs of the k oldest deltas of ds, for every k.
Sums(f, ds) ==
  /\ f[0] = 0
  /\ \A i \in 1 .. Len(ds) : f[i] = f[i - 1] + DeltaCost(ds[i])
  /\ \A k \in 0 .. Len(ds) : f[k] \in Nat /\ CostOfOldest(ds, k) = f[k]

\* The function that CostOfOldest defines exists.
LEMMA SumsExist ==
  ASSUME NEW len \in Lengths, NEW ds \in Seq(Deltas(len))
  PROVE  \E f : Sums(f, ds)
<1> DEFINE n == Len(ds)
           Is(f, k) == f = [i \in 0 .. k |-> IF i = 0 THEN 0 ELSE f[i - 1] + DeltaCost(ds[i])]
           Have == {k \in Nat : \E f : Is(f, k)}
<1>1. 0 \in Have
  <2> DEFINE f == [i \in 0 .. 0 |-> 0]
  <2>1. Is(f, 0)
    OBVIOUS
  <2> QED
    BY <2>1
<1>2. ASSUME NEW k \in Nat, k \in Have PROVE k + 1 \in Have
  <2>1. PICK f : Is(f, k)
    BY <1>2
  <2> DEFINE g == [i \in 0 .. k + 1 |-> IF i <= k THEN f[i] ELSE f[k] + DeltaCost(ds[k + 1])]
  <2>2. Is(g, k + 1)
    BY <2>1
  <2> HIDE DEF Is
  <2> QED
    BY <2>2
<1>3. Have = Nat
  <2> HIDE DEF Have
  <2>1. Have \in SUBSET Nat
    BY DEF Have
  <2> QED
    BY <1>1, <1>2, <2>1, SetInduction, Zenon
<1> DEFINE f == CHOOSE f : Is(f, n)
<1>4. n \in Nat
  OBVIOUS
<1>5. Is(f, n)
  BY <1>3, <1>4, Zenon
<1>6. \A k : CostOfOldest(ds, k) = f[k]
  BY Zenon DEF CostOfOldest
<1> HIDE DEF f
<1>7. f[0] = 0 /\ \A i \in 1 .. n : f[i] = f[i - 1] + DeltaCost(ds[i])
  BY <1>4, <1>5
<1>8. \A i \in 1 .. n : DeltaCost(ds[i]) \in Nat
  BY CostType
<1> DEFINE S == {k \in Nat : k <= n => f[k] \in Nat}
<1>9. 0 \in S
  BY <1>7
<1>10. ASSUME NEW k \in Nat, k \in S PROVE k + 1 \in S
  <2>1. SUFFICES ASSUME k + 1 <= n PROVE f[k + 1] \in Nat
    OBVIOUS
  <2>2. k + 1 \in 1 .. n /\ (k + 1) - 1 = k /\ f[k] \in Nat
    BY <1>4, <1>10, <2>1
  <2> QED
    BY <1>7, <1>8, <2>2
<1>11. S = Nat
  <2> HIDE DEF S
  <2>1. S \in SUBSET Nat
    BY DEF S
  <2> QED
    BY <1>9, <1>10, <2>1, SetInduction, Zenon
<1>12. \A k \in 0 .. n : f[k] \in Nat
  BY <1>4, <1>11
<1> QED
  BY <1>6, <1>7, <1>12 DEF Sums

\* A run of m deltas of one chain, after its k oldest, costs in a chain of its own
\* what it costs there.
LEMMA RunCosts ==
  ASSUME NEW len \in Lengths, NEW ds \in Seq(Deltas(len)), NEW run \in Seq(Deltas(len)),
         NEW k \in Nat, k + Len(run) <= Len(ds),
         \A i \in 1 .. Len(run) : run[i] = ds[k + i]
  PROVE  \A m \in 0 .. Len(run) : CostOfOldest(run, m) = CostOfOldest(ds, k + m) - CostOfOldest(ds, k)
<1> DEFINE n == Len(run)
<1>1. PICK f : Sums(f, ds)
  BY SumsExist
<1>2. PICK g : Sums(g, run)
  BY SumsExist
<1>3. n \in Nat /\ Len(ds) \in Nat /\ k \in 0 .. Len(ds) /\ \A m \in 0 .. n : k + m \in 0 .. Len(ds)
  OBVIOUS
<1> DEFINE S == {m \in Nat : m <= n => g[m] = f[k + m] - f[k]}
<1>4. 0 \in S
  <2>1. f[k] \in Nat /\ g[0] = 0 /\ k + 0 = k
    BY <1>1, <1>2, <1>3 DEF Sums
  <2> QED
    BY <2>1
<1>5. ASSUME NEW m \in Nat, m \in S PROVE m + 1 \in S
  <2>1. SUFFICES ASSUME m + 1 <= n PROVE g[m + 1] = f[k + (m + 1)] - f[k]
    OBVIOUS
  <2>2. /\ m \in 0 .. n /\ m + 1 \in 1 .. n /\ (m + 1) - 1 = m
        /\ k + (m + 1) \in 1 .. Len(ds) /\ (k + (m + 1)) - 1 = k + m /\ k + m \in 0 .. Len(ds)
    BY <1>3, <2>1
  <2>3. g[m] = f[k + m] - f[k]
    BY <1>5, <2>2
  <2> DEFINE c == DeltaCost(run[m + 1])
             i == k + (m + 1)
  <2>4. run[m + 1] = ds[i] /\ c \in Nat
    <3>1. run[m + 1] \in Deltas(len) /\ run[m + 1] = ds[i]
      BY <2>2
    <3> QED
      BY <3>1, CostType
  <2>5. g[m + 1] = g[m] + c
    BY <1>2, <2>2 DEF Sums
  <2>6. f[i] = f[k + m] + c
    BY <1>1, <2>2, <2>4 DEF Sums
  <2>7. f[k] \in Nat /\ f[k + m] \in Nat
    BY <1>1, <1>3, <2>2 DEF Sums
  <2> HIDE DEF c, i
  <2>8. g[m + 1] = f[i] - f[k]
    BY <2>3, <2>4, <2>5, <2>6, <2>7
  <2> QED
    BY <2>8 DEF i
<1>6. S = Nat
  <2> HIDE DEF S
  <2>1. S \in SUBSET Nat
    BY DEF S
  <2> QED
    BY <1>4, <1>5, <2>1, SetInduction, Zenon
<1>7. ASSUME NEW m \in 0 .. n PROVE CostOfOldest(run, m) = CostOfOldest(ds, k + m) - CostOfOldest(ds, k)
  <2>1. g[m] = f[k + m] - f[k]
    <3>1. m \in S /\ m <= n
      BY <1>3, <1>6
    <3> QED
      BY <3>1
  <2> QED
    BY <1>1, <1>2, <1>3, <2>1 DEF Sums
<1> QED
  BY <1>7

\* The cost grows delta by delta.
LEMMA ChainCosts ==
  ASSUME NEW len \in Lengths, NEW ds \in Seq(Deltas(len))
  PROVE  /\ CostOfOldest(ds, 0) = 0
         /\ \A k \in 0 .. Len(ds) : CostOfOldest(ds, k) \in Nat
         /\ \A i \in 1 .. Len(ds) : CostOfOldest(ds, i) = CostOfOldest(ds, i - 1) + DeltaCost(ds[i])
<1>1. PICK f : Sums(f, ds)
  BY SumsExist
<1>2. \A i \in 1 .. Len(ds) : i \in 0 .. Len(ds) /\ i - 1 \in 0 .. Len(ds)
  OBVIOUS
<1>3. 0 \in 0 .. Len(ds)
  OBVIOUS
<1> QED
  BY <1>1, <1>2, <1>3 DEF Sums

\* A delta at the end adds its cost.
LEMMA AppendCosts ==
  ASSUME NEW len \in Lengths, NEW ds \in Seq(Deltas(len)), NEW d \in Deltas(len),
         NEW all, all = Append(ds, d)
  PROVE  CostOfOldest(all, Len(all)) = CostOfOldest(ds, Len(ds)) + DeltaCost(d)
<1>1. /\ all \in Seq(Deltas(len)) /\ Len(all) = Len(ds) + 1 /\ all[Len(ds) + 1] = d
      /\ \A i \in 1 .. Len(ds) : all[i] = ds[i]
  OBVIOUS
<1>2. Len(ds) \in Nat /\ \A i \in 1 .. Len(ds) : 0 + i = i
  OBVIOUS
<1> DEFINE n == Len(ds)
<1>3. CostOfOldest(ds, n) = CostOfOldest(all, 0 + n) - CostOfOldest(all, 0)
  <2>1. \A i \in 1 .. Len(ds) : ds[i] = all[0 + i]
    BY <1>1, <1>2
  <2>2. 0 \in Nat /\ 0 + Len(ds) <= Len(all) /\ Len(ds) \in 0 .. Len(ds)
    BY <1>1, <1>2
  <2> QED
    BY <1>1, <2>1, <2>2, RunCosts
<1>4. /\ CostOfOldest(all, 0) = 0
      /\ CostOfOldest(all, n + 1) = CostOfOldest(all, n) + DeltaCost(d)
      /\ CostOfOldest(all, n) \in Nat
  <2>1. n + 1 \in 1 .. Len(all) /\ (n + 1) - 1 = n /\ n \in 0 .. Len(all)
    BY <1>1, <1>2
  <2> QED
    BY <1>1, <2>1, ChainCosts
<1>5. 0 + n = n
  BY <1>2
<1>6. CostOfOldest(ds, n) = CostOfOldest(all, n)
  BY <1>3, <1>4, <1>5
<1> QED
  BY <1>1, <1>4, <1>6

\* Evicting the k oldest takes their cost off the total.
LEMMA TailCosts ==
  ASSUME NEW len \in Lengths, NEW ds \in Seq(Deltas(len)), NEW k \in 0 .. Len(ds),
         NEW kept, kept = SubSeq(ds, k + 1, Len(ds))
  PROVE  CostOfOldest(kept, Len(kept)) = CostOfOldest(ds, Len(ds)) - CostOfOldest(ds, k)
<1>1. /\ kept \in Seq(Deltas(len)) /\ Len(kept) = Len(ds) - k
      /\ \A i \in 1 .. Len(kept) : kept[i] = ds[k + i]
  OBVIOUS
<1>2. /\ k + Len(kept) = Len(ds) /\ k + Len(kept) <= Len(ds)
      /\ Len(kept) \in 0 .. Len(kept) /\ k \in Nat
  BY <1>1
<1>3. \A m \in 0 .. Len(kept) :
        CostOfOldest(kept, m) = CostOfOldest(ds, k + m) - CostOfOldest(ds, k)
  BY <1>1, <1>2, RunCosts, Zenon
<1> QED
  BY <1>2, <1>3, Zenon

\* Popping the newest takes its cost off.
LEMMA FrontCosts ==
  ASSUME NEW len \in Lengths, NEW ds \in Seq(Deltas(len)), NEW n \in Nat \ {0}, Len(ds) = n,
         NEW front, front = SubSeq(ds, 1, n - 1)
  PROVE  CostOfOldest(front, Len(front)) = CostOfOldest(ds, n) - DeltaCost(ds[n])
<1>1. front \in Seq(Deltas(len)) /\ Len(front) = n - 1 /\ \A i \in 1 .. n - 1 : front[i] = ds[i]
  BY WithoutLast
<1>2. CostOfOldest(front, n - 1) = CostOfOldest(ds, 0 + (n - 1)) - CostOfOldest(ds, 0)
  <2>1. \A i \in 1 .. Len(front) : front[i] = ds[0 + i]
    BY <1>1
  <2>2. 0 \in Nat /\ 0 + Len(front) <= Len(ds) /\ n - 1 \in 0 .. Len(front)
    BY <1>1
  <2>3. \A m \in 0 .. Len(front) :
          CostOfOldest(front, m) = CostOfOldest(ds, 0 + m) - CostOfOldest(ds, 0)
    <3>1. front \in Seq(Deltas(len))
      BY <1>1
    <3> QED
      BY <2>1, <2>2, <3>1, RunCosts, Zenon
  <2> QED
    BY <2>2, <2>3, Zenon
<1>3. /\ CostOfOldest(ds, 0) = 0 /\ CostOfOldest(ds, n - 1) \in Nat
      /\ CostOfOldest(ds, n) = CostOfOldest(ds, n - 1) + DeltaCost(ds[n])
  <2>1. n \in 1 .. Len(ds) /\ n - 1 \in 0 .. Len(ds)
    OBVIOUS
  <2> QED
    BY <2>1, ChainCosts
<1>4. 0 + (n - 1) = n - 1 /\ DeltaCost(ds[n]) \in Nat
  BY CostType
<1> QED
  BY <1>1, <1>2, <1>3, <1>4

-----------------------------------------------------------------------------
(* The running total and the budget                                         *)

\* A chain of no deltas costs nothing.
LEMMA EmptyCosts == CostOfOldest(<<>>, Len(<<>>)) = 0
<1> DEFINE f == CHOOSE f : f = [i \in 0 .. Len(<<>>) |-> IF i = 0 THEN 0 ELSE f[i - 1] + DeltaCost(<<>>[i])]
           g == [i \in 0 .. Len(<<>>) |-> 0]
<1>2. g = [i \in 0 .. Len(<<>>) |-> IF i = 0 THEN 0 ELSE g[i - 1] + DeltaCost(<<>>[i])]
  OBVIOUS
<1>3. f = [i \in 0 .. Len(<<>>) |-> IF i = 0 THEN 0 ELSE f[i - 1] + DeltaCost(<<>>[i])]
  <2> HIDE DEF g
  <2> QED
    BY <1>2, Zenon
<1>4. CostOfOldest(<<>>, Len(<<>>)) = f[Len(<<>>)]
  BY Zenon DEF CostOfOldest
<1> HIDE DEF f
<1> QED
  BY <1>3, <1>4

\* A push adds a delta, and evicts until the rest fits or nothing is left.
LEMMA PushDeltaUsed ==
  ASSUME IInv, UsedExact, NEW s \in States, NEW packed \in PackedSizes \union {0},
         PushDelta(s, packed)
  PROVE  /\ UsedExact'
         /\ \/ deltas' = <<>>
            \/ used' + StateSize(latest') <= budget
<1> DEFINE delta == MakeDelta(s, latest, packed)
           all   == Append(deltas, delta)
           total == used + DeltaCost(delta)
<1>1. PICK len \in Lengths : latest \in [Pages(len) -> SUBSET Bits] /\ deltas \in Seq(Deltas(len))
  BY DEF IInv, TypeOK, PushDelta
<1>2. s \in [Pages(len) -> SUBSET Bits]
  <2>1. PICK n \in Lengths : s \in [Pages(n) -> SUBSET Bits]
    BY DEF States
  <2>2. Pages(n) = Pages(len)
    BY <1>1, <2>1 DEF PushDelta, SameLayout
  <2> QED
    BY <2>1, <2>2
<1>3. delta \in Deltas(len)
  BY <1>1, <1>2, DeltaType
<1>4. PICK k \in Evicted(all, total, StateSize(s)) :
        /\ deltas' = SubSeq(all, k + 1, Len(all))
        /\ used' = total - CostOfOldest(all, k)
  BY DEF PushDelta
<1>5. latest' = s
  BY DEF PushDelta
<1>6. /\ k \in 0 .. Len(all)
      /\ total - CostOfOldest(all, k) + StateSize(s) <= budget \/ k = Len(all)
  BY <1>4 DEF Evicted
<1> HIDE DEF delta
<1>7. all \in Seq(Deltas(len)) /\ CostOfOldest(all, Len(all)) = total
  <2>1. CostOfOldest(all, Len(all)) = CostOfOldest(deltas, Len(deltas)) + DeltaCost(delta)
    BY <1>1, <1>3, AppendCosts
  <2> QED
    BY <1>1, <1>3, <2>1 DEF UsedExact
<1> HIDE DEF all, total
<1>8. CostOfOldest(deltas', Len(deltas')) = CostOfOldest(all, Len(all)) - CostOfOldest(all, k)
  BY <1>4, <1>6, <1>7, TailCosts
<1>9. UsedExact'
  BY <1>4, <1>7, <1>8 DEF UsedExact
<1>10. k = Len(all) => deltas' = <<>>
  BY <1>4, <1>7
<1> QED
  BY <1>4, <1>5, <1>6, <1>9, <1>10

\* Popping takes off what the delta popped had added.
LEMMA PopDeltaUsed ==
  ASSUME IInv, UsedExact, PopDelta
  PROVE  UsedExact'
<1>1. deltas # <<>>
  BY DEF PopDelta
<1>2. PICK len \in Lengths : deltas \in Seq(Deltas(len))
  BY <1>1 DEF IInv, TypeOK
<1> DEFINE n == Len(deltas)
<1>3. n \in Nat \ {0}
  BY <1>1, <1>2
<1>4. deltas' = SubSeq(deltas, 1, n - 1) /\ used' = used - DeltaCost(deltas[n])
  BY DEF PopDelta
<1>5. CostOfOldest(deltas', Len(deltas')) = CostOfOldest(deltas, n) - DeltaCost(deltas[n])
  BY <1>2, <1>3, <1>4, FrontCosts
<1> QED
  BY <1>4, <1>5 DEF UsedExact

\* Every step leaves the total exact.
LEMMA NextUsed ==
  ASSUME IInv, UsedExact, [Next]_vars
  PROVE  UsedExact'
<1>1. ASSUME NEW s \in States, Push(s)
      PROVE  UsedExact'
  <2>1. CASE PushFirst(s) \/ PushUnpackable(s)
    BY <2>1, EmptyCosts DEF PushFirst, PushUnpackable, StartFrom, UsedExact
  <2> QED
    BY <1>1, <2>1, PushDeltaUsed DEF Push
<1>2. ASSUME NEW b \in Budgets, SetBudget(b)
      PROVE  UsedExact'
  BY <1>2 DEF SetBudget, UsedExact
<1>3. CASE Clear \/ PopCorrupt
  BY <1>3, EmptyCosts DEF Clear, PopCorrupt, UsedExact
<1>4. CASE PopNothing
  BY <1>4 DEF PopNothing, UsedExact
<1>5. CASE PopDelta
  BY <1>5, PopDeltaUsed
<1>6. CASE UNCHANGED vars
  BY <1>6 DEF vars, UsedExact
<1> QED
  BY <1>1, <1>2, <1>3, <1>4, <1>5, <1>6 DEF Next, Pop

\* And what a push leaves is within the budget.
LEMMA PushWithin ==
  ASSUME IInv, UsedExact, NEW s \in States, Push(s)
  PROVE  \/ deltas' = <<>>
         \/ CostOfOldest(deltas', Len(deltas')) + StateSize(latest') <= budget
<1>1. CASE PushFirst(s) \/ PushUnpackable(s)
  BY <1>1 DEF PushFirst, PushUnpackable, StartFrom
<1>2. ASSUME NEW packed \in PackedSizes \union {0}, PushDelta(s, packed)
      PROVE  \/ deltas' = <<>>
             \/ CostOfOldest(deltas', Len(deltas')) + StateSize(latest') <= budget
  <2>1. UsedExact' /\ (deltas' = <<>> \/ used' + StateSize(latest') <= budget)
    BY <1>2, PushDeltaUsed
  <2> QED
    BY <2>1 DEF UsedExact
<1> QED
  BY <1>1, <1>2 DEF Push

-----------------------------------------------------------------------------
(* Theorems *)

LEMMA AlwaysIInv == Spec => []IInv
  BY InitIInv, NextIInv, PTL DEF Spec

\* The buffer's fields keep their types, in particular one layout for the full
\* state and for every delta (RewindBuffer::Push clears when it changes).
THEOREM TypeCorrect == Spec => []TypeOK
<1>1. IInv => TypeOK
  BY DEF IInv
<1> QED
  BY <1>1, AlwaysIInv, PTL

\* Whatever sequence of pushes, pops, evictions and failures came before, the
\* chain of deltas leads from the full state through exactly the states pushed.
THEOREM ChainAlwaysSound == Spec => []ChainSound
<1>1. IInv => ChainSound
  BY DEF IInv
<1> QED
  BY <1>1, AlwaysIInv, PTL

\* The memory counted is the memory held, whatever was pushed, evicted and popped;
\* it never wraps below zero; and after a push that and the newest state are within
\* the budget, or the newest state is all there is (RewindBuffer::Push).
THEOREM BudgetIsKept == Spec => PushKeepsBudget
<1>1. Init => UsedExact
  BY EmptyCosts DEF Init, UsedExact
<1>2. IInv /\ UsedExact /\ [Next]_vars => UsedExact'
  BY NextUsed
<1>3. Spec => []UsedExact
  BY <1>1, <1>2, AlwaysIInv, PTL DEF Spec
<1>4. IInv /\ UsedExact /\ [Next]_vars
        => [(\E s \in States : Push(s))
              => \/ deltas' = <<>>
                 \/ CostOfOldest(deltas', Len(deltas')) + StateSize(latest') <= budget]_vars
  BY PushWithin
<1> QED
  BY <1>3, <1>4, AlwaysIInv, PTL DEF Spec, PushKeepsBudget

\* A push of the buffer is a snapshot of the history.
LEMMA PushIsSnapshot ==
  ASSUME IInv, NEW s \in States, Push(s)
  PROVE  History!Snapshot(s)
<1>1. moments \in Seq(States)
  BY DEF IInv, TypeOK
<1>2. CASE StartFrom(s)
  <2>1. moments' = SubSeq(Append(moments, s), Len(moments) + 1, Len(moments) + 1)
    BY <1>1, <1>2 DEF StartFrom
  <2>2. Len(moments) + 1 \in 1 .. Len(moments) + 1
    BY <1>1
  <2> QED
    BY <2>1, <2>2, <1>2 DEF StartFrom, History!Snapshot
<1>3. ASSUME NEW packed \in PackedSizes \union {0}, PushDelta(s, packed)
      PROVE  History!Snapshot(s)
  <2> DEFINE all == Append(deltas, MakeDelta(s, latest, packed))
  <2>1. PICK k \in 0 .. Len(all) :
          moments' = SubSeq(Append(moments, s), k + 1, Len(moments) + 1)
    BY <1>3 DEF PushDelta, Evicted
  <2>2. Len(all) = Len(deltas) + 1 /\ Len(moments) = Len(deltas) + 1 /\ Len(deltas) \in Nat
    BY <1>3 DEF IInv, TypeOK, ChainSound, PushDelta
  <2>3. k + 1 \in 1 .. Len(moments) + 1
    BY <2>2
  <2> QED
    BY <2>1, <2>2, <2>3, <1>3 DEF PushDelta, History!Snapshot
<1> QED
  BY <1>2, <1>3 DEF Push, PushFirst, PushUnpackable

\* While there are deltas there is a state to apply them to, and one more
\* state is reachable than there are deltas.
LEMMA DeltasBelowState ==
  ASSUME IInv, deltas # <<>>
  PROVE  /\ latest # Empty
         /\ Len(deltas) \in Nat \ {0}
         /\ Len(moments) = Len(deltas) + 1
<1>1. latest # Empty
  BY EmptyIsNoState DEF IInv, TypeOK, States
<1>2. PICK len \in Lengths : deltas \in Seq(Deltas(len))
  BY <1>1 DEF IInv, TypeOK
<1> QED
  BY <1>1, <1>2 DEF IInv, ChainSound

\* A pop that succeeds is a step back of the history: XORing the newest delta
\* away yields the very state that was pushed before the newest one.
LEMMA PopIsStepBack ==
  ASSUME IInv, PopDelta
  PROVE  History!StepBack
<1>2. deltas # <<>>
  BY DEF PopDelta
<1>3. latest # Empty /\ Len(deltas) \in Nat \ {0}
  BY <1>2, DeltasBelowState
<1>4. /\ moments \in Seq(States)
      /\ Len(moments) = Len(deltas) + 1
      /\ Len(deltas) \in Nat \ {0}
      /\ latest = moments[Len(moments)]
      /\ moments[Len(deltas)] = Apply(moments[Len(deltas) + 1], deltas[Len(deltas)])
  BY <1>2, <1>3 DEF IInv, TypeOK, ChainSound
<1>5. popped' = moments[Len(moments) - 1]
  BY <1>4 DEF PopDelta
<1>6. moments' = SubSeq(moments, 1, Len(moments) - 1)
  BY DEF PopDelta
<1> QED
  BY <1>4, <1>5, <1>6 DEF History!StepBack

\* The buffer implements the stack of states the session is built on: no
\* eviction, layout change or failure makes a pop return anything but the state
\* pushed before the newest one.
THEOREM BufferImplementsHistory == Spec => ImplementsHistory
<1>1. Init => History!Init
  BY DEF Init, History!Init
<1>2. ASSUME IInv, [Next]_vars
      PROVE  [History!Next]_(History!vars)
  <2>1. ASSUME NEW b \in Budgets, SetBudget(b)
        PROVE  UNCHANGED History!vars
    BY <2>1 DEF SetBudget, History!vars
  <2>2. ASSUME NEW s \in States, Push(s)
        PROVE  History!Next
    BY <1>2, <2>2, PushIsSnapshot DEF History!Next
  <2>3. CASE Clear
    BY <2>3 DEF Clear, History!Next, History!Forget
  <2>4. CASE PopNothing
    BY <1>2, <2>4 DEF PopNothing, IInv, ChainSound, History!Next, History!Refuse
  <2>5. CASE PopCorrupt
    BY <1>2, <2>5, DeltasBelowState DEF PopCorrupt, History!Next, History!Lose
  <2>6. CASE PopDelta
    BY <1>2, <2>6, PopIsStepBack DEF History!Next
  <2>7. CASE UNCHANGED vars
    BY <2>7 DEF vars, History!vars
  <2> QED
    BY <1>2, <2>1, <2>2, <2>3, <2>4, <2>5, <2>6, <2>7 DEF Next, Pop
<1> QED
  BY <1>1, <1>2, AlwaysIInv, PTL DEF Spec, ImplementsHistory, History!Spec

=============================================================================
