---------------------------- MODULE RewindBuffer ----------------------------
(***************************************************************************)
(* The rewind buffer (RewindBuffer.h, RewindBuffer.cpp): the newest console *)
(* state in full, and before it a chain of deltas, each holding only the    *)
(* pages that changed as (newer XOR older).  The client serialises the      *)
(* calls with its own lock, so every call is one step.                      *)
(*                                                                          *)
(* A console state is a function from page numbers to page contents; a page *)
(* is the set of its 1-bits, so XOR is the symmetric difference.  States of *)
(* different lengths stand for different state layouts.                     *)
(***************************************************************************)
EXTENDS Integers, Sequences, FiniteSets

CONSTANTS
  Bits,         \* the bits of one page
  Lengths,      \* lengths, in pages, of the states the cores produce
  PageSize,     \* kPage, in bytes
  IndexSize,    \* sizeof(uint32_t), the cost of one entry of Delta::pages
  PackedSizes,  \* the sizes LZ4 may compress the changed pages to
  Budgets,      \* the values of rewind.budgetMB, in bytes
  MaxDeltas,    \* bound: a chain is not pushed to beyond this length
  NoState

Pages(len) == 0 .. len - 1
States == UNION {[Pages(len) -> SUBSET Bits] : len \in Lengths}

\* latest.empty(): the state of no pages.
Empty == [p \in {} |-> {}]

ASSUME BufferAssumption ==
  /\ Lengths \subseteq Nat \ {0}
  /\ PackedSizes \subseteq Nat \ {0}
  /\ Budgets \subseteq Nat
  /\ PageSize \in Nat \ {0}
  /\ IndexSize \in Nat \ {0}
  /\ MaxDeltas \in Nat
  /\ NoState \notin States

VARIABLES
  latest,   \* newest state, or Empty
  deltas,   \* oldest first, as the deque
  used,     \* running total of the deltas' sizes
  budget,
  popped,   \* result of the last Pop: the state it hands out, or NoState
  moments   \* history variable: the states pushed and still reachable

vars == <<latest, deltas, used, budget, popped, moments>>

-----------------------------------------------------------------------------
(* Deltas                                                                   *)

Xor(a, b) == (a \ b) \union (b \ a)

ChangedPages(new, old) == {p \in DOMAIN new : new[p] # old[p]}

\* Slip: the new pages are stored as they are, not XORed with the old.
MakeDeltaWithoutXor(new, old, packed) ==
  [pages |-> [p \in ChangedPages(new, old) |-> new[p]], packed |-> packed]

\* The changed pages' XOR; `packed` is what LZ4 made of them.
MakeDelta(new, old, packed) ==
  [pages  |-> [p \in ChangedPages(new, old) |-> Xor(new[p], old[p])],
   packed |-> packed]

\* older = newer XOR delta, page by page
Apply(state, delta) ==
  [p \in DOMAIN state |->
     IF p \in DOMAIN delta.pages THEN Xor(state[p], delta.pages[p]) ELSE state[p]]

DeltaCost(delta) == delta.packed + IndexSize * Cardinality(DOMAIN delta.pages)

StateSize(state) == PageSize * Cardinality(DOMAIN state)

\* What the k oldest deltas of ds cost together.
CostOfOldest(ds, k) ==
  LET total[i \in 0 .. Len(ds)] ==
        IF i = 0 THEN 0 ELSE total[i - 1] + DeltaCost(ds[i])
  IN  total[k]

-----------------------------------------------------------------------------
(* Operations                                                               *)

Init ==
  /\ latest = Empty
  /\ deltas = <<>>
  /\ used = 0
  /\ budget \in Budgets
  /\ popped = NoState
  /\ moments = <<>>

SetBudget(b) ==
  /\ budget' = b
  /\ UNCHANGED <<latest, deltas, used, popped, moments>>

Clear ==
  /\ latest' = Empty
  /\ deltas' = <<>>
  /\ used' = 0
  /\ moments' = <<>>
  /\ UNCHANGED <<budget, popped>>

\* The buffer restarts at s.
StartFrom(s) ==
  /\ latest' = s
  /\ deltas' = <<>>
  /\ used' = 0
  /\ moments' = <<s>>
  /\ UNCHANGED <<budget, popped>>

SameLayout(s) == DOMAIN latest = DOMAIN s

\* Nothing held, or the state layout changed.
PushFirst(s) ==
  /\ latest = Empty \/ ~SameLayout(s)
  /\ StartFrom(s)

\* LZ4 fails: the history is given up, the new state is not.
PushUnpackable(s) ==
  /\ latest # Empty
  /\ SameLayout(s)
  /\ ChangedPages(s, latest) # {}
  /\ StartFrom(s)

\* Slip: the trimming loop compares only the deltas with the budget.
EvictedIgnoringLatest(all, total, size) ==
  LET Fits(k) == total - CostOfOldest(all, k) <= budget
  IN  {k \in 0 .. Len(all) : /\ Fits(k) \/ k = Len(all)
                             /\ \A fewer \in 0 .. k - 1 : ~Fits(fewer)}

\* How many of the oldest deltas of `all`, which cost `total`, the trimming loop
\* evicts: the first number for which what stays fits beside the newest state.
Evicted(all, total, size) ==
  LET Fits(k) == total - CostOfOldest(all, k) + size <= budget
  IN  {k \in 0 .. Len(all) : /\ Fits(k) \/ k = Len(all)
                             /\ \A fewer \in 0 .. k - 1 : ~Fits(fewer)}

PushDelta(s, packed) ==
  /\ latest # Empty
  /\ SameLayout(s)
  /\ (packed = 0) <=> (ChangedPages(s, latest) = {})
  /\ LET delta == MakeDelta(s, latest, packed)
         all   == Append(deltas, delta)
         total == used + DeltaCost(delta)
     IN  \E k \in Evicted(all, total, StateSize(s)) :
           /\ deltas' = SubSeq(all, k + 1, Len(all))
           /\ used' = total - CostOfOldest(all, k)
           /\ moments' = SubSeq(Append(moments, s), k + 1, Len(moments) + 1)
  /\ latest' = s
  /\ UNCHANGED <<budget, popped>>

Push(s) ==
  \/ PushFirst(s)
  \/ PushUnpackable(s)
  \/ \E packed \in PackedSizes \union {0} : PushDelta(s, packed)

PopNothing ==
  /\ deltas = <<>>
  /\ popped' = NoState
  /\ UNCHANGED <<latest, deltas, used, budget, moments>>

\* LZ4 does not give back the size that was packed.
PopCorrupt ==
  /\ deltas # <<>>
  /\ DOMAIN deltas[Len(deltas)].pages # {}
  /\ latest' = Empty
  /\ deltas' = <<>>
  /\ used' = 0
  /\ popped' = NoState
  /\ moments' = <<>>
  /\ UNCHANGED budget

\* Slip: the state is handed out before the delta is undone.
PopDeltaTooEarly ==
  /\ deltas # <<>>
  /\ latest' = Apply(latest, deltas[Len(deltas)])
  /\ popped' = latest
  /\ used' = used - DeltaCost(deltas[Len(deltas)])
  /\ deltas' = SubSeq(deltas, 1, Len(deltas) - 1)
  /\ moments' = SubSeq(moments, 1, Len(moments) - 1)
  /\ UNCHANGED budget

PopDelta ==
  /\ deltas # <<>>
  /\ LET delta == deltas[Len(deltas)]
         older == Apply(latest, delta)
     IN  /\ latest' = older
         /\ used' = used - DeltaCost(delta)
         /\ popped' = older
  /\ deltas' = SubSeq(deltas, 1, Len(deltas) - 1)
  /\ moments' = SubSeq(moments, 1, Len(moments) - 1)
  /\ UNCHANGED budget

Pop == PopNothing \/ PopCorrupt \/ PopDelta

Next ==
  \/ \E b \in Budgets : SetBudget(b)
  \/ Len(deltas) < MaxDeltas /\ \E s \in States : Push(s)
  \/ Clear
  \/ Pop

Spec == Init /\ [][Next]_vars

-----------------------------------------------------------------------------
(* Properties                                                               *)

\* A delta as Push builds it: XORs of some pages of states of length len.
Deltas(len) ==
  [pages  : UNION {[ps -> SUBSET Bits] : ps \in SUBSET Pages(len)},
   packed : PackedSizes \union {0}]

\* The types of the buffer's fields (RewindBuffer.h): all deltas and the
\* latest state have one layout.  (UsedExact says what `used` is.)
TypeOK ==
  /\ latest \in States \union {Empty}
  /\ \/ latest = Empty /\ deltas = <<>>
     \/ \E len \in Lengths :
          /\ latest \in [Pages(len) -> SUBSET Bits]
          /\ deltas \in Seq(Deltas(len))
  /\ budget \in Budgets
  /\ popped \in States \union {NoState}
  /\ moments \in Seq(States)

\* The chain is sound: the states reachable by undoing the deltas one after
\* another, starting from the full state, are exactly the states that were
\* pushed, in order, whatever was evicted, popped or pushed in between.
ChainSound ==
  /\ Len(moments) = IF latest = Empty THEN 0 ELSE Len(deltas) + 1
  /\ latest # Empty => latest = moments[Len(moments)]
  /\ \A i \in 1 .. Len(deltas) : moments[i] = Apply(moments[i + 1], deltas[i])

\* The running total the budget test and the statistics rely on is the cost of
\* the deltas actually held; in particular it never wraps below zero.
UsedExact == used = CostOfOldest(deltas, Len(deltas))

\* The running total is exact, and after a push the memory really held is within
\* the budget in force, or the only thing left is the newest state itself.
PushKeepsBudget ==
  /\ []UsedExact
  /\ [][(\E s \in States : Push(s))
          => \/ deltas' = <<>>
             \/ CostOfOldest(deltas', Len(deltas')) + StateSize(latest') <= budget]_vars

History == INSTANCE RewindHistory

\* The buffer implements the stack of whole states its client relies on.
ImplementsHistory == History!Spec
=============================================================================
