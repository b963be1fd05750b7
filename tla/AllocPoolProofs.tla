--------------------------- MODULE AllocPoolProofs ---------------------------
(***************************************************************************)
(* Proofs about AllocPool, for every number of threads and records.        *)
(***************************************************************************)
EXTENDS AllocPool, TLAPS

-----------------------------------------------------------------------------
(* Part 1: any number of appliers. *)

Written(n) == next[n] # UNINIT

\* What is dereferenced has been written; where p, ii stand at each label.
WellInit ==
    /\ mStack # NULL => Written(mStack)
    /\ \A n \in Nodes : next[n] \in Nodes => Written(next[n])
    /\ \A n \in Nodes : owners[n] > 0 => Written(n)
    /\ \A t \in Threads :
          /\ pc[t] \in {"next", "cas", "recycle", "push"} =>
                p[t] \in Nodes /\ Written(p[t])
          /\ pc[t] \in {"index", "fresh", "idle"} => p[t] = NULL
          /\ pc[t] = "fresh" => ii[t] < mCount
          /\ nx[t] # NULL => Written(nx[t])

BaseInv == TypeOK /\ WellInit /\ RefusedOnlyAtLimit

\* The pool as reset() leaves it.
LEMMA BaseInit == PoolInit => BaseInv
BY CountAssumption, NullAssumption
   DEF PoolInit, BaseInv, TypeOK, WellInit, RefusedOnlyAtLimit, Written, Nodes

\* The test of the bump index leaves pc and ii well typed.
LEMMA TestIndexType ==
    ASSUME TypeOK, NEW t \in Threads, TestIndex(t, mIndex)
    PROVE  /\ pc' \in [Threads -> {"idle", "next", "cas", "index", "fresh",
                                   "applied", "recycle", "push"}]
           /\ ii' \in [Threads -> 0 .. mCount]
<1> USE CountAssumption DEF TypeOK
<1>1. \E l \in {"fresh", "applied"} : pc' = [pc EXCEPT ![t] = l]
      BY DEF TestIndex, Goto
<1>2. 0 \in 0 .. mCount /\ mIndex \in 0 .. mCount
      OBVIOUS
<1>3. \E i \in 0 .. mCount : ii' = [ii EXCEPT ![t] = i]
      BY <1>2, Zenon DEF TestIndex, Goto
<1> QED
    BY <1>1, <1>3

\* Every step preserves the typing and initialisation facts.
LEMMA BaseNext == BaseInv /\ [PoolNext]_poolVars => BaseInv'
<1> SUFFICES ASSUME BaseInv, [PoolNext]_poolVars PROVE BaseInv'
    OBVIOUS
<1> USE CountAssumption, NullAssumption DEF BaseInv, TypeOK, Nodes, Goto, locals
<1>0. \A v \in Linkable : v = NULL \/ (v \in Nodes /\ Written(v))
      BY DEF Linkable, WellInit, Written
<1>1. ASSUME NEW t \in Threads, ApplyLoad(t) PROVE BaseInv'
  <2>1. TypeOK'
        BY <1>1 DEF ApplyLoad, Examine, WellInit, Written
  <2>2. WellInit'
        BY <1>1 DEF ApplyLoad, Examine, WellInit, Written
  <2>3. RefusedOnlyAtLimit'
        BY <1>1 DEF ApplyLoad, Examine, WellInit, RefusedOnlyAtLimit
  <2> QED
      BY <2>1, <2>2, <2>3
<1>2. ASSUME NEW t \in Threads, ApplyNext(t) PROVE BaseInv'
  <2>1. TypeOK'
        BY <1>2 DEF ApplyNext, WellInit, Written
  <2>2. WellInit'
        BY <1>2 DEF ApplyNext, WellInit, Written
  <2>3. RefusedOnlyAtLimit'
        BY <1>2 DEF ApplyNext, WellInit, RefusedOnlyAtLimit
  <2> QED
      BY <2>1, <2>2, <2>3
<1>3. ASSUME NEW t \in Threads, ApplyPop(t) PROVE BaseInv'
  <2>1. TypeOK'
        BY <1>3 DEF ApplyPop, WellInit, Written
  <2>2. WellInit'
        BY <1>3 DEF ApplyPop, WellInit, Written
  <2>3. RefusedOnlyAtLimit'
        BY <1>3 DEF ApplyPop, WellInit, RefusedOnlyAtLimit
  <2> QED
      BY <2>1, <2>2, <2>3
<1>4. ASSUME NEW t \in Threads, ApplyRetry(t) PROVE BaseInv'
  <2>1. TypeOK'
        BY <1>4 DEF ApplyRetry, Examine, WellInit, Written
  <2>2. WellInit'
        BY <1>4 DEF ApplyRetry, Examine, WellInit, Written
  <2>3. RefusedOnlyAtLimit'
        BY <1>4 DEF ApplyRetry, Examine, WellInit, RefusedOnlyAtLimit
  <2> QED
      BY <2>1, <2>2, <2>3
<1>5. ASSUME NEW t \in Threads, IndexLoad(t) PROVE BaseInv'
  <2>1. TypeOK'
        BY <1>5, TestIndexType DEF IndexLoad
  <2>2. WellInit'
        BY <1>5 DEF IndexLoad, TestIndex, WellInit, Written
  <2>3. RefusedOnlyAtLimit'
        BY <1>5 DEF IndexLoad, TestIndex, WellInit, RefusedOnlyAtLimit
  <2> QED
      BY <2>1, <2>2, <2>3
<1>6. ASSUME NEW t \in Threads, IndexTake(t) PROVE BaseInv'
  <2>1. TypeOK'
        BY <1>6 DEF IndexTake, WellInit, Written
  <2>2. WellInit'
        BY <1>6 DEF IndexTake, WellInit, Written
  <2>3. RefusedOnlyAtLimit'
        BY <1>6 DEF IndexTake, WellInit, RefusedOnlyAtLimit
  <2> QED
      BY <2>1, <2>2, <2>3
<1>7. ASSUME NEW t \in Threads, IndexRetry(t) PROVE BaseInv'
  <2>1. TypeOK'
        BY <1>7, TestIndexType DEF IndexRetry
  <2>2. WellInit'
        BY <1>7 DEF IndexRetry, TestIndex, WellInit, Written
  <2>3. RefusedOnlyAtLimit'
        BY <1>7 DEF IndexRetry, TestIndex, WellInit, RefusedOnlyAtLimit
  <2> QED
      BY <2>1, <2>2, <2>3
<1>8. ASSUME NEW t \in Threads, RecycleLoad(t) PROVE BaseInv'
  <2>1. TypeOK'
        BY <1>8 DEF RecycleLoad, WellInit, Written
  <2>2. WellInit'
        BY <1>8 DEF RecycleLoad, WellInit, Written
  <2>3. RefusedOnlyAtLimit'
        BY <1>8 DEF RecycleLoad, WellInit, RefusedOnlyAtLimit
  <2> QED
      BY <2>1, <2>2, <2>3
<1>9. ASSUME NEW t \in Threads, RecyclePush(t) PROVE BaseInv'
  <2>1. TypeOK'
        BY <1>9 DEF RecyclePush, WellInit, Written
  <2>2. WellInit'
        BY <1>9 DEF RecyclePush, WellInit, Written
  <2>3. RefusedOnlyAtLimit'
        BY <1>9 DEF RecyclePush, WellInit, RefusedOnlyAtLimit
  <2> QED
      BY <2>1, <2>2, <2>3
<1>10. ASSUME NEW t \in Threads, RecycleRetry(t) PROVE BaseInv'
  <2>1. TypeOK'
        BY <1>10 DEF RecycleRetry, WellInit, Written
  <2>2. WellInit'
        BY <1>10 DEF RecycleRetry, WellInit, Written
  <2>3. RefusedOnlyAtLimit'
        BY <1>10 DEF RecycleRetry, WellInit, RefusedOnlyAtLimit
  <2> QED
      BY <2>1, <2>2, <2>3
<1>11. ASSUME NEW t \in Threads, Refused(t) PROVE BaseInv'
  <2>1. TypeOK'
        BY <1>11 DEF Refused, WellInit, Written
  <2>2. WellInit'
        BY <1>11 DEF Refused, WellInit, Written
  <2>3. RefusedOnlyAtLimit'
        BY <1>11 DEF Refused, WellInit, RefusedOnlyAtLimit
  <2> QED
      BY <2>1, <2>2, <2>3
<1>12. ASSUME NEW t \in Threads, NEW v \in Linkable, Keep(t, v) PROVE BaseInv'
  <2>1. TypeOK'
        BY <1>0, <1>12 DEF Keep, WellInit, Written
  <2>2. WellInit'
        BY <1>0, <1>12 DEF Keep, WellInit, Written
  <2>3. RefusedOnlyAtLimit'
        BY <1>12 DEF Keep, WellInit, RefusedOnlyAtLimit
  <2> QED
      BY <2>1, <2>2, <2>3
<1>13. ASSUME NEW t \in Threads, NEW n \in Nodes, Release(t, n) PROVE BaseInv'
  <2>1. TypeOK'
        BY <1>13 DEF Release, WellInit, Written
  <2>2. WellInit'
        BY <1>13 DEF Release, WellInit, Written
  <2>3. RefusedOnlyAtLimit'
        BY <1>13 DEF Release, WellInit, RefusedOnlyAtLimit
  <2> QED
      BY <2>1, <2>2, <2>3
<1>14. ASSUME NEW n \in Nodes, NEW v \in Linkable, Relink(n, v) PROVE BaseInv'
  <2>1. TypeOK'
        BY <1>0, <1>14 DEF Relink, WellInit, Written
  <2>2. WellInit'
        BY <1>0, <1>14 DEF Relink, WellInit, Written
  <2>3. RefusedOnlyAtLimit'
        BY <1>14 DEF Relink, WellInit, RefusedOnlyAtLimit
  <2> QED
      BY <2>1, <2>2, <2>3
<1>15. ASSUME UNCHANGED poolVars PROVE BaseInv'
      BY <1>15 DEF poolVars, WellInit, Written, RefusedOnlyAtLimit
<1> QED
    BY <1>1, <1>2, <1>3, <1>4, <1>5, <1>6, <1>7, <1>8,
       <1>9, <1>10, <1>11, <1>12, <1>13, <1>14, <1>15
    DEF PoolNext, PoolStep

\* The bump index and every pointer stay inside the array, however many
\* threads run apply() and recycle() at once.
THEOREM PoolTypeOK == PoolSpec => []TypeOK
<1>1. PoolSpec => []BaseInv
      BY BaseInit, BaseNext, PTL DEF PoolSpec
<1> QED
    BY <1>1, PTL DEF BaseInv

\* apply() never dereferences a next field that only malloc() has touched.
THEOREM PoolNoUninitRead == PoolSpec => []NoUninitRead
<1>1. PoolSpec => []BaseInv
      BY BaseInit, BaseNext, PTL DEF PoolSpec
<1>2. BaseInv => NoUninitRead
      BY DEF BaseInv, WellInit, NoUninitRead, Written
<1> QED
    BY <1>1, <1>2, PTL

\* apply() refuses only once all mCount records have been handed out.
THEOREM PoolRefusedOnlyAtLimit == PoolSpec => []RefusedOnlyAtLimit
<1>1. PoolSpec => []BaseInv
      BY BaseInit, BaseNext, PTL DEF PoolSpec
<1> QED
    BY <1>1, PTL DEF BaseInv

-----------------------------------------------------------------------------
(* Part 2: one applier.  While a thread stands between reading mStack and   *)
(* its compare-exchange nobody else may pop, so the record it examines      *)
(* stays on the stack and its next field stays as read: no ABA.             *)

OneApplier == \A s, t \in Allocators : s = t

Free == {n \in Nodes : n < mIndex /\ n \notin Out}

Owned ==
    /\ \A n \in Nodes : owners[n] <= 1
    /\ \A t \in Threads, n \in Nodes : InHand(t, n) => owners[n] = 0
    /\ \A s, t \in Threads, n \in Nodes : InHand(s, n) /\ InHand(t, n) => s = t
    /\ \A n \in Out : n < mIndex

\* The free records form one chain from mStack: closed, injective, with no
\* record before mStack, and wholly reachable from it.
Shape ==
    /\ Chained(Free)
    /\ \A n \in Free : next[n] = mStack => mStack = NULL
    /\ \A m, n \in Free : next[m] = next[n] /\ next[m] # NULL => m = n
    /\ \A S \in SUBSET Nodes : Chained(S) => Free \subseteq S

\* What the applier has read is still so.
Cursor ==
    \A t \in Threads :
        /\ pc[t] \in {"next", "cas", "index", "fresh", "applied"} => t \in Allocators
        /\ pc[t] \in {"next", "cas"} => p[t] \in Free
        /\ pc[t] = "cas" => nx[t] = next[p[t]]

ChainInv == Owned /\ Shape /\ Cursor

\* What ChainInv says about the stack as a whole.
LEMMA FreeIsFreeStack == BaseInv /\ Shape => Free = FreeStack
<1> SUFFICES ASSUME BaseInv, Shape PROVE Free = FreeStack
    OBVIOUS
<1>1. Free \in SUBSET Nodes /\ Chained(Free)
      BY DEF Free, Shape
<1>2. FreeStack \subseteq Free
      BY <1>1 DEF FreeStack
<1>3. Free \subseteq FreeStack
      BY <1>1 DEF FreeStack, Shape
<1> QED
    BY <1>2, <1>3

\* The chain invariant implies the two properties the pool promises.
LEMMA ChainImplies == BaseInv /\ ChainInv => Exclusive /\ Conserved
<1> SUFFICES ASSUME BaseInv, ChainInv PROVE Exclusive /\ Conserved
    OBVIOUS
<1>1. Free = FreeStack
      BY FreeIsFreeStack DEF ChainInv
<1>2. Exclusive
      BY <1>1 DEF ChainInv, Owned, Exclusive, Free
<1>3. Out \subseteq Nodes /\ \A n \in Out : n < mIndex
      BY DEF Out, ChainInv, Owned
<1>4. 0 .. mIndex - 1 \subseteq Nodes
      BY CountAssumption DEF BaseInv, TypeOK, Nodes
<1>5. \A n \in Nodes : n < mIndex <=> n \in 0 .. mIndex - 1
      BY CountAssumption DEF BaseInv, TypeOK, Nodes
<1>6. 0 .. mIndex - 1 = Out \cup Free
      BY <1>3, <1>4, <1>5 DEF Free
<1>7. Conserved
      BY <1>1, <1>6 DEF Conserved
<1> QED
    BY <1>2, <1>7

\* A step that neither takes nor returns a record, and rewrites next only of
\* records that are out, leaves the chain as it is.
LEMMA ShapeFrame ==
    ASSUME TypeOK, TypeOK', Shape, Free' = Free, mStack' = mStack,
           \A n \in Free : next'[n] = next[n]
    PROVE  Shape'
<1> USE DEF Shape
<1>1. Chained(Free)'
      BY DEF Chained
<1>2. ASSUME NEW S \in SUBSET Nodes, Chained(S)' PROVE Free' \subseteq S
  <2>1. Chained(S \cap Free)
        BY <1>2, <1>1 DEF Chained
  <2>2. S \cap Free \in SUBSET Nodes
        BY DEF Free
  <2> QED
      BY <2>1, <2>2
<1> QED
    BY <1>1, <1>2

\* After reset() no record is out and none is on the stack.
LEMMA ChainInit == PoolInit => ChainInv
<1> SUFFICES ASSUME PoolInit PROVE ChainInv
    OBVIOUS
<1>1. Out = {} /\ Free = {}
      BY CountAssumption DEF PoolInit, Out, Free, InHand, Nodes
<1> QED
    BY <1>1, CountAssumption, NullAssumption
    DEF PoolInit, ChainInv, Owned, Shape, Cursor, Chained, InHand, Nodes

\* With one applier, every step keeps the free records one chain.
LEMMA ChainNext == OneApplier /\ BaseInv /\ BaseInv' /\ ChainInv /\ [PoolNext]_poolVars => ChainInv'
<1> SUFFICES ASSUME OneApplier, BaseInv, BaseInv', ChainInv, [PoolNext]_poolVars
             PROVE  ChainInv'
    OBVIOUS
<1> USE CountAssumption, NullAssumption DEF BaseInv, TypeOK, Goto, locals, ChainInv
<1>0. Out \subseteq Nodes /\ Free \subseteq Nodes /\ mStack \in Free \cup {NULL}
      BY DEF Out, Free, Shape, Chained
<1>1. ASSUME NEW t \in Threads, ApplyLoad(t) PROVE ChainInv'
  <2>1. Out' = Out
        BY <1>1 DEF ApplyLoad, Examine, Out, InHand
  <2>2. Free' = Free
        BY <1>1, <2>1 DEF ApplyLoad, Free
  <2>3. Owned'
        BY <1>1, <2>1 DEF ApplyLoad, Examine, Owned, InHand
  <2>4. Shape'
        BY <1>1, <2>2, ShapeFrame DEF ApplyLoad
  <2>5. Cursor'
        BY <1>0, <1>1, <2>2 DEF ApplyLoad, Examine, Cursor
  <2> QED
      BY <2>3, <2>4, <2>5
<1>2. ASSUME NEW t \in Threads, ApplyNext(t) PROVE ChainInv'
  <2>1. Out' = Out
        BY <1>2 DEF ApplyNext, Out, InHand
  <2>2. Free' = Free
        BY <1>2, <2>1 DEF ApplyNext, Free
  <2>3. Owned'
        BY <1>2, <2>1 DEF ApplyNext, Owned, InHand
  <2>4. Shape'
        BY <1>2, <2>2, ShapeFrame DEF ApplyNext
  <2>5. Cursor'
        BY <1>0, <1>2, <2>2 DEF ApplyNext, Cursor
  <2> QED
      BY <2>3, <2>4, <2>5
<1>3. ASSUME NEW t \in Threads, ApplyPop(t) PROVE ChainInv'
  <2>0. /\ p[t] \in Free /\ p[t] \in Nodes /\ p[t] # NULL
        /\ nx[t] = next[p[t]] /\ t \in Allocators /\ mStack = p[t]
        BY <1>0, <1>3 DEF ApplyPop, Cursor, Nodes
  <2>1. Out' = Out \cup {p[t]}
        BY <1>3, <2>0 DEF ApplyPop, Out, InHand
  <2>2. Free' = Free \ {p[t]}
        BY <1>3, <2>1 DEF ApplyPop, Free
  <2>3. Owned'
        BY <1>3, <2>0, <2>1 DEF ApplyPop, Owned, InHand, Free, Out
  <2>4. Shape'
    <3>1. Chained(Free)' /\ nx[t] # p[t]
          BY <1>3, <2>0, <2>2 DEF ApplyPop, Shape, Chained
    <3>2. ASSUME NEW S \in SUBSET Nodes, Chained(S)' PROVE Free' \subseteq S
      <4>1. Chained(S \cup {p[t]})
            BY <1>3, <2>0, <3>2 DEF ApplyPop, Chained
      <4>2. S \cup {p[t]} \in SUBSET Nodes
            BY <2>0
      <4> QED
          BY <2>2, <4>1, <4>2 DEF Shape
    <3>3. \A n \in Free' : next'[n] = mStack' => mStack' = NULL
          BY <1>3, <2>0, <2>2 DEF ApplyPop, Shape
    <3> QED
        BY <1>3, <2>2, <3>1, <3>2, <3>3 DEF ApplyPop, Shape
  <2>5. Cursor'
        BY <1>3, <2>0, <2>2 DEF ApplyPop, Cursor, OneApplier
  <2> QED
      BY <2>3, <2>4, <2>5
<1>4. ASSUME NEW t \in Threads, ApplyRetry(t) PROVE ChainInv'
  <2>1. Out' = Out
        BY <1>4 DEF ApplyRetry, Examine, Out, InHand
  <2>2. Free' = Free
        BY <1>4, <2>1 DEF ApplyRetry, Free
  <2>3. Owned'
        BY <1>4, <2>1 DEF ApplyRetry, Examine, Owned, InHand
  <2>4. Shape'
        BY <1>4, <2>2, ShapeFrame DEF ApplyRetry
  <2>5. Cursor'
        BY <1>0, <1>4, <2>2 DEF ApplyRetry, Examine, Cursor
  <2> QED
      BY <2>3, <2>4, <2>5
<1>5. ASSUME NEW t \in Threads, IndexLoad(t) PROVE ChainInv'
  <2>0. \A s \in Threads, n \in Nodes : InHand(s, n)' <=> InHand(s, n)
        BY <1>5 DEF IndexLoad, TestIndex, InHand, WellInit, Nodes
  <2>1. Out' = Out
        BY <1>5, <2>0 DEF IndexLoad, Out
  <2>2. Free' = Free
        BY <1>5, <2>1 DEF IndexLoad, Free
  <2>3. Owned'
        BY <1>5, <2>0, <2>1 DEF IndexLoad, Owned
  <2>4. Shape'
        BY <1>5, <2>2, ShapeFrame DEF IndexLoad
  <2>5. Cursor'
        BY <1>0, <1>5, <2>2 DEF IndexLoad, TestIndex, Cursor
  <2> QED
      BY <2>3, <2>4, <2>5
<1>6. ASSUME NEW t \in Threads, IndexTake(t) PROVE ChainInv'
  <2>0. ii[t] = mIndex /\ mIndex \in Nodes /\ mIndex \notin Out
        BY <1>6 DEF IndexTake, WellInit, Owned, Nodes
  <2>a. \A s \in Threads, n \in Nodes :
            InHand(s, n)' <=> InHand(s, n) \/ (s = t /\ n = mIndex)
        BY <1>6, <2>0 DEF IndexTake, InHand
  <2>b. owners[mIndex] = 0 /\ \A s \in Threads : ~ InHand(s, mIndex)
        BY <2>0 DEF Out
  <2>1. Out' = Out \cup {mIndex}
        BY <1>6, <2>0, <2>a DEF IndexTake, Out
  <2>2. Free' = Free
        BY <1>6, <2>0, <2>1 DEF IndexTake, Free, Nodes
  <2>3. Owned'
    <3>1. \A n \in Out' : n < mIndex'
          BY <1>6, <1>0, <2>0, <2>1 DEF IndexTake, Owned, Nodes
    <3> QED
        BY <1>6, <2>a, <2>b, <3>1 DEF IndexTake, Owned
  <2>4. Shape'
        BY <1>6, <2>2, ShapeFrame DEF IndexTake
  <2>5. Cursor'
        BY <1>6, <2>2 DEF IndexTake, Cursor
  <2> QED
      BY <2>3, <2>4, <2>5
<1>7. ASSUME NEW t \in Threads, IndexRetry(t) PROVE ChainInv'
  <2>0. \A s \in Threads, n \in Nodes : InHand(s, n)' <=> InHand(s, n)
        BY <1>7 DEF IndexRetry, TestIndex, InHand, WellInit, Nodes
  <2>1. Out' = Out
        BY <1>7, <2>0 DEF IndexRetry, Out
  <2>2. Free' = Free
        BY <1>7, <2>1 DEF IndexRetry, Free
  <2>3. Owned'
        BY <1>7, <2>0, <2>1 DEF IndexRetry, Owned
  <2>4. Shape'
        BY <1>7, <2>2, ShapeFrame DEF IndexRetry
  <2>5. Cursor'
        BY <1>0, <1>7, <2>2 DEF IndexRetry, TestIndex, Cursor
  <2> QED
      BY <2>3, <2>4, <2>5
<1>8. ASSUME NEW t \in Threads, RecycleLoad(t) PROVE ChainInv'
  <2>0. p[t] \in Nodes /\ p[t] \in Out
        BY <1>8 DEF RecycleLoad, WellInit, Out, InHand
  <2>1. Out' = Out
        BY <1>8, <2>0 DEF RecycleLoad, Out, InHand
  <2>2. Free' = Free
        BY <1>8, <2>1 DEF RecycleLoad, Free
  <2>3. Owned'
        BY <1>8, <2>0, <2>1 DEF RecycleLoad, Owned, InHand
  <2>4. Shape'
    <3>1. \A m \in Free : next'[m] = next[m]
          BY <1>8, <2>0 DEF RecycleLoad, Free
    <3> QED
        BY <1>8, <2>2, <3>1, ShapeFrame DEF RecycleLoad
  <2>5. Cursor'
        BY <1>8, <2>0, <2>2 DEF RecycleLoad, Cursor, Free
  <2> QED
      BY <2>3, <2>4, <2>5
<1>9. ASSUME NEW t \in Threads, RecyclePush(t) PROVE ChainInv'
  <2>0. /\ p[t] \in Nodes /\ p[t] # NULL /\ p[t] \in Out /\ p[t] < mIndex
        /\ InHand(t, p[t]) /\ owners[p[t]] = 0
        BY <1>9 DEF RecyclePush, WellInit, InHand, Out, Owned, Nodes
  <2>1. Out' = Out \ {p[t]}
        BY <1>9, <2>0 DEF RecyclePush, Out, InHand, Owned
  <2>2. Free' = Free \cup {p[t]} /\ p[t] \notin Free
        BY <1>9, <2>0, <2>1 DEF RecyclePush, Free
  <2>3. Owned'
        BY <1>9, <2>0, <2>1 DEF RecyclePush, Owned, InHand
  <2>4. Shape'
    <3>1. Chained(Free)'
          BY <1>9, <2>2 DEF RecyclePush, Shape, Chained
    <3>2. ASSUME NEW S \in SUBSET Nodes, Chained(S)' PROVE Free' \subseteq S
      <4>1. Chained(S) /\ p[t] \in S
            BY <1>9, <2>0, <3>2 DEF RecyclePush, Chained
      <4> QED
          BY <2>2, <4>1 DEF Shape
    <3> QED
        BY <1>0, <1>9, <2>0, <2>2, <3>1, <3>2 DEF RecyclePush, Shape, Chained
  <2>5. Cursor'
        BY <1>9, <2>2 DEF RecyclePush, Cursor
  <2> QED
      BY <2>3, <2>4, <2>5
<1>10. ASSUME NEW t \in Threads, RecycleRetry(t) PROVE ChainInv'
  <2>0. p[t] \in Nodes /\ p[t] \in Out
        BY <1>10 DEF RecycleRetry, WellInit, Out, InHand
  <2>1. Out' = Out
        BY <1>10, <2>0 DEF RecycleRetry, Out, InHand
  <2>2. Free' = Free
        BY <1>10, <2>1 DEF RecycleRetry, Free
  <2>3. Owned'
        BY <1>10, <2>0, <2>1 DEF RecycleRetry, Owned, InHand
  <2>4. Shape'
    <3>1. \A m \in Free : next'[m] = next[m]
          BY <1>10, <2>0 DEF RecycleRetry, Free
    <3> QED
        BY <1>10, <2>2, <3>1, ShapeFrame DEF RecycleRetry
  <2>5. Cursor'
        BY <1>10, <2>0, <2>2 DEF RecycleRetry, Cursor, Free
  <2> QED
      BY <2>3, <2>4, <2>5
<1>11. ASSUME NEW t \in Threads, Refused(t) PROVE ChainInv'
  <2>1. Out' = Out
        BY <1>11 DEF Refused, Out, InHand, Nodes
  <2>2. Free' = Free
        BY <1>11, <2>1 DEF Refused, Free
  <2>3. Owned'
        BY <1>11, <2>1 DEF Refused, Owned, InHand, Nodes
  <2>4. Shape'
        BY <1>11, <2>2, ShapeFrame DEF Refused
  <2>5. Cursor'
        BY <1>0, <1>11, <2>2 DEF Refused, Cursor
  <2> QED
      BY <2>3, <2>4, <2>5
<1>12. ASSUME NEW t \in Threads, NEW v \in Linkable, Keep(t, v) PROVE ChainInv'
  <2>0. p[t] \in Nodes /\ p[t] \in Out
        BY <1>12 DEF Keep, Out, InHand
  <2>1. Out' = Out
        BY <1>12, <2>0 DEF Keep, Out, InHand
  <2>2. Free' = Free
        BY <1>12, <2>1 DEF Keep, Free
  <2>3. Owned'
        BY <1>12, <2>0, <2>1 DEF Keep, Owned, InHand
  <2>4. Shape'
    <3>1. \A m \in Free : next'[m] = next[m]
          BY <1>12, <2>0 DEF Keep, Free
    <3> QED
        BY <1>12, <2>2, <3>1, ShapeFrame DEF Keep
  <2>5. Cursor'
        BY <1>12, <2>0, <2>2 DEF Keep, Cursor, Free
  <2> QED
      BY <2>3, <2>4, <2>5
<1>13. ASSUME NEW t \in Threads, NEW n \in Nodes, Release(t, n) PROVE ChainInv'
  <2>0. n \in Nodes /\ n \in Out
        BY <1>13 DEF Release, Out
  <2>1. Out' = Out
        BY <1>13, <2>0 DEF Release, Out, InHand
  <2>2. Free' = Free
        BY <1>13, <2>1 DEF Release, Free
  <2>3. Owned'
        BY <1>13, <2>0, <2>1 DEF Release, Owned, InHand
  <2>4. Shape'
    <3>1. \A m \in Free : next'[m] = next[m]
          BY <1>13, <2>0 DEF Release, Free
    <3> QED
        BY <1>13, <2>2, <3>1, ShapeFrame DEF Release
  <2>5. Cursor'
        BY <1>13, <2>0, <2>2 DEF Release, Cursor, Free
  <2> QED
      BY <2>3, <2>4, <2>5
<1>14. ASSUME NEW n \in Nodes, NEW v \in Linkable, Relink(n, v) PROVE ChainInv'
  <2>0. n \in Nodes /\ n \in Out
        BY <1>14 DEF Relink, Out
  <2>1. Out' = Out
        BY <1>14, <2>0 DEF Relink, Out, InHand
  <2>2. Free' = Free
        BY <1>14, <2>1 DEF Relink, Free
  <2>3. Owned'
        BY <1>14, <2>0, <2>1 DEF Relink, Owned, InHand
  <2>4. Shape'
    <3>1. \A m \in Free : next'[m] = next[m]
          BY <1>14, <2>0 DEF Relink, Free
    <3> QED
        BY <1>14, <2>2, <3>1, ShapeFrame DEF Relink
  <2>5. Cursor'
        BY <1>14, <2>0, <2>2 DEF Relink, Cursor, Free
  <2> QED
      BY <2>3, <2>4, <2>5
<1>15. ASSUME UNCHANGED poolVars PROVE ChainInv'
  <2>1. Out' = Out
        BY <1>15 DEF poolVars, Out, InHand
  <2>2. Free' = Free
        BY <1>15, <2>1 DEF poolVars, Free
  <2>3. Owned'
        BY <1>15, <2>1 DEF poolVars, Owned, InHand
  <2>4. Shape'
        BY <1>15, <2>2, ShapeFrame DEF poolVars
  <2>5. Cursor'
        BY <1>15, <2>2 DEF poolVars, Cursor
  <2> QED
      BY <2>3, <2>4, <2>5
<1> QED
    BY <1>1, <1>2, <1>3, <1>4, <1>5, <1>6, <1>7, <1>8,
       <1>9, <1>10, <1>11, <1>12, <1>13, <1>14, <1>15
    DEF PoolNext, PoolStep

\* With a single applying thread, the chain invariant holds throughout.
LEMMA PoolInvariant == OneApplier => (PoolSpec => [](BaseInv /\ ChainInv))
<1> SUFFICES ASSUME OneApplier PROVE PoolSpec => [](BaseInv /\ ChainInv)
    OBVIOUS
<1>1. PoolInit => BaseInv /\ ChainInv
      BY BaseInit, ChainInit
<1>2. BaseInv /\ ChainInv /\ [PoolNext]_poolVars => (BaseInv /\ ChainInv)'
      BY BaseNext, ChainNext
<1> QED
    BY <1>1, <1>2, PTL DEF PoolSpec

\* With a single applying thread, no record is handed out twice, whatever the
\* other threads recycle and whatever the client writes.
THEOREM PoolExclusive == OneApplier => (PoolSpec => []Exclusive)
<1> SUFFICES ASSUME OneApplier PROVE PoolSpec => []Exclusive
    OBVIOUS
<1>1. BaseInv /\ ChainInv => Exclusive
      BY ChainImplies
<1> QED
    BY <1>1, PoolInvariant, PTL

\* Under the same condition none is lost: what recycle() has taken back can be
\* handed out again.
THEOREM PoolConserved == OneApplier => (PoolSpec => []Conserved)
<1> SUFFICES ASSUME OneApplier PROVE PoolSpec => []Conserved
    OBVIOUS
<1>1. BaseInv /\ ChainInv => Conserved
      BY ChainImplies
<1> QED
    BY <1>1, PoolInvariant, PTL
=============================================================================
