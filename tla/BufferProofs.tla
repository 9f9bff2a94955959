---------------------------- MODULE BufferProofs ----------------------------
(***************************************************************************)
(* Two buffers of P4 between threads that fill and threads that empty      *)
(* them.  The heap of server.c is correct for every number of buffers,     *)
(* every set of connections and every set of integer priorities.  And what *)
(* the user-level lock and condition variables do guarantee, for any       *)
(* number of producers and consumers and any capacity: the lock and the    *)
(* re-tested predicate protect the buffer of race.c whoever is woken.      *)
(***************************************************************************)
EXTENDS HeapQueue, CondVar, FiniteSetTheorems, WellFoundedInduction, TLAPS

-----------------------------------------------------------------------------
(* The heap of requests.                                                    *)

\* What the division of the code's index / 2 gives.
LEMMA Half ==
  \A k \in Nat : /\ k \div 2 \in Nat
                 /\ k = 2 * (k \div 2) \/ k = 2 * (k \div 2) + 1
  BY SMT

\* Swapping two used cells keeps the array's shape.
LEMMA SwapType ==
  ASSUME TypeOK, NEW i \in 1 .. size - 1, NEW j \in 1 .. size - 1
  PROVE  /\ Swap(i, j) \in [0 .. Buffers -> Data \union {Dummy}]
         /\ \A k \in 1 .. size - 1 : Swap(i, j)[k] \in Data
         /\ \A k \in 0 .. Buffers :
               Swap(i, j)[k] = IF k = j THEN connPool[i]
                               ELSE IF k = i THEN connPool[j] ELSE connPool[k]
  BY BuffersAssumption DEF TypeOK, bufSz, Swap

\* The type invariant is inductive on its own.
LEMMA TypeStep == TypeOK /\ [Next]_vars => TypeOK'
<1> SUFFICES ASSUME TypeOK, [Next]_vars PROVE TypeOK'
  OBVIOUS
<1> USE BuffersAssumption DEF TypeOK, bufSz
<1>1. ASSUME NEW d \in Data, Enqueue(d) PROVE TypeOK'
  BY <1>1 DEF Enqueue, isFull
<1>2. CASE SiftUp
  <2>1. index \div 2 \in 1 .. size - 1 /\ index \in 1 .. size - 1
    BY <1>2, Half DEF SiftUp, MustRise
  <2> QED
    BY <1>2, <2>1, SwapType DEF SiftUp
<1>3. CASE EnqueueReturns \/ DequeueReturns
  BY <1>3 DEF EnqueueReturns, DequeueReturns
<1>4. CASE Dequeue
  BY <1>4 DEF Dequeue, isEmpty
<1>5. CASE SiftDown
  <2>1. PICK child \in {index * 2, index * 2 + 1} :
           /\ connPool' = Swap(index, child) /\ index' = child
           /\ child < size
    BY <1>5 DEF SiftDown, MustSink, HasTwoChildren, HasOneChild, MinChild
  <2>2. index \in 1 .. size - 1 /\ child \in 1 .. size - 1
    BY <1>5, <2>1 DEF SiftDown
  <2> QED
    BY <1>5, <2>1, <2>2, SwapType DEF SiftDown
<1>6. CASE UNCHANGED vars
  BY <1>6 DEF vars
<1> QED
  BY <1>1, <1>2, <1>3, <1>4, <1>5, <1>6 DEF Next

\* Priorities of used cells can be compared.
LEMMA PriorityType ==
  ASSUME TypeOK, NEW k \in 1 .. size - 1 PROVE Priority(k) \in Int
  BY PrioritiesAssumption DEF TypeOK, Priority, Data

\* A swap exchanges two priorities and leaves the others.
LEMMA SwapPriority ==
  ASSUME TypeOK, NEW i \in 1 .. size - 1, NEW j \in 1 .. size - 1, i # j,
         connPool' = Swap(i, j), size' = size
  PROVE  /\ Priority(i)' = Priority(j)
         /\ Priority(j)' = Priority(i)
         /\ \A k \in 1 .. size - 1 :
               k # i /\ k # j => Priority(k)' = Priority(k)
  BY BuffersAssumption, SwapType DEF TypeOK, bufSz, Priority

\* One iteration of the loop of enqueue().
LEMMA SiftUpOrder == TypeOK /\ HeapOrder /\ SiftUp => HeapOrder'
<1> SUFFICES ASSUME TypeOK, HeapOrder, SiftUp PROVE HeapOrder'
  OBVIOUS
<1> PICK i \in 1 .. size - 1 : i = index
  BY DEF SiftUp, TypeOK
<1> PICK p \in Nat : p = i \div 2
  BY Half DEF TypeOK, bufSz
<1>1. i \in 2 .. size - 1 /\ p \in 1 .. size - 1 /\ p # i /\ size \in Nat
  BY Half DEF SiftUp, MustRise, TypeOK, bufSz
<1>2. /\ pc = "up" /\ pc' = "up" /\ index' = p /\ size' = size
      /\ Priority(i) < Priority(p)
      /\ connPool' = Swap(i, p)
  BY DEF SiftUp, MustRise
<1>3. /\ Priority(i)' = Priority(p) /\ Priority(p)' = Priority(i)
      /\ \A k \in 1 .. size - 1 : k # i /\ k # p => Priority(k)' = Priority(k)
  BY <1>1, <1>2, SwapPriority
<1>4. \A k \in 2 .. size - 1 : k # i => Priority(k \div 2) =< Priority(k)
  BY <1>2 DEF HeapOrder, Ordered
<1>5. \A k \in 2 .. size - 1 : k \div 2 = i => Priority(p) =< Priority(k)
  BY <1>1, <1>2 DEF HeapOrder
<1>6. \A k \in 1 .. size - 1 : Priority(k) \in Int
  BY PriorityType
<1>7. ASSUME NEW k \in 2 .. size - 1, k # p
      PROVE  Priority(k \div 2)' =< Priority(k)'
  <2>1. k \div 2 \in 1 .. size - 1 /\ k \div 2 # k
    BY <1>1, Half
  <2>2. CASE k = i
    BY <1>1, <1>2, <1>3, <1>6, <2>2
  <2>3. CASE k # i /\ k \div 2 = i
    BY <1>1, <1>3, <1>5, <1>7, <2>3
  <2>4. CASE k # i /\ k \div 2 = p
    BY <1>1, <1>2, <1>3, <1>4, <1>6, <1>7, <2>4
  <2>5. CASE k # i /\ k \div 2 # i /\ k \div 2 # p
    BY <1>3, <1>4, <1>7, <2>1, <2>5
  <2> QED
    BY <2>2, <2>3, <2>4, <2>5
<1>8. ASSUME NEW k \in 2 .. size - 1, k \div 2 = p, p > 1
      PROVE  Priority(p \div 2)' =< Priority(k)'
  <2>1. p \in 2 .. size - 1 /\ p \div 2 \in 1 .. size - 1 /\ p \div 2 # p
        /\ p \div 2 # i /\ k # p
    BY <1>1, <1>8, Half
  <2>2. Priority(p \div 2)' = Priority(p \div 2) /\ Priority(p \div 2) =< Priority(p)
    BY <1>1, <1>3, <1>4, <2>1
  <2>3. CASE k = i
    BY <1>3, <2>2, <2>3
  <2>4. CASE k # i
    BY <1>3, <1>4, <1>6, <1>8, <2>1, <2>2, <2>4
  <2> QED
    BY <2>3, <2>4
<1> QED
  BY <1>2, <1>7, <1>8 DEF HeapOrder, Ordered

\* The first step of enqueue(): only the new last cell may be out of order.
LEMMA EnqueueOrder ==
  ASSUME TypeOK, HeapOrder, NEW d \in Data, Enqueue(d) PROVE HeapOrder'
<1>1. /\ pc = "ready" /\ pc' = "up" /\ index' = size /\ size' = size + 1
      /\ size \in 1 .. Buffers
      /\ connPool' = [connPool EXCEPT ![size] = d]
  BY BuffersAssumption DEF Enqueue, isFull, TypeOK, bufSz
<1>2. \A k \in 1 .. size - 1 : Priority(k)' = Priority(k)
  BY <1>1, BuffersAssumption DEF TypeOK, Priority
<1>3. ASSUME NEW k \in 2 .. size' - 1 PROVE Ordered(k)' \/ k = index'
  <2>1. CASE k = size
    BY <1>1, <2>1
  <2>2. CASE k # size
    <3>1. k \in 2 .. size - 1 /\ k \div 2 \in 1 .. size - 1
      BY <1>1, <2>2, Half
    <3> QED
      BY <1>1, <1>2, <3>1 DEF HeapOrder, Ordered
  <2> QED
    BY <2>1, <2>2
<1>4. ASSUME NEW k \in 2 .. size' - 1 PROVE k \div 2 # index'
  BY <1>1, Half
<1> QED
  BY <1>1, <1>3, <1>4 DEF HeapOrder

\* The first step of dequeue(): only the root may be out of order.
LEMMA DequeueOrder == TypeOK /\ HeapOrder /\ Dequeue => HeapOrder'
<1> SUFFICES ASSUME TypeOK, HeapOrder, Dequeue PROVE HeapOrder'
  OBVIOUS
<1>1. /\ pc = "ready" /\ pc' = "down" /\ index' = 1 /\ size' = size - 1
      /\ size \in 2 .. Buffers + 1
      /\ connPool' = [connPool EXCEPT ![1] = connPool[size - 1]]
  BY BuffersAssumption DEF Dequeue, isEmpty, TypeOK, bufSz
<1>2. \A k \in 2 .. size - 1 : Priority(k)' = Priority(k)
  BY <1>1, BuffersAssumption DEF TypeOK, Priority
<1>3. ASSUME NEW k \in 2 .. size' - 1 PROVE Ordered(k)' \/ k \div 2 = index'
  <2>1. CASE k \div 2 # 1
    <3>1. k \in 2 .. size - 1 /\ k \div 2 \in 2 .. size - 1
      BY <1>1, <2>1, Half
    <3> QED
      BY <1>1, <1>2, <3>1 DEF HeapOrder, Ordered
  <2> QED
    BY <1>1, <2>1
<1> QED
  BY <1>1, <1>3 DEF HeapOrder

\* One iteration of the loop of dequeue().
LEMMA SiftDownOrder == TypeOK /\ HeapOrder /\ SiftDown => HeapOrder'
<1> SUFFICES ASSUME TypeOK, HeapOrder, SiftDown PROVE HeapOrder'
  OBVIOUS
<1>0. size \in Nat /\ index \in 1 .. size
  BY DEF SiftDown, TypeOK, bufSz
<1>1. PICK c \in {index * 2, index * 2 + 1} :
         /\ connPool' = Swap(index, c) /\ index' = c /\ c < size
         /\ index * 2 < size => Priority(c) =< Priority(index * 2)
         /\ index * 2 + 1 < size => Priority(c) =< Priority(index * 2 + 1)
         /\ Priority(c) < Priority(index)
  <2>1. CASE HasTwoChildren
    <3>1. /\ Priority(index * 2) \in Int /\ Priority(index * 2 + 1) \in Int
          /\ Priority(index) \in Int
      BY <1>0, <2>1, PriorityType DEF HasTwoChildren
    <3> QED
      BY <1>0, <2>1, <3>1 DEF SiftDown, MustSink, HasTwoChildren, HasOneChild, MinChild
  <2>2. CASE HasOneChild /\ ~HasTwoChildren
    <3>1. Priority(index * 2) \in Int /\ Priority(index) \in Int
      BY <1>0, <2>2, PriorityType DEF HasOneChild
    <3> QED
      BY <1>0, <2>2, <3>1 DEF SiftDown, MustSink, HasTwoChildren, HasOneChild
  <2> QED
    BY <2>1, <2>2 DEF SiftDown, MustSink
<1> PICK i \in 1 .. size - 1 : i = index
  BY <1>0, <1>1
<1>2. /\ pc = "down" /\ pc' = "down" /\ size' = size /\ index' = c
      /\ c \in 2 .. size - 1 /\ c # i /\ c \div 2 = i
  BY <1>0, <1>1, Half DEF SiftDown
<1>3. /\ Priority(i)' = Priority(c) /\ Priority(c)' = Priority(i)
      /\ \A k \in 1 .. size - 1 : k # i /\ k # c => Priority(k)' = Priority(k)
  BY <1>0, <1>1, <1>2, SwapPriority
<1>4. \A k \in 2 .. size - 1 : k \div 2 # i => Priority(k \div 2) =< Priority(k)
  BY <1>2 DEF HeapOrder, Ordered
<1>5. \A k \in 2 .. size - 1 :
         k \div 2 = i /\ i > 1 => Priority(i \div 2) =< Priority(k)
  BY <1>2 DEF HeapOrder
<1>6. \A k \in 1 .. size - 1 : Priority(k) \in Int
  BY PriorityType
<1>7. \A k \in 2 .. size - 1 : k \div 2 = i => Priority(c) =< Priority(k)
  BY <1>0, <1>1, Half
<1>8. ASSUME NEW k \in 2 .. size - 1, k \div 2 # c
      PROVE  Priority(k \div 2)' =< Priority(k)'
  <2>1. k \div 2 \in 1 .. size - 1 /\ k \div 2 # k
    BY <1>0, Half
  <2>2. CASE k = c
    BY <1>1, <1>2, <1>3, <1>6, <2>2
  <2>3. CASE k = i
    <3>1. Priority(k \div 2)' = Priority(k \div 2) /\ k # c /\ Priority(k)' = Priority(c)
      BY <1>2, <1>3, <1>8, <2>1, <2>3
    <3> QED
      BY <1>2, <1>5, <2>3, <3>1
  <2>4. CASE k # c /\ k # i /\ k \div 2 = i
    BY <1>3, <1>7, <2>4
  <2>5. CASE k # c /\ k # i /\ k \div 2 # i
    BY <1>3, <1>4, <1>8, <2>1, <2>5
  <2> QED
    BY <2>2, <2>3, <2>4, <2>5
<1>9. ASSUME NEW k \in 2 .. size - 1, k \div 2 = c
      PROVE  Priority(c \div 2)' =< Priority(k)'
  <2>1. k # c /\ k # i /\ k \div 2 # i
    BY <1>2, <1>9, Half
  <2> QED
    BY <1>2, <1>3, <1>4, <1>9, <2>1
<1> QED
  BY <1>2, <1>8, <1>9 DEF HeapOrder, Ordered

\* The loops end with the order restored everywhere.
LEMMA ReturnOrder ==
  TypeOK /\ HeapOrder /\ (EnqueueReturns \/ DequeueReturns) => HeapOrder'
<1> SUFFICES ASSUME TypeOK, HeapOrder, EnqueueReturns \/ DequeueReturns
             PROVE  HeapOrder'
  OBVIOUS
<1>1. /\ pc' = "ready" /\ UNCHANGED <<connPool, size>> /\ size \in Nat
      /\ index \in 1 .. size
  BY DEF EnqueueReturns, DequeueReturns, TypeOK, bufSz
<1>2. ASSUME NEW k \in 2 .. size - 1 PROVE Ordered(k)
  <2>1. /\ k \div 2 \in 1 .. size - 1 /\ Priority(k) \in Int
        /\ Priority(k \div 2) \in Int
    BY <1>1, Half, PriorityType
  <2>2. CASE pc = "up" /\ k = index
    BY <2>1, <2>2 DEF EnqueueReturns, DequeueReturns, MustRise, Ordered
  <2>3. CASE pc = "down" /\ k \div 2 = index
    <3>1. k = 2 * index \/ k = 2 * index + 1
      BY <2>3, Half
    <3>2. ~MustSink
      BY <2>3 DEF EnqueueReturns, DequeueReturns
    <3>3. ~(Priority(index) > Priority(k))
      BY <1>1, <3>1, <3>2 DEF MustSink, HasTwoChildren, HasOneChild
    <3> QED
      BY <2>1, <2>3, <3>3 DEF Ordered
  <2> QED
    BY <2>2, <2>3 DEF HeapOrder
<1> QED
  BY <1>1, <1>2 DEF HeapOrder, Ordered, Priority

-----------------------------------------------------------------------------
HeapInv == TypeOK /\ HeapOrder

\* The loop invariants hold throughout every behaviour of the heap.
THEOREM HeapInvariant == Spec => []HeapInv
<1>1. Init => HeapInv
  BY BuffersAssumption DEF Init, HeapInv, TypeOK, HeapOrder, bufSz, Dummy
<1>2. HeapInv /\ [Next]_vars => HeapInv'
  <2> SUFFICES ASSUME TypeOK, HeapOrder, [Next]_vars PROVE HeapOrder'
    BY TypeStep DEF HeapInv
  <2>1. CASE UNCHANGED vars
    BY <2>1 DEF vars, HeapOrder, Ordered, Priority
  <2> QED
    BY <2>1, EnqueueOrder, SiftUpOrder, DequeueOrder, SiftDownOrder, ReturnOrder
       DEF Next
<1> QED
  BY <1>1, <1>2, PTL DEF Spec

\* In a heap no cell is below the root: the cell of least index among those
\* that were would have its parent, which is not, above it.
LEMMA RootLeast == HeapInv => RootIsMin
<1> SUFFICES ASSUME TypeOK, HeapOrder, pc = "ready",
                    NEW j \in 1 .. size - 1, ~(Priority(1) =< Priority(j))
             PROVE  FALSE
  BY DEF HeapInv, RootIsMin
<1> DEFINE T == {k \in Nat : k \in 1 .. size - 1 /\ ~(Priority(1) =< Priority(k))}
<1>1. size \in Nat
  BY DEF TypeOK, bufSz
<1>2. T \subseteq Nat /\ T # {}
  BY <1>1
<1>3. PICK x \in T : \A y \in T : ~(<<y, x>> \in OpToRel(<, Nat))
  BY <1>2, NatLessThanWellFounded, WFMin, Zenon
<1>4. \A y \in T : ~(y < x)
  BY <1>2, <1>3 DEF OpToRel
<1>5. x \in 2 .. size - 1
  BY <1>1, PriorityType
<1>6. x \div 2 \in 1 .. size - 1 /\ x \div 2 < x /\ x \div 2 \in Nat
  BY <1>1, <1>5, Half
<1>7. x \div 2 \notin T
  BY <1>4, <1>6
<1>8. Priority(1) =< Priority(x \div 2) /\ Priority(x \div 2) =< Priority(x)
  BY <1>5, <1>6, <1>7 DEF HeapOrder, Ordered
<1>9. Priority(1) \in Int /\ Priority(x \div 2) \in Int /\ Priority(x) \in Int
  BY <1>1, <1>5, <1>6, PriorityType
<1> QED
  BY <1>8, <1>9

\* Whatever the number of buffers, the array holds requests in heap order and
\* dequeue() always hands out one of least priority.
THEOREM HeapSoundHolds == Spec => []HeapSound
  BY HeapInvariant, RootLeast, PTL DEF HeapInv, HeapSound

-----------------------------------------------------------------------------
(* The array heap implements the priority queue.                            *)

\* A descriptor is in one cell of the buffer, whatever the loops have moved.
Distinct == \A i, j \in 1 .. size - 1 :
              connPool[i].connfd = connPool[j].connfd => i = j

\* A swap exchanges two requests and loses none.
LEMMA SwapKeepsItems ==
  ASSUME TypeOK, Distinct, NEW i \in 1 .. size - 1, NEW j \in 1 .. size - 1,
         connPool' = Swap(i, j), size' = size
  PROVE  Items' = Items /\ Distinct'
<1>1. \A k \in 1 .. size - 1 : k \in 0 .. Buffers
  BY BuffersAssumption DEF TypeOK, bufSz
<1>2. \A k \in 1 .. size - 1 :
         connPool'[k] = IF k = j THEN connPool[i]
                        ELSE IF k = i THEN connPool[j] ELSE connPool[k]
  BY <1>1, SwapType
<1>3. ASSUME NEW k \in 1 .. size - 1
      PROVE  /\ \E l \in 1 .. size - 1 : connPool'[k] = connPool[l]
             /\ \E l \in 1 .. size - 1 : connPool[k] = connPool'[l]
  BY <1>2
<1>4. Items' = {connPool'[k] : k \in 1 .. size - 1}
  BY DEF Items
<1>5. Items' = Items
  BY <1>3, <1>4 DEF Items
<1>6. Distinct'
  BY <1>2 DEF Distinct
<1> QED
  BY <1>5, <1>6

\* No more requests than cells in use.
LEMMA ItemsBound == TypeOK => IsFiniteSet(Items) /\ Cardinality(Items) =< size - 1
<1> SUFFICES ASSUME TypeOK PROVE IsFiniteSet(Items) /\ Cardinality(Items) =< size - 1
  OBVIOUS
<1> DEFINE Cells == 1 .. size - 1
<1>1. size \in Nat /\ size >= 1 /\ size - 1 \in Nat
  BY BuffersAssumption DEF TypeOK, bufSz
<1>2. IsFiniteSet(Cells) /\ Cardinality(Cells) = size - 1
  BY <1>1, FS_Interval
<1>3. [k \in Cells |-> connPool[k]] \in Surjection(Cells, Items)
  BY DEF Surjection, Items
<1> QED
  BY <1>2, <1>3, FS_Surjection

\* enqueue() adds its request, when there is room.
LEMMA EnqueuePuts ==
  ASSUME TypeOK, Distinct, NEW d \in Data, Enqueue(d)
  PROVE  Abstract!Put(d) /\ Distinct'
<1>1. /\ size \in 1 .. Buffers /\ size' = size + 1 /\ ret' = ret
      /\ connPool' = [connPool EXCEPT ![size] = d]
  BY BuffersAssumption DEF Enqueue, isFull, TypeOK, bufSz
<1>2. \A k \in 1 .. size : connPool'[k] = IF k = size THEN d ELSE connPool[k]
  BY <1>1 DEF TypeOK
<1>3. size' - 1 = size /\ size \in Nat
  BY <1>1
<1>4. \A e \in Items : e.connfd # d.connfd
  BY DEF Enqueue
<1>5. \A k \in 1 .. size - 1 : connPool[k] \in Items
  BY DEF Items
<1>6. Items' = {connPool'[k] : k \in 1 .. size}
  BY <1>3 DEF Items
<1>7. Items' = Items \union {d}
  <2>1. ASSUME NEW k \in 1 .. size PROVE connPool'[k] \in Items \union {d}
    <3>1. k # size => k \in 1 .. size - 1
      BY <1>3
    <3> QED
      BY <1>2, <1>5, <3>1
  <2>2. ASSUME NEW e \in Items PROVE \E k \in 1 .. size : e = connPool'[k]
    <3>1. PICK k \in 1 .. size - 1 : e = connPool[k]
      BY DEF Items
    <3>2. k \in 1 .. size /\ k # size
      BY <1>3
    <3> QED
      BY <1>2, <3>1, <3>2
  <2>3. size \in 1 .. size /\ connPool'[size] = d
    BY <1>1, <1>2
  <2> QED
    BY <1>6, <2>1, <2>2, <2>3
<1>8. d \notin Items
  BY <1>4
<1>9. Cardinality(Items) < Buffers
  <2>1. Cardinality(Items) =< size - 1 /\ Cardinality(Items) \in Nat
    BY ItemsBound, FS_CardinalityType
  <2> QED
    BY <1>1, <2>1, BuffersAssumption
<1>10. Distinct'
  <2> SUFFICES ASSUME NEW i \in 1 .. size, NEW j \in 1 .. size,
                      connPool'[i].connfd = connPool'[j].connfd
               PROVE  i = j
    BY <1>3 DEF Distinct
  <2>1. \A k \in 1 .. size : k # size => k \in 1 .. size - 1
    BY <1>3
  <2>2. CASE i # size /\ j # size
    <3>1. /\ i \in 1 .. size - 1 /\ j \in 1 .. size - 1
          /\ connPool[i].connfd = connPool[j].connfd
      BY <1>2, <2>1, <2>2
    <3> QED
      BY <3>1 DEF Distinct
  <2>3. CASE i # size /\ j = size
    BY <1>2, <1>4, <1>5, <2>1, <2>3
  <2>4. CASE i = size /\ j # size
    BY <1>2, <1>4, <1>5, <2>1, <2>4
  <2> QED
    BY <2>2, <2>3, <2>4
<1>11. Abstract!Cardinality(Items) = Cardinality(Items)
  BY DEF Abstract!Cardinality, Cardinality
<1> QED
  BY <1>1, <1>7, <1>8, <1>9, <1>10, <1>11 DEF Abstract!Put

\* dequeue() removes the request it returns, and none has a lower priority.
LEMMA DequeueTakes ==
  ASSUME TypeOK, Distinct, RootIsMin, Dequeue
  PROVE  Abstract!Take /\ Distinct'
<1>0. size \in 2 .. Buffers + 1
  BY BuffersAssumption DEF Dequeue, isEmpty, TypeOK, bufSz
<1>1. /\ size \in 2 .. Buffers + 1 /\ size' = size - 1 /\ ret' = connPool[1]
      /\ connPool' = [connPool EXCEPT ![1] = connPool[size - 1]] /\ pc = "ready"
  BY <1>0 DEF Dequeue
<1>2. /\ size - 1 \in 1 .. size - 1 /\ 1 \in 1 .. size - 1
      /\ \A k \in 1 .. size - 2 : k \in 1 .. size - 1 /\ k # size - 1
      /\ \A k \in 1 .. size - 1 : k # size - 1 => k \in 1 .. size - 2
  BY <1>1
<1>3. \A k \in 1 .. size - 2 :
         connPool'[k] = IF k = 1 THEN connPool[size - 1] ELSE connPool[k]
  <2>1. DOMAIN connPool = 0 .. Buffers
    BY DEF TypeOK
  <2>2. \A k \in 1 .. size - 2 : k \in 0 .. Buffers
    BY <1>1, BuffersAssumption
  <2> QED
    BY <1>1, <2>1, <2>2
<1>4. Items' = {connPool'[k] : k \in 1 .. size - 2}
  <2>1. size' - 1 = size - 2
    BY <1>1
  <2> QED
    BY <2>1 DEF Items
<1>5. \A k \in 1 .. size - 1 : connPool[k] \in Items
  BY DEF Items
<1>6. Items' = Items \ {connPool[1]}
  <2>1. ASSUME NEW k \in 1 .. size - 2 PROVE connPool'[k] \in Items \ {connPool[1]}
    <3>1. CASE k = 1
      <4>1. size - 1 # 1
        BY <1>1, <3>1
      <4>2. connPool[size - 1] # connPool[1]
        BY <1>2, <4>1 DEF Distinct
      <4> QED
        BY <1>2, <1>3, <1>5, <3>1, <4>2
    <3>2. CASE k # 1
      <4>1. connPool[k] # connPool[1]
        BY <1>2, <3>2 DEF Distinct
      <4> QED
        BY <1>2, <1>3, <1>5, <3>2, <4>1
    <3> QED
      BY <3>1, <3>2
  <2>2. ASSUME NEW x \in Items \ {connPool[1]}
        PROVE  \E k \in 1 .. size - 2 : x = connPool'[k]
    <3>1. PICK k \in 1 .. size - 1 : x = connPool[k] /\ k # 1
      BY DEF Items
    <3>2. CASE k = size - 1
      <4>1. 1 \in 1 .. size - 2
        BY <1>1, <3>1, <3>2
      <4> QED
        BY <1>3, <3>1, <3>2, <4>1
    <3>3. CASE k # size - 1
      <4>1. k \in 1 .. size - 2
        BY <1>2, <3>3
      <4> QED
        BY <1>3, <3>1, <4>1
    <3> QED
      BY <3>2, <3>3
  <2> QED
    BY <1>4, <2>1, <2>2
<1>7. connPool[1] \in Abstract!Least(Items)
  <2>1. ASSUME NEW x \in Items PROVE connPool[1].priority =< x.priority
    <3>1. PICK k \in 1 .. size - 1 : x = connPool[k]
      BY DEF Items
    <3> QED
      BY <1>1, <3>1 DEF RootIsMin, Priority
  <2> QED
    BY <1>2, <1>5, <2>1 DEF Abstract!Least
<1>8. Distinct'
  <2> SUFFICES ASSUME NEW i \in 1 .. size - 2, NEW j \in 1 .. size - 2,
                      connPool'[i].connfd = connPool'[j].connfd
               PROVE  i = j
    BY <1>1 DEF Distinct
  <2> QED
    BY <1>2, <1>3 DEF Distinct
<1> QED
  BY <1>1, <1>6, <1>7, <1>8 DEF Abstract!Take

\* Every step of the array heap is a step of the priority queue or none.
LEMMA StepImplements ==
  HeapInv /\ Distinct /\ [Next]_vars
    => Distinct' /\ [Abstract!Next]_<< Items, ret >>
<1> SUFFICES ASSUME TypeOK, HeapOrder, Distinct, [Next]_vars
             PROVE  Distinct' /\ [Abstract!Next]_<< Items, ret >>
  BY DEF HeapInv
<1>1. ASSUME NEW d \in Data, Enqueue(d) PROVE Distinct' /\ Abstract!Next
  BY <1>1, EnqueuePuts DEF Abstract!Next
<1>2. CASE Dequeue
  BY <1>2, RootLeast, DequeueTakes DEF HeapInv, Abstract!Next
<1>3. CASE SiftUp
  <2>1. PICK i \in 1 .. size - 1 : i = index
    BY <1>3 DEF SiftUp, TypeOK
  <2>2. PICK j \in 1 .. size - 1 : j = i \div 2
    BY <1>3, <2>1, Half DEF SiftUp, MustRise, TypeOK, bufSz
  <2>3. connPool' = Swap(i, j) /\ size' = size /\ ret' = ret
    BY <1>3, <2>1, <2>2 DEF SiftUp
  <2>4. Items' = Items /\ Distinct'
    BY <2>3, SwapKeepsItems
  <2> QED
    BY <2>3, <2>4
<1>4. CASE SiftDown
  <2>1. PICK child \in {index * 2, index * 2 + 1} :
           connPool' = Swap(index, child) /\ child < size
    <3>1. index \in Int /\ size \in Int
      BY BuffersAssumption DEF TypeOK, bufSz
    <3> QED
      BY <1>4, <3>1 DEF SiftDown, MustSink, HasTwoChildren, HasOneChild, MinChild
  <2>2. index \in 1 .. size - 1 /\ child \in 1 .. size - 1
    BY <1>4, <2>1, BuffersAssumption DEF SiftDown, TypeOK, bufSz
  <2>3. size' = size /\ ret' = ret
    BY <1>4 DEF SiftDown
  <2> QED
    BY <2>1, <2>2, <2>3, SwapKeepsItems
<1>5. CASE EnqueueReturns \/ DequeueReturns \/ UNCHANGED vars
  <2>1. connPool' = connPool /\ size' = size /\ ret' = ret
    BY <1>5 DEF EnqueueReturns, DequeueReturns, vars
  <2> QED
    BY <2>1 DEF Distinct, Items
<1> QED
  BY <1>1, <1>2, <1>3, <1>4, <1>5 DEF Next

\* The empty buffer is an empty priority queue, and nothing was returned yet.
LEMMA InitImplements == Init => Distinct /\ Abstract!Init
<1> SUFFICES ASSUME Init PROVE Distinct /\ Abstract!Init
  OBVIOUS
<1>1. 1 .. size - 1 = {}
  BY DEF Init
<1>2. Items = {} /\ Distinct
  BY <1>1 DEF Items, Distinct
<1>3. Dummy \notin Data
  BY ConnsAssumption DEF Dummy, Data
<1> QED
  BY <1>2, <1>3 DEF Init, Abstract!Init

\* Whatever the number of buffers, enqueue() loses and duplicates no request,
\* however the loops move them, and dequeue() removes exactly the one it
\* returns, which is one of least priority.
THEOREM QueueIsImplemented == Spec => ImplementsPriorityQueue
<1>1. Spec => [](HeapInv /\ Distinct)
  <2>1. Init => HeapInv /\ Distinct
    BY InitImplements, BuffersAssumption
       DEF Init, HeapInv, TypeOK, HeapOrder, bufSz, Dummy
  <2>2. HeapInv /\ Distinct /\ [Next]_vars => Distinct'
    BY StepImplements
  <2> QED
    BY InitImplements, HeapInvariant, <2>2, PTL DEF Spec
<1> QED
  BY <1>1, InitImplements, StepImplements, PTL
     DEF Spec, ImplementsPriorityQueue, Abstract!Spec

-----------------------------------------------------------------------------
(* The lock, the condition variables and the buffer they guard.             *)

USE NAssumption, MaxNumAssumption, ThreadsAssumption

CvInv == CvTypeOK /\ LockDiscipline /\ BufferBounds /\ TicketsAhead

\* The labels and counters keep their types.
LEMMA CvTypeStep == CvTypeOK /\ [CvNext]_cvvars => CvTypeOK'
<1> SUFFICES ASSUME CvTypeOK, [CvNext]_cvvars PROVE CvTypeOK'
  OBVIOUS
<1> USE DEF CvTypeOK, Labels, Goto, kernel, Threads, Conds, WaitsOn, Signals
<1>1. ASSUME NEW t \in Threads, Step(t) PROVE CvTypeOK'
  <2>1. CASE Acquire(t) \/ Release(t) \/ Unlock(t) \/ Reacquire(t)
    BY <2>1 DEF Acquire, Release, Unlock, Reacquire
  <2>2. CASE Test(t)
    BY <2>2 DEF Test
  <2>3. CASE Work(t)
    BY <2>3 DEF Work
  <2>4. CASE Ticket(t)
    BY <2>4 DEF Ticket
  <2>5. CASE ReadNum(t)
    <3>1. num[WaitsOn(t)] \in Nat
      OBVIOUS
    <3> QED
      BY <2>5, <3>1 DEF ReadNum
  <2>6. CASE CondSleep(t)
    <3>1. n[t] \in Nat /\ n[t] .. n[t] + 3 \subseteq Nat
      OBVIOUS
    <3> QED
      BY <2>6, <3>1 DEF CondSleep
  <2>7. CASE WakeUp(t)
    BY <2>7 DEF WakeUp
  <2>8. CASE Signal(t)
    BY <2>8 DEF Signal
  <2>9. CASE CondWakeup(t)
    BY <2>9 DEF CondWakeup, Sleepers
  <2> QED
    BY <1>1, <2>1, <2>2, <2>3, <2>4, <2>5, <2>6, <2>7, <2>8, <2>9 DEF Step
<1>2. CASE UNCHANGED cvvars
  BY <1>2 DEF cvvars
<1> QED
  BY <1>1, <1>2 DEF CvNext

\* The lock stays with the one thread in the critical section.
LEMMA LockStep == CvTypeOK /\ LockDiscipline /\ [CvNext]_cvvars => LockDiscipline'
<1> SUFFICES ASSUME CvTypeOK, LockDiscipline, [CvNext]_cvvars PROVE LockDiscipline'
  OBVIOUS
<1> USE DEF CvTypeOK, LockDiscipline, Holding, Goto
<1>1. ASSUME NEW t \in Threads, Step(t) PROVE LockDiscipline'
  <2>1. CASE Acquire(t) \/ Reacquire(t)
    BY <2>1 DEF Acquire, Reacquire
  <2>2. CASE Release(t) \/ Unlock(t)
    BY <2>2 DEF Release, Unlock
  <2>3. CASE Test(t) \/ Work(t) \/ Ticket(t) \/ Signal(t)
    BY <2>3 DEF Test, Work, Ticket, Signal
  <2>4. CASE ReadNum(t) \/ CondSleep(t) \/ WakeUp(t)
    BY <2>4 DEF ReadNum, CondSleep, WakeUp
  <2>5. CASE CondWakeup(t)
    BY <2>5 DEF CondWakeup, Sleepers
  <2> QED
    BY <1>1, <2>1, <2>2, <2>3, <2>4, <2>5 DEF Step
<1>2. CASE UNCHANGED cvvars
  BY <1>2 DEF cvvars
<1> QED
  BY <1>1, <1>2 DEF CvNext

\* A thread that goes on to its work has tested the predicate under the lock.
LEMMA BufferStep ==
  CvTypeOK /\ LockDiscipline /\ BufferBounds /\ [CvNext]_cvvars => BufferBounds'
<1> SUFFICES ASSUME CvTypeOK, LockDiscipline, BufferBounds, [CvNext]_cvvars
             PROVE  BufferBounds'
  OBVIOUS
<1> USE DEF CvTypeOK, BufferBounds, Goto, MustWait
<1>1. ASSUME NEW t \in Threads, Step(t) PROVE BufferBounds'
  <2>1. CASE Work(t)
    <3>1. \A u \in Threads : u # t => stmt[u] # "work"
      BY <2>1 DEF Work, LockDiscipline, Holding
    <3> QED
      BY <2>1, <3>1 DEF Work
  <2>2. CASE Test(t)
    BY <2>2 DEF Test
  <2>3. CASE Acquire(t) \/ Release(t) \/ Unlock(t) \/ Reacquire(t) \/ Ticket(t)
             \/ Signal(t) \/ ReadNum(t) \/ CondSleep(t) \/ WakeUp(t)
    BY <2>3 DEF Acquire, Release, Unlock, Reacquire, Ticket, Signal, ReadNum,
                CondSleep, WakeUp
  <2>4. CASE CondWakeup(t)
    BY <2>4 DEF CondWakeup, Sleepers
  <2> QED
    BY <1>1, <2>1, <2>2, <2>3, <2>4 DEF Step
<1>2. CASE UNCHANGED cvvars
  BY <1>2 DEF cvvars
<1> QED
  BY <1>1, <1>2 DEF CvNext

\* The two counters of a condition keep their order.
LEMMA TicketStep == CvTypeOK /\ TicketsAhead /\ [CvNext]_cvvars => TicketsAhead'
<1> SUFFICES ASSUME CvTypeOK, TicketsAhead, [CvNext]_cvvars PROVE TicketsAhead'
  OBVIOUS
<1> USE DEF CvTypeOK, TicketsAhead, Conds, WaitsOn, Signals
<1>1. ASSUME NEW t \in Threads, Step(t) PROVE TicketsAhead'
  <2>1. CASE Ticket(t)
    BY <2>1 DEF Ticket
  <2>2. CASE Signal(t)
    BY <2>2 DEF Signal
  <2>3. CASE UNCHANGED <<num, curr>>
    BY <2>3
  <2> QED
    BY <1>1, <2>1, <2>2, <2>3 DEF Step, Acquire, Test, Work, Release, Unlock,
       ReadNum, CondSleep, WakeUp, Reacquire, CondWakeup
<1>2. CASE UNCHANGED cvvars
  BY <1>2 DEF cvvars
<1> QED
  BY <1>1, <1>2 DEF CvNext

\* The conjunction is inductive.
THEOREM CvInvariance == CvSpec => []CvInv
<1>1. CvInit => CvInv
  BY DEF CvInit, CvInv, CvTypeOK, Labels, LockDiscipline, Holding, BufferBounds,
         MustWait, TicketsAhead
<1>2. CvInv /\ [CvNext]_cvvars => CvInv'
  BY CvTypeStep, LockStep, BufferStep, TicketStep DEF CvInv
<1> QED
  BY <1>1, <1>2, PTL DEF CvSpec

\* cv_wait() returns with the lock, and the lock excludes.
THEOREM LockDisciplineHolds == CvSpec => []LockDiscipline
  BY CvInvariance, PTL DEF CvInv

\* The buffer is never overrun or underrun, however wrong the wakeups are.
THEOREM BufferBoundsHold == CvSpec => []BufferBounds
  BY CvInvariance, PTL DEF CvInv

\* A ticket is signalled at most once and only after it was drawn.
THEOREM TicketsAheadHolds == CvSpec => []TicketsAhead
  BY CvInvariance, PTL DEF CvInv

\* Lock discipline and buffer bounds together: the buffer is guarded.
THEOREM BufferGuardedHolds == CvSpec => []BufferGuarded
<1>1. CvInv => BufferGuarded
  BY DEF CvInv, BufferGuarded
<1> QED
  BY CvInvariance, <1>1, PTL
=============================================================================
