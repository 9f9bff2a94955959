----------------------------- MODULE HeapQueue -----------------------------
(***************************************************************************)
(* The request buffer of P4/web_server/server.c: a binary heap kept in the *)
(* array connPool[1 .. size-1], least priority at the root, cell 0 being a *)
(* dummy.  One iteration of each sift loop is one step, so that the loop   *)
(* invariants are invariants of the specification.                         *)
(*                                                                         *)
(* The cells malloc() returns are indeterminate; the model marks a cell    *)
(* that was never written with Dummy, the value the code gives cell 0, so  *)
(* that a read of one would break the heap order.                          *)
(***************************************************************************)
EXTENDS Integers, FiniteSets

CONSTANTS Conns,       \* connection descriptors
          Priorities,  \* values of struct data's int priority
          Buffers      \* the [buffers] argument of the server

ASSUME PrioritiesAssumption == Priorities \subseteq Int
ASSUME BuffersAssumption == Buffers \in Nat \ {0}
\* A descriptor is what Accept() returns, which exits the server on -1.
ASSUME ConnsAssumption == -1 \notin Conns

VARIABLES connPool,  \* struct queue: the array of Buffers + 1 cells
          size,      \* struct queue: index of the first free cell
          pc,        \* "ready", or inside the loop of enqueue / dequeue
          index,     \* the loop's local variable
          ret        \* the request returned by the latest dequeue()

vars == <<connPool, size, pc, index, ret>>

Data == [priority : Priorities, connfd : Conns]
Dummy == [priority |-> -1, connfd |-> -1]
bufSz == Buffers + 1

Init == /\ connPool = [i \in 0 .. Buffers |-> Dummy]
        /\ size = 1
        /\ pc = "ready"
        /\ index = 0
        /\ ret = Dummy

isEmpty == size = 1
isFull == bufSz = size

Priority(i) == connPool[i].priority

Swap(i, j) == [connPool EXCEPT ![i] = connPool[j], ![j] = connPool[i]]

\* The requests in the buffer.
Items == {connPool[i] : i \in 1 .. size - 1}

-----------------------------------------------------------------------------
\* enqueue().  Its only caller tests isFull() first (WebServer shows that the
\* test still holds at the call), and a descriptor is buffered once: it stays
\* open, and so is not reused, until a worker has dequeued and closed it.
Enqueue(d) == /\ pc = "ready"
              /\ ~isFull
              /\ \A e \in Items : e.connfd # d.connfd
              /\ connPool' = [connPool EXCEPT ![size] = d]
              /\ index' = size
              /\ size' = size + 1
              /\ pc' = "up"
              /\ UNCHANGED ret

MustRise == index \div 2 # 0 /\ Priority(index) < Priority(index \div 2)

SiftUp == /\ pc = "up" /\ MustRise
          /\ connPool' = Swap(index, index \div 2)
          /\ index' = index \div 2
          /\ UNCHANGED <<size, pc, ret>>

EnqueueReturns == /\ pc = "up" /\ ~MustRise
                  /\ pc' = "ready"
                  /\ UNCHANGED <<connPool, size, index, ret>>

-----------------------------------------------------------------------------
\* dequeue(), called after isEmpty() was found false.
Dequeue == /\ pc = "ready"
           /\ ~isEmpty
           /\ ret' = connPool[1]
           /\ connPool' = [connPool EXCEPT ![1] = connPool[size - 1]]
           /\ size' = size - 1
           /\ index' = 1
           /\ pc' = "down"

HasTwoChildren == index * 2 + 1 < size
HasOneChild == index * 2 < size /\ index * 2 + 1 >= size

\* Mutant of MinChild: always the left child.
LeftChild == index * 2

MinChild == IF Priority(index * 2) =< Priority(index * 2 + 1)
            THEN index * 2 ELSE index * 2 + 1

\* Mutant of MustSink: the last child is compared only when it has a sibling.
MustSinkTwoOnly == /\ HasTwoChildren
                   /\ \/ Priority(index) > Priority(index * 2)
                      \/ Priority(index) > Priority(index * 2 + 1)

MustSink == \/ /\ HasTwoChildren
               /\ \/ Priority(index) > Priority(index * 2)
                  \/ Priority(index) > Priority(index * 2 + 1)
            \/ HasOneChild /\ Priority(index) > Priority(index * 2)

SiftDown == /\ pc = "down" /\ MustSink
            /\ LET child == IF HasTwoChildren THEN MinChild ELSE index * 2
               IN  connPool' = Swap(index, child) /\ index' = child
            /\ UNCHANGED <<size, pc, ret>>

DequeueReturns == /\ pc = "down" /\ ~MustSink
                  /\ pc' = "ready"
                  /\ UNCHANGED <<connPool, size, index, ret>>

Next == \/ \E d \in Data : Enqueue(d)
        \/ SiftUp \/ EnqueueReturns
        \/ Dequeue \/ SiftDown \/ DequeueReturns

Spec == Init /\ [][Next]_vars

-----------------------------------------------------------------------------
\* The array's shape: every cell of 1 .. size-1 holds a request, never the
\* uninitialised contents of malloc(), and the loops stay inside the array.
TypeOK == /\ connPool \in [0 .. Buffers -> Data \union {Dummy}]
          /\ size \in 1 .. bufSz
          /\ pc \in {"ready", "up", "down"}
          /\ index \in 0 .. Buffers
          /\ ret \in Data \union {Dummy}
          /\ \A i \in 1 .. size - 1 : connPool[i] \in Data
          /\ pc = "up" => index \in 1 .. size - 1
          /\ pc = "down" => index \in 1 .. size

Ordered(k) == Priority(k \div 2) =< Priority(k)

\* The loop invariants of enqueue() and dequeue(): the heap order fails at most
\* at the cell the loop is looking at, and its children are in order with its
\* parent, so that swapping it away cannot break the order elsewhere.
HeapOrder ==
  /\ \A k \in 2 .. size - 1 :
        \/ Ordered(k)
        \/ pc = "up" /\ k = index
        \/ pc = "down" /\ k \div 2 = index
  /\ pc # "ready" =>
        \A k \in 2 .. size - 1 :
           k \div 2 = index /\ index > 1
              => Priority(index \div 2) =< Priority(k)

\* Between two operations the root is a request of least priority: what
\* dequeue() takes from connPool[1] is what the scheduling policy asks for.
RootIsMin == pc = "ready" =>
               \A k \in 1 .. size - 1 : Priority(1) =< Priority(k)

\* The array, its order and its root: see the three conjuncts.
HeapSound == TypeOK /\ HeapOrder /\ RootIsMin

\* enqueue() loses and duplicates no request and dequeue() removes exactly the
\* one it returns, which is one of least priority: the array heap implements
\* the abstract priority queue.
Abstract == INSTANCE PriorityQueue WITH items <- Items
ImplementsPriorityQueue == Abstract!Spec
=============================================================================
