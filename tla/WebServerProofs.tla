-------------------------- MODULE WebServerProofs --------------------------
(***************************************************************************)
(* Safety of WebServer for every number of workers, buffers and            *)
(* connections.  The inductive invariant is the type invariant, the lock   *)
(* discipline, the buffer bound, and the two facts about waiting threads.  *)
(***************************************************************************)
EXTENDS WebServer, FiniteSetTheorems, TLAPS

IInv == /\ TypeOK
        /\ MutualExclusion
        /\ BufferBound
        /\ NeverDequeueEmpty
        /\ NoLostWakeup

USE WorkersAssumption, BuffersAssumption, NamesAssumption, NoneAssumption,
    RequestsAssumption, ConnsAssumption, MaxSpuriousAssumption,
    PoliciesAssumption

\* The initial values have their types.
LEMMA InitType == Init => TypeOK
  BY DEF Init, TypeOK, HasRequest, Threads, Labels, MasterLabels, Codes

\* Every step of main() keeps the types.
LEMMA MasterType == TypeOK /\ MutualExclusion /\ MasterStep => TypeOK'
<1> SUFFICES ASSUME TypeOK, MutualExclusion, MasterStep PROVE TypeOK'
  OBVIOUS
<1> USE DEF Threads, Labels, MasterLabels, Codes, input, queue, io, process,
            Goto, HasRequest
<1>1. ASSUME NEW c \in Conns, Accept(c) PROVE TypeOK'
  BY <1>1 DEF TypeOK, Accept, Data
<1>2. CASE WaitWhileFull
  BY <1>2 DEF TypeOK, WaitWhileFull
<1>3. CASE UnlockFull
  BY <1>3 DEF TypeOK, UnlockFull
<1>4. CASE ReadRequest
  <2> DEFINE c == cur[Master].conn
  <2>1. cur[Master] \in Data /\ c \in Conns /\ req[c] \in RequestType
    BY <1>4 DEF TypeOK, ReadRequest, Data
  <2>2. PriorityOf(c) \in Int
    BY <2>1 DEF TypeOK, PriorityOf, RequestType
  <2>3. [cur[Master] EXCEPT !.priority = PriorityOf(c)] \in Data
    BY <2>1, <2>2 DEF Data
  <2>4. cur' = [cur EXCEPT ![Master] =
                   [cur[Master] EXCEPT !.priority = PriorityOf(c)]]
    BY <1>4 DEF ReadRequest
  <2> QED
    BY <1>4, <2>3, <2>4 DEF TypeOK, ReadRequest
<1>5. CASE ExitOnStat
  BY <1>5 DEF TypeOK, ExitOnStat
<1>6. CASE Enqueue
  BY <1>6 DEF TypeOK, Enqueue
<1>7. CASE SignalEmpty
  BY <1>7 DEF TypeOK, SignalEmpty, Signal, Woken
<1>8. CASE UnlockPut
  BY <1>8 DEF TypeOK, UnlockPut
<1> QED
  BY <1>1, <1>2, <1>3, <1>4, <1>5, <1>6, <1>7, <1>8 DEF MasterStep

\* Every step of a worker keeps the types.
LEMMA WorkerType ==
  ASSUME NEW w \in Workers, TypeOK, MutualExclusion, WorkerStep(w) PROVE TypeOK'
<1> USE DEF Threads, Labels, MasterLabels, Codes, input, queue, io, process,
            Goto, HasRequest
<1>1. CASE WaitWhileEmpty(w)
  BY <1>1 DEF TypeOK, WaitWhileEmpty
<1>2. CASE Dequeue(w)
  BY <1>2 DEF TypeOK, Dequeue, Least
<1>3. CASE SignalFull(w)
  BY <1>3 DEF TypeOK, SignalFull, Signal, Woken
<1>4. CASE Unlock(w)
  BY <1>4 DEF TypeOK, Unlock
<1>5. CASE Handle(w)
  <2> DEFINE c == cur[w].conn
  <2>1. cur[w] \in Data /\ c \in Conns
    BY <1>5 DEF TypeOK, Handle, Data
  <2>2. StatusOf(c) \in Codes
    BY DEF StatusOf
  <2>3. Child(c) \in [conn : Conns, fds : SUBSET Conns, done : BOOLEAN]
    BY <2>1 DEF TypeOK, Child
  <2>4. answer' \in [Conns -> Codes]
    BY <1>5, <2>1, <2>2 DEF TypeOK, Handle
  <2>5. kids' \subseteq [conn : Conns, fds : SUBSET Conns, done : BOOLEAN]
    BY <1>5, <2>3 DEF TypeOK, Handle
  <2>6. \E label \in {"open", "waitChild", "close"} : Goto(w, label)
    BY <1>5 DEF Handle
  <2> QED
    BY <1>5, <2>4, <2>5, <2>6 DEF TypeOK, Handle
<1>6. CASE ServeStatic(w)
  BY <1>6 DEF TypeOK, ServeStatic, Data
<1>7. CASE ExitInWorker(w)
  BY <1>7 DEF TypeOK, ExitInWorker
<1>8. CASE WaitChild(w)
  BY <1>8 DEF TypeOK, WaitChild
<1>9. CASE Close(w)
  BY <1>9 DEF TypeOK, Close, Data
<1> QED
  BY <1>1, <1>2, <1>3, <1>4, <1>5, <1>6, <1>7, <1>8, <1>9 DEF WorkerStep

\* Locking, waking and the environment keep the types.
LEMMA OtherType ==
  ASSUME TypeOK,
         \/ \E t \in Threads : Lock(t) \/ SpuriousWakeup(t)
         \/ ChildEnds
         \/ \E c \in Removable : RemoveFile(c)
  PROVE  TypeOK'
<1> USE DEF Threads, Labels, MasterLabels, Codes, input, queue, io, process,
            Goto, HasRequest
<1>1. ASSUME NEW t \in Threads, Lock(t) PROVE TypeOK'
  BY <1>1 DEF TypeOK, Lock, LockSites, AfterLock
<1>2. ASSUME NEW t \in Threads, SpuriousWakeup(t) PROVE TypeOK'
  BY <1>2 DEF TypeOK, SpuriousWakeup, Woken
<1>3. CASE ChildEnds
  BY <1>3 DEF TypeOK, ChildEnds
<1>4. ASSUME NEW c \in Removable, RemoveFile(c) PROVE TypeOK'
  BY <1>4 DEF TypeOK, RemoveFile
<1> QED
  BY <1>1, <1>2, <1>3, <1>4

\* A step that changes nothing keeps the types.
LEMMA StutterType == TypeOK /\ UNCHANGED vars => TypeOK'
  BY DEF TypeOK, vars, input, queue, io, process, HasRequest

\* Every step keeps the types.
LEMMA NextType == TypeOK /\ MutualExclusion /\ [Next]_vars => TypeOK'
  BY MasterType, WorkerType, OtherType, StutterType DEF Next

-----------------------------------------------------------------------------
\* Every step keeps the lock with the thread in the critical section.
LEMMA MutexStep == TypeOK /\ MutualExclusion /\ [Next]_vars => MutualExclusion'
<1> SUFFICES ASSUME TypeOK, MutualExclusion, [Next]_vars PROVE MutualExclusion'
  OBVIOUS
<1> USE DEF Threads, Critical, MutualExclusion, Goto, TypeOK
<1>1. ASSUME NEW c \in Conns, Accept(c) PROVE MutualExclusion'
  BY <1>1 DEF Accept
<1>2. CASE WaitWhileFull
  BY <1>2 DEF WaitWhileFull
<1>3. CASE UnlockFull
  BY <1>3 DEF UnlockFull
<1>4. CASE ReadRequest \/ ExitOnStat \/ Enqueue
  BY <1>4 DEF ReadRequest, ExitOnStat, Enqueue
<1>5. CASE SignalEmpty
  BY <1>5 DEF SignalEmpty, Signal, Woken
<1>6. CASE UnlockPut
  BY <1>6 DEF UnlockPut
<1>7. ASSUME NEW w \in Workers, WorkerStep(w) PROVE MutualExclusion'
  <2>1. CASE WaitWhileEmpty(w)
    BY <2>1 DEF WaitWhileEmpty
  <2>2. CASE Dequeue(w)
    BY <2>2 DEF Dequeue
  <2>3. CASE SignalFull(w)
    BY <2>3 DEF SignalFull, Signal, Woken
  <2>4. CASE Unlock(w)
    BY <2>4 DEF Unlock
  <2>5. CASE Handle(w)
    <3>1. \E label \in {"open", "waitChild", "close"} : Goto(w, label)
      BY <2>5 DEF Handle
    <3> QED
      BY <2>5, <3>1 DEF Handle
  <2>6. CASE ServeStatic(w) \/ WaitChild(w) \/ Close(w)
    BY <2>6 DEF ServeStatic, WaitChild, Close
  <2>7. CASE ExitInWorker(w)
    BY <2>7 DEF ExitInWorker
  <2> QED
    BY <1>7, <2>1, <2>2, <2>3, <2>4, <2>5, <2>6, <2>7 DEF WorkerStep
<1>8. ASSUME NEW t \in Threads, Lock(t) PROVE MutualExclusion'
  BY <1>8 DEF Lock, LockSites, AfterLock
<1>9. ASSUME NEW t \in Threads, SpuriousWakeup(t) PROVE MutualExclusion'
  BY <1>9 DEF SpuriousWakeup, Woken
<1>10. CASE ChildEnds \/ \E c \in Removable : RemoveFile(c)
  BY <1>10 DEF ChildEnds, RemoveFile
<1>11. CASE UNCHANGED vars
  BY <1>11 DEF vars
<1> QED
  BY <1>1, <1>2, <1>3, <1>4, <1>5, <1>6, <1>7, <1>8, <1>9, <1>10, <1>11
     DEF Next, MasterStep

-----------------------------------------------------------------------------
(* Steps that leave the buffer alone, and what the others do to it.         *)

\* Only enqueue() and dequeue() change the buffer.
LEMMA PoolChange ==
  ASSUME TypeOK, [Next]_vars
  PROVE  \/ pool' = pool
         \/ Enqueue
         \/ \E w \in Workers : Dequeue(w)
  BY DEF Next, MasterStep, WorkerStep, vars, input, queue, io, process, Accept,
         WaitWhileFull, UnlockFull, ReadRequest, ExitOnStat, SignalEmpty,
         UnlockPut, WaitWhileEmpty, SignalFull, Unlock, Handle, ServeStatic,
         ExitInWorker, WaitChild, Close, Lock, SpuriousWakeup, ChildEnds,
         RemoveFile

\* The master comes to the lines between the test and the enqueue only by
\* finding the buffer not full.
MayPut == {"unlockFull", "read", "lockPut", "put"}

\* Only the test of isFull() leads the master to the enqueue.
LEMMA MasterEnters ==
  ASSUME TypeOK, [Next]_vars, pc'[Master] \in MayPut
  PROVE  pc[Master] \in MayPut \/ WaitWhileFull
<1> USE DEF MayPut, Threads, Goto, TypeOK, Labels, MasterLabels
<1>1. CASE MasterStep
  BY <1>1 DEF MasterStep, Accept, WaitWhileFull, UnlockFull, ReadRequest,
              ExitOnStat, Enqueue, SignalEmpty, UnlockPut, Signal, Woken
<1>2. ASSUME NEW w \in Workers, WorkerStep(w) PROVE pc[Master] \in MayPut
  <2>1. CASE SignalFull(w)
    BY <2>1 DEF SignalFull, Signal, Woken
  <2>2. CASE ~SignalFull(w)
    BY <1>2, <2>2 DEF WorkerStep, WaitWhileEmpty, Dequeue, Unlock, Handle,
                      ServeStatic, ExitInWorker, WaitChild, Close
  <2> QED
    BY <2>1, <2>2
<1>3. ASSUME NEW t \in Threads, Lock(t) \/ SpuriousWakeup(t)
      PROVE  pc[Master] \in MayPut
  BY <1>3 DEF Lock, LockSites, AfterLock, SpuriousWakeup, Woken
<1>4. CASE ChildEnds \/ (\E c \in Removable : RemoveFile(c)) \/ UNCHANGED vars
  BY <1>4 DEF ChildEnds, RemoveFile, vars
<1> QED
  BY <1>1, <1>2, <1>3, <1>4 DEF Next

\* Every step keeps the buffer within its bound.
LEMMA BoundStep ==
  ASSUME TypeOK, MutualExclusion, BufferBound, [Next]_vars
  PROVE  BufferBound'
<1> USE DEF MayPut, Threads
<1>1. Cardinality(pool) \in Nat
  BY FS_CardinalityType DEF BufferBound
<1>2. CASE pool' = pool
  <2>1. CASE pc[Master] \in MayPut \/ pc'[Master] \notin MayPut
    BY <1>2, <2>1 DEF BufferBound
  <2>2. CASE WaitWhileFull
    <3>1. pc'[Master] \in MayPut => Cardinality(pool) # Buffers
      BY <2>2 DEF WaitWhileFull, isFull, Goto, TypeOK
    <3>2. pc'[Master] \in MayPut => Cardinality(pool) < Buffers
      BY <1>1, <3>1 DEF BufferBound
    <3> QED
      BY <1>2, <3>2 DEF BufferBound
  <2> QED
    BY <2>1, <2>2, MasterEnters
<1>3. CASE Enqueue
  <2>1. /\ IsFiniteSet(pool')
        /\ Cardinality(pool') =< Cardinality(pool) + 1
    <3> DEFINE x == cur[Master]
    <3>1. /\ IsFiniteSet(pool \cup {x})
          /\ Cardinality(pool \cup {x}) =
               IF x \in pool THEN Cardinality(pool) ELSE Cardinality(pool) + 1
      BY FS_AddElement DEF BufferBound
    <3>2. pool' = pool \cup {x}
      BY <1>3 DEF Enqueue
    <3> HIDE DEF x
    <3> QED
      BY <1>1, <3>1, <3>2
  <2>2. Cardinality(pool) < Buffers /\ pc'[Master] = "signalEmpty"
    BY <1>3 DEF Enqueue, BufferBound, Goto, TypeOK
  <2>3. Cardinality(pool') \in Nat
    BY <2>1, FS_CardinalityType
  <2> QED
    BY <1>1, <2>1, <2>2, <2>3 DEF BufferBound
<1>4. ASSUME NEW w \in Workers, Dequeue(w) PROVE BufferBound'
  <2>1. PICK d \in pool : pool' = pool \ {d}
    BY <1>4 DEF Dequeue, Least
  <2>2. /\ IsFiniteSet(pool')
        /\ Cardinality(pool') = Cardinality(pool) - 1
    BY <2>1, FS_RemoveElement DEF BufferBound
  <2>3. pc'[Master] = pc[Master]
    BY <1>4 DEF Dequeue, Goto, TypeOK
  <2> QED
    BY <1>1, <2>2, <2>3 DEF BufferBound
<1> QED
  BY <1>2, <1>3, <1>4, PoolChange

-----------------------------------------------------------------------------
\* Nobody empties the buffer between a worker's test and its dequeue().
LEMMA TakeStep ==
  ASSUME TypeOK, MutualExclusion, NeverDequeueEmpty, [Next]_vars
  PROVE  NeverDequeueEmpty'
<1> USE DEF Threads, TypeOK, Goto
<1> SUFFICES ASSUME NEW v \in Workers, pc'[v] = "take" PROVE pool' # {}
  BY DEF NeverDequeueEmpty
<1>1. CASE pc[v] = "take"
  <2>1. pool # {} /\ cLock = v
    BY <1>1 DEF NeverDequeueEmpty, MutualExclusion, Critical
  <2>2. ~ \E w \in Workers : Dequeue(w)
    BY <1>1, <2>1 DEF Dequeue, MutualExclusion, Critical
  <2> QED
    BY <2>1, <2>2, PoolChange DEF Enqueue
<1>2. CASE pc[v] # "take"
  <2>1. WaitWhileEmpty(v)
    <3>1. CASE MasterStep
      BY <1>2, <3>1 DEF MasterStep, Accept, WaitWhileFull, UnlockFull,
              ReadRequest, ExitOnStat, Enqueue, SignalEmpty, UnlockPut, Signal,
              Woken
    <3>2. ASSUME NEW w \in Workers, WorkerStep(w) PROVE WaitWhileEmpty(v)
      <4>1. CASE SignalFull(w)
        BY <1>2, <4>1 DEF SignalFull, Signal, Woken
      <4>2. CASE ~SignalFull(w)
        BY <1>2, <3>2, <4>2 DEF WorkerStep, WaitWhileEmpty, Dequeue, Unlock,
              Handle, ServeStatic, ExitInWorker, WaitChild, Close
      <4> QED
        BY <4>1, <4>2
    <3>3. ASSUME NEW t \in Threads, Lock(t) \/ SpuriousWakeup(t) PROVE FALSE
      BY <1>2, <3>3 DEF Lock, LockSites, AfterLock, SpuriousWakeup, Woken
    <3>4. CASE ChildEnds \/ (\E c \in Removable : RemoveFile(c)) \/ UNCHANGED vars
      BY <1>2, <3>4 DEF ChildEnds, RemoveFile, vars
    <3> QED
      BY <3>1, <3>2, <3>3, <3>4 DEF Next
  <2> QED
    BY <2>1 DEF WaitWhileEmpty, isEmpty, queue
<1> QED
  BY <1>1, <1>2

-----------------------------------------------------------------------------
\* When all workers sleep with a request buffered, the master is about to signal.
LEMMA EmptyWakeupStep ==
  ASSUME TypeOK, MutualExclusion, NoLostWakeup, [Next]_vars,
         pool' # {}, \A w \in Workers : pc'[w] = "waitEmpty"
  PROVE  pc'[Master] = "signalEmpty"
<1> USE DEF Threads, TypeOK, Goto
<1>1. CASE \A w \in Workers : pc[w] = "waitEmpty"
  <2>1. CASE pool' = pool
    <3>1. pc[Master] = "signalEmpty"
      BY <1>1, <2>1 DEF NoLostWakeup
    <3>2. ~SignalEmpty
      BY <1>1, <3>1 DEF SignalEmpty, Signal, Woken
    <3>3. CASE MasterStep
      BY <3>1, <3>2, <3>3 DEF MasterStep, Accept, WaitWhileFull, UnlockFull,
              ReadRequest, ExitOnStat, Enqueue, UnlockPut
    <3>4. ASSUME NEW w \in Workers, WorkerStep(w) PROVE FALSE
      BY <1>1, <3>4 DEF WorkerStep, WaitWhileEmpty, Dequeue, SignalFull, Unlock,
              Handle, ServeStatic, ExitInWorker, WaitChild, Close
    <3>5. ASSUME NEW t \in Threads, Lock(t) \/ SpuriousWakeup(t)
          PROVE  pc'[Master] = pc[Master]
      BY <1>1, <3>1, <3>5 DEF Lock, LockSites, AfterLock, SpuriousWakeup, Woken
    <3>6. CASE ChildEnds \/ (\E c \in Removable : RemoveFile(c)) \/ UNCHANGED vars
      BY <3>1, <3>6 DEF ChildEnds, RemoveFile, vars
    <3> QED
      BY <3>1, <3>3, <3>4, <3>5, <3>6 DEF Next
  <2>2. CASE Enqueue
    BY <2>2 DEF Enqueue
  <2>3. ~ \E w \in Workers : Dequeue(w)
    BY <1>1 DEF Dequeue
  <2> QED
    BY <2>1, <2>2, <2>3, PoolChange
<1>2. ASSUME NEW v \in Workers, pc[v] # "waitEmpty" PROVE FALSE
  <2>1. WaitWhileEmpty(v)
    <3>1. CASE MasterStep
      BY <1>2, <3>1 DEF MasterStep, Accept, WaitWhileFull, UnlockFull,
              ReadRequest, ExitOnStat, Enqueue, SignalEmpty, UnlockPut, Signal,
              Woken
    <3>2. ASSUME NEW w \in Workers, WorkerStep(w) PROVE WaitWhileEmpty(v)
      <4>1. CASE SignalFull(w)
        BY <1>2, <4>1 DEF SignalFull, Signal, Woken
      <4>2. CASE ~SignalFull(w)
        BY <1>2, <3>2, <4>2 DEF WorkerStep, WaitWhileEmpty, Dequeue, Unlock,
              Handle, ServeStatic, ExitInWorker, WaitChild, Close
      <4> QED
        BY <4>1, <4>2
    <3>3. ASSUME NEW t \in Threads, Lock(t) \/ SpuriousWakeup(t) PROVE FALSE
      BY <1>2, <3>3 DEF Lock, LockSites, AfterLock, SpuriousWakeup, Woken
    <3>4. CASE ChildEnds \/ (\E c \in Removable : RemoveFile(c)) \/ UNCHANGED vars
      BY <1>2, <3>4 DEF ChildEnds, RemoveFile, vars
    <3> QED
      BY <3>1, <3>2, <3>3, <3>4 DEF Next
  <2> QED
    BY <2>1 DEF WaitWhileEmpty, isEmpty, queue
<1> QED
  BY <1>1, <1>2

\* When the master sleeps with a buffer free, a worker is about to signal.
LEMMA FullWakeupStep ==
  ASSUME TypeOK, MutualExclusion, BufferBound, NoLostWakeup, [Next]_vars,
         pc'[Master] = "waitFull", Cardinality(pool') < Buffers
  PROVE  \E w \in Workers : pc'[w] = "signalFull"
<1> USE DEF Threads, TypeOK, Goto
<1>1. CASE \E w \in Workers : Dequeue(w)
  BY <1>1 DEF Dequeue
<1>2. ~Enqueue
  BY DEF Enqueue
<1>3. CASE pool' = pool
  <2>1. pc[Master] = "waitFull"
    <3>1. CASE MasterStep
      <4>1. ~WaitWhileFull
        BY <1>3 DEF WaitWhileFull, isFull
      <4> QED
        BY <3>1, <4>1 DEF MasterStep, Accept, UnlockFull, ReadRequest,
              ExitOnStat, Enqueue, SignalEmpty, UnlockPut, Signal, Woken
    <3>2. ASSUME NEW w \in Workers, WorkerStep(w) PROVE pc[Master] = "waitFull"
      <4>1. CASE SignalFull(w)
        BY <4>1 DEF SignalFull, Signal, Woken
      <4>2. CASE ~SignalFull(w)
        BY <3>2, <4>2 DEF WorkerStep, WaitWhileEmpty, Dequeue, Unlock,
              Handle, ServeStatic, ExitInWorker, WaitChild, Close
      <4> QED
        BY <4>1, <4>2
    <3>3. ASSUME NEW t \in Threads, Lock(t) \/ SpuriousWakeup(t)
          PROVE  pc[Master] = "waitFull"
      BY <3>3 DEF Lock, LockSites, AfterLock, SpuriousWakeup, Woken
    <3>4. CASE ChildEnds \/ (\E c \in Removable : RemoveFile(c)) \/ UNCHANGED vars
      BY <3>4 DEF ChildEnds, RemoveFile, vars
    <3> QED
      BY <3>1, <3>2, <3>3, <3>4 DEF Next
  <2>2. PICK v \in Workers : pc[v] = "signalFull"
    BY <1>3, <2>1 DEF NoLostWakeup
  <2>3. pc'[v] = "signalFull"
    <3>1. ~MasterStep
      BY <2>1 DEF MasterStep, Accept, WaitWhileFull, UnlockFull, ReadRequest,
              ExitOnStat, Enqueue, SignalEmpty, UnlockPut
    <3>2. ASSUME NEW w \in Workers, WorkerStep(w) PROVE pc'[v] = "signalFull"
      <4>1. ~SignalFull(w)
        BY <2>1 DEF SignalFull, Signal, Woken, Labels
      <4>2. CASE w = v
        BY <2>2, <3>2, <4>1, <4>2 DEF WorkerStep, WaitWhileEmpty, Dequeue,
              Unlock, Handle, ServeStatic, ExitInWorker, WaitChild, Close
      <4>3. CASE w # v
        BY <2>2, <3>2, <4>1, <4>3 DEF WorkerStep, WaitWhileEmpty, Dequeue,
              Unlock, Handle, ServeStatic, ExitInWorker, WaitChild, Close
      <4> QED
        BY <4>2, <4>3
    <3>3. ASSUME NEW t \in Threads, Lock(t) \/ SpuriousWakeup(t)
          PROVE  pc'[v] = "signalFull"
      BY <2>2, <3>3 DEF Lock, LockSites, AfterLock, SpuriousWakeup, Woken
    <3>4. CASE ChildEnds \/ (\E c \in Removable : RemoveFile(c)) \/ UNCHANGED vars
      BY <2>2, <3>4 DEF ChildEnds, RemoveFile, vars
    <3> QED
      BY <3>1, <3>2, <3>3, <3>4 DEF Next
  <2> QED
    BY <2>3
<1> QED
  BY <1>1, <1>2, <1>3, PoolChange

-----------------------------------------------------------------------------
\* The invariant is inductive, so each of its parts holds of every behaviour.
THEOREM Inductive == Spec => []IInv
<1>1. Init => IInv
  <2> SUFFICES ASSUME Init PROVE IInv
    OBVIOUS
  <2>1. IsFiniteSet({}) /\ Cardinality({}) = 0
    BY FS_EmptySet
  <2>2. MutualExclusion /\ NeverDequeueEmpty /\ NoLostWakeup
    BY DEF Init, MutualExclusion, Critical, NeverDequeueEmpty, NoLostWakeup, Threads
  <2>3. BufferBound
    BY <2>1 DEF Init, BufferBound, Threads
  <2> QED
    BY <2>2, <2>3, InitType DEF IInv
<1>2. IInv /\ [Next]_vars => IInv'
  <2> SUFFICES ASSUME IInv, [Next]_vars PROVE IInv'
    OBVIOUS
  <2>1. TypeOK' /\ MutualExclusion'
    BY NextType, MutexStep DEF IInv
  <2>2. BufferBound' /\ NeverDequeueEmpty'
    BY BoundStep, TakeStep DEF IInv
  <2>3. NoLostWakeup'
    BY EmptyWakeupStep, FullWakeupStep DEF IInv, NoLostWakeup
  <2> QED
    BY <2>1, <2>2, <2>3 DEF IInv
<1> QED
  BY <1>1, <1>2, PTL DEF Spec

\* The buffer is used only under cLock and neither overrun nor underrun, for
\* any number of workers and buffers.
THEOREM BufferSafeHolds == Spec => []BufferSafe
  BY Inductive, PTL DEF IInv, BufferSafe

\* Neither the workers nor the master sleep through a wakeup.
THEOREM NoLostWakeupHolds == Spec => []NoLostWakeup
  BY Inductive, PTL DEF IInv
-----------------------------------------------------------------------------
(* Who has a connection, in which order they are served, and whose child is  *)
(* waited for.                                                               *)

\* Under FIFO tickets below the counter are given out in order: the buffered
\* requests have different ones, the workers' are smaller, and the one the
\* master is about to buffer is the greatest.
FifoInv ==
  policy = "FIFO" =>
    /\ \A d \in pool : d.priority < count
    /\ \A w \in Workers : cur[w] # None => cur[w].priority < count
    /\ \A d, e \in pool : d.priority = e.priority => d = e
    /\ \A w \in Workers, d \in pool :
         cur[w] # None => cur[w].priority < d.priority
    /\ pc[Master] \in {"lockPut", "put"} =>
         /\ cur[Master].priority < count
         /\ \A d \in pool : d.priority < cur[Master].priority
         /\ \A w \in Workers :
              cur[w] # None => cur[w].priority < cur[Master].priority

Waiting == {w \in Workers : pc[w] = "waitChild"}

\* A child belongs to one connection, which has been answered: it is not in the
\* backlog or the buffer, and the thread that has it is past the fork.
KidsInv ==
  /\ IsFiniteSet(kids)
  /\ \A j, k \in kids : j.conn = k.conn => j = k
  /\ \A k \in kids :
        /\ k.conn \notin backlog
        /\ \A d \in pool : d.conn # k.conn
        /\ \A t \in Threads : cur[t] # None /\ cur[t].conn = k.conn
                                 => pc[t] \in {"waitChild", "close"}

OInv == OneOwner /\ FifoInv /\ KidsInv /\ EveryWaitHasAChild

\* The steps that change who has a connection.
LEMMA OwnerChange ==
  ASSUME TypeOK, [Next]_vars
  PROVE  \/ cur' = cur /\ pool' = pool /\ backlog' = backlog /\ open' = open
         \/ \E c \in Conns : Accept(c)
         \/ ReadRequest
         \/ Enqueue
         \/ \E w \in Workers : Dequeue(w)
         \/ \E w \in Workers : Close(w)
  BY DEF Next, MasterStep, WorkerStep, vars, input, queue, io, process,
         WaitWhileFull, UnlockFull, ExitOnStat, SignalEmpty,
         UnlockPut, WaitWhileEmpty, SignalFull, Unlock, Handle, ServeStatic,
         ExitInWorker, WaitChild, Lock, SpuriousWakeup, ChildEnds,
         RemoveFile

\* What reading the request makes of the master's d.
LEMMA ReadsRequest ==
  ASSUME TypeOK, ReadRequest
  PROVE  /\ cur[Master] \in Data
         /\ cur'[Master] \in Data
         /\ cur'[Master].conn = cur[Master].conn
         /\ policy = "FIFO" => cur'[Master].priority = count /\ count' = count + 1
         /\ \A w \in Workers : cur'[w] = cur[w]
         /\ pool' = pool /\ backlog' = backlog /\ open' = open /\ policy' = policy
<1> USE DEF TypeOK, Threads
<1>1. cur[Master] \in Data
  BY DEF ReadRequest, HasRequest, MasterLabels
<1> DEFINE c == cur[Master].conn
<1>2. c \in Conns /\ req[c] \in RequestType
  BY <1>1 DEF Data
<1>3. PriorityOf(c) \in Int
  BY <1>2 DEF PriorityOf, RequestType
<1>4. cur' = [cur EXCEPT ![Master] =
                 [cur[Master] EXCEPT !.priority = PriorityOf(c)]]
  BY DEF ReadRequest
<1>5. cur'[Master] = [cur[Master] EXCEPT !.priority = PriorityOf(c)]
  BY <1>4
<1>6. /\ cur'[Master] \in Data
      /\ cur'[Master].conn = c
      /\ cur'[Master].priority = PriorityOf(c)
  BY <1>1, <1>3, <1>5 DEF Data
<1>7. policy = "FIFO" => PriorityOf(c) = count
  BY DEF PriorityOf
<1>8. policy = "FIFO" => count' = count + 1
  BY DEF ReadRequest
<1>9. \A w \in Workers : cur'[w] = cur[w]
  BY <1>4
<1>10. pool' = pool /\ backlog' = backlog /\ open' = open /\ policy' = policy
  BY DEF ReadRequest, io, input
<1> HIDE DEF c
<1> QED
  BY <1>1, <1>6, <1>7, <1>8, <1>9, <1>10 DEF c

\* Every step leaves each connection with one owner.
LEMMA OwnerStep ==
  ASSUME TypeOK, TypeOK', OneOwner, [Next]_vars
  PROVE  OneOwner'
<1> USE DEF Threads
<1>1. CASE cur' = cur /\ pool' = pool /\ backlog' = backlog /\ open' = open
  BY <1>1 DEF OneOwner, Buffered
<1>2. ASSUME NEW c \in Conns, Accept(c) PROVE OneOwner'
  <2>1. /\ c \in backlog /\ backlog' = backlog \ {c} /\ open' = open \union {c}
        /\ pool' = pool
        /\ cur'[Master] = [conn |-> c, priority |-> 0]
        /\ \A w \in Workers : cur'[w] = cur[w]
    BY <1>2 DEF Accept, TypeOK, queue
  <2>2. cur'[Master].conn = c
    BY <2>1
  <2>3. \A w \in Workers : cur[w] # None => cur[w].conn # c
    BY <2>1 DEF OneOwner
  <2>4. c \notin Buffered
    BY <2>1 DEF OneOwner
  <2> QED
    BY <2>1, <2>2, <2>3, <2>4 DEF OneOwner, Buffered
<1>3. CASE ReadRequest
  <2>1. cur[Master] # None
    BY <1>3, ReadsRequest
  <2>2. \A t \in Threads : cur'[t] # None => cur[t] # None
                                             /\ cur'[t].conn = cur[t].conn
    BY <1>3, <2>1, ReadsRequest
  <2> QED
    BY <1>3, <2>2, ReadsRequest DEF OneOwner, Buffered
<1>4. CASE Enqueue
  <2>1. /\ pool' = pool \union {cur[Master]}
        /\ cur'[Master] = None
        /\ \A w \in Workers : cur'[w] = cur[w]
        /\ backlog' = backlog /\ open' = open
        /\ cur[Master] # None
    BY <1>4 DEF Enqueue, TypeOK, io, HasRequest, MasterLabels
  <2>2. \A d \in pool : d.conn \in Buffered
    BY DEF Buffered
  <2>3. Buffered' = Buffered \union {cur[Master].conn}
    BY <2>1 DEF Buffered
  <2>4. \A d, e \in pool' : d.conn = e.conn => d = e
    BY <2>1, <2>2 DEF OneOwner
  <2>5. \A w \in Workers : cur[w] # None => cur[w].conn # cur[Master].conn
    BY <2>1 DEF OneOwner
  <2> QED
    BY <2>1, <2>3, <2>4, <2>5 DEF OneOwner
<1>5. ASSUME NEW w \in Workers, Dequeue(w) PROVE OneOwner'
  <2>1. PICK d \in pool : cur' = [cur EXCEPT ![w] = d] /\ pool' = pool \ {d}
    BY <1>5 DEF Dequeue, Least
  <2>2. /\ cur'[w] = d
        /\ \A t \in Threads \ {w} : cur'[t] = cur[t]
        /\ backlog' = backlog /\ open' = open
    BY <1>5, <2>1 DEF Dequeue, TypeOK, io
  <2>3. d.conn \in Buffered /\ d.conn \in open
    BY DEF OneOwner, Buffered
  <2>4. Buffered' = Buffered \ {d.conn}
    BY <2>1 DEF OneOwner, Buffered
  <2>5. \A t \in Threads : cur[t] # None => cur[t].conn # d.conn
    BY <2>3 DEF OneOwner
  <2>6. d.conn \notin backlog
    BY <2>3 DEF OneOwner
  <2> QED
    BY <2>1, <2>2, <2>3, <2>4, <2>5, <2>6 DEF OneOwner
<1>6. ASSUME NEW w \in Workers, Close(w) PROVE OneOwner'
  <2>1. /\ cur'[w] = None
        /\ \A t \in Threads \ {w} : cur'[t] = cur[t]
        /\ backlog' = backlog /\ open' = open \ {cur[w].conn} /\ pool' = pool
        /\ cur[w] # None
    BY <1>6 DEF Close, TypeOK, queue, HasRequest
  <2>2. cur[w].conn \notin Buffered
    BY <2>1 DEF OneOwner
  <2>3. \A t \in Threads \ {w} : cur[t] # None => cur[t].conn # cur[w].conn
    BY <2>1 DEF OneOwner
  <2>4. Buffered' = Buffered
    BY <2>1 DEF Buffered
  <2> QED
    BY <2>1, <2>2, <2>3, <2>4 DEF OneOwner
<1> QED
  BY <1>1, <1>2, <1>3, <1>4, <1>5, <1>6, OwnerChange

\* Only reading a request moves the FIFO counter, and brings the master to the
\* lock before the enqueue.
LEMMA TicketFrame ==
  ASSUME TypeOK, [Next]_vars, ~ReadRequest
  PROVE  /\ count' = count /\ policy' = policy
         /\ pc'[Master] \in {"lockPut", "put"} => pc[Master] \in {"lockPut", "put"}
<1> USE DEF Threads, Goto, TypeOK, Labels, MasterLabels
<1>1. count' = count /\ policy' = policy
  BY DEF Next, MasterStep, WorkerStep, vars, input, queue, io, process, Accept,
         WaitWhileFull, UnlockFull, ExitOnStat, SignalEmpty, Enqueue, Dequeue,
         UnlockPut, WaitWhileEmpty, SignalFull, Unlock, Handle, ServeStatic,
         ExitInWorker, WaitChild, Close, Lock, SpuriousWakeup, ChildEnds,
         RemoveFile
<1> SUFFICES ASSUME pc'[Master] \in {"lockPut", "put"}
             PROVE  pc[Master] \in {"lockPut", "put"}
  BY <1>1
<1>2. CASE MasterStep
  BY <1>2 DEF MasterStep, Accept, WaitWhileFull, UnlockFull,
              ExitOnStat, Enqueue, SignalEmpty, UnlockPut, Signal, Woken
<1>3. ASSUME NEW w \in Workers, WorkerStep(w)
      PROVE  pc[Master] \in {"lockPut", "put"}
  <2>1. CASE SignalFull(w)
    BY <2>1 DEF SignalFull, Signal, Woken
  <2>2. CASE ~SignalFull(w)
    BY <1>3, <2>2 DEF WorkerStep, WaitWhileEmpty, Dequeue, Unlock, Handle,
                      ServeStatic, ExitInWorker, WaitChild, Close
  <2> QED
    BY <2>1, <2>2
<1>4. ASSUME NEW t \in Threads, Lock(t) \/ SpuriousWakeup(t)
      PROVE  pc[Master] \in {"lockPut", "put"}
  BY <1>4 DEF Lock, LockSites, AfterLock, SpuriousWakeup, Woken
<1>5. CASE ChildEnds \/ (\E c \in Removable : RemoveFile(c)) \/ UNCHANGED vars
  BY <1>5 DEF ChildEnds, RemoveFile, vars
<1> QED
  BY <1>2, <1>3, <1>4, <1>5 DEF Next

\* Requests and workers' requests have integer priorities.
LEMMA Priorities ==
  ASSUME TypeOK
  PROVE  /\ \A d \in pool : d.priority \in Int
         /\ \A t \in Threads : cur[t] # None => cur[t].priority \in Int
         /\ count \in Int
  BY DEF TypeOK, Data

\* Every step keeps the tickets in order.
LEMMA FifoStep ==
  ASSUME TypeOK, TypeOK', FifoInv, [Next]_vars
  PROVE  FifoInv'
<1> USE DEF Threads
<1>1. CASE policy # "FIFO"
  <2>1. policy' = policy
    BY TicketFrame, ReadsRequest
  <2> QED
    BY <1>1, <2>1 DEF FifoInv
<1>2. CASE policy = "FIFO" /\ ReadRequest
  <2>1. pool' = pool /\ count' = count + 1 /\ cur'[Master].priority = count
        /\ \A w \in Workers : cur'[w] = cur[w]
    BY <1>2, ReadsRequest
  <2>2. /\ \A d \in pool : d.priority < count
        /\ \A w \in Workers : cur[w] # None => cur[w].priority < count
        /\ \A d, e \in pool : d.priority = e.priority => d = e
        /\ \A w \in Workers, d \in pool :
             cur[w] # None => cur[w].priority < d.priority
    BY <1>2 DEF FifoInv
  <2>3. \A n \in Int : n < count => n < count + 1
    BY Priorities
  <2>4. count < count + 1
    BY Priorities
  <2>5. \A d \in pool' : d.priority < count' /\ d.priority < cur'[Master].priority
    BY <2>1, <2>2, <2>3, Priorities
  <2>6. \A w \in Workers : cur'[w] # None =>
            cur'[w].priority < count' /\ cur'[w].priority < cur'[Master].priority
    BY <2>1, <2>2, <2>3, Priorities
  <2> QED
    BY <2>1, <2>2, <2>4, <2>5, <2>6 DEF FifoInv
<1>3. CASE policy = "FIFO" /\ ~ReadRequest
  <2> DEFINE AtPut == pc[Master] \in {"lockPut", "put"}
  <2>1. count' = count /\ policy' = policy /\ (AtPut' => AtPut)
    BY <1>3, TicketFrame
  <2>2. /\ \A d \in pool : d.priority < count
        /\ \A w \in Workers : cur[w] # None => cur[w].priority < count
        /\ \A d, e \in pool : d.priority = e.priority => d = e
        /\ \A w \in Workers, d \in pool :
             cur[w] # None => cur[w].priority < d.priority
        /\ AtPut =>
             /\ cur[Master].priority < count
             /\ \A d \in pool : d.priority < cur[Master].priority
             /\ \A w \in Workers :
                  cur[w] # None => cur[w].priority < cur[Master].priority
    BY <1>3 DEF FifoInv
  <2> HIDE DEF AtPut
  <2> SUFFICES /\ \A d \in pool' : d.priority < count
               /\ \A w \in Workers : cur'[w] # None => cur'[w].priority < count
               /\ \A d, e \in pool' : d.priority = e.priority => d = e
               /\ \A w \in Workers, d \in pool' :
                    cur'[w] # None => cur'[w].priority < d.priority
               /\ AtPut' =>
                    /\ cur'[Master].priority < count
                    /\ \A d \in pool' : d.priority < cur'[Master].priority
                    /\ \A w \in Workers : cur'[w] # None
                         => cur'[w].priority < cur'[Master].priority
    BY <2>1 DEF FifoInv, AtPut
  <2>3. CASE cur' = cur /\ pool' = pool
    BY <2>1, <2>2, <2>3
  <2>4. ASSUME NEW c \in Conns, Accept(c) PROVE ~AtPut' /\ pool' = pool
                              /\ \A w \in Workers : cur'[w] = cur[w]
    BY <2>4 DEF Accept, TypeOK, queue, Goto, AtPut
  <2>5. CASE Enqueue
    <3>1. /\ AtPut /\ ~AtPut' /\ pool' = pool \union {cur[Master]}
          /\ \A w \in Workers : cur'[w] = cur[w]
      BY <2>5 DEF Enqueue, TypeOK, Goto, AtPut
    <3>2. cur[Master].priority \in Int
      BY <2>5, Priorities DEF Enqueue, TypeOK, HasRequest, MasterLabels
    <3>3. \A d \in pool : d.priority # cur[Master].priority
      BY <2>2, <3>1, <3>2, Priorities
    <3>4. \A d, e \in pool' : d.priority = e.priority => d = e
      BY <2>2, <3>1, <3>3, Zenon
    <3> QED
      BY <2>2, <3>1, <3>4
  <2>6. ASSUME NEW w \in Workers, Dequeue(w)
        PROVE  \E d \in pool :
                 /\ cur'[w] = d
                 /\ \A t \in Threads \ {w} : cur'[t] = cur[t]
                 /\ pool' = pool \ {d}
                 /\ \A e \in pool : d.priority =< e.priority
    BY <2>6 DEF Dequeue, Least, TypeOK
  <2>7. ASSUME NEW w \in Workers, Dequeue(w)
        PROVE  \A e \in pool' : cur'[w].priority < e.priority
    BY <2>2, <2>6, <2>7, Priorities
  <2>8. CASE \E w \in Workers : Dequeue(w)
    <3>1. PICK w \in Workers : Dequeue(w)
      BY <2>8
    <3>2. PICK d \in pool :
                 /\ cur'[w] = d
                 /\ \A t \in Threads \ {w} : cur'[t] = cur[t]
                 /\ pool' = pool \ {d}
                 /\ \A e \in pool : d.priority =< e.priority
      BY <2>6, <3>1
    <3>3. \A e \in pool' : cur'[w].priority < e.priority
      BY <2>7, <3>1
    <3>4. cur'[Master] = cur[Master]
      BY <3>2
    <3> QED
      BY <2>1, <2>2, <3>2, <3>3, <3>4
  <2>9. ASSUME NEW w \in Workers, Close(w)
        PROVE  /\ cur'[w] = None /\ pool' = pool
               /\ \A t \in Threads \ {w} : cur'[t] = cur[t]
    BY <2>9 DEF Close, TypeOK, queue
  <2>10. CASE \E w \in Workers : Close(w)
    BY <2>1, <2>2, <2>9, <2>10
  <2>11. CASE \E c \in Conns : Accept(c)
    BY <2>2, <2>4, <2>11
  <2> QED
    BY <1>3, <2>3, <2>5, <2>8, <2>10, <2>11, OwnerChange
<1> QED
  BY <1>1, <1>2, <1>3

-----------------------------------------------------------------------------
\* Only handling a request, waiting and closing move a thread from or to the
\* lines after the fork, and only the first two and the end of a child change
\* the children.
LEMMA WaitFrame ==
  ASSUME TypeOK, [Next]_vars,
         ~ \E w \in Workers : Handle(w) \/ WaitChild(w) \/ Close(w)
  PROVE  /\ \A t \in Threads : pc'[t] = "waitChild" <=> pc[t] = "waitChild"
         /\ \A t \in Threads : pc[t] = "close" => pc'[t] = "close"
         /\ kids' = kids \/ ChildEnds
<1> USE DEF Threads, Goto, TypeOK, Labels, MasterLabels
<1>1. kids' = kids \/ ChildEnds
  BY DEF Next, MasterStep, WorkerStep, vars, input, queue, io, process, Accept,
         WaitWhileFull, UnlockFull, ReadRequest, ExitOnStat, SignalEmpty,
         Enqueue, Dequeue, UnlockPut, WaitWhileEmpty, SignalFull, Unlock,
         ServeStatic, ExitInWorker, Lock, SpuriousWakeup, RemoveFile
<1> SUFFICES ASSUME NEW t \in Threads
             PROVE  /\ pc'[t] = "waitChild" <=> pc[t] = "waitChild"
                    /\ pc[t] = "close" => pc'[t] = "close"
  BY <1>1
<1>2. CASE MasterStep
  BY <1>2 DEF MasterStep, Accept, WaitWhileFull, UnlockFull, ReadRequest,
              ExitOnStat, Enqueue, SignalEmpty, UnlockPut, Signal, Woken
<1>3. ASSUME NEW w \in Workers, WorkerStep(w)
      PROVE  /\ pc'[t] = "waitChild" <=> pc[t] = "waitChild"
             /\ pc[t] = "close" => pc'[t] = "close"
  <2>1. CASE SignalFull(w)
    BY <2>1 DEF SignalFull, Signal, Woken
  <2>2. CASE WaitWhileEmpty(w) \/ Dequeue(w) \/ Unlock(w)
    BY <2>2 DEF WaitWhileEmpty, Dequeue, Unlock
  <2>3. CASE ServeStatic(w) \/ ExitInWorker(w)
    BY <2>3 DEF ServeStatic, ExitInWorker
  <2> QED
    BY <1>3, <2>1, <2>2, <2>3 DEF WorkerStep
<1>4. ASSUME NEW u \in Threads, Lock(u) \/ SpuriousWakeup(u)
      PROVE  /\ pc'[t] = "waitChild" <=> pc[t] = "waitChild"
             /\ pc[t] = "close" => pc'[t] = "close"
  BY <1>4 DEF Lock, LockSites, AfterLock, SpuriousWakeup, Woken
<1>5. CASE ChildEnds \/ (\E c \in Removable : RemoveFile(c)) \/ UNCHANGED vars
  BY <1>5 DEF ChildEnds, RemoveFile, vars
<1> QED
  BY <1>2, <1>3, <1>4, <1>5 DEF Next

Kid == [conn : Conns, fds : SUBSET Conns, done : BOOLEAN]

\* The end of a child leaves a child of the same connection in its place.
LEMMA ChildEndsInPlace ==
  ASSUME TypeOK, ChildEnds
  PROVE  \E k \in kids, j \in Kid : /\ kids' = (kids \ {k}) \union {j}
                                   /\ j.conn = k.conn
<1>1. PICK k \in kids : kids' = (kids \ {k}) \union
                          {[k EXCEPT !.done = TRUE, !.fds = {}]}
  BY DEF ChildEnds
<1> DEFINE j == [k EXCEPT !.done = TRUE, !.fds = {}]
<1>2. k \in Kid
  BY DEF TypeOK, Kid
<1>3. j \in Kid /\ j.conn = k.conn
  BY <1>2 DEF Kid
<1>4. kids' = (kids \ {k}) \union {j}
  BY <1>1
<1> HIDE DEF j
<1> QED
  BY <1>3, <1>4

\* Replacing an element by a new one keeps the size of a finite set.
LEMMA SwapElement ==
  ASSUME NEW S, IsFiniteSet(S), NEW x \in S, NEW y, y \notin S \ {x}
  PROVE  /\ IsFiniteSet((S \ {x}) \union {y})
         /\ Cardinality((S \ {x}) \union {y}) = Cardinality(S)
<1>1. Cardinality(S) \in Nat
  BY FS_CardinalityType
<1>2. IsFiniteSet(S \ {x}) /\ Cardinality(S \ {x}) = Cardinality(S) - 1
  BY FS_RemoveElement
<1>3. /\ IsFiniteSet((S \ {x}) \union {y})
      /\ Cardinality((S \ {x}) \union {y}) = Cardinality(S \ {x}) + 1
  BY <1>2, FS_AddElement
<1> QED
  BY <1>1, <1>2, <1>3

\* What Handle(w) does: it forks a child for its connection and waits for it, or
\* does neither.
LEMMA Handles ==
  ASSUME TypeOK, NEW w \in Workers, Handle(w)
  PROVE  /\ cur[w] \in Data
         /\ cur' = cur /\ pool' = pool /\ backlog' = backlog
         /\ \A t \in Threads \ {w} : pc'[t] = pc[t]
         /\ \/ kids' = kids \union {Child(cur[w].conn)} /\ pc'[w] = "waitChild"
            \/ kids' = kids /\ pc'[w] \in {"open", "close"}
<1> USE DEF TypeOK, Threads, queue, Goto
<1>1. cur[w] \in Data
  BY DEF Handle, HasRequest
<1>2. cur' = cur /\ pool' = pool /\ backlog' = backlog
  BY DEF Handle
<1>3. \A t \in Threads \ {w} : pc'[t] = pc[t]
  BY DEF Handle
<1>4. \/ kids' = kids \union {Child(cur[w].conn)} /\ pc'[w] = "waitChild"
      \/ kids' = kids /\ pc'[w] \in {"open", "close"}
  BY DEF Handle
<1> QED
  BY <1>1, <1>2, <1>3, <1>4

\* No child has the connection of a request that has not been handled.
LEMMA KidsStep ==
  ASSUME TypeOK, TypeOK', OneOwner, KidsInv, [Next]_vars
  PROVE  KidsInv'
<1> USE DEF Threads
<1>1. ASSUME NEW w \in Workers, Handle(w) PROVE KidsInv'
  <2> DEFINE c == cur[w].conn
  <2>1. pc[w] = "handle" /\ cur[w] # None
    BY <1>1 DEF Handle, TypeOK, HasRequest
  <2>2. \A k \in kids : k.conn # c
    BY <2>1 DEF KidsInv
  <2>3. c \notin backlog /\ \A d \in pool : d.conn # c
    BY <2>1 DEF OneOwner, Buffered
  <2>4. \A t \in Threads \ {w} : cur[t] # None => cur[t].conn # c
    BY <2>1 DEF OneOwner
  <2>5. CASE kids' = kids
    <3>1. \A k \in kids, t \in Threads : cur[t] # None /\ cur[t].conn = k.conn
                                          => pc'[t] \in {"waitChild", "close"}
      BY <1>1, <2>2, Handles DEF KidsInv
    <3> QED
      BY <1>1, <2>5, <3>1, Handles DEF KidsInv
  <2>6. CASE kids' = kids \union {Child(c)} /\ pc'[w] = "waitChild"
    <3>1. Child(c).conn = c
      BY DEF Child
    <3>2. IsFiniteSet(kids')
      BY <2>6, FS_AddElement DEF KidsInv
    <3>3. \A j, k \in kids' : j.conn = k.conn => j = k
      BY <2>2, <2>6, <3>1 DEF KidsInv
    <3>4. \A k \in kids' : k.conn \notin backlog' /\ \A d \in pool' : d.conn # k.conn
      BY <1>1, <2>3, <2>6, <3>1, Handles DEF KidsInv
    <3>5. \A k \in kids, t \in Threads : cur[t] # None /\ cur[t].conn = k.conn
                                          => pc'[t] \in {"waitChild", "close"}
      BY <1>1, <2>2, Handles DEF KidsInv
    <3>6. \A t \in Threads : cur[t] # None /\ cur[t].conn = c
                               => pc'[t] \in {"waitChild", "close"}
      BY <2>4, <2>6
    <3> QED
      BY <1>1, <2>6, <3>1, <3>2, <3>3, <3>4, <3>5, <3>6, Handles DEF KidsInv
  <2> QED
    BY <1>1, <2>5, <2>6, Handles
<1>2. ASSUME NEW w \in Workers, WaitChild(w) PROVE KidsInv'
  <2>1. PICK k \in kids : kids' = kids \ {k}
    BY <1>2 DEF WaitChild
  <2>2. IsFiniteSet(kids')
    BY <2>1, FS_RemoveElement DEF KidsInv
  <2>3. /\ cur' = cur /\ pool' = pool /\ backlog' = backlog
        /\ pc'[w] = "close" /\ \A t \in Threads \ {w} : pc'[t] = pc[t]
    BY <1>2 DEF WaitChild, TypeOK, queue, Goto
  <2> QED
    BY <2>1, <2>2, <2>3 DEF KidsInv
<1>3. ASSUME NEW w \in Workers, Close(w) PROVE KidsInv'
  BY <1>3 DEF Close, TypeOK, queue, Goto, KidsInv
<1>4. CASE ~ \E w \in Workers : Handle(w) \/ WaitChild(w) \/ Close(w)
  <2>1. \A t \in Threads : pc[t] \in {"waitChild", "close"}
                             => pc'[t] \in {"waitChild", "close"}
    BY <1>4, WaitFrame
  <2>2. CASE ChildEnds
    <3>1. cur' = cur /\ pool' = pool /\ backlog' = backlog
      BY <2>2 DEF ChildEnds, queue
    <3>2. PICK k \in kids, j \in Kid : /\ kids' = (kids \ {k}) \union {j}
                                      /\ j.conn = k.conn
      BY <2>2, ChildEndsInPlace
    <3>3. IsFiniteSet(kids')
      BY <3>2, FS_AddElement, FS_RemoveElement DEF KidsInv
    <3>4. \A i \in kids' : i = j \/ (i \in kids /\ i.conn # j.conn)
      BY <3>2 DEF KidsInv
    <3>5. \A i, l \in kids' : i.conn = l.conn => i = l
      BY <3>4 DEF KidsInv
    <3> QED
      BY <2>1, <3>1, <3>2, <3>3, <3>4, <3>5 DEF KidsInv
  <2>3. CASE kids' = kids
    <3>1. CASE cur' = cur /\ pool' = pool /\ backlog' = backlog
      BY <2>1, <2>3, <3>1 DEF KidsInv
    <3>2. ASSUME NEW c \in Conns, Accept(c) PROVE KidsInv'
      <4>1. /\ c \in backlog /\ backlog' = backlog \ {c} /\ pool' = pool
            /\ cur'[Master] = [conn |-> c, priority |-> 0]
            /\ \A w \in Workers : cur'[w] = cur[w]
        BY <3>2 DEF Accept, TypeOK, queue
      <4>2. cur'[Master].conn = c
        BY <4>1
      <4>3. \A k \in kids : k.conn # c
        BY <4>1 DEF KidsInv
      <4> QED
        BY <2>1, <2>3, <4>1, <4>2, <4>3 DEF KidsInv
    <3>3. CASE ReadRequest
      <4>1. \A t \in Threads : cur'[t] # None => cur[t] # None
                                                 /\ cur'[t].conn = cur[t].conn
        BY <3>3, ReadsRequest
      <4> QED
        BY <2>1, <2>3, <3>3, <4>1, ReadsRequest DEF KidsInv
    <3>4. CASE Enqueue
      <4>1. /\ pool' = pool \union {cur[Master]} /\ backlog' = backlog
            /\ cur'[Master] = None /\ \A w \in Workers : cur'[w] = cur[w]
            /\ cur[Master] # None /\ pc[Master] = "put"
        BY <3>4 DEF Enqueue, TypeOK, io, HasRequest, MasterLabels
      <4>2. \A k \in kids : k.conn # cur[Master].conn
        BY <4>1 DEF KidsInv
      <4> QED
        BY <2>1, <2>3, <4>1, <4>2 DEF KidsInv
    <3>5. ASSUME NEW w \in Workers, Dequeue(w) PROVE KidsInv'
      <4>1. PICK d \in pool : cur' = [cur EXCEPT ![w] = d] /\ pool' = pool \ {d}
        BY <3>5 DEF Dequeue, Least
      <4>2. /\ cur'[w] = d /\ \A t \in Threads \ {w} : cur'[t] = cur[t]
            /\ backlog' = backlog
        BY <3>5, <4>1 DEF Dequeue, TypeOK, io
      <4> QED
        BY <2>1, <2>3, <4>1, <4>2 DEF KidsInv
    <3> QED
      BY <1>4, <3>1, <3>2, <3>3, <3>4, <3>5, OwnerChange
  <2> QED
    BY <1>4, <2>2, <2>3, WaitFrame
<1> QED
  BY <1>1, <1>2, <1>3, <1>4

\* Every step keeps as many children as there are waiting workers.
LEMMA WaitingStep ==
  ASSUME TypeOK, TypeOK', KidsInv, EveryWaitHasAChild, [Next]_vars
  PROVE  EveryWaitHasAChild'
<1> USE DEF Threads
<1>1. IsFiniteSet(Waiting) /\ IsFiniteSet(kids)
  BY FS_Subset DEF Waiting, KidsInv
<1>2. Cardinality(Waiting) \in Nat /\ Cardinality(kids) \in Nat
  BY <1>1, FS_CardinalityType
<1>3. Cardinality(kids) = Cardinality(Waiting)
  BY DEF EveryWaitHasAChild, Waiting
<1> SUFFICES Cardinality(kids') = Cardinality(Waiting')
  BY DEF EveryWaitHasAChild, Waiting
<1>4. ASSUME NEW w \in Workers, Handle(w)
      PROVE  Cardinality(kids') = Cardinality(Waiting')
  <2> DEFINE c == cur[w].conn
  <2>1. pc[w] = "handle" /\ cur[w] # None
    BY <1>4 DEF Handle, TypeOK, HasRequest
  <2>2. \A v \in Workers \ {w} : pc'[v] = pc[v]
    BY <1>4, Handles
  <2>3. CASE kids' = kids /\ pc'[w] \in {"open", "close"}
    <3>1. Waiting' = Waiting
      BY <2>1, <2>2, <2>3 DEF Waiting
    <3> QED
      BY <1>3, <2>3, <3>1
  <2>4. CASE kids' = kids \union {Child(c)} /\ pc'[w] = "waitChild"
    <3>1. Waiting' = Waiting \union {w} /\ w \notin Waiting
      BY <2>1, <2>2, <2>4 DEF Waiting
    <3>2. Child(c).conn = c
      BY DEF Child
    <3>3. Child(c) \notin kids
      BY <2>1, <3>2 DEF KidsInv
    <3>4. Cardinality(Waiting') = Cardinality(Waiting) + 1
      BY <1>1, <3>1, FS_AddElement
    <3>5. Cardinality(kids') = Cardinality(kids) + 1
      BY <1>1, <2>4, <3>3, FS_AddElement
    <3> QED
      BY <1>3, <3>4, <3>5
  <2> QED
    BY <1>4, <2>3, <2>4, Handles
<1>5. ASSUME NEW w \in Workers, WaitChild(w)
      PROVE  Cardinality(kids') = Cardinality(Waiting')
  <2>1. PICK k \in kids : kids' = kids \ {k}
    BY <1>5 DEF WaitChild
  <2>2. /\ pc[w] = "waitChild" /\ pc'[w] = "close"
        /\ \A v \in Workers \ {w} : pc'[v] = pc[v]
    BY <1>5 DEF WaitChild, TypeOK, Goto
  <2>3. Waiting' = Waiting \ {w} /\ w \in Waiting
    BY <2>2 DEF Waiting
  <2>4. Cardinality(Waiting') = Cardinality(Waiting) - 1
    BY <1>1, <2>3, FS_RemoveElement
  <2>5. Cardinality(kids') = Cardinality(kids) - 1
    BY <1>1, <2>1, FS_RemoveElement
  <2> QED
    BY <1>3, <2>4, <2>5
<1>6. ASSUME NEW w \in Workers, Close(w)
      PROVE  Cardinality(kids') = Cardinality(Waiting')
  <2>1. Waiting' = Waiting /\ kids' = kids
    BY <1>6 DEF Close, Waiting, TypeOK, Goto
  <2> QED
    BY <1>3, <2>1
<1>7. CASE ~ \E w \in Workers : Handle(w) \/ WaitChild(w) \/ Close(w)
  <2>1. Waiting' = Waiting
    BY <1>7, WaitFrame DEF Waiting
  <2>2. CASE ChildEnds
    <3>1. PICK k \in kids, j \in Kid : /\ kids' = (kids \ {k}) \union {j}
                                      /\ j.conn = k.conn
      BY <2>2, ChildEndsInPlace
    <3>2. j \notin kids \ {k}
      BY <3>1 DEF KidsInv
    <3>3. Cardinality(kids') = Cardinality(kids)
      BY <1>1, <3>1, <3>2, SwapElement
    <3> QED
      BY <1>3, <2>1, <3>3
  <2> QED
    BY <1>3, <1>7, <2>1, <2>2, WaitFrame
<1> QED
  BY <1>4, <1>5, <1>6, <1>7

\* Every connection has one owner, under FIFO connections are served in the order
\* they were accepted, and no worker waits for a child there is not, for any
\* number of workers, buffers and connections.
THEOREM ServedInOrderHolds == Spec => []ServedInOrder
<1>1. Init => OInv
  <2> SUFFICES ASSUME Init PROVE OInv
    OBVIOUS
  <2>1. IsFiniteSet({}) /\ Cardinality({}) = 0
    BY FS_EmptySet
  <2>2. OneOwner
    BY DEF Init, OneOwner, Buffered, Threads
  <2>3. FifoInv
    BY DEF Init, FifoInv, Threads
  <2>4. KidsInv
    BY <2>1 DEF Init, KidsInv
  <2>5. {w \in Workers : pc[w] = "waitChild"} = {}
    BY DEF Init, Threads
  <2>6. EveryWaitHasAChild
    BY <2>1, <2>5 DEF Init, EveryWaitHasAChild
  <2> QED
    BY <2>2, <2>3, <2>4, <2>6 DEF OInv
<1>2. TypeOK /\ TypeOK' /\ OInv /\ [Next]_vars => OInv'
  BY OwnerStep, FifoStep, KidsStep, WaitingStep DEF OInv
<1>3. FifoInv => FifoDispatch
  BY DEF FifoInv, FifoDispatch
<1>4. Spec => []TypeOK
  BY Inductive, PTL DEF IInv
<1>5. Spec => []OInv
  BY <1>1, <1>2, <1>4, PTL DEF Spec
<1>6. OInv => ServedInOrder
  BY <1>3 DEF OInv, ServedInOrder
<1> QED
  BY <1>5, <1>6, PTL
=============================================================================
