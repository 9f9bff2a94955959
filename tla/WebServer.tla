----------------------------- MODULE WebServer -----------------------------
(***************************************************************************)
(* The multi-threaded web server of P4/web_server (server.c, request.c).   *)
(* A master thread accepts connections, reads each request, gives it a     *)
(* priority and buffers it; worker threads take the request of least       *)
(* priority and answer it.  The buffer is the one of PriorityQueue, which  *)
(* HeapQueue implements.  One lock, cLock, protects it; master and workers *)
(* wait on the condition variables full and empty.                         *)
(*                                                                         *)
(* Every lock and unlock, every wait and signal and every system call that *)
(* can be interleaved with another thread is a step.  exit(0), which the   *)
(* code and the wrappers of cs537.c call on any error, stops the process.  *)
(***************************************************************************)
EXTENDS Integers, FiniteSets

CONSTANTS Workers,      \* the pool of worker threads
          Conns,        \* the connections clients open (bounds the run)
          Requests,     \* what a client may send: see RequestType
          Policies,     \* the [schedalg] arguments considered
          Removable,    \* connections whose file somebody may remove
          Buffers,      \* size of the request buffer
          MaxSpurious   \* bound on the spurious returns of cond_wait

CONSTANTS Master, None  \* the main thread; no thread, no request

RequestType == [get : BOOLEAN,       \* the method is GET
                cgi : BOOLEAN,       \* the URI names a CGI program
                permitted : BOOLEAN, \* regular file with the right mode bit
                nameLen : Nat, size : Nat,
                complete : BOOLEAN,  \* the headers end with a blank line
                stays : BOOLEAN]     \* the client reads the whole answer

ASSUME WorkersAssumption == Workers # {} /\ IsFiniteSet(Workers)
ASSUME RequestsAssumption == Requests \subseteq RequestType
ASSUME PoliciesAssumption == Policies \subseteq {"FIFO", "SFNF", "SFF"}
ASSUME BuffersAssumption == Buffers \in Nat \ {0}
ASSUME MaxSpuriousAssumption == MaxSpurious \in Nat
ASSUME NamesAssumption == /\ Master \notin Workers
                          /\ None \notin Workers \union {Master}
ASSUME ConnsAssumption == Removable \subseteq Conns

VARIABLES policy,    \* the scheduling policy: stats[3] of main()
          pc,        \* the line each thread is at
          cLock,     \* the thread that holds cLock, or None
          pool,      \* the buffered requests
          count,     \* the FIFO ticket counter
          cur,       \* each thread's local d: a request, or None
          req,       \* what the client of each connection sends
          present,   \* connections whose file exists now
          backlog,   \* connections not yet accepted
          open,      \* connections whose descriptor the server has open
          kids,      \* CGI children: [conn, fds, done]
          answer,    \* the status line sent on each connection
          up,        \* the process runs
          spurious   \* spurious wakeups so far

input == <<policy, req, present>>          \* what the environment chose
queue == <<pool, count>>
io == <<backlog, open, kids, answer>>
process == <<up, spurious>>
vars == <<pc, cLock, cur, input, queue, io, process>>

Threads == Workers \union {Master}
Data == [conn : Conns, priority : Int]
ASSUME NoneAssumption == None \notin Data

Codes == {"none", "200", "403", "404", "501"}

Init == /\ policy \in Policies
        /\ pc = [t \in Threads |-> IF t = Master THEN "accept" ELSE "lock"]
        /\ cLock = None
        /\ pool = {}
        /\ count = 0
        /\ cur = [t \in Threads |-> None]
        /\ req \in [Conns -> Requests]
        /\ present \in SUBSET Conns
        /\ backlog = Conns
        /\ open = {}
        /\ kids = {}
        /\ answer = [c \in Conns |-> "none"]
        /\ up = TRUE
        /\ spurious = 0

Goto(t, label) == pc' = [pc EXCEPT ![t] = label]

isEmpty == pool = {}

\* Mutant of isFull: counts the dummy cell of the array as a buffer.
isFullOffByOne == Cardinality(pool) = Buffers + 1

isFull == Cardinality(pool) = Buffers

-----------------------------------------------------------------------------
(* The pthread operations, external to src/, as threads.h uses them.        *)

LockSites == {"lock", "relock", "lockFull", "relockFull", "lockPut"}

\* The line a thread continues at once it has cLock.
AfterLock(label) ==
  CASE label \in {"lock", "relock"} -> "testEmpty"
    [] label \in {"lockFull", "relockFull"} -> "testFull"
    [] label = "lockPut" -> "put"

Lock(t) == /\ up
           /\ pc[t] \in LockSites
           /\ cLock = None
           /\ cLock' = t
           /\ Goto(t, AfterLock(pc[t]))
           /\ UNCHANGED <<cur, input, queue, io, process>>

\* Where a signalled (or spuriously woken) thread contends for cLock again.
Woken(label) == IF label = "waitEmpty" THEN "relock" ELSE "relockFull"

\* t signals the condition its waiters sleep on at label, and goes on.
Signal(t, label, next) ==
  LET waiters == {u \in Threads : pc[u] = label}
  IN  IF waiters = {}
      THEN Goto(t, next)
      ELSE \E u \in waiters :
             pc' = [pc EXCEPT ![t] = next, ![u] = Woken(label)]

SpuriousWakeup(t) ==
  /\ up
  /\ pc[t] \in {"waitEmpty", "waitFull"}
  /\ spurious < MaxSpurious
  /\ spurious' = spurious + 1
  /\ Goto(t, Woken(pc[t]))
  /\ UNCHANGED <<cLock, cur, input, queue, io, up>>

-----------------------------------------------------------------------------
(* main(): the master thread.                                               *)

Accept(c) == /\ up
             /\ pc[Master] = "accept"
             /\ c \in backlog
             /\ backlog' = backlog \ {c}
             /\ open' = open \union {c}
             /\ cur' = [cur EXCEPT ![Master] = [conn |-> c, priority |-> 0]]
             /\ Goto(Master, "lockFull")
             /\ UNCHANGED <<cLock, input, queue, kids, answer, process>>

WaitWhileFull ==
  /\ up
  /\ pc[Master] = "testFull"
  /\ IF isFull
     THEN Goto(Master, "waitFull") /\ cLock' = None
     ELSE Goto(Master, "unlockFull") /\ UNCHANGED cLock
  /\ UNCHANGED <<cur, input, queue, io, process>>

UnlockFull == /\ up
              /\ pc[Master] = "unlockFull"
              /\ cLock' = None
              /\ Goto(Master, "read")
              /\ UNCHANGED <<cur, input, queue, io, process>>

\* The priority main() gives the request of connection c.
PriorityOf(c) == CASE policy = "FIFO" -> count
                   [] policy = "SFNF" -> req[c].nameLen
                   [] policy = "SFF"  -> req[c].size

\* getRequestFileName() and the choice of the priority.  requestReadhdrs()
\* loops until it reads the blank line, also at end of file: a request cut
\* short keeps the master in it for ever.
ReadRequest ==
  /\ up
  /\ pc[Master] = "read"
  /\ LET c == cur[Master].conn
     IN  /\ req[c].complete
         /\ ~(policy = "SFF" /\ c \notin present)
         /\ cur' = [cur EXCEPT ![Master].priority = PriorityOf(c)]
         /\ count' = IF policy = "FIFO" THEN count + 1 ELSE count
  /\ Goto(Master, "lockPut")
  /\ UNCHANGED <<cLock, input, pool, io, process>>

\* Under SFF a file that cannot be stat()ed ends the process.
ExitOnStat == /\ up
              /\ pc[Master] = "read"
              /\ req[cur[Master].conn].complete
              /\ policy = "SFF" /\ cur[Master].conn \notin present
              /\ up' = FALSE
              /\ UNCHANGED <<pc, cLock, cur, input, queue, io, spurious>>

Enqueue == /\ up
           /\ pc[Master] = "put"
           /\ pool' = pool \union {cur[Master]}
           /\ cur' = [cur EXCEPT ![Master] = None]
           /\ Goto(Master, "signalEmpty")
           /\ UNCHANGED <<cLock, input, count, io, process>>

\* Mutant of SignalEmpty: the signal is sent on the wrong condition variable.
SignalFullInstead ==
  /\ up
  /\ pc[Master] = "signalEmpty"
  /\ Signal(Master, "waitFull", "unlockPut")
  /\ UNCHANGED <<cLock, cur, input, queue, io, process>>

SignalEmpty ==
  /\ up
  /\ pc[Master] = "signalEmpty"
  /\ Signal(Master, "waitEmpty", "unlockPut")
  /\ UNCHANGED <<cLock, cur, input, queue, io, process>>

UnlockPut == /\ up
             /\ pc[Master] = "unlockPut"
             /\ cLock' = None
             /\ Goto(Master, "accept")
             /\ UNCHANGED <<cur, input, queue, io, process>>

-----------------------------------------------------------------------------
(* serverWorker(): the worker threads.                                      *)

WaitWhileEmpty(w) ==
  /\ up
  /\ pc[w] = "testEmpty"
  /\ IF isEmpty
     THEN Goto(w, "waitEmpty") /\ cLock' = None
     ELSE Goto(w, "take") /\ UNCHANGED cLock
  /\ UNCHANGED <<cur, input, queue, io, process>>

\* The requests dequeue() may return (PriorityQueue!Least).
Least(S) == {d \in S : \A e \in S : d.priority =< e.priority}

\* Mutant of Dequeue: returns any request, as a broken heap would.
DequeueAny(w) ==
  /\ up
  /\ pc[w] = "take"
  /\ \E d \in pool : cur' = [cur EXCEPT ![w] = d] /\ pool' = pool \ {d}
  /\ Goto(w, "signalFull")
  /\ UNCHANGED <<cLock, input, count, io, process>>

Dequeue(w) ==
  /\ up
  /\ pc[w] = "take"
  /\ \E d \in Least(pool) : cur' = [cur EXCEPT ![w] = d] /\ pool' = pool \ {d}
  /\ Goto(w, "signalFull")
  /\ UNCHANGED <<cLock, input, count, io, process>>

\* Mutant of SignalFull: the worker does not tell the master of the free cell.
NoSignalFull(w) ==
  /\ up
  /\ pc[w] = "signalFull"
  /\ Goto(w, "unlock")
  /\ UNCHANGED <<cLock, cur, input, queue, io, process>>

SignalFull(w) ==
  /\ up
  /\ pc[w] = "signalFull"
  /\ Signal(w, "waitFull", "unlock")
  /\ UNCHANGED <<cLock, cur, input, queue, io, process>>

Unlock(w) == /\ up
             /\ pc[w] = "unlock"
             /\ cLock' = None
             /\ Goto(w, "handle")
             /\ UNCHANGED <<cur, input, queue, io, process>>

\* requestHandleWorker(): the status it answers with, from the request and a
\* stat() of the file as it is now.
StatusOf(c) == CASE ~req[c].get       -> "501"
                 [] c \notin present  -> "404"
                 [] ~req[c].permitted -> "403"
                 [] OTHER             -> "200"

\* The process Fork() makes for connection c.
Child(c) == [conn |-> c, fds |-> open, done |-> FALSE]

\* An error page, or the CGI branch: the status is written at once; a CGI
\* child inherits every descriptor the server has open and the worker waits.
\* A static page is opened later (requestServeStatic).
Handle(w) ==
  /\ up
  /\ pc[w] = "handle"
  /\ LET c == cur[w].conn
         static == StatusOf(c) = "200" /\ ~req[c].cgi
         forks == StatusOf(c) = "200" /\ req[c].cgi
     IN  /\ answer' = IF static THEN answer
                      ELSE [answer EXCEPT ![c] = StatusOf(c)]
         /\ kids' = IF forks
                    THEN kids \union {Child(c)}
                    ELSE kids
         /\ Goto(w, IF static THEN "open"
                    ELSE IF forks THEN "waitChild" ELSE "close")
  /\ UNCHANGED <<cLock, cur, input, queue, backlog, open, process>>

\* requestServeStatic() on a file that is still there.
ServeStatic(w) ==
  /\ up
  /\ pc[w] = "open"
  /\ cur[w].conn \in present
  /\ answer' = [answer EXCEPT ![cur[w].conn] = "200"]
  /\ Goto(w, "close")
  /\ UNCHANGED <<cLock, cur, input, queue, backlog, open, kids, process>>

\* The wrappers' exit(0): Open() of a file removed since the stat(), or
\* Rio_writen() to a client that has closed its end (SIGPIPE is not handled).
ExitInWorker(w) ==
  /\ up
  /\ \/ pc[w] = "open" /\ cur[w].conn \notin present
     \/ pc[w] \in {"handle", "open"} /\ ~req[cur[w].conn].stays
  /\ up' = FALSE
  /\ UNCHANGED <<pc, cLock, cur, input, queue, io, spurious>>

\* Mutant of WaitChild: reaps every child that has ended.
WaitAllChildren(w) ==
  /\ up
  /\ pc[w] = "waitChild"
  /\ \E k \in kids : k.done
  /\ kids' = {k \in kids : ~k.done}
  /\ Goto(w, "close")
  /\ UNCHANGED <<cLock, cur, input, queue, backlog, open, answer, process>>

\* The Wait(NULL) of requestServeDynamic() reaps any child that has ended.
WaitChild(w) ==
  /\ up
  /\ pc[w] = "waitChild"
  /\ \E k \in kids : k.done /\ kids' = kids \ {k}
  /\ Goto(w, "close")
  /\ UNCHANGED <<cLock, cur, input, queue, backlog, open, answer, process>>

Close(w) == /\ up
            /\ pc[w] = "close"
            /\ open' = open \ {cur[w].conn}
            /\ cur' = [cur EXCEPT ![w] = None]
            /\ Goto(w, "lock")
            /\ UNCHANGED <<cLock, input, queue, backlog, kids, answer, process>>

-----------------------------------------------------------------------------
(* The environment.                                                         *)

\* A CGI program ends; its copies of the descriptors are closed.
ChildEnds == /\ \E k \in kids : /\ ~k.done
                                /\ kids' = (kids \ {k}) \union
                                     {[k EXCEPT !.done = TRUE, !.fds = {}]}
             /\ UNCHANGED <<pc, cLock, cur, input, queue, backlog, open, answer,
                            process>>

\* Somebody removes the file a connection asks for.
RemoveFile(c) == /\ c \in present
                 /\ present' = present \ {c}
                 /\ UNCHANGED <<pc, cLock, cur, policy, req, queue, io, process>>

MasterStep == \/ \E c \in Conns : Accept(c)
              \/ WaitWhileFull \/ UnlockFull \/ ReadRequest \/ ExitOnStat
              \/ Enqueue \/ SignalEmpty \/ UnlockPut

WorkerStep(w) == \/ WaitWhileEmpty(w) \/ Dequeue(w) \/ SignalFull(w)
                 \/ Unlock(w) \/ Handle(w) \/ ServeStatic(w)
                 \/ ExitInWorker(w) \/ WaitChild(w) \/ Close(w)

Next == \/ MasterStep
        \/ \E w \in Workers : WorkerStep(w)
        \/ \E t \in Threads : Lock(t) \/ SpuriousWakeup(t)
        \/ ChildEnds
        \/ \E c \in Removable : RemoveFile(c)

Spec == Init /\ [][Next]_vars

\* The scheduler runs every runnable thread, and CGI programs end.  Nothing is
\* assumed of the order in which the mutex and the condition variables serve
\* their waiters, nor of the clients and of who removes files.
Fairness == /\ WF_vars(MasterStep) /\ WF_vars(Lock(Master))
            /\ \A w \in Workers : WF_vars(WorkerStep(w)) /\ WF_vars(Lock(w))
            /\ WF_vars(ChildEnds)

FairSpec == Spec /\ Fairness

-----------------------------------------------------------------------------
Labels == {"lock", "relock", "testEmpty", "waitEmpty", "take", "signalFull",
           "unlock", "handle", "open", "waitChild", "close"}
MasterLabels == {"accept", "lockFull", "relockFull", "testFull", "waitFull",
                 "unlockFull", "read", "lockPut", "put", "signalEmpty",
                 "unlockPut"}

\* Lines at which the thread's local d is a request.
HasRequest(t) ==
  pc[t] \in {"signalFull", "unlock", "handle", "open", "waitChild", "close"}
            \union (MasterLabels \ {"accept", "signalEmpty", "unlockPut"})

\* The types of the shared and local variables; d holds a request exactly at
\* the lines that use it, and only a buffered request's connection is open.
TypeOK == /\ policy \in Policies
          /\ pc \in [Threads -> Labels \union MasterLabels]
          /\ pc[Master] \in MasterLabels
          /\ \A w \in Workers : pc[w] \in Labels
          /\ cLock \in Threads \union {None}
          /\ pool \subseteq Data
          /\ count \in Nat
          /\ cur \in [Threads -> Data \union {None}]
          /\ \A t \in Threads : cur[t] # None <=> HasRequest(t)
          /\ req \in [Conns -> Requests]
          /\ present \subseteq Conns
          /\ backlog \subseteq Conns
          /\ open \subseteq Conns
          /\ kids \subseteq [conn : Conns, fds : SUBSET Conns, done : BOOLEAN]
          /\ answer \in [Conns -> Codes]
          /\ up \in BOOLEAN
          /\ spurious \in 0 .. MaxSpurious

Critical == {"testEmpty", "take", "signalFull", "unlock", "testFull",
             "unlockFull", "put", "signalEmpty", "unlockPut"}

\* cLock is held by exactly the thread between a lock and the matching unlock:
\* two threads are never in the code that reads and writes the queue.
MutualExclusion == \A t \in Threads : pc[t] \in Critical <=> cLock = t

\* The master tests isFull(), releases the lock to read the request, and
\* enqueues without testing again; the array of Buffers + 1 cells is
\* nevertheless never overrun, because the master is the only producer.
BufferBound == /\ IsFiniteSet(pool)
               /\ Cardinality(pool) =< Buffers
               /\ pc[Master] \in {"unlockFull", "read", "lockPut", "put"}
                     => Cardinality(pool) < Buffers

\* dequeue() is called only on a queue with a request in it, although many
\* workers are woken and any of them may have emptied it first.
NeverDequeueEmpty == \A w \in Workers : pc[w] = "take" => pool # {}

\* The buffer is used under its lock, never overrun and never underrun: see
\* the four conjuncts.
BufferSafe == TypeOK /\ MutualExclusion /\ BufferBound /\ NeverDequeueEmpty

Buffered == {d.conn : d \in pool}

\* A connection is in one place at a time: waiting to be accepted, with the
\* master, in the buffer, or with one worker; that worker is the only one to
\* write to it and to close it, and nothing closes it before.
OneOwner ==
  /\ \A d, e \in pool : d.conn = e.conn => d = e
  /\ \A t, u \in Threads :
        t # u /\ cur[t] # None /\ cur[u] # None => cur[t].conn # cur[u].conn
  /\ \A t \in Threads :
        cur[t] # None => cur[t].conn \in open \ (Buffered \union backlog)
  /\ Buffered \subseteq open /\ open \intersect backlog = {}

\* No wakeup is lost: the workers are all asleep with a request buffered, or
\* the master asleep with a buffer free, only while the thread that changed
\* that is on its way to the signal.
NoLostWakeup ==
  /\ pool # {} /\ (\A w \in Workers : pc[w] = "waitEmpty")
        => pc[Master] = "signalEmpty"
  /\ pc[Master] = "waitFull" /\ Cardinality(pool) < Buffers
        => \E w \in Workers : pc[w] = "signalFull"

\* Under FIFO every request that is still buffered was accepted after every
\* request that a worker has.
FifoDispatch ==
  policy = "FIFO" =>
    \A w \in Workers, d \in pool :
       cur[w] # None => cur[w].priority < d.priority

\* Wait(NULL) reaps any child, not the worker's own, yet it never fails for
\* want of a child: there are as many unreaped children as waiting workers.
EveryWaitHasAChild ==
  Cardinality(kids) = Cardinality({w \in Workers : pc[w] = "waitChild"})

\* Every connection has one owner, under FIFO they are served in order, and no
\* worker waits for a child there is not.
ServedInOrder == OneOwner /\ FifoDispatch /\ EveryWaitHasAChild

\* The client of c sees the end of the answer: the server and every CGI child
\* that inherited the descriptor have closed it.
Finished(c) == /\ answer[c] # "none"
               /\ c \notin open
               /\ \A k \in kids : c \notin k.fds

\* Every connection the server accepts is answered and closed (under FIFO and
\* SFNF, when clients send whole requests, read the answers, and nobody removes
\* files), whatever the interleaving of the signals.
AcceptedIsFinished == \A c \in Conns : c \in open ~> Finished(c)
=============================================================================
