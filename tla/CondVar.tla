------------------------------ MODULE CondVar ------------------------------
(***************************************************************************)
(* The user-level spin lock and condition variables of the P4 xv6 kernel   *)
(* project: lock_* and cv_* (user/ulib.c) over the system calls condsleep  *)
(* and condwakeup (kernel/sysproc.c, kernel/proc.c), driven by the bounded *)
(* buffer of the test program user/race.c.                                 *)
(*                                                                         *)
(* A waiter draws a ticket (cond->num), releases the lock, and sleeps in   *)
(* the kernel on the ticket's number; a signal advances cond->curr and     *)
(* wakes whoever sleeps on that number.  Threads share memory and may be   *)
(* switched between any two statements.                                    *)
(***************************************************************************)
EXTENDS Integers, FiniteSets

CONSTANTS Producers, Consumers,  \* threads running produce() and consume()
          N,                     \* capacity of the buffer
          MaxNum                 \* bound on the tickets of one condition

ASSUME ThreadsAssumption == Producers \intersect Consumers = {}
ASSUME NAssumption == N \in Nat \ {0}
ASSUME MaxNumAssumption == MaxNum \in Nat

Threads == Producers \union Consumers
Conds == {"nonfull", "nonempty"}

VARIABLES stmt,     \* the statement each thread is at
          locked,   \* lock->locked
          num,      \* cond->num of each condition
          curr,     \* cond->curr of each condition
          bufsize,  \* items in the buffer of race.c
          n,        \* the ticket a thread passes to a system call
          chanId,   \* proc->chanId
          zeroed    \* user addresses the kernel has overwritten with 0

cvvars == <<stmt, locked, num, curr, bufsize, n, chanId, zeroed>>
kernel == <<chanId, zeroed>>

CvInit == /\ stmt = [t \in Threads |-> "acquire"]
          /\ locked = 0
          /\ num = [c \in Conds |-> 0]
          /\ curr = [c \in Conds |-> 0]
          /\ bufsize = 0
          /\ n = [t \in Threads |-> 0]
          /\ chanId = [t \in Threads |-> 0]
          /\ zeroed = {}

Goto(t, label) == stmt' = [stmt EXCEPT ![t] = label]

\* The condition t waits on, and the one it signals.
WaitsOn(t) == IF t \in Producers THEN "nonfull" ELSE "nonempty"
Signals(t) == IF t \in Producers THEN "nonempty" ELSE "nonfull"
MustWait(t) == bufsize = IF t \in Producers THEN N ELSE 0

-----------------------------------------------------------------------------
(* produce() and consume().                                                 *)

\* lock_acquire(): the exchange that finds the lock free ends the spinning.
Acquire(t) == /\ stmt[t] = "acquire"
              /\ locked = 0
              /\ locked' = 1
              /\ Goto(t, "test")
              /\ UNCHANGED <<num, curr, bufsize, n, kernel>>

Test(t) == /\ stmt[t] = "test"
           /\ Goto(t, IF MustWait(t) THEN "ticket" ELSE "work")
           /\ UNCHANGED <<locked, num, curr, bufsize, n, kernel>>

Work(t) == /\ stmt[t] = "work"
           /\ bufsize' = IF t \in Producers THEN bufsize + 1 ELSE bufsize - 1
           /\ Goto(t, "signal")
           /\ UNCHANGED <<locked, num, curr, n, kernel>>

Release(t) == /\ stmt[t] = "release"
              /\ locked' = 0
              /\ Goto(t, "acquire")
              /\ UNCHANGED <<num, curr, bufsize, n, kernel>>

-----------------------------------------------------------------------------
(* cv_wait().                                                               *)

Ticket(t) == /\ stmt[t] = "ticket"
             /\ num[WaitsOn(t)] < MaxNum
             /\ num' = [num EXCEPT ![WaitsOn(t)] = @ + 1]
             /\ Goto(t, "unlock")
             /\ UNCHANGED <<locked, curr, bufsize, n, kernel>>

Unlock(t) == /\ stmt[t] = "unlock"
             /\ locked' = 0
             /\ Goto(t, "readNum")
             /\ UNCHANGED <<num, curr, bufsize, n, kernel>>

\* The argument of condsleep(cond->num) is read after the lock is released.
ReadNum(t) == /\ stmt[t] = "readNum"
              /\ n' = [n EXCEPT ![t] = num[WaitsOn(t)]]
              /\ Goto(t, "condsleep")
              /\ UNCHANGED <<locked, num, curr, bufsize, kernel>>

\* sys_condsleep() takes its first argument for the lock's address as well and
\* stores 0 there: the four bytes at user address n.  Then the process sleeps
\* with its chanId set, under ptable.lock.
CondSleep(t) == /\ stmt[t] = "condsleep"
                /\ zeroed' = zeroed \union (n[t] .. n[t] + 3)
                /\ chanId' = [chanId EXCEPT ![t] = n[t]]
                /\ Goto(t, "asleep")
                /\ UNCHANGED <<locked, num, curr, bufsize, n>>

\* condsleep() returns: sched() has come back after a wakeup.
WakeUp(t) == /\ stmt[t] = "awake"
             /\ chanId' = [chanId EXCEPT ![t] = 0]
             /\ Goto(t, "reacquire")
             /\ UNCHANGED <<locked, num, curr, bufsize, n, zeroed>>

\* Mutant of Reacquire: if instead of while around cv_wait() in race.c.
ReacquireNoRetest(t) == /\ stmt[t] = "reacquire"
                        /\ locked = 0
                        /\ locked' = 1
                        /\ Goto(t, "work")
                        /\ UNCHANGED <<num, curr, bufsize, n, kernel>>

Reacquire(t) == /\ stmt[t] = "reacquire"
                /\ locked = 0
                /\ locked' = 1
                /\ Goto(t, "test")
                /\ UNCHANGED <<num, curr, bufsize, n, kernel>>

-----------------------------------------------------------------------------
(* cv_signal().                                                             *)

Signal(t) ==
  /\ stmt[t] = "signal"
  /\ LET c == Signals(t)
     IN  IF num[c] # curr[c]
         THEN /\ curr' = [curr EXCEPT ![c] = @ + 1]
              /\ n' = [n EXCEPT ![t] = curr[c] + 1]
              /\ Goto(t, "condwakeup")
         ELSE /\ Goto(t, "release")
              /\ UNCHANGED <<curr, n>>
  /\ UNCHANGED <<locked, num, bufsize, kernel>>

\* The threads a condwakeup(k) makes runnable: every sleeper with that chanId.
Sleepers(k) == {u \in Threads : stmt[u] = "asleep" /\ chanId[u] = k}

CondWakeup(t) ==
  /\ stmt[t] = "condwakeup"
  /\ stmt' = [u \in Threads |-> CASE u = t -> "release"
                                  [] u \in Sleepers(n[t]) -> "awake"
                                  [] OTHER -> stmt[u]]
  /\ UNCHANGED <<locked, num, curr, bufsize, n, kernel>>

Step(t) == \/ Acquire(t) \/ Test(t) \/ Work(t) \/ Release(t)
           \/ Ticket(t) \/ Unlock(t) \/ ReadNum(t) \/ CondSleep(t)
           \/ WakeUp(t) \/ Reacquire(t) \/ Signal(t) \/ CondWakeup(t)

CvNext == \E t \in Threads : Step(t)

CvSpec == CvInit /\ [][CvNext]_cvvars

-----------------------------------------------------------------------------
Labels == {"acquire", "test", "ticket", "unlock", "readNum", "condsleep",
           "asleep", "awake", "reacquire", "work", "signal", "condwakeup",
           "release"}

\* The types of the shared variables; chanId names a ticket exactly while the
\* thread is in the kernel's sleep.
CvTypeOK == /\ stmt \in [Threads -> Labels]
            /\ locked \in {0, 1}
            /\ num \in [Conds -> 0 .. MaxNum]
            /\ curr \in [Conds -> Nat]
            /\ bufsize \in Int
            /\ n \in [Threads -> Nat]
            /\ chanId \in [Threads -> Nat]
            /\ \A t \in Threads : chanId[t] # 0 => stmt[t] \in {"asleep", "awake"}
            /\ zeroed \subseteq Nat

Holding == {"test", "ticket", "unlock", "work", "signal", "condwakeup",
            "release"}

\* A thread is in a critical section only with the lock, also after cv_wait()
\* has released and reacquired it ("cannot leave cv_wait without lock").
LockDiscipline ==
  /\ \A t, u \in Threads : stmt[t] \in Holding /\ stmt[u] \in Holding => t = u
  /\ locked = 1 <=> \E t \in Threads : stmt[t] \in Holding

\* Whoever is woken, for whatever reason, finds the predicate it waited for
\* true when it goes on: the buffer is neither overrun nor underrun.
BufferBounds == /\ bufsize \in 0 .. N
                /\ \A t \in Threads : stmt[t] = "work" => ~MustWait(t)

\* The lock and the re-test of the predicate guard the buffer, both of the
\* above, although wakeups are lost, wrong or doubled.
BufferGuarded == LockDiscipline /\ BufferBounds

\* Signals never run ahead of the waiters' tickets: a ticket is signalled once,
\* and only after it was drawn.
TicketsAhead == \A c \in Conds : curr[c] =< num[c]

=============================================================================
