------------------------------ MODULE Spinlock ------------------------------
(***************************************************************************)
(* Spin locks, interrupts and the change of processes of xv6 (spinlock.c,  *)
(* and scheduler, sched, yield, sleep, wakeup and forkret of proc.c), for  *)
(* processes that call sys_sleep and CPUs whose timer interrupts them      *)
(* wherever interrupts are on.  A step is what a CPU does up to the next   *)
(* point at which another CPU or an interrupt can make a difference.       *)
(*                                                                         *)
(* Every process, and the scheduler of every CPU, is a flow of control     *)
(* with a stack: the label at the head says where it is, the one below it  *)
(* where it was interrupted.                                               *)
(***************************************************************************)
EXTENDS Integers, Sequences, FiniteSets

CONSTANTS
  NCPUS,      \* CPUs are 1 .. NCPUS; the first has cpu->id 0
  Tasks       \* numbers of the slots of the process table in use

ASSUME SpinAssumption == NCPUS \in Nat \ {0} /\ Tasks \subseteq Nat \ {0}

Cpus == 1 .. NCPUS
Flows == Tasks \cup {-c : c \in Cpus}      \* -c is the scheduler of CPU c
Locks == {"tickslock", "ptable"}

VARIABLES
  owner,      \* owner[lk]: lk->cpu while lk->locked, otherwise 0
  eflags,     \* eflags[c]: interrupts are on
  ncli, intena,
  cur,        \* cur[c]: the flow that CPU c runs; proc, or -c when that is 0
  stack,      \* stack[f]
  run,        \* run[p]: proc->state
  kept,       \* kept[p]: the local variable intena of sched()
  scan,       \* scan[c]: the slot which the loop of scheduler() has reached
  late,       \* late[p]: p is in sys_sleep and ticks has changed since it
              \* read it
  spPanic     \* one of the panics of these functions was met

lockvars == << owner, eflags, ncli, intena, spPanic >>
taskvars == << cur, run, kept, scan, late >>
spvars == << lockvars, taskvars, stack >>

\* The processes have been made by fork and have not run yet.
SpInit ==
  /\ owner = [lk \in Locks |-> 0]
  /\ eflags = [c \in Cpus |-> FALSE]
  /\ ncli = [c \in Cpus |-> 0] /\ intena = [c \in Cpus |-> FALSE]
  /\ cur = [c \in Cpus |-> -c]
  /\ stack = [f \in Flows |-> IF f \in Tasks THEN << "forkret" >> ELSE << "sti" >>]
  /\ run = [p \in Tasks |-> "runnable"] /\ kept = [p \in Tasks |-> FALSE]
  /\ scan = [c \in Cpus |-> 0] /\ late = [p \in Tasks |-> FALSE]
  /\ spPanic = FALSE

Top(f) == Head(stack[f])
At(c, l) == Top(cur[c]) = l
Moved(f, l) == [stack EXCEPT ![f] = << l >> \o Tail(@)]
GoTo(c, l) == stack' = Moved(cur[c], l)

-----------------------------------------------------------------------------
(* spinlock.c.  acquire() is pushcli() and then spinning; a spin that fails *)
(* changes nothing.                                                         *)

holding(c, lk) == owner[lk] = c

pushcli(c, lk) ==
  /\ eflags' = [eflags EXCEPT ![c] = FALSE]
  /\ ncli' = [ncli EXCEPT ![c] = @ + 1]
  /\ intena' = IF ncli[c] = 0 THEN [intena EXCEPT ![c] = eflags[c]] ELSE intena
  /\ spPanic' = holding(c, lk)
  /\ UNCHANGED owner

xchg(c, lk) == /\ owner[lk] = 0
               /\ owner' = [owner EXCEPT ![lk] = c]
               /\ UNCHANGED << eflags, ncli, intena, spPanic >>

\* release() when cpu->intena is ie; popcli() is its end.
releaseWith(c, lk, ie) ==
  /\ spPanic' = (~ holding(c, lk) \/ eflags[c] \/ ncli[c] = 0)
  /\ owner' = [owner EXCEPT ![lk] = 0]
  /\ ncli' = [ncli EXCEPT ![c] = @ - 1]
  /\ intena' = [intena EXCEPT ![c] = ie]
  /\ eflags' = [eflags EXCEPT ![c] = @ \/ (ncli[c] = 1 /\ ie)]

release(c, lk) == releaseWith(c, lk, intena[c])

\* Steps of flows that are at label l and go on at m.
Push(c, l, lk, m) == At(c, l) /\ pushcli(c, lk) /\ GoTo(c, m)
Spin(c, l, lk, m) == At(c, l) /\ xchg(c, lk) /\ GoTo(c, m)
Releases(c, l, lk, m) == At(c, l) /\ release(c, lk) /\ GoTo(c, m)

-----------------------------------------------------------------------------
(* Changing processes.                                                      *)

\* sched() up to swtch(): back is where the process goes on.
sched(c, back) ==
  LET p == cur[c]
  IN /\ spPanic' = (~ holding(c, "ptable") \/ ncli[c] # 1 \/ eflags[c])
     /\ kept' = [kept EXCEPT ![p] = intena[c]]
     /\ cur' = [cur EXCEPT ![c] = -c]
     /\ stack' = Moved(p, back)
     /\ UNCHANGED << owner, eflags, ncli, intena >>

\* The end of sched() forgotten.
ResumeForgets(c, l, m) == At(c, l) /\ release(c, "ptable") /\ GoTo(c, m)

\* The end of sched() and release(&ptable.lock).
Resume(c, l, m) == At(c, l) /\ releaseWith(c, "ptable", kept[cur[c]]) /\ GoTo(c, m)

forkret(c) == Releases(c, "forkret", "ptable", "trapret") /\ UNCHANGED taskvars

Ready(c) == {p \in Tasks : run[p] = "runnable" /\ p > scan[c]}

\* scheduler()
sti(c) == /\ At(c, "sti") /\ eflags' = [eflags EXCEPT ![c] = TRUE]
          /\ GoTo(c, "idle")
          /\ UNCHANGED << owner, ncli, intena, spPanic, taskvars >>
schedAcquire(c) == /\ \/ Push(c, "idle", "ptable", "sacquire")
                      \/ Spin(c, "sacquire", "ptable", "loop")
                   /\ UNCHANGED taskvars
pick(c) == /\ At(c, "loop")
           /\ \E p \in Ready(c) :
                /\ \A q \in Ready(c) : p <= q
                /\ cur' = [cur EXCEPT ![c] = p] /\ scan' = [scan EXCEPT ![c] = p]
                /\ run' = [run EXCEPT ![p] = "running"]
           /\ UNCHANGED << lockvars, stack, kept, late >>
endOfTable(c) == /\ Ready(c) = {} /\ Releases(c, "loop", "ptable", "sti")
                 /\ scan' = [scan EXCEPT ![c] = 0]
                 /\ UNCHANGED << cur, run, kept, late >>

-----------------------------------------------------------------------------
(* A process: from user mode into sys_sleep(1) and back.                    *)

syscall(c) == /\ At(c, "user") /\ GoTo(c, "kernel")
              /\ UNCHANGED << lockvars, taskvars >>

\* trapret: the flags of user mode have interrupts on.
trapret(c) == /\ At(c, "kernel") \/ At(c, "trapret")
              /\ GoTo(c, "user")
              /\ eflags' = [eflags EXCEPT ![c] = TRUE]
              /\ UNCHANGED << owner, ncli, intena, spPanic, taskvars >>

\* sys_sleep: acquire, read ticks, test, and release at the end.
sysSleep(c) ==
  \/ Push(c, "kernel", "tickslock", "acquire") /\ UNCHANGED taskvars
  \/ /\ Spin(c, "acquire", "tickslock", "test")
     /\ UNCHANGED taskvars
  \/ /\ cur[c] \in Tasks /\ late[cur[c]]
     /\ Releases(c, "test", "tickslock", "kernel")
     /\ late' = [late EXCEPT ![cur[c]] = FALSE] /\ UNCHANGED << cur, run, kept, scan >>

\* A sleep that gives up tickslock first.
giveUpEarly(c) ==
  \/ /\ cur[c] \in Tasks /\ ~ late[cur[c]]
     /\ Releases(c, "test", "tickslock", "both") /\ UNCHANGED taskvars
  \/ Push(c, "both", "ptable", "pacquire") /\ UNCHANGED taskvars
  \/ Spin(c, "pacquire", "ptable", "asleep") /\ UNCHANGED taskvars

\* sleep(&ticks, &tickslock): ptable.lock before tickslock is given up.
giveUp(c) ==
  \/ /\ cur[c] \in Tasks /\ ~ late[cur[c]]
     /\ Push(c, "test", "ptable", "pacquire") /\ UNCHANGED taskvars
  \/ Spin(c, "pacquire", "ptable", "both") /\ UNCHANGED taskvars
  \/ Releases(c, "both", "tickslock", "asleep") /\ UNCHANGED taskvars

goToSleep(c) == /\ At(c, "asleep") /\ sched(c, "woken")
                /\ run' = [run EXCEPT ![cur[c]] = "sleeping"]
                /\ UNCHANGED << scan, late >>
wakesUp(c) == /\ \/ Resume(c, "woken", "again")
                 \/ Push(c, "again", "tickslock", "reacquire")
                 \/ Spin(c, "reacquire", "tickslock", "test")
              /\ UNCHANGED taskvars

-----------------------------------------------------------------------------
(* trap() for the timer.  The gate turns interrupts off.                    *)

interrupt(c) == /\ eflags[c] /\ eflags' = [eflags EXCEPT ![c] = FALSE]
                /\ stack' = [stack EXCEPT ![cur[c]] = << "trap" >> \o @]
                /\ UNCHANGED << owner, ncli, intena, spPanic, taskvars >>

\* Processes that have read ticks and wait for it to change.
TickSleepers == {p \in Tasks : stack[p][Len(stack[p])] \in
                   {"test", "pacquire", "both", "asleep", "woken", "again", "reacquire"}}

\* ticks++ and wakeup(&ticks), on the first CPU only.
tick(c) ==
  \/ c = 1 /\ Push(c, "trap", "tickslock", "tacquire") /\ UNCHANGED taskvars
  \/ /\ Spin(c, "tacquire", "tickslock", "wakeup")
     /\ late' = [p \in Tasks |-> p \in TickSleepers]
     /\ UNCHANGED << cur, run, kept, scan >>
  \/ Push(c, "wakeup", "ptable", "wacquire") /\ UNCHANGED taskvars
  \/ Spin(c, "wacquire", "ptable", "wakeup1") /\ UNCHANGED taskvars
  \/ /\ Releases(c, "wakeup1", "ptable", "ticked")
     /\ run' = [p \in Tasks |-> IF run[p] = "sleeping" THEN "runnable" ELSE run[p]]
     /\ UNCHANGED << cur, kept, scan, late >>
  \/ Releases(c, "ticked", "tickslock", "preempt") /\ UNCHANGED taskvars

noTick(c) == /\ c # 1 /\ At(c, "trap") /\ GoTo(c, "preempt")
             /\ UNCHANGED << lockvars, taskvars >>

\* yield(), when a process was interrupted.
yields(c) ==
  \/ cur[c] \in Tasks /\ Push(c, "preempt", "ptable", "yacquire") /\ UNCHANGED taskvars
  \/ /\ Spin(c, "yacquire", "ptable", "yield")
     /\ run' = [run EXCEPT ![cur[c]] = "runnable"]
     /\ UNCHANGED << cur, kept, scan, late >>
  \/ At(c, "yield") /\ sched(c, "chosen") /\ UNCHANGED << run, scan, late >>
  \/ Resume(c, "chosen", "iret") /\ UNCHANGED taskvars
noYield(c) == /\ cur[c] \notin Tasks /\ At(c, "preempt") /\ GoTo(c, "iret")
              /\ UNCHANGED << lockvars, taskvars >>

\* The flags are as they were when the interrupt came.
iret(c) == /\ At(c, "iret") /\ eflags' = [eflags EXCEPT ![c] = TRUE]
           /\ stack' = [stack EXCEPT ![cur[c]] = Tail(@)]
           /\ UNCHANGED << owner, ncli, intena, spPanic, taskvars >>

SpNext == /\ ~ spPanic
          /\ \E c \in Cpus :
               \/ forkret(c) \/ sti(c) \/ schedAcquire(c) \/ pick(c) \/ endOfTable(c)
               \/ syscall(c) \/ trapret(c) \/ sysSleep(c) \/ giveUp(c)
               \/ goToSleep(c) \/ wakesUp(c)
               \/ interrupt(c) \/ tick(c) \/ noTick(c) \/ yields(c) \/ noYield(c)
               \/ iret(c)

-----------------------------------------------------------------------------
(* Properties.                                                              *)

Spinning == {"sacquire", "acquire", "pacquire", "reacquire", "tacquire",
             "wacquire", "yacquire"}
Held(c) == {lk \in Locks : owner[lk] = c}

\* A CPU is deaf to interrupts exactly as long as it holds or wants a lock or
\* serves an interrupt, also when a process that went to sleep on one CPU
\* goes on on another; ncli counts the locks.
InterruptsRight ==
  \A c \in Cpus :
    LET f == cur[c]
    IN /\ eflags[c] => ncli[c] = 0 /\ Len(stack[f]) = 1
       /\ ncli[c] = Cardinality(Held(c)) + (IF Top(f) \in Spinning THEN 1 ELSE 0)
       /\ Top(f) \in {"user", "kernel", "idle", "again"} => eflags[c]

\* Nobody spins for a lock whose holder could be waiting for it: ptable.lock
\* is the last one taken, and a flow that holds a lock is on its CPU.
NoDeadlock ==
  \A c \in Cpus :
    /\ owner["ptable"] = c => Top(cur[c]) \notin Spinning
    /\ owner["tickslock"] = c => Top(cur[c]) \in {"test", "pacquire", "both",
         "wakeup", "wacquire", "wakeup1", "ticked"}

\* A process runs on one CPU at most, and only while it is RUNNING or on its
\* way into sched(); no assertion of these functions fails.
OneCpu == /\ \A c, d \in Cpus : cur[c] = cur[d] => c = d
          /\ \A p \in Tasks : run[p] = "running" => \E c \in Cpus : cur[c] = p

\* No process sleeps over a tick it has not seen, except until the interrupt
\* that counted it gets to its wakeup.
NoLostTick ==
  \A p \in Tasks : run[p] = "sleeping" /\ late[p] =>
    \E c \in Cpus : Top(cur[c]) \in {"wakeup", "wacquire", "wakeup1"}

\* The locks do what acquire(), release(), sleep() and sched() need of them:
\* the four together, and no panic.
SpinSound == InterruptsRight /\ NoDeadlock /\ OneCpu /\ NoLostTick /\ ~ spPanic
=============================================================================
