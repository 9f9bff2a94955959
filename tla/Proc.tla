-------------------------------- MODULE Proc --------------------------------
(***************************************************************************)
(* The process table of the P4 xv6 kernel (kernel/proc.c): processes made  *)
(* by fork(), threads made by clone() that share a page directory, their   *)
(* exit, and their parents' wait() and join().                             *)
(*                                                                         *)
(* A step is a stretch of kernel code run under ptable.lock, or on data no *)
(* other process looks at; between two steps of a process other CPUs run,  *)
(* and the process may be preempted.  Memory is a set of mapped pages per  *)
(* page directory.  panic() and the hardware's fault in the kernel stop    *)
(* the machine.                                                            *)
(***************************************************************************)
EXTENDS Integers, FiniteSets

CONSTANTS NPROC,     \* slots of the process table
          NCPU,      \* processors
          MaxDirs,   \* page directories memory has room for
          MaxPages,  \* USERTOP, in pages
          MaxPid,    \* bound on nextpid
          Calls      \* what programs, and the allocator, do in this instance

ASSUME SizesAssumption == /\ NPROC \in Nat \ {0} /\ NCPU \in Nat \ {0}
                          /\ MaxDirs \in Nat \ {0} /\ MaxPages \in Nat \ {0}
                          /\ MaxPid \in Nat \ {0}

\* The behaviours Calls selects from.  "fork", "clone" and "sbrk" are calls by
\* a process that is not itself a thread, "exit" is one by a process that has
\* joined its threads, "exec" one by a process whose memory no other uses, and
\* "kill" names a process that exists; the second group are the other cases.
AllCalls == {"fork", "wait", "clone", "join", "exit", "kill", "sbrk", "exec",
             "sleep", "condsleep"}
            \union
            {"threadFork", "nestedClone", "threadSbrk", "abandon",
             "threadExec", "killUnused", "nomem"}
ASSUME CallsAssumption == Calls \subseteq AllCalls

Slots == 1 .. NPROC
initproc == 1
PgDirs == 1 .. MaxDirs
Pages == 0 .. MaxPages - 1
None == 0             \* a null pointer
Ticks == -1           \* the channel &ticks
Cond == -2            \* a condition's channel (chanId)

VARIABLES state, pid, parent, pgdir, sz, killed, chan, \* struct proc
          kpc,       \* where in the kernel the process is, or "user"
          np,        \* fork() and clone(): the slot being filled
          nextpid,
          dirs,      \* allocated page directories
          vm,        \* pages mapped in each directory
          panic,     \* the machine has stopped
          cloned,    \* history: slots filled by clone()
          asked,     \* history: arguments kill() was called with
  had        \* history: pids the slot has had since it was last reaped

table == <<state, pid, parent, pgdir, sz, killed, chan>>
memory == <<dirs, vm>>
history == <<cloned, asked, had>>
vars == <<table, kpc, np, nextpid, memory, panic, history>>

Set(f, p, v) == f' = [f EXCEPT ![p] = v]

Lowest(S) == CHOOSE s \in S : \A r \in S : s =< r

\* userinit(), after which the first process runs user/init.c.
Init == /\ state = [p \in Slots |->
                       IF p = initproc THEN "RUNNABLE" ELSE "UNUSED"]
        /\ pid = [p \in Slots |-> IF p = initproc THEN 1 ELSE 0]
        /\ parent = [p \in Slots |-> None]
        /\ pgdir = [p \in Slots |-> IF p = initproc THEN 1 ELSE None]
        /\ sz = [p \in Slots |-> IF p = initproc THEN 1 ELSE 0]
        /\ killed = [p \in Slots |-> FALSE]
        /\ chan = [p \in Slots |-> None]
        /\ kpc = [p \in Slots |-> "user"]
        /\ np = [p \in Slots |-> None]
        /\ nextpid = 2
        /\ dirs = {1}
        /\ vm = [d \in PgDirs |-> IF d = 1 THEN {0} ELSE {}]
        /\ panic = FALSE
        /\ cloned = {} /\ asked = {} /\ had = [p \in Slots |-> {pid[p]}]

-----------------------------------------------------------------------------
Running(p) == ~panic /\ state[p] = "RUNNING"

\* p enters the kernel with a system call: trap() has found it not killed.
Enters(p, call) == /\ Running(p) /\ kpc[p] = "user" /\ ~killed[p]
                   /\ call \in Calls

\* init.c only forks and waits.
IsThread(p) == parent[p] # None /\ pgdir[parent[p]] = pgdir[p]
Alive(p) == state[p] # "UNUSED"
Alone(p) == \A q \in Slots \ {p} : Alive(q) => pgdir[q] # pgdir[p]

FreeDirs == PgDirs \ dirs
Unused == {p \in Slots : state[p] = "UNUSED"}

\* wakeup1(): the new states when everybody asleep on channel c is woken.
Woken(st, c) == [q \in Slots |-> IF st[q] = "SLEEPING" /\ chan[q] = c
                                 THEN "RUNNABLE" ELSE st[q]]

\* copyuvm() of n pages of directory d finds all of them present.
Complete(d, n) == 0 .. n - 1 \subseteq vm[d]

Panic == /\ panic' = TRUE
         /\ UNCHANGED <<table, kpc, np, nextpid, memory, history>>

-----------------------------------------------------------------------------
(* scheduler() and yield().                                                 *)

Scheduler(p) == /\ ~panic
                /\ state[p] = "RUNNABLE"
                /\ Cardinality({q \in Slots : state[q] = "RUNNING"}) < NCPU
                /\ Set(state, p, "RUNNING")
                /\ UNCHANGED <<pid, parent, pgdir, sz, killed, chan, kpc, np,
                               nextpid, memory, panic, history>>

\* A process fresh from sleep() holds ptable.lock until it has cleared its
\* channel, and cannot be preempted before.
Yield(p) == /\ Running(p) /\ chan[p] = None
            /\ Set(state, p, "RUNNABLE")
            /\ UNCHANGED <<pid, parent, pgdir, sz, killed, chan, kpc, np,
                           nextpid, memory, panic, history>>

-----------------------------------------------------------------------------
(* fork() and clone().                                                      *)

NextPid == nextpid + 1

\* allocproc() up to the release of ptable.lock.
AllocProc(p, call) ==
  /\ \/ /\ call = "fork"
        /\ Enters(p, IF IsThread(p) THEN "threadFork" ELSE "fork")
     \/ /\ call = "clone" /\ p # initproc
        /\ Enters(p, IF IsThread(p) THEN "nestedClone" ELSE "clone")
  /\ Unused # {}
  /\ nextpid =< MaxPid
  /\ LET s == Lowest(Unused)
     IN  /\ Set(state, s, "EMBRYO")
         /\ Set(pid, s, nextpid)
         /\ Set(had, s, had[s] \union {nextpid})
         /\ Set(np, p, s)
  /\ nextpid' = NextPid
  /\ Set(kpc, p, call)
  /\ UNCHANGED <<parent, pgdir, sz, killed, chan, memory, panic, cloned, asked>>

\* No memory for the kernel stack, or for fork()'s copy of the address space:
\* the slot is given back, its pid is not erased.
AllocFails(p) == /\ Running(p)
                 /\ \/ /\ kpc[p] \in {"fork", "clone"} /\ "nomem" \in Calls
                       /\ UNCHANGED pgdir
                    \/ /\ kpc[p] = "fork"
                       /\ FreeDirs = {} \/ "nomem" \in Calls
                       /\ Set(pgdir, np[p], None)
                 /\ Set(state, np[p], "UNUSED")
                 /\ Set(kpc, p, "user")
                 /\ UNCHANGED <<pid, parent, sz, killed, chan, np, nextpid,
                                memory, panic, history>>

\* The rest of fork().  copyuvm() panics on a page that is not mapped.
Fork(p) == /\ Running(p) /\ kpc[p] = "fork" /\ FreeDirs # {}
           /\ Complete(pgdir[p], sz[p])
           /\ dirs' = dirs \union {Lowest(FreeDirs)}
           /\ Set(vm, Lowest(FreeDirs), 0 .. sz[p] - 1)
           /\ Set(pgdir, np[p], Lowest(FreeDirs))
           /\ Set(sz, np[p], sz[p])
           /\ Set(parent, np[p], p)
           /\ Set(state, np[p], "RUNNABLE")
           /\ Set(kpc, p, "user")
           /\ cloned' = cloned \ {np[p]}
           /\ UNCHANGED <<pid, killed, chan, np, nextpid, panic, asked, had>>

ForkPanics(p) == /\ Running(p) /\ kpc[p] = "fork" /\ FreeDirs # {}
                 /\ ~Complete(pgdir[p], sz[p])
                 /\ Panic

\* The rest of clone() with a stack at page k below sz: copyout() to a page
\* that is no longer mapped fails, and leaves the slot an EMBRYO for ever.
Clone(p) == /\ Running(p) /\ kpc[p] = "clone"
            /\ \E k \in 0 .. sz[p] - 1 :
                 Set(state, np[p],
                     IF k \in vm[pgdir[p]] THEN "RUNNABLE" ELSE "EMBRYO")
            /\ Set(pgdir, np[p], pgdir[p])
            /\ Set(sz, np[p], sz[p])
            /\ Set(parent, np[p], p)
            /\ Set(kpc, p, "user")
            /\ cloned' = cloned \union {np[p]}
            /\ UNCHANGED <<pid, killed, chan, np, nextpid, memory, panic,
                           asked, had>>

-----------------------------------------------------------------------------
(* join() and wait().                                                       *)

\* Mutant of Kids: wait() takes threads too.
KidsAny(p, call) ==
  {q \in Slots : parent[q] = p /\ (call = "join" => pgdir[q] = pgdir[p])}

\* The children the two calls look for.
Kids(p, call) ==
  {q \in Slots : /\ parent[q] = p
                 /\ IF call = "join" THEN pgdir[q] = pgdir[p]
                                     ELSE pgdir[q] # pgdir[p]}
Zombies(p, call) == {q \in Kids(p, call) : state[q] = "ZOMBIE"}

\* p scans the table, on entering the call or after sleeping in it.
Scans(p, call) == Enters(p, call) \/ (Running(p) /\ kpc[p] = call)

\* Mutant of Frees: join() frees the memory too.
FreesAlways(z, call) == {pgdir[z]}

\* wait() frees the zombie's memory, join() does not.
Frees(z, call) == IF call = "wait" THEN {pgdir[z]} ELSE {}

\* Mutant of Clears: killed is left set.
ClearsNotKilled(z) == /\ Set(state, z, "UNUSED") /\ Set(pid, z, 0)
                      /\ Set(parent, z, None) /\ UNCHANGED killed
                      /\ Set(had, z, {0})

Clears(z) == /\ Set(state, z, "UNUSED")
             /\ Set(pid, z, 0)
             /\ Set(parent, z, None)
             /\ Set(killed, z, FALSE)
             /\ Set(had, z, {0})

\* A zombie is found.
Reap(p, call) ==
  /\ Scans(p, call)
  /\ Zombies(p, call) # {}
  /\ LET z == Lowest(Zombies(p, call))
     IN  /\ Clears(z)
         /\ dirs' = dirs \ Frees(z, call)
         /\ vm' = [d \in PgDirs |-> IF d \in Frees(z, call) THEN {} ELSE vm[d]]
         /\ panic' = (None \in Frees(z, call))        \* freevm: no pgdir
  /\ Set(chan, p, None)
  /\ Set(kpc, p, "user")
  /\ UNCHANGED <<pgdir, sz, np, nextpid, cloned, asked>>

\* No children of the kind, or killed: the call returns -1.
GiveUp(p, call) ==
  /\ Running(p) /\ kpc[p] = call
  /\ Zombies(p, call) = {}
  /\ Kids(p, call) = {} \/ killed[p]
  /\ Set(chan, p, None)
  /\ Set(kpc, p, "user")
  /\ UNCHANGED <<state, pid, parent, pgdir, sz, killed, np, nextpid, memory,
                 panic, history>>

MaySleep(p, call) ==
  Zombies(p, call) = {} /\ Kids(p, call) # {} /\ ~killed[p]

Block(p, call) ==
  /\ Scans(p, call)
  /\ MaySleep(p, call)
  /\ Set(state, p, "SLEEPING")
  /\ Set(chan, p, p)
  /\ Set(kpc, p, call)
  /\ UNCHANGED <<pid, parent, pgdir, sz, killed, np, nextpid, memory, panic,
                 history>>

-----------------------------------------------------------------------------
(* exit().                                                                  *)

\* A killed process exits in trap(); others when their program says so.
Exits(p) == /\ Running(p) /\ kpc[p] = "user" /\ p # initproc
            /\ \/ killed[p]
               \/ "exit" \in Calls /\ Kids(p, "join") = {}
               \/ "abandon" \in Calls

\* Mutant of ExitStates: the parent is not woken.
ExitStatesNoWakeup(p) == [state EXCEPT ![p] = "ZOMBIE"]

\* The states after p has woken its parent, passed its children to init,
\* waking it if one is a zombie, and become a zombie itself.
ExitStates(p) ==
  LET st == Woken(state, parent[p])
      st2 == IF \E q \in Slots : parent[q] = p /\ state[q] = "ZOMBIE"
             THEN Woken(st, initproc) ELSE st
  IN  [st2 EXCEPT ![p] = "ZOMBIE"]

Adopted(p) == [q \in Slots |-> IF parent[q] = p THEN initproc ELSE parent[q]]

\* p has no thread left, and leaves its memory to whoever reaps it.
Exit(p) == /\ Exits(p)
           /\ Kids(p, "join") = {}
           /\ state' = ExitStates(p)
           /\ parent' = Adopted(p)
           /\ UNCHANGED <<pid, pgdir, sz, killed, chan, kpc, np, nextpid,
                          memory, panic, history>>

\* p leaves threads behind: it takes a copy of the address space of the first
\* of them for its reaper to free.  The copy may fail, and p be left without
\* a page directory.
ExitWithThreads(p) ==
  /\ Exits(p)
  /\ Kids(p, "join") # {}
  /\ LET q == Lowest(Kids(p, "join"))
         Leaves == /\ state' = ExitStates(p)
                   /\ parent' = Adopted(p)
                   /\ UNCHANGED <<pid, sz, killed, chan, kpc, np, nextpid,
                                  panic, history>>
     IN  \/ /\ FreeDirs # {} /\ Complete(pgdir[q], sz[q])
            /\ dirs' = dirs \union {Lowest(FreeDirs)}
            /\ Set(vm, Lowest(FreeDirs), 0 .. sz[q] - 1)
            /\ Set(pgdir, p, Lowest(FreeDirs))
            /\ Leaves
         \/ /\ FreeDirs # {} /\ ~Complete(pgdir[q], sz[q])
            /\ Panic
         \/ /\ FreeDirs = {} \/ "nomem" \in Calls
            /\ Set(pgdir, p, None)
            /\ UNCHANGED memory
            /\ Leaves

-----------------------------------------------------------------------------
(* growproc() and exec().                                                   *)

\* growproc() without its lock: one page is mapped above sz, or the last page
\* is unmapped, and proc->sz set.  mappages() panics on a page already there.
\* Programs do not unmap their page 0.
MayGrow(p) == /\ p # initproc
              /\ Enters(p, IF IsThread(p) THEN "threadSbrk" ELSE "sbrk")

\* allocuvm(): newsz > USERTOP fails.
Fits(n) == n =< MaxPages

GrowProc(p) ==
  /\ MayGrow(p) /\ Fits(sz[p] + 1)
  /\ IF sz[p] \in vm[pgdir[p]]
     THEN Panic
     ELSE /\ Set(vm, pgdir[p], vm[pgdir[p]] \union {sz[p]})
          /\ Set(sz, p, sz[p] + 1)
          /\ Set(kpc, p, "grow")
          /\ UNCHANGED <<state, pid, parent, pgdir, killed, chan, np, nextpid,
                         dirs, panic, history>>

\* deallocuvm() of page k.
Unmapped(d, k) == vm[d] \ {k}

ShrinkProc(p) ==
  /\ MayGrow(p) /\ sz[p] > 1
  /\ Set(vm, pgdir[p], Unmapped(pgdir[p], sz[p] - 1))
  /\ Set(sz, p, sz[p] - 1)
  /\ Set(kpc, p, "grow")
  /\ UNCHANGED <<state, pid, parent, pgdir, killed, chan, np, nextpid, dirs,
                 panic, history>>

\* Mutant of Told: no thread is.
ToldNothing(p) == sz

\* The loop of growproc() under ptable.lock: p's own threads get its size.
Told(p) == [q \in Slots |-> IF parent[q] = p /\ pgdir[q] = pgdir[p]
                            THEN sz[p] ELSE sz[q]]

Propagate(p) ==
  /\ Running(p) /\ kpc[p] = "grow"
  /\ sz' = Told(p)
  /\ Set(kpc, p, "user")
  /\ UNCHANGED <<state, pid, parent, pgdir, killed, chan, np, nextpid, memory,
                 panic, history>>

\* exec() commits to a new image of one page and frees the old one.
Exec(p) ==
  /\ p # initproc
  /\ Enters(p, IF Alone(p) THEN "exec" ELSE "threadExec")
  /\ FreeDirs # {}
  /\ LET d == Lowest(FreeDirs)
     IN  /\ dirs' = (dirs \union {d}) \ {pgdir[p]}
         /\ vm' = [vm EXCEPT ![d] = {0}, ![pgdir[p]] = {}]
         /\ Set(pgdir, p, d)
  /\ Set(sz, p, 1)
  /\ UNCHANGED <<state, pid, parent, killed, chan, kpc, np, nextpid, panic,
                 history>>

-----------------------------------------------------------------------------
(* kill(), sys_sleep() and sys_condsleep().                                 *)

\* Mutant of Killed: a sleeper is left asleep.
KilledAsleep(q) == state[q]

\* Wake process from sleep if necessary.
Killed(q) == IF state[q] = "SLEEPING" THEN "RUNNABLE" ELSE state[q]

\* kill(k): the first slot with that pid, whatever its state.  Programs do not
\* kill init.
Kill(p, k) ==
  /\ \/ Enters(p, "kill") /\ \E q \in Slots : pid[q] = k /\ Alive(q)
     \/ Enters(p, "killUnused") /\ \E q \in Slots : pid[q] = k /\ ~Alive(q)
  /\ p # initproc /\ k # 1
  /\ LET q == Lowest({s \in Slots : pid[s] = k})
     IN  Set(killed, q, TRUE) /\ Set(state, q, Killed(q))
  /\ asked' = asked \union {k}
  /\ UNCHANGED <<pid, parent, pgdir, sz, chan, kpc, np, nextpid, memory,
                 panic, cloned, had>>

\* sys_sleep() tests proc->killed and decides to sleep until the next tick;
\* sys_condsleep() has only trap()'s test.  Either test is made outside
\* ptable.lock, and kill() may come between it and the sleep.
SysSleep(p) ==
  /\ p # initproc
  /\ \/ Enters(p, "sleep") /\ Set(kpc, p, "sleep")
     \/ Enters(p, "condsleep") /\ Set(kpc, p, "condsleep")
     \/ /\ Running(p) /\ kpc[p] = "slept" /\ ~killed[p]
        /\ Set(kpc, p, "sleep")
  /\ Set(chan, p, None)
  /\ UNCHANGED <<state, pid, parent, pgdir, sz, killed, np, nextpid, memory,
                 panic, history>>

Sleep(p) ==
  /\ Running(p)
  /\ \/ kpc[p] = "sleep" /\ Set(chan, p, Ticks) /\ Set(kpc, p, "slept")
     \/ /\ kpc[p] = "condsleep" /\ Set(chan, p, Cond)
        /\ Set(kpc, p, "condslept")
  /\ Set(state, p, "SLEEPING")
  /\ UNCHANGED <<pid, parent, pgdir, sz, killed, np, nextpid, memory, panic,
                 history>>

SleepReturns(p) ==
  /\ Running(p) /\ kpc[p] \in {"slept", "condslept"}
  /\ Set(chan, p, None)
  /\ Set(kpc, p, "user")
  /\ UNCHANGED <<state, pid, parent, pgdir, sz, killed, np, nextpid, memory,
                 panic, history>>

\* The timer interrupt's wakeup(&ticks).
Tick == /\ ~panic
        /\ state' = Woken(state, Ticks)
        /\ UNCHANGED <<pid, parent, pgdir, sz, killed, chan, kpc, np, nextpid,
                       memory, panic, history>>

CondWakeup(p) ==
  /\ Enters(p, "condsleep") /\ p # initproc
  /\ state' = Woken(state, Cond)
  /\ UNCHANGED <<pid, parent, pgdir, sz, killed, chan, kpc, np, nextpid,
                 memory, panic, history>>

-----------------------------------------------------------------------------
\* What p does in the kernel on its own, and when it is killed.
Kernel(p) == \/ AllocFails(p) \/ Fork(p) \/ ForkPanics(p) \/ Clone(p)
             \/ \E call \in {"wait", "join"} :
                   /\ kpc[p] = call
                   /\ Reap(p, call) \/ GiveUp(p, call) \/ Block(p, call)
             \/ Propagate(p) \/ Sleep(p) \/ SleepReturns(p)
             \/ killed[p] /\ (Exit(p) \/ ExitWithThreads(p))

\* What the program of p chooses to do.
Program(p) == \/ \E call \in {"fork", "clone"} : AllocProc(p, call)
              \/ \E call \in {"wait", "join"} : Reap(p, call) \/ Block(p, call)
              \/ Exit(p) \/ ExitWithThreads(p)
              \/ GrowProc(p) \/ ShrinkProc(p) \/ Exec(p)
              \/ \E k \in 0 .. MaxPid : Kill(p, k)
              \/ SysSleep(p) \/ CondWakeup(p)

Next == \/ \E p \in Slots : Scheduler(p) \/ Yield(p) \/ Kernel(p) \/ Program(p)
        \/ Tick

Spec == Init /\ [][Next]_vars

\* The scheduler's scan comes back to every slot, so no runnable process is
\* passed over for ever; the timer ticks and preempts whoever runs, and a time
\* slice is long enough for a step in the kernel.
Fairness == /\ \A p \in Slots : /\ SF_vars(Scheduler(p)) /\ SF_vars(Kernel(p))
                                /\ WF_vars(Yield(p))
            /\ WF_vars(Tick)

FairSpec == Spec /\ Fairness

-----------------------------------------------------------------------------
States == {"UNUSED", "EMBRYO", "SLEEPING", "RUNNABLE", "RUNNING", "ZOMBIE"}

\* The types of the table's fields; sizes stay below USERTOP.
TypeOK == /\ state \in [Slots -> States]
          /\ pid \in [Slots -> 0 .. MaxPid]
          /\ parent \in [Slots -> Slots \union {None}]
          /\ pgdir \in [Slots -> PgDirs \union {None}]
          /\ sz \in [Slots -> 0 .. MaxPages]
          /\ killed \in [Slots -> BOOLEAN]
          /\ chan \in [Slots -> Slots \union {None, Ticks, Cond}]
          /\ kpc \in [Slots -> {"user", "fork", "clone", "wait", "join",
                                "grow", "sleep", "slept", "condsleep",
                                "condslept"}]
          /\ np \in [Slots -> Slots \union {None}]
          /\ nextpid \in 2 .. MaxPid + 1
          /\ dirs \subseteq PgDirs
          /\ vm \in [PgDirs -> SUBSET Pages]
          /\ panic \in BOOLEAN
          /\ cloned \subseteq Slots
          /\ asked \subseteq 0 .. MaxPid
          /\ had \in [Slots -> SUBSET (0 .. MaxPid)]

SetUp(p) == state[p] \notin {"UNUSED", "EMBRYO"}

Filling == {p \in Slots : kpc[p] \in {"fork", "clone"}}

\* A slot in use has a pid no other has, and two calls of fork() or clone() on
\* two processors never fill the same slot.
SlotsDistinct ==
  /\ \A p, q \in Slots : Alive(p) /\ Alive(q) /\ p # q => pid[p] # pid[q]
  /\ \A p, q \in Filling : np[p] = np[q] => p = q
  /\ \A p \in Filling : np[p] \in Slots /\ state[np[p]] = "EMBRYO"

\* Every process but init has a parent that has not exited and can reap it.
ParentAlive ==
  \A p \in Slots \ {initproc} : SetUp(p) =>
     /\ parent[p] \notin {None, p}
     /\ state[parent[p]] \in {"SLEEPING", "RUNNABLE", "RUNNING"}

\* No exit and no kill is missed: a process sleeps in wait() or join() only
\* while it is not killed and has no zombie to collect there.
NoMissedExit ==
  \A p \in Slots : state[p] = "SLEEPING" /\ kpc[p] \in {"wait", "join"} =>
     ~killed[p] /\ Zombies(p, kpc[p]) = {}

\* The table is sound: the three above, whatever programs call.
TableSound == SlotsDistinct /\ ParentAlive /\ NoMissedExit

\* No process, not even one waiting to be reaped, has a page directory that was
\* freed: no address space is freed under a running thread, or twice.
NoDangling == \A p \in Slots : SetUp(p) => pgdir[p] \in dirs

\* Every page directory belongs to a process: exit, wait, join and exec free
\* all of them in the end.
NoDirLeak == \A d \in dirs : \E p \in Slots : SetUp(p) /\ pgdir[p] = d

\* proc->sz is the size of the memory that is mapped, for a process and for
\* each of its threads, except while growproc() is telling them.
SizeAgrees ==
  \A p \in Slots : SetUp(p) =>
     \/ vm[pgdir[p]] = 0 .. sz[p] - 1
     \/ IsThread(p) /\ kpc[parent[p]] = "grow"

\* Neither mappages(), copyuvm() nor freevm() meets what it panics on.
NoPanic == ~panic

\* An address space is freed once and after its last user, sizes and mappings
\* agree, and so nothing the kernel panics on is met.
MemorySound == NoDangling /\ NoDirLeak /\ SizeAgrees /\ NoPanic

\* kill() ("Kill the process with the given pid") marks a slot and nothing takes
\* the mark back before the slot is reaped: a process is killed only if a pid
\* its slot has had since then was named.  That is its own pid, 0 while the
\* slot was unused, or that of a fork() or clone() that failed there.
KilledByOwnPid ==
  \A p \in Slots : Alive(p) /\ killed[p] => had[p] \cap asked # {}

\* "join, not wait, should handle threads", and "join should not handle child
\* processes (forked)": outside init each call reaps its own kind of child.
ReapsItsOwn ==
  [][\A p \in Slots \ {initproc}, call \in {"wait", "join"} :
        Reap(p, call) =>
           (Lowest(Zombies(p, call)) \in cloned <=> call = "join")]_vars

\* A killed process exits: kill() wakes it if it sleeps, and it cannot go to
\* sleep again.
KilledExits ==
  \A p \in Slots : killed[p] /\ SetUp(p) ~> state[p] \in {"ZOMBIE", "UNUSED"}
=============================================================================
