---------------------------- MODULE KernelProofs ----------------------------
(***************************************************************************)
(* Parts that run alone.  Of the xv6 kernels: spin locks, interrupts and   *)
(* context switches; the address space of P3; input from the console; the  *)
(* blocks of files; the lottery scheduler of P2; the checksummed files of  *)
(* P5.  And the shell of P2.                                               *)
(***************************************************************************)
EXTENDS Spinlock, AddressSpace, Console, Blocks, Lottery, Shell,
        Checked, FiniteSetTheorems, SequenceTheorems, WellFoundedInduction, TLAPS

-----------------------------------------------------------------------------
(* Spinlock: the inductive invariant.                                       *)

\* Labels that a process and a scheduler may be at, outside an interrupt and
\* in one, and those at which an interrupt may have come.
TaskLabels == {"forkret", "trapret", "user", "kernel", "acquire", "test", "pacquire",
               "both", "asleep", "woken", "again", "reacquire"}
TrapLabels == {"trap", "tacquire", "wakeup", "wacquire", "wakeup1", "ticked", "preempt",
               "iret"}
YieldLabels == {"yacquire", "yield", "chosen"}
Outer(f) == IF f \in Tasks THEN TaskLabels ELSE {"sti", "idle", "sacquire", "loop"}
Inner(f) == IF f \in Tasks THEN TrapLabels \cup YieldLabels ELSE TrapLabels
Open(f) == IF f \in Tasks THEN {"user", "kernel", "again", "trapret"} ELSE {"sti", "idle"}

\* A stack has one label, or two in an interrupt.
FlowRight(f) ==
  \/ \E a \in Outer(f) : stack[f] = << a >>
  \/ \E a \in Inner(f), b \in Open(f) : stack[f] = << a, b >>

\* Where the running flow is says which locks its CPU has, whether it hears
\* interrupts, and what popcli will do.
HasTicks == {"test", "pacquire", "both", "wakeup", "wacquire", "wakeup1", "ticked"}
HasTable == {"both", "asleep", "wakeup1", "yield", "loop", "forkret", "woken", "chosen"}
Hears == {"user", "kernel", "again", "idle"}
WillHear == {"acquire", "test", "pacquire", "both", "asleep", "reacquire"}
WillNotHear == {"tacquire", "wakeup", "wacquire", "wakeup1", "ticked", "yacquire", "yield"}
CpuRight(c) ==
  LET l == Top(cur[c])
  IN /\ cur[c] \in Tasks \cup {-c}
     /\ owner["tickslock"] = c <=> l \in HasTicks
     /\ owner["ptable"] = c <=> l \in HasTable
     /\ ncli[c] = One(l \in HasTicks) + One(l \in HasTable) + One(l \in Spinning)
     /\ eflags[c] => l \in Hears \cup {"trapret", "sti"}
     /\ l \in Hears => eflags[c]
     /\ l \in WillHear => intena[c]
     /\ l \in WillNotHear => ~ intena[c]
     /\ cur[c] \in Tasks => stack[-c] = << "loop" >>

\* A process that no CPU runs waits in swtch for the scheduler; sched() has
\* kept the right intena for it; it is in a state that fits.
Wakers == {"wakeup", "wacquire", "wakeup1"}
TaskRight(p) ==
  /\ (\A c \in Cpus : cur[c] # p) => Top(p) \in {"forkret", "woken", "chosen"}
  /\ Top(p) = "woken" => kept[p]
  /\ Top(p) = "chosen" => ~ kept[p]
  /\ run[p] = "running" => \E c \in Cpus : cur[c] = p
  /\ \A c \in Cpus : cur[c] = p =>
       run[p] = IF Top(p) = "yield" THEN "runnable" ELSE "running"
  /\ Top(p) \in {"pacquire", "both"} => ~ late[p]
  /\ late[p] /\ (run[p] = "sleeping" \/ Top(p) = "asleep") =>
       \E c \in Cpus : Top(cur[c]) \in Wakers

LockTypes ==
  /\ owner \in [Locks -> Cpus \cup {0}]
  /\ eflags \in [Cpus -> BOOLEAN] /\ intena \in [Cpus -> BOOLEAN]
  /\ ncli \in [Cpus -> Int] /\ cur \in [Cpus -> Flows]
  /\ DOMAIN stack = Flows
TaskTypes ==
  /\ run \in [Tasks -> {"runnable", "running", "sleeping"}]
  /\ kept \in [Tasks -> BOOLEAN] /\ late \in [Tasks -> BOOLEAN]

LockInv ==
  /\ LockTypes /\ ~ spPanic
  /\ \A f \in Flows : FlowRight(f)
  /\ \A c, d \in Cpus : cur[c] = cur[d] => c = d
  /\ \A c \in Cpus : CpuRight(c)
TaskInv == TaskTypes /\ \A p \in Tasks : TaskRight(p)
SpInv == LockInv /\ TaskInv

-----------------------------------------------------------------------------
(* Spinlock: what a step does to stacks.                                    *)

\* CPUs, processes and schedulers have different numbers, and 0 is none.
LEMMA Numbers ==
  /\ 0 \notin Cpus /\ 0 \notin Flows
  /\ \A c \in Cpus : -c \in Flows /\ -c \notin Tasks
  /\ \A c, d \in Cpus : -c = -d => c = d
  /\ Tasks \subseteq Flows
  BY SpinAssumption DEF Cpus, Flows

\* One label on another.
LEMMA TwoLabels ==
  ASSUME NEW a, NEW b
  PROVE  << a >> \o << b >> = << a, b >>
  <1> DEFINE S == {a, b}  s == << a >> \o << b >>  t == << a, b >>
  <1>1. << a >> \in Seq(S) /\ << b >> \in Seq(S) /\ t \in Seq(S)
    OBVIOUS
  <1>2. /\ Len(<< a >>) = 1 /\ Len(<< b >>) = 1 /\ Len(t) = 2
        /\ << a >>[1] = a /\ << b >>[1] = b /\ t[1] = a /\ t[2] = b
    OBVIOUS
  <1>3. /\ s \in Seq(S) /\ Len(s) = Len(<< a >>) + Len(<< b >>)
        /\ \A i \in 1 .. Len(<< a >>) + Len(<< b >>) : s[i] =
             IF i <= Len(<< a >>) THEN << a >>[i] ELSE << b >>[i - Len(<< a >>)]
    BY <1>1, ConcatProperties
  <1> HIDE DEF s, t
  <1>4. Len(s) = 2 /\ \A i \in 1 .. 2 : s[i] = IF i <= 1 THEN << a >>[i] ELSE << b >>[i - 1]
    BY <1>2, <1>3
  <1>5. s[1] = a /\ s[2] = b
    BY <1>2, <1>4
  <1>6. \A i \in 1 .. Len(s) : s[i] = t[i]
    <2>1. \A i \in 1 .. 2 : i = 1 \/ i = 2
      OBVIOUS
    <2> QED  BY <2>1, <1>2, <1>4, <1>5
  <1>7. s = t
    BY <1>1, <1>2, <1>3, <1>4, <1>6, SeqEqual
  <1> QED  BY <1>7 DEF s, t

\* Stacks of one and of two labels.
LEMMA Stacks ==
  ASSUME NEW a, NEW b, NEW m
  PROVE  /\ Head(<< a >>) = a /\ Head(<< a, b >>) = a
         /\ << m >> \o Tail(<< a >>) = << m >>
         /\ << m >> \o Tail(<< a, b >>) = << m, b >>
         /\ << m >> \o << a >> = << m, a >>
         /\ Tail(<< a, b >>) = << b >>
  <1>1. Head(<< a >>) = a /\ Head(<< a, b >>) = a
    OBVIOUS
  <1>2. Tail(<< a >>) = << >>
    OBVIOUS
  <1>3. Tail(<< a, b >>) = << b >>
    OBVIOUS
  <1>4. << m >> \o << >> = << m >>
    OBVIOUS
  <1> QED  BY <1>1, <1>2, <1>3, <1>4, TwoLabels

\* A flow that goes on at another label of the same kind.
LEMMA GoesOn ==
  ASSUME DOMAIN stack = Flows, \A g \in Flows : FlowRight(g),
         NEW f \in Flows, NEW m, stack' = Moved(f, m),
         Top(f) \in Outer(f) => m \in Outer(f),
         Top(f) \in Inner(f) => m \in Inner(f)
  PROVE  /\ DOMAIN stack' = Flows /\ \A g \in Flows : FlowRight(g)'
         /\ Top(f)' = m
         /\ \A g \in Flows : g # f => stack'[g] = stack[g] /\ Top(g)' = Top(g)
  <1>1. /\ DOMAIN stack' = Flows /\ stack'[f] = << m >> \o Tail(stack[f])
        /\ \A g \in Flows : g # f => stack'[g] = stack[g]
    BY DEF Moved
  <1>2. \A g \in Flows : g # f => FlowRight(g)' /\ Top(g)' = Top(g)
    BY <1>1 DEF FlowRight, Top, Outer, Inner, Open
  <1>3. FlowRight(f)' /\ Top(f)' = m
    <2>1. CASE \E a \in Outer(f) : stack[f] = << a >>
      <3>1. PICK a \in Outer(f) : stack[f] = << a >>
        BY <2>1
      <3>2. Top(f) = a /\ stack'[f] = << m >>
        BY <1>1, <3>1, Stacks DEF Top
      <3>3. m \in Outer(f)
        BY <3>2
      <3>4. Top(f)' = m
        BY <3>2, Stacks DEF Top
      <3> QED  BY <3>2, <3>3, <3>4 DEF FlowRight, Outer
    <2>2. CASE \E a \in Inner(f), b \in Open(f) : stack[f] = << a, b >>
      <3>1. PICK a \in Inner(f), b \in Open(f) : stack[f] = << a, b >>
        BY <2>2
      <3>2. Top(f) = a /\ stack'[f] = << m, b >>
        BY <1>1, <3>1, Stacks DEF Top
      <3>3. m \in Inner(f)
        BY <3>2
      <3>4. Top(f)' = m
        BY <3>2, Stacks DEF Top
      <3> QED  BY <3>2, <3>3, <3>4 DEF FlowRight, Inner, Open
    <2> QED  BY <2>1, <2>2 DEF FlowRight
  <1> QED  BY <1>1, <1>2, <1>3

\* The labels of a flow are of its kind.
LEMMA TopKind ==
  ASSUME NEW f, FlowRight(f)
  PROVE  /\ Top(f) \in Outer(f) \cup Inner(f)
         /\ Top(f) \in Outer(f) => stack[f] = << Top(f) >>
         /\ Top(f) \in Inner(f) => \E b \in Open(f) : stack[f] = << Top(f), b >>
  <1>1. Outer(f) \cap Inner(f) = {}
    BY DEF Outer, Inner, TaskLabels, TrapLabels, YieldLabels
  <1>2. CASE \E a \in Outer(f) : stack[f] = << a >>
    BY <1>1, <1>2, Stacks DEF Top
  <1>3. CASE \E a \in Inner(f), b \in Open(f) : stack[f] = << a, b >>
    BY <1>1, <1>3, Stacks DEF Top
  <1> QED  BY <1>2, <1>3 DEF FlowRight

\* A step of CPU c that changes its own registers, one lock and the stack of
\* the flow it runs, and nothing of other CPUs.
LEMMA OneCpuSteps ==
  ASSUME LockInv, NEW c \in Cpus, NEW f, f = cur[c], NEW m, UNCHANGED cur,
         DOMAIN stack' = Flows, FlowRight(f)', Top(f)' = m,
         \A g \in Flows : g # f => stack'[g] = stack[g],
         owner' \in [Locks -> Cpus \cup {0}],
         eflags' \in [Cpus -> BOOLEAN], intena' \in [Cpus -> BOOLEAN],
         ncli' \in [Cpus -> Int], ~ spPanic',
         \A d \in Cpus : d # c =>
           /\ eflags'[d] = eflags[d] /\ intena'[d] = intena[d] /\ ncli'[d] = ncli[d]
           /\ \A lk \in Locks : owner'[lk] = d <=> owner[lk] = d,
         owner'["tickslock"] = c <=> m \in HasTicks,
         owner'["ptable"] = c <=> m \in HasTable,
         ncli'[c] = One(m \in HasTicks) + One(m \in HasTable) + One(m \in Spinning),
         eflags'[c] => m \in Hears \cup {"trapret", "sti"},
         m \in Hears => eflags'[c],
         m \in WillHear => intena'[c],
         m \in WillNotHear => ~ intena'[c]
  PROVE  LockInv'
  <1>1. \A g \in Flows : g # f => FlowRight(g)' /\ Top(g)' = Top(g)
    BY DEF FlowRight, Top, Outer, Inner, Open, LockInv
  <1>2. LockTypes'
    BY DEF LockInv, LockTypes
  <1>3. CpuRight(c)'
    <2>1. Top(cur[c])' = m
      BY DEF Top
    <2>2. f \in Tasks \cup {-c} /\ (f \in Tasks => stack[-c] = << "loop" >>)
      BY DEF LockInv, CpuRight
    <2>3. f \in Tasks => stack'[-c] = << "loop" >>
      BY <2>2, Numbers
    <2> QED  BY <2>1, <2>2, <2>3 DEF CpuRight
  <1>4. ASSUME NEW d \in Cpus, d # c PROVE CpuRight(d)'
    <2>0. CpuRight(d) /\ cur[d] \in Flows
      BY DEF LockInv, LockTypes
    <2>1. cur[d] # f /\ -d # f
      <3>1. cur[c] \in Tasks \cup {-c}
        BY DEF LockInv, CpuRight
      <3> QED  BY <3>1, <1>4, Numbers DEF LockInv
    <2>2. Top(cur[d])' = Top(cur[d]) /\ stack'[-d] = stack[-d]
      BY <2>0, <2>1, <1>1, Numbers DEF Top
    <2>3. /\ owner'["tickslock"] = d <=> owner["tickslock"] = d
          /\ owner'["ptable"] = d <=> owner["ptable"] = d
      BY <1>4 DEF Locks
    <2> QED  BY <2>0, <2>2, <2>3, <1>4 DEF CpuRight
  <1> QED  BY <1>1, <1>2, <1>3, <1>4 DEF LockInv

\* The same when the step only changes the label.
LEMMA OneCpuMoves ==
  ASSUME LockInv, NEW c \in Cpus, NEW f, f = cur[c], NEW m,
         stack' = Moved(f, m), UNCHANGED cur,
         Top(f) \in Outer(f) => m \in Outer(f),
         Top(f) \in Inner(f) => m \in Inner(f),
         owner' \in [Locks -> Cpus \cup {0}],
         eflags' \in [Cpus -> BOOLEAN], intena' \in [Cpus -> BOOLEAN],
         ncli' \in [Cpus -> Int], ~ spPanic',
         \A d \in Cpus : d # c =>
           /\ eflags'[d] = eflags[d] /\ intena'[d] = intena[d] /\ ncli'[d] = ncli[d]
           /\ \A lk \in Locks : owner'[lk] = d <=> owner[lk] = d,
         owner'["tickslock"] = c <=> m \in HasTicks,
         owner'["ptable"] = c <=> m \in HasTable,
         ncli'[c] = One(m \in HasTicks) + One(m \in HasTable) + One(m \in Spinning),
         eflags'[c] => m \in Hears \cup {"trapret", "sti"},
         m \in Hears => eflags'[c],
         m \in WillHear => intena'[c],
         m \in WillNotHear => ~ intena'[c]
  PROVE  LockInv'
  <1>0. f \in Flows
    BY DEF LockInv, LockTypes
  <1>1. /\ DOMAIN stack' = Flows /\ \A g \in Flows : FlowRight(g)'
        /\ Top(f)' = m
        /\ \A g \in Flows : g # f => stack'[g] = stack[g] /\ Top(g)' = Top(g)
    BY <1>0, GoesOn DEF LockInv, LockTypes
  <1> QED  BY <1>0, <1>1, OneCpuSteps

-----------------------------------------------------------------------------
(* Spinlock: the steps of spinlock.c.                                       *)

\* Every call of acquire() in the model, up to the loop: label, lock, label.
PushSteps(l, lk, m) ==
  \/ l = "idle" /\ lk = "ptable" /\ m = "sacquire"
  \/ l = "kernel" /\ lk = "tickslock" /\ m = "acquire"
  \/ l = "test" /\ lk = "ptable" /\ m = "pacquire"
  \/ l = "again" /\ lk = "tickslock" /\ m = "reacquire"
  \/ l = "trap" /\ lk = "tickslock" /\ m = "tacquire"
  \/ l = "wakeup" /\ lk = "ptable" /\ m = "wacquire"
  \/ l = "preempt" /\ lk = "ptable" /\ m = "yacquire"

\* The loops of acquire().
SpinSteps(l, lk, m) ==
  \/ l = "sacquire" /\ lk = "ptable" /\ m = "loop"
  \/ l = "acquire" /\ lk = "tickslock" /\ m = "test"
  \/ l = "pacquire" /\ lk = "ptable" /\ m = "both"
  \/ l = "reacquire" /\ lk = "tickslock" /\ m = "test"
  \/ l = "tacquire" /\ lk = "tickslock" /\ m = "wakeup"
  \/ l = "wacquire" /\ lk = "ptable" /\ m = "wakeup1"
  \/ l = "yacquire" /\ lk = "ptable" /\ m = "yield"

\* The calls of release().
ReleaseSteps(l, lk, m) ==
  \/ l = "forkret" /\ lk = "ptable" /\ m = "trapret"
  \/ l = "loop" /\ lk = "ptable" /\ m = "sti"
  \/ l = "test" /\ lk = "tickslock" /\ m = "kernel"
  \/ l = "both" /\ lk = "tickslock" /\ m = "asleep"
  \/ l = "wakeup1" /\ lk = "ptable" /\ m = "ticked"
  \/ l = "ticked" /\ lk = "tickslock" /\ m = "preempt"
  \/ l = "woken" /\ lk = "ptable" /\ m = "again"
  \/ l = "chosen" /\ lk = "ptable" /\ m = "iret"

\* What is known of a CPU whose flow is at a label.
LEMMA AtLabel ==
  ASSUME LockInv, NEW c \in Cpus, NEW l, At(c, l)
  PROVE  /\ cur[c] \in Flows /\ FlowRight(cur[c]) /\ Top(cur[c]) = l
         /\ owner["tickslock"] = c <=> l \in HasTicks
         /\ owner["ptable"] = c <=> l \in HasTable
         /\ ncli[c] = One(l \in HasTicks) + One(l \in HasTable) + One(l \in Spinning)
         /\ eflags[c] => l \in Hears \cup {"trapret", "sti"}
         /\ l \in Hears => eflags[c]
         /\ l \in WillHear => intena[c]
         /\ l \in WillNotHear => ~ intena[c]
  BY DEF LockInv, LockTypes, CpuRight, At

\* A step from l to m stays among the labels of its flow: yield() is called
\* for processes only.
LEMMA SameKind ==
  ASSUME NEW f, NEW l, NEW m, NEW lk, l = "preempt" => f \in Tasks,
         PushSteps(l, lk, m) \/ SpinSteps(l, lk, m) \/ ReleaseSteps(l, lk, m)
  PROVE  (l \in Outer(f) => m \in Outer(f)) /\ (l \in Inner(f) => m \in Inner(f))
  BY DEF PushSteps, SpinSteps, ReleaseSteps, Outer, Inner, TaskLabels, TrapLabels, YieldLabels

LEMMA PushKeeps ==
  ASSUME LockInv, NEW c \in Cpus, NEW l, NEW lk, NEW m, PushSteps(l, lk, m),
         l = "preempt" => cur[c] \in Tasks,
         Push(c, l, lk, m), UNCHANGED cur
  PROVE  LockInv'
  <1>1. PICK f : f = cur[c]
    OBVIOUS
  <1>2. /\ At(c, l) /\ stack' = Moved(f, m)
        /\ eflags' = [eflags EXCEPT ![c] = FALSE]
        /\ ncli' = [ncli EXCEPT ![c] = @ + 1]
        /\ intena' = IF ncli[c] = 0 THEN [intena EXCEPT ![c] = eflags[c]] ELSE intena
        /\ spPanic' = (owner[lk] = c)
        /\ UNCHANGED owner
    BY <1>1 DEF Push, pushcli, GoTo, holding
  <1>3. /\ f \in Flows /\ Top(f) = l
        /\ owner["tickslock"] = c <=> l \in HasTicks
        /\ owner["ptable"] = c <=> l \in HasTable
        /\ ncli[c] = One(l \in HasTicks) + One(l \in HasTable) + One(l \in Spinning)
        /\ eflags[c] => l \in Hears \cup {"trapret", "sti"}
        /\ l \in Hears => eflags[c]
        /\ l \in WillHear => intena[c]
        /\ l \in WillNotHear => ~ intena[c]
    BY <1>1, <1>2, AtLabel
  <1>4. /\ owner \in [Locks -> Cpus \cup {0}]
        /\ eflags \in [Cpus -> BOOLEAN] /\ intena \in [Cpus -> BOOLEAN]
        /\ ncli \in [Cpus -> Int]
    BY DEF LockInv, LockTypes
  <1>5. /\ eflags' \in [Cpus -> BOOLEAN] /\ intena' \in [Cpus -> BOOLEAN]
        /\ ncli' \in [Cpus -> Int]
        /\ eflags'[c] = FALSE /\ ncli'[c] = ncli[c] + 1
        /\ \A d \in Cpus : d # c =>
             eflags'[d] = eflags[d] /\ intena'[d] = intena[d] /\ ncli'[d] = ncli[d]
    BY <1>2, <1>4
  <1>6. intena'[c] = IF ncli[c] = 0 THEN eflags[c] ELSE intena[c]
    BY <1>2, <1>4
  <1>7. (Top(f) \in Outer(f) => m \in Outer(f)) /\ (Top(f) \in Inner(f) => m \in Inner(f))
    BY <1>1, <1>3, SameKind
  <1>8. /\ m \in HasTicks <=> l \in HasTicks
        /\ m \in HasTable <=> l \in HasTable
        /\ m \in Spinning /\ l \notin Spinning /\ m \notin Hears
    BY DEF PushSteps, HasTicks, HasTable, Spinning, Hears
  <1>9. ncli'[c] = One(m \in HasTicks) + One(m \in HasTable) + One(m \in Spinning)
    BY <1>3, <1>5, <1>8 DEF One
  <1>a. /\ m \in WillHear => intena'[c]
        /\ m \in WillNotHear => ~ intena'[c]
    BY <1>3, <1>6 DEF PushSteps, HasTicks, HasTable, Spinning, Hears, WillHear, WillNotHear, One
  <1>b. owner[lk] # c
    BY <1>3 DEF PushSteps, HasTicks, HasTable
  <1>c. ~ spPanic'
    BY <1>2, <1>b
  <1>d. /\ owner' \in [Locks -> Cpus \cup {0}]
        /\ owner'["tickslock"] = c <=> m \in HasTicks
        /\ owner'["ptable"] = c <=> m \in HasTable
    BY <1>2, <1>3, <1>4, <1>8
  <1>e. \A d \in Cpus : d # c =>
          /\ eflags'[d] = eflags[d] /\ intena'[d] = intena[d] /\ ncli'[d] = ncli[d]
          /\ \A k \in Locks : owner'[k] = d <=> owner[k] = d
    BY <1>2, <1>5
  <1> QED
    BY <1>1, <1>2, <1>5, <1>7, <1>8, <1>9, <1>a, <1>c, <1>d, <1>e, OneCpuMoves, ZenonT(60)

LEMMA SpinKeeps ==
  ASSUME LockInv, NEW c \in Cpus, NEW l, NEW lk, NEW m, SpinSteps(l, lk, m),
         Spin(c, l, lk, m), UNCHANGED cur
  PROVE  LockInv'
  <1>1. PICK f : f = cur[c]
    OBVIOUS
  <1>2. /\ At(c, l) /\ stack' = Moved(f, m) /\ owner[lk] = 0
        /\ owner' = [owner EXCEPT ![lk] = c]
        /\ UNCHANGED << eflags, ncli, intena, spPanic >>
    BY <1>1 DEF Spin, xchg, GoTo
  <1>3. /\ f \in Flows /\ Top(f) = l
        /\ owner["tickslock"] = c <=> l \in HasTicks
        /\ owner["ptable"] = c <=> l \in HasTable
        /\ ncli[c] = One(l \in HasTicks) + One(l \in HasTable) + One(l \in Spinning)
        /\ eflags[c] => l \in Hears \cup {"trapret", "sti"}
        /\ l \in Hears => eflags[c]
        /\ l \in WillHear => intena[c]
        /\ l \in WillNotHear => ~ intena[c]
    BY <1>1, <1>2, AtLabel
  <1>4. /\ owner \in [Locks -> Cpus \cup {0}]
        /\ eflags \in [Cpus -> BOOLEAN] /\ intena \in [Cpus -> BOOLEAN]
        /\ ncli \in [Cpus -> Int] /\ ~ spPanic
    BY DEF LockInv, LockTypes
  <1>5. /\ owner' \in [Locks -> Cpus \cup {0}]
        /\ owner'[lk] = c /\ \A k \in Locks : k # lk => owner'[k] = owner[k]
        /\ \A d \in Cpus : d # c => \A k \in Locks : owner'[k] = d <=> owner[k] = d
    <2>1. lk \in Locks
      BY DEF SpinSteps, Locks
    <2> QED  BY <2>1, <1>2, <1>4, Numbers
  <1>7. (Top(f) \in Outer(f) => m \in Outer(f)) /\ (Top(f) \in Inner(f) => m \in Inner(f))
    <2>1. l # "preempt"
      BY DEF SpinSteps
    <2> QED  BY <2>1, <1>1, <1>3, SameKind
  <1>8. /\ owner'["tickslock"] = c <=> m \in HasTicks
        /\ owner'["ptable"] = c <=> m \in HasTable
    BY <1>3, <1>5 DEF SpinSteps, HasTicks, HasTable, Locks
  <1>9. /\ ncli'[c] = One(m \in HasTicks) + One(m \in HasTable) + One(m \in Spinning)
        /\ ~ eflags'[c] /\ m \notin Hears
        /\ m \in WillHear => intena'[c]
        /\ m \in WillNotHear => ~ intena'[c]
    BY <1>2, <1>3 DEF SpinSteps, HasTicks, HasTable, Spinning, Hears, WillHear,
       WillNotHear, One
  <1> QED  BY <1>1, <1>2, <1>3, <1>4, <1>5, <1>7, <1>8, <1>9, OneCpuMoves

\* ie is what popcli() finds in cpu->intena.
LEMMA ReleaseKeeps ==
  ASSUME LockInv, NEW c \in Cpus, NEW l, NEW lk, NEW m, ReleaseSteps(l, lk, m),
         NEW ie \in BOOLEAN, l \in {"woken", "chosen"} \/ ie = intena[c],
         l = "woken" => ie, l = "chosen" => ~ ie,
         At(c, l), releaseWith(c, lk, ie), GoTo(c, m), UNCHANGED cur
  PROVE  LockInv'
  <1>1. PICK f : f = cur[c]
    OBVIOUS
  <1>2. /\ stack' = Moved(f, m)
        /\ owner' = [owner EXCEPT ![lk] = 0]
        /\ ncli' = [ncli EXCEPT ![c] = @ - 1]
        /\ intena' = [intena EXCEPT ![c] = ie]
        /\ eflags' = [eflags EXCEPT ![c] = @ \/ (ncli[c] = 1 /\ ie)]
        /\ spPanic' = (owner[lk] # c \/ eflags[c] \/ ncli[c] = 0)
    BY <1>1 DEF releaseWith, GoTo, holding
  <1>3. /\ f \in Flows /\ Top(f) = l
        /\ owner["tickslock"] = c <=> l \in HasTicks
        /\ owner["ptable"] = c <=> l \in HasTable
        /\ ncli[c] = One(l \in HasTicks) + One(l \in HasTable) + One(l \in Spinning)
        /\ eflags[c] => l \in Hears \cup {"trapret", "sti"}
        /\ l \in Hears => eflags[c]
        /\ l \in WillHear => intena[c]
        /\ l \in WillNotHear => ~ intena[c]
    BY <1>1, AtLabel
  <1>4. /\ owner \in [Locks -> Cpus \cup {0}]
        /\ eflags \in [Cpus -> BOOLEAN] /\ intena \in [Cpus -> BOOLEAN]
        /\ ncli \in [Cpus -> Int]
    BY DEF LockInv, LockTypes
  <1>5. owner[lk] = c /\ lk \in Locks
    BY <1>3 DEF ReleaseSteps, HasTicks, HasTable, Locks
  <1>6. /\ owner' \in [Locks -> Cpus \cup {0}]
        /\ owner'[lk] = 0 /\ \A k \in Locks : k # lk => owner'[k] = owner[k]
        /\ \A d \in Cpus : d # c => \A k \in Locks : owner'[k] = d <=> owner[k] = d
    BY <1>5, <1>2, <1>4, Numbers
  <1>7. (Top(f) \in Outer(f) => m \in Outer(f)) /\ (Top(f) \in Inner(f) => m \in Inner(f))
    <2>1. l # "preempt"
      BY DEF ReleaseSteps
    <2> QED  BY <2>1, <1>1, <1>3, SameKind
  <1>8. /\ owner'["tickslock"] = c <=> m \in HasTicks
        /\ owner'["ptable"] = c <=> m \in HasTable
    BY <1>3, <1>6, Numbers DEF ReleaseSteps, HasTicks, HasTable, Locks
  <1>e. /\ ~ eflags[c] /\ ncli[c] \in 1 .. 2
    BY <1>3 DEF ReleaseSteps, HasTicks, HasTable, Spinning, Hears, One
  <1>g. /\ eflags' \in [Cpus -> BOOLEAN] /\ intena' \in [Cpus -> BOOLEAN]
        /\ ncli' \in [Cpus -> Int]
        /\ ncli'[c] = ncli[c] - 1 /\ intena'[c] = ie
        /\ \A d \in Cpus : d # c =>
             eflags'[d] = eflags[d] /\ intena'[d] = intena[d] /\ ncli'[d] = ncli[d]
    BY <1>2, <1>4
  <1>h. eflags'[c] <=> ncli[c] = 1 /\ ie
    BY <1>2, <1>4, <1>e
  <1>9. ncli'[c] = One(m \in HasTicks) + One(m \in HasTable) + One(m \in Spinning)
    BY <1>3, <1>g DEF ReleaseSteps, HasTicks, HasTable, Spinning, One
  <1>a. /\ eflags'[c] => m \in Hears \cup {"trapret", "sti"}
        /\ m \in Hears => eflags'[c]
        /\ m \in WillHear => intena'[c]
        /\ m \in WillNotHear => ~ intena'[c]
    BY <1>3, <1>g, <1>h DEF ReleaseSteps, HasTicks, HasTable, Spinning, Hears, WillHear,
       WillNotHear, One
  <1>b. ~ spPanic'
    <2>1. ~ (owner[lk] # c \/ eflags[c] \/ ncli[c] = 0)
      BY <1>5, <1>e
    <2> QED  BY <2>1, <1>2
  <1>i. \A d \in Cpus : d # c =>
          /\ eflags'[d] = eflags[d] /\ intena'[d] = intena[d] /\ ncli'[d] = ncli[d]
          /\ \A k \in Locks : owner'[k] = d <=> owner[k] = d
    BY <1>6, <1>g
  <1> QED  BY <1>1, <1>2, <1>6, <1>7, <1>8, <1>g, <1>i, <1>9, <1>a, <1>b, OneCpuMoves

-----------------------------------------------------------------------------
(* Spinlock: steps that take and give up no lock.                           *)

\* They go from l to m, and may turn interrupts on.
MoveSteps(l, m, on) ==
  \/ l = "sti" /\ m = "idle" /\ on
  \/ l = "user" /\ m = "kernel" /\ ~ on
  \/ l \in {"kernel", "trapret"} /\ m = "user" /\ on
  \/ l = "trap" /\ m = "preempt" /\ ~ on
  \/ l = "preempt" /\ m = "iret" /\ ~ on

LEMMA MoveKeeps ==
  ASSUME LockInv, NEW c \in Cpus, NEW l, NEW m, NEW on, MoveSteps(l, m, on),
         At(c, l), GoTo(c, m), UNCHANGED << cur, owner, ncli, intena, spPanic >>,
         eflags' = IF on THEN [eflags EXCEPT ![c] = TRUE] ELSE eflags
  PROVE  LockInv'
  <1>1. PICK f : f = cur[c]
    OBVIOUS
  <1>2. stack' = Moved(f, m)
    BY <1>1 DEF GoTo
  <1>3. /\ f \in Flows /\ Top(f) = l
        /\ owner["tickslock"] = c <=> l \in HasTicks
        /\ owner["ptable"] = c <=> l \in HasTable
        /\ ncli[c] = One(l \in HasTicks) + One(l \in HasTable) + One(l \in Spinning)
        /\ eflags[c] => l \in Hears \cup {"trapret", "sti"}
        /\ l \in Hears => eflags[c]
    BY <1>1, AtLabel
  <1>4. /\ owner \in [Locks -> Cpus \cup {0}]
        /\ eflags \in [Cpus -> BOOLEAN] /\ intena \in [Cpus -> BOOLEAN]
        /\ ncli \in [Cpus -> Int] /\ ~ spPanic
    BY DEF LockInv, LockTypes
  <1>5. /\ m \notin HasTicks /\ l \notin HasTicks /\ m \notin HasTable /\ l \notin HasTable
        /\ m \notin Spinning /\ l \notin Spinning
        /\ m \notin WillHear /\ m \notin WillNotHear
        /\ m \in Hears <=> on \/ l = "user"
        /\ ~ on => (l \in Hears \cup {"trapret", "sti"} <=> l = "user")
    BY DEF MoveSteps, HasTicks, HasTable, Spinning, Hears, WillHear, WillNotHear
  <1>6. (Top(f) \in Outer(f) => m \in Outer(f)) /\ (Top(f) \in Inner(f) => m \in Inner(f))
    BY <1>3 DEF MoveSteps, Outer, Inner, TaskLabels, TrapLabels, YieldLabels
  <1>7. /\ eflags' \in [Cpus -> BOOLEAN]
        /\ \A d \in Cpus : d # c => eflags'[d] = eflags[d]
        /\ on => eflags'[c]
        /\ ~ on => eflags'[c] = eflags[c]
    BY <1>4
  <1>8. /\ eflags'[c] => m \in Hears
        /\ m \in Hears => eflags'[c]
    BY <1>3, <1>5, <1>7 DEF Hears
  <1>9. /\ owner'["tickslock"] = c <=> m \in HasTicks
        /\ owner'["ptable"] = c <=> m \in HasTable
        /\ ncli'[c] = One(m \in HasTicks) + One(m \in HasTable) + One(m \in Spinning)
    BY <1>3, <1>5
  <1>a. \A d \in Cpus : d # c =>
          /\ eflags'[d] = eflags[d] /\ intena'[d] = intena[d] /\ ncli'[d] = ncli[d]
          /\ \A k \in Locks : owner'[k] = d <=> owner[k] = d
    BY <1>7
  <1> QED  BY <1>1, <1>2, <1>4, <1>5, <1>6, <1>7, <1>8, <1>9, <1>a, OneCpuMoves

LEMMA InterruptKeeps ==
  ASSUME LockInv, NEW c \in Cpus, interrupt(c)
  PROVE  LockInv' /\ Top(cur[c])' = "trap"
         /\ (\A g \in Flows : g # cur[c] => Top(g)' = Top(g))
         /\ Top(cur[c]) \in {"user", "kernel", "again", "trapret", "idle", "sti"}
  <1>1. PICK f : f = cur[c]
    OBVIOUS
  <1>2. PICK l : l = Top(f)
    OBVIOUS
  <1>3. /\ f \in Flows /\ FlowRight(f) /\ Top(f) = l
        /\ owner["tickslock"] = c <=> l \in HasTicks
        /\ owner["ptable"] = c <=> l \in HasTable
        /\ ncli[c] = One(l \in HasTicks) + One(l \in HasTable) + One(l \in Spinning)
        /\ eflags[c] => l \in Hears \cup {"trapret", "sti"}
    BY <1>1, <1>2, AtLabel DEF At
  <1>4. /\ owner \in [Locks -> Cpus \cup {0}]
        /\ eflags \in [Cpus -> BOOLEAN] /\ intena \in [Cpus -> BOOLEAN]
        /\ ncli \in [Cpus -> Int] /\ ~ spPanic /\ DOMAIN stack = Flows
    BY DEF LockInv, LockTypes
  <1>5. l \in {"user", "kernel", "again", "trapret", "idle", "sti"}
    BY <1>3 DEF interrupt, Hears
  <1>6. l \in Open(f) /\ stack[f] = << l >> /\ "trap" \in Inner(f)
    <2>1. l \notin Inner(f)
      BY <1>5 DEF Inner, TrapLabels, YieldLabels
    <2>2. l \in Outer(f) /\ stack[f] = << l >>
      BY <2>1, <1>3, TopKind
    <2> QED  BY <2>2, <1>5 DEF Outer, Open, Inner, TaskLabels, TrapLabels
  <1>7. /\ DOMAIN stack' = Flows /\ stack'[f] = << "trap", l >>
        /\ \A g \in Flows : g # f => stack'[g] = stack[g]
    <2>1. stack' = [stack EXCEPT ![f] = << "trap" >> \o @]
      BY <1>1 DEF interrupt
    <2>2. stack'[f] = << "trap" >> \o << l >>
      BY <2>1, <1>3, <1>4, <1>6
    <2> QED  BY <2>1, <2>2, <1>4, TwoLabels
  <1>8. FlowRight(f)' /\ Top(f)' = "trap"
    BY <1>6, <1>7, Stacks DEF FlowRight, Inner, Open, Top
  <1>9. /\ eflags' \in [Cpus -> BOOLEAN] /\ ~ eflags'[c]
        /\ \A d \in Cpus : d # c => eflags'[d] = eflags[d]
        /\ UNCHANGED << owner, ncli, intena, spPanic, cur >>
    BY <1>4 DEF interrupt, taskvars
  <1>a. /\ l \notin HasTicks /\ l \notin HasTable /\ l \notin Spinning
        /\ "trap" \notin HasTicks /\ "trap" \notin HasTable /\ "trap" \notin Spinning
        /\ "trap" \notin Hears /\ "trap" \notin WillHear /\ "trap" \notin WillNotHear
    BY <1>5 DEF HasTicks, HasTable, Spinning, Hears, WillHear, WillNotHear
  <1>b. /\ owner'["tickslock"] = c <=> "trap" \in HasTicks
        /\ owner'["ptable"] = c <=> "trap" \in HasTable
        /\ ncli'[c] = One("trap" \in HasTicks) + One("trap" \in HasTable)
                      + One("trap" \in Spinning)
    BY <1>3, <1>9, <1>a
  <1>c. \A d \in Cpus : d # c =>
          /\ eflags'[d] = eflags[d] /\ intena'[d] = intena[d] /\ ncli'[d] = ncli[d]
          /\ \A k \in Locks : owner'[k] = d <=> owner[k] = d
    BY <1>9
  <1>d. LockInv'
    BY <1>1, <1>4, <1>7, <1>8, <1>9, <1>a, <1>b, <1>c, OneCpuSteps
  <1> QED  BY <1>d, <1>1, <1>2, <1>5, <1>7, <1>8, <1>9 DEF Top

LEMMA IretKeeps ==
  ASSUME LockInv, NEW c \in Cpus, iret(c)
  PROVE  LockInv' /\ Top(cur[c]) = "iret"
         /\ (\A g \in Flows : g # cur[c] => Top(g)' = Top(g))
         /\ Top(cur[c])' \in {"user", "kernel", "again", "trapret", "idle", "sti"}
  <1>1. PICK f : f = cur[c]
    OBVIOUS
  <1>3. /\ f \in Flows /\ FlowRight(f) /\ Top(f) = "iret"
        /\ owner["tickslock"] = c <=> "iret" \in HasTicks
        /\ owner["ptable"] = c <=> "iret" \in HasTable
        /\ ncli[c] = One("iret" \in HasTicks) + One("iret" \in HasTable)
                     + One("iret" \in Spinning)
    BY <1>1, AtLabel DEF iret
  <1>4. /\ owner \in [Locks -> Cpus \cup {0}]
        /\ eflags \in [Cpus -> BOOLEAN] /\ intena \in [Cpus -> BOOLEAN]
        /\ ncli \in [Cpus -> Int] /\ ~ spPanic /\ DOMAIN stack = Flows
    BY DEF LockInv, LockTypes
  <1>5. "iret" \in Inner(f)
    BY DEF Inner, TrapLabels
  <1>6. PICK m \in Open(f) : stack[f] = << "iret", m >>
    BY <1>3, <1>5, TopKind
  <1>7. /\ DOMAIN stack' = Flows /\ stack'[f] = << m >>
        /\ \A g \in Flows : g # f => stack'[g] = stack[g]
    <2>1. stack' = [stack EXCEPT ![f] = Tail(@)]
      BY <1>1 DEF iret
    <2>2. stack'[f] = Tail(<< "iret", m >>)
      BY <2>1, <1>3, <1>4, <1>6
    <2> QED  BY <2>1, <2>2, <1>4, Stacks
  <1>8. FlowRight(f)' /\ Top(f)' = m
    <2>1. m \in Outer(f)
      BY <1>6 DEF Outer, Open, TaskLabels
    <2> QED  BY <2>1, <1>7, Stacks DEF FlowRight, Outer, Top
  <1>9. /\ eflags' \in [Cpus -> BOOLEAN] /\ eflags'[c]
        /\ \A d \in Cpus : d # c => eflags'[d] = eflags[d]
        /\ UNCHANGED << owner, ncli, intena, spPanic, cur >>
    BY <1>4 DEF iret, taskvars
  <1>a. /\ m \in {"user", "kernel", "again", "trapret", "idle", "sti"}
        /\ m \notin HasTicks /\ m \notin HasTable /\ m \notin Spinning
        /\ "iret" \notin HasTicks /\ "iret" \notin HasTable /\ "iret" \notin Spinning
        /\ m \in Hears \cup {"trapret", "sti"}
        /\ m \notin WillHear /\ m \notin WillNotHear
    BY <1>6 DEF HasTicks, HasTable, Spinning, Hears, WillHear, WillNotHear, Open
  <1>b. /\ owner'["tickslock"] = c <=> m \in HasTicks
        /\ owner'["ptable"] = c <=> m \in HasTable
        /\ ncli'[c] = One(m \in HasTicks) + One(m \in HasTable) + One(m \in Spinning)
    BY <1>3, <1>9, <1>a
  <1>c. \A d \in Cpus : d # c =>
          /\ eflags'[d] = eflags[d] /\ intena'[d] = intena[d] /\ ncli'[d] = ncli[d]
          /\ \A k \in Locks : owner'[k] = d <=> owner[k] = d
    BY <1>9
  <1>d. LockInv'
    BY <1>1, <1>4, <1>7, <1>8, <1>9, <1>a, <1>b, <1>c, OneCpuSteps
  <1> QED  BY <1>d, <1>1, <1>3, <1>7, <1>8, <1>9, <1>a DEF Top

-----------------------------------------------------------------------------
(* Spinlock: steps that change what a CPU runs.                             *)

\* sched() from label l.
LEMMA SchedKeeps ==
  ASSUME LockInv, NEW c \in Cpus, NEW l, NEW back, At(c, l), sched(c, back),
         \/ l = "asleep" /\ back = "woken"
         \/ l = "yield" /\ back = "chosen"
  PROVE  /\ LockInv' /\ cur[c] \in Tasks
         /\ cur' = [cur EXCEPT ![c] = -c]
         /\ Top(cur[c]) = l /\ stack'[-c] = << "loop" >>
         /\ \A g \in Flows : g # cur[c] => Top(g)' = Top(g)
         /\ Head(stack'[cur[c]]) = back
  <1>1. PICK f : f = cur[c]
    OBVIOUS
  <1>2. /\ stack' = Moved(f, back)
        /\ cur' = [cur EXCEPT ![c] = -c]
        /\ UNCHANGED << owner, eflags, ncli, intena >>
        /\ spPanic' = (owner["ptable"] # c \/ ncli[c] # 1 \/ eflags[c])
    BY <1>1 DEF sched, holding
  <1>3. /\ f \in Flows /\ FlowRight(f) /\ Top(f) = l
        /\ owner["tickslock"] = c <=> l \in HasTicks
        /\ owner["ptable"] = c <=> l \in HasTable
        /\ ncli[c] = One(l \in HasTicks) + One(l \in HasTable) + One(l \in Spinning)
        /\ eflags[c] => l \in Hears \cup {"trapret", "sti"}
    BY <1>1, AtLabel
  <1>4. /\ l \notin HasTicks /\ l \in HasTable /\ l \notin Spinning
        /\ l \notin Hears \cup {"trapret", "sti"}
        /\ "loop" \notin HasTicks /\ "loop" \in HasTable /\ "loop" \notin Spinning
        /\ "loop" \notin Hears /\ "loop" \notin WillHear /\ "loop" \notin WillNotHear
    BY DEF HasTicks, HasTable, Spinning, Hears, WillHear, WillNotHear
  <1>5. owner["tickslock"] # c /\ owner["ptable"] = c /\ ncli[c] = 1 /\ ~ eflags[c]
    BY <1>3, <1>4 DEF One
  <1>6. ~ spPanic'
    <2>1. ~ (owner["ptable"] # c \/ ncli[c] # 1 \/ eflags[c])
      BY <1>5
    <2> QED  BY <2>1, <1>2
  <1>7. f \in Tasks /\ stack[-c] = << "loop" >>
    <2>1. f \in Tasks
      BY <1>3, TopKind DEF Outer, Inner, TrapLabels
    <2> QED  BY <2>1, <1>1 DEF LockInv, CpuRight
  <1>8. (Top(f) \in Outer(f) => back \in Outer(f)) /\ (Top(f) \in Inner(f) => back \in Inner(f))
    BY <1>3 DEF Outer, Inner, TaskLabels, TrapLabels, YieldLabels
  <1>9. /\ DOMAIN stack' = Flows /\ \A g \in Flows : FlowRight(g)'
        /\ Top(f)' = back
        /\ \A g \in Flows : g # f => stack'[g] = stack[g] /\ Top(g)' = Top(g)
    BY <1>2, <1>3, <1>8, GoesOn DEF LockInv, LockTypes
  <1>a. cur \in [Cpus -> Flows] /\ cur'[c] = -c /\ (\A d \in Cpus : d # c => cur'[d] = cur[d])
        /\ cur' \in [Cpus -> Flows]
    BY <1>2, Numbers DEF LockInv, LockTypes
  <1>b. LockTypes'
    BY <1>2, <1>9, <1>a DEF LockInv, LockTypes
  <1>c. \A d \in Cpus : cur[d] \in Tasks \cup {-d}
    BY DEF LockInv, CpuRight
  <1>d. ASSUME NEW d \in Cpus, NEW b \in Cpus, cur'[d] = cur'[b] PROVE d = b
    <2>1. CASE d # c /\ b # c
      BY <1>a, <1>d, <2>1 DEF LockInv
    <2>2. CASE d = c
      BY <1>a, <1>c, <1>d, <2>2, Numbers
    <2>3. CASE b = c
      BY <1>a, <1>c, <1>d, <2>3, Numbers
    <2> QED  BY <2>1, <2>2, <2>3
  <1>e. stack'[-c] = << "loop" >> /\ Top(-c)' = "loop"
    <2>1. stack'[-c] = << "loop" >>
      BY <1>7, <1>9, Numbers
    <2> QED  BY <2>1, Stacks DEF Top
  <1>f. CpuRight(c)'
    <2>1. Top(cur[c])' = "loop"
      BY <1>a, <1>e DEF Top
    <2> QED  BY <2>1, <1>2, <1>4, <1>5, <1>a, Numbers DEF CpuRight, One
  <1>g. ASSUME NEW d \in Cpus, d # c PROVE CpuRight(d)'
    <2>0. CpuRight(d) /\ cur[d] \in Flows
      BY DEF LockInv, LockTypes
    <2>1. cur[d] # f /\ -d # f
      BY <1>1, <1>7, <1>g, Numbers DEF LockInv
    <2>2. Top(cur[d])' = Top(cur[d]) /\ stack'[-d] = stack[-d] /\ cur'[d] = cur[d]
      BY <2>0, <2>1, <1>9, <1>a, <1>g, Numbers DEF Top
    <2> QED  BY <2>0, <2>2, <1>2 DEF CpuRight
  <1>h. LockInv'
    BY <1>6, <1>9, <1>b, <1>d, <1>f, <1>g DEF LockInv
  <1>i. Head(stack'[f]) = back
    BY <1>9 DEF Top
  <1> QED  BY <1>h, <1>i, <1>1, <1>2, <1>3, <1>7, <1>9, <1>e

\* scheduler() picks a process: it waits in swtch, for whoever runs a RUNNABLE
\* process holds ptable.lock.
LEMMA PickKeeps ==
  ASSUME SpInv, NEW c \in Cpus, At(c, "loop"), NEW p \in Tasks, run[p] = "runnable",
         cur' = [cur EXCEPT ![c] = p], UNCHANGED << lockvars, stack >>
  PROVE  /\ LockInv' /\ cur[c] = -c /\ (\A d \in Cpus : cur[d] # p)
         /\ Top(p) \in {"forkret", "woken", "chosen"}
  <1>1. PICK f : f = cur[c]
    OBVIOUS
  <1>2. LockInv /\ TaskRight(p) /\ p \in Flows
    BY Numbers DEF SpInv, TaskInv
  <1>3. /\ f \in Flows /\ FlowRight(f) /\ Top(f) = "loop"
        /\ owner["tickslock"] = c <=> "loop" \in HasTicks
        /\ owner["ptable"] = c <=> "loop" \in HasTable
        /\ ncli[c] = One("loop" \in HasTicks) + One("loop" \in HasTable)
                     + One("loop" \in Spinning)
        /\ eflags[c] => "loop" \in Hears \cup {"trapret", "sti"}
    BY <1>1, <1>2, AtLabel
  <1>4. f = -c /\ f \notin Tasks /\ stack[-c] = << "loop" >>
    <2>1. f \notin Tasks
      BY <1>3, TopKind DEF Outer, Inner, TaskLabels, TrapLabels, YieldLabels
    <2>2. f = -c
      BY <2>1, <1>1, <1>2 DEF LockInv, CpuRight
    <2>3. "loop" \in Outer(f)
      BY <2>1 DEF Outer
    <2> QED  BY <2>1, <2>2, <2>3, <1>3, TopKind
  <1>5. owner["tickslock"] # c /\ owner["ptable"] = c /\ ncli[c] = 1 /\ ~ eflags[c]
    BY <1>3 DEF One, HasTicks, HasTable, Spinning, Hears
  <1>6. ASSUME NEW d \in Cpus PROVE cur[d] # p
    <2>1. SUFFICES ASSUME cur[d] = p PROVE FALSE
      OBVIOUS
    <2>2. Top(p) = "yield"
      BY <2>1, <1>2 DEF TaskRight
    <2>3. owner["ptable"] = d
      BY <2>1, <2>2, <1>2 DEF LockInv, CpuRight, HasTable
    <2> QED  BY <2>1, <2>3, <1>1, <1>4, <1>5
  <1>7. Top(p) \in {"forkret", "woken", "chosen"}
    BY <1>2, <1>6 DEF TaskRight
  <1>a. cur \in [Cpus -> Flows] /\ cur'[c] = p /\ (\A d \in Cpus : d # c => cur'[d] = cur[d])
        /\ cur' \in [Cpus -> Flows]
    BY <1>2 DEF LockInv, LockTypes
  <1>b. UNCHANGED << owner, eflags, ncli, intena, spPanic, stack >>
    BY DEF lockvars
  <1>c. LockTypes' /\ ~ spPanic' /\ \A g \in Flows : FlowRight(g)'
    BY <1>2, <1>a, <1>b DEF LockInv, LockTypes, FlowRight, Outer, Inner, Open
  <1>d. ASSUME NEW d \in Cpus, NEW b \in Cpus, cur'[d] = cur'[b] PROVE d = b
    BY <1>2, <1>6, <1>a, <1>d DEF LockInv
  <1>e. CpuRight(c)'
    <2>1. Top(cur[c])' = Top(p)
      BY <1>a, <1>b DEF Top
    <2>2. /\ Top(p) \notin HasTicks /\ Top(p) \in HasTable /\ Top(p) \notin Spinning
          /\ Top(p) \notin Hears /\ Top(p) \notin WillHear /\ Top(p) \notin WillNotHear
      BY <1>7 DEF HasTicks, HasTable, Spinning, Hears, WillHear, WillNotHear
    <2> QED  BY <2>1, <2>2, <1>4, <1>5, <1>a, <1>b DEF CpuRight, One
  <1>g. ASSUME NEW d \in Cpus, d # c PROVE CpuRight(d)'
    <2>0. CpuRight(d)
      BY <1>2 DEF LockInv
    <2>2. Top(cur[d])' = Top(cur[d]) /\ cur'[d] = cur[d]
      BY <1>a, <1>b, <1>g DEF Top
    <2> QED  BY <2>0, <2>2, <1>b DEF CpuRight
  <1>h. LockInv'
    BY <1>c, <1>d, <1>e, <1>g DEF LockInv
  <1> QED  BY <1>h, <1>1, <1>4, <1>6, <1>7

-----------------------------------------------------------------------------
(* Spinlock: processes.                                                     *)

\* A step of the flow of CPU c from l to m that no other process notices.
LEMMA TasksStay ==
  ASSUME SpInv, NEW c \in Cpus, NEW l, NEW m, At(c, l), Top(cur[c])' = m,
         \A g \in Flows : g # cur[c] => Top(g)' = Top(g),
         UNCHANGED << cur, run, kept >>, late' \in [Tasks -> BOOLEAN],
         \A p \in Tasks : late'[p] => late[p],
         l # "yield", m \notin {"woken", "chosen", "yield"},
         cur[c] \in Tasks /\ m \in {"pacquire", "both", "asleep"} => ~ late[cur[c]],
         l \in Wakers => m \in Wakers
  PROVE  TaskInv'
  <1>1. TaskTypes'
    BY DEF SpInv, TaskInv, TaskTypes
  <1>2. \A d \in Cpus : cur[d] \in Flows /\ (cur[d] = cur[c] => d = c)
    BY DEF SpInv, LockInv, LockTypes
  <1>3. (\E d \in Cpus : Top(cur[d]) \in Wakers) => (\E d \in Cpus : Top(cur[d])' \in Wakers)
    BY <1>2 DEF At, Top
  <1>4. ASSUME NEW p \in Tasks PROVE TaskRight(p)'
    <2>1. TaskRight(p) /\ p \in Flows /\ late'[p] \in BOOLEAN /\ (late'[p] => late[p])
      BY Numbers DEF SpInv, TaskInv
    <2>2. CASE p = cur[c]
      <3>1. Top(p) = l /\ Top(p)' = m
        BY <2>2 DEF At, Top
      <3>2. run[p] = "running"
        BY <2>1, <2>2, <3>1 DEF TaskRight
      <3> QED  BY <2>1, <2>2, <3>1, <3>2 DEF TaskRight
    <2>3. CASE p # cur[c]
      <3>1. Top(p)' = Top(p)
        BY <2>1, <2>3
      <3> QED  BY <2>1, <3>1, <1>3 DEF TaskRight
    <2> QED  BY <2>2, <2>3
  <1> QED  BY <1>1, <1>4 DEF TaskInv

\* Only the flow that CPU c runs changes its label.
LEMMA LabelMoves ==
  ASSUME LockInv, NEW c \in Cpus, NEW l, NEW m, NEW lk, NEW on, At(c, l), GoTo(c, m),
         UNCHANGED cur,
         \/ /\ PushSteps(l, lk, m) \/ SpinSteps(l, lk, m) \/ ReleaseSteps(l, lk, m)
            /\ l = "preempt" => cur[c] \in Tasks
         \/ MoveSteps(l, m, on)
  PROVE  /\ Top(cur[c])' = m
         /\ \A g \in Flows : g # cur[c] => Top(g)' = Top(g)
  <1>1. PICK f : f = cur[c]
    OBVIOUS
  <1>2. f \in Flows /\ Top(f) = l /\ stack' = Moved(f, m)
    BY <1>1 DEF LockInv, LockTypes, At, GoTo
  <1>3. (l \in Outer(f) => m \in Outer(f)) /\ (l \in Inner(f) => m \in Inner(f))
    <2>1. CASE MoveSteps(l, m, on)
      BY <2>1 DEF MoveSteps, Outer, Inner, TaskLabels, TrapLabels, YieldLabels
    <2> QED  BY <2>1, <1>1, SameKind
  <1>4. Top(f)' = m /\ \A g \in Flows : g # f => Top(g)' = Top(g)
    BY <1>2, <1>3, GoesOn DEF LockInv, LockTypes
  <1> QED  BY <1>1, <1>4 DEF Top

\* An acquire() that begins.
LEMMA PushStep ==
  ASSUME SpInv, NEW c \in Cpus, NEW l, NEW lk, NEW m, PushSteps(l, lk, m),
         l = "preempt" => cur[c] \in Tasks, l = "test" => ~ late[cur[c]],
         Push(c, l, lk, m), UNCHANGED taskvars
  PROVE  SpInv'
  <1>1. /\ LockInv /\ At(c, l) /\ GoTo(c, m)
        /\ UNCHANGED << cur, run, kept, late >> /\ late \in [Tasks -> BOOLEAN]
    BY DEF Push, taskvars, SpInv, TaskInv, TaskTypes
  <1>2. LockInv'
    BY <1>1, PushKeeps
  <1>3. Top(cur[c])' = m /\ \A g \in Flows : g # cur[c] => Top(g)' = Top(g)
    BY <1>1, LabelMoves
  <1>4. /\ l # "yield" /\ m \notin {"woken", "chosen", "yield"}
        /\ m \in {"pacquire", "both", "asleep"} => ~ late[cur[c]]
        /\ l \in Wakers => m \in Wakers
    BY DEF PushSteps, Wakers
  <1>5. TaskInv'
    BY <1>1, <1>3, <1>4, TasksStay
  <1> QED  BY <1>2, <1>5 DEF SpInv

\* An acquire() that gets its lock: for tick() and yields() see below.
LEMMA SpinStep ==
  ASSUME SpInv, NEW c \in Cpus, NEW l, NEW lk, NEW m, SpinSteps(l, lk, m),
         l \notin {"tacquire", "yacquire"},
         Spin(c, l, lk, m), UNCHANGED taskvars
  PROVE  SpInv'
  <1>1. /\ LockInv /\ At(c, l) /\ GoTo(c, m)
        /\ UNCHANGED << cur, run, kept, late >> /\ late \in [Tasks -> BOOLEAN]
    BY DEF Spin, taskvars, SpInv, TaskInv, TaskTypes
  <1>2. LockInv'
    BY <1>1, SpinKeeps
  <1>3. Top(cur[c])' = m /\ \A g \in Flows : g # cur[c] => Top(g)' = Top(g)
    <2>1. l # "preempt"
      BY DEF SpinSteps
    <2> QED  BY <1>1, <2>1, LabelMoves
  <1>4. /\ l # "yield" /\ m \notin {"woken", "chosen", "yield"}
        /\ m \in {"pacquire", "both", "asleep"} => l = "pacquire"
        /\ l \in Wakers => m \in Wakers
    BY DEF SpinSteps, Wakers
  <1>5. cur[c] \in Tasks /\ l = "pacquire" => ~ late[cur[c]]
    BY <1>1 DEF SpInv, TaskInv, TaskRight, At
  <1>6. TaskInv'
    BY <1>1, <1>3, <1>4, <1>5, TasksStay
  <1> QED  BY <1>2, <1>6 DEF SpInv

\* A release(), with or without the end of sched() before it: late can only
\* become FALSE.
LEMMA ReleaseStep ==
  ASSUME SpInv, NEW c \in Cpus, NEW l, NEW lk, NEW m, ReleaseSteps(l, lk, m),
         l # "wakeup1", At(c, l), NEW ie \in BOOLEAN,
         l \in {"woken", "chosen"} \/ ie = intena[c],
         l \in {"woken", "chosen"} => ie = kept[cur[c]],
         releaseWith(c, lk, ie), GoTo(c, m),
         UNCHANGED << cur, run, kept >>, late' \in [Tasks -> BOOLEAN],
         \A p \in Tasks : late'[p] => late[p]
  PROVE  SpInv'
  <1>0. LockInv
    BY DEF SpInv
  <1>1. (l = "woken" => ie) /\ (l = "chosen" => ~ ie)
    <2>1. cur[c] \in Flows /\ FlowRight(cur[c]) /\ Top(cur[c]) = l
      BY <1>0, AtLabel
    <2>2. l \in {"woken", "chosen"} => cur[c] \in Tasks
      BY <2>1, TopKind DEF Outer, Inner, TrapLabels
    <2>3. CASE l = "woken"
      BY <2>1, <2>2, <2>3 DEF SpInv, TaskInv, TaskRight
    <2>4. CASE l = "chosen"
      BY <2>1, <2>2, <2>4 DEF SpInv, TaskInv, TaskRight
    <2> QED  BY <2>3, <2>4
  <1>2. LockInv'
    BY <1>0, <1>1, ReleaseKeeps
  <1>3. Top(cur[c])' = m /\ \A g \in Flows : g # cur[c] => Top(g)' = Top(g)
    <2>1. l # "preempt"
      BY DEF ReleaseSteps
    <2> QED  BY <1>0, <2>1, LabelMoves
  <1>4. /\ l # "yield" /\ m \notin {"woken", "chosen", "yield"}
        /\ m \in {"pacquire", "both", "asleep"} => l = "both"
        /\ l \in Wakers => m \in Wakers
    BY DEF ReleaseSteps, Wakers
  <1>5. cur[c] \in Tasks /\ l = "both" => ~ late[cur[c]]
    BY DEF SpInv, TaskInv, TaskRight, At
  <1>6. TaskInv'
    BY <1>3, <1>4, <1>5, TasksStay
  <1> QED  BY <1>2, <1>6 DEF SpInv

\* A step that takes and gives up no lock.
LEMMA MoveStep ==
  ASSUME SpInv, NEW c \in Cpus, NEW l, NEW m, NEW on, MoveSteps(l, m, on),
         At(c, l), GoTo(c, m), UNCHANGED << owner, ncli, intena, spPanic, taskvars >>,
         eflags' = IF on THEN [eflags EXCEPT ![c] = TRUE] ELSE eflags
  PROVE  SpInv'
  <1>1. LockInv /\ UNCHANGED << cur, run, kept, late >> /\ late \in [Tasks -> BOOLEAN]
    BY DEF taskvars, SpInv, TaskInv, TaskTypes
  <1>2. LockInv'
    BY <1>1, MoveKeeps
  <1>3. Top(cur[c])' = m /\ \A g \in Flows : g # cur[c] => Top(g)' = Top(g)
    BY <1>1, LabelMoves
  <1>4. /\ l # "yield" /\ m \notin {"woken", "chosen", "yield"}
        /\ m \notin {"pacquire", "both", "asleep"} /\ l \notin Wakers
    BY DEF MoveSteps, Wakers
  <1>5. TaskInv'
    BY <1>1, <1>3, <1>4, TasksStay
  <1> QED  BY <1>2, <1>5 DEF SpInv

\* The interrupt and the return from it.
LEMMA TrapStep ==
  ASSUME SpInv, NEW c \in Cpus, interrupt(c) \/ iret(c)
  PROVE  SpInv'
  <1>1. LockInv /\ UNCHANGED << cur, run, kept, late >> /\ late \in [Tasks -> BOOLEAN]
    BY DEF interrupt, iret, taskvars, SpInv, TaskInv, TaskTypes
  <1>2. PICK l, m : l = Top(cur[c]) /\ m = Top(cur[c])'
    OBVIOUS
  <1>3. /\ LockInv' /\ At(c, l)
        /\ \A g \in Flows : g # cur[c] => Top(g)' = Top(g)
        /\ l \in {"user", "kernel", "again", "trapret", "idle", "sti", "iret"}
        /\ m \in {"user", "kernel", "again", "trapret", "idle", "sti", "trap"}
    <2>1. CASE interrupt(c)
      BY <2>1, <1>1, <1>2, InterruptKeeps DEF At
    <2>2. CASE iret(c)
      BY <2>2, <1>1, <1>2, IretKeeps DEF At
    <2> QED  BY <2>1, <2>2
  <1>4. /\ l # "yield" /\ m \notin {"woken", "chosen", "yield"}
        /\ m \notin {"pacquire", "both", "asleep"} /\ l \notin Wakers
    BY <1>3 DEF Wakers
  <1>5. TaskInv'
    BY <1>1, <1>2, <1>3, <1>4, TasksStay
  <1> QED  BY <1>3, <1>5 DEF SpInv

\* Who wants a lock, or is past a label at which he holds it, is on a CPU.
LEMMA OnCpu ==
  ASSUME SpInv, NEW p \in Tasks, Top(p) \notin {"forkret", "woken", "chosen"}
  PROVE  \E d \in Cpus : cur[d] = p
  BY DEF SpInv, TaskInv, TaskRight

\* ticks++: from now on whoever has read ticks is late; tickslock was free, so
\* none of them is between its test and its sleep.
LEMMA TickStep ==
  ASSUME SpInv, NEW c \in Cpus, Spin(c, "tacquire", "tickslock", "wakeup"),
         late' = [p \in Tasks |-> p \in TickSleepers], UNCHANGED << cur, run, kept, scan >>
  PROVE  SpInv'
  <1>1. /\ LockInv /\ At(c, "tacquire") /\ GoTo(c, "wakeup") /\ owner["tickslock"] = 0
        /\ SpinSteps("tacquire", "tickslock", "wakeup")
    BY DEF Spin, SpInv, xchg, SpinSteps
  <1>2. LockInv'
    BY <1>1, SpinKeeps
  <1>3. Top(cur[c])' = "wakeup" /\ \A g \in Flows : g # cur[c] => Top(g)' = Top(g)
    BY <1>1, LabelMoves
  <1>4. TaskTypes'
    BY DEF SpInv, TaskInv, TaskTypes
  <1>5. \E d \in Cpus : Top(cur[d])' \in Wakers
    BY <1>3 DEF Wakers
  <1>6. ASSUME NEW p \in Tasks PROVE TaskRight(p)'
    <2>1. TaskRight(p) /\ p \in Flows
      BY Numbers DEF SpInv, TaskInv
    <2>2. CASE p = cur[c]
      <3>1. Top(p) = "tacquire" /\ Top(p)' = "wakeup"
        BY <2>2, <1>1, <1>3 DEF At, Top
      <3> QED  BY <2>1, <2>2, <3>1, <1>5 DEF TaskRight
    <2>3. CASE p # cur[c]
      <3>1. Top(p)' = Top(p)
        BY <2>1, <2>3, <1>3
      <3>2. Top(p) \notin {"pacquire", "both"}
        <4>1. SUFFICES ASSUME Top(p) \in {"pacquire", "both"} PROVE FALSE
          OBVIOUS
        <4>2. PICK d \in Cpus : cur[d] = p
          BY <4>1, OnCpu
        <4>3. owner["tickslock"] = d
          BY <4>1, <4>2, <1>1 DEF LockInv, CpuRight, HasTicks
        <4> QED  BY <4>3, <1>1, Numbers
      <3> QED  BY <2>1, <3>1, <3>2, <1>5 DEF TaskRight
    <2> QED  BY <2>2, <2>3
  <1> QED  BY <1>2, <1>4, <1>6 DEF SpInv, TaskInv

\* wakeup1() with ptable.lock held: nobody is half-way into sched().
LEMMA WakeupStep ==
  ASSUME SpInv, NEW c \in Cpus, Releases(c, "wakeup1", "ptable", "ticked"),
         run' = [p \in Tasks |-> IF run[p] = "sleeping" THEN "runnable" ELSE run[p]],
         UNCHANGED << cur, kept, scan, late >>
  PROVE  SpInv'
  <1>1. /\ LockInv /\ At(c, "wakeup1") /\ GoTo(c, "ticked")
        /\ releaseWith(c, "ptable", intena[c]) /\ intena[c] \in BOOLEAN
        /\ ReleaseSteps("wakeup1", "ptable", "ticked")
    BY DEF Releases, release, SpInv, ReleaseSteps, LockInv, LockTypes
  <1>2. LockInv'
    BY <1>1, ReleaseKeeps
  <1>3. Top(cur[c])' = "ticked" /\ \A g \in Flows : g # cur[c] => Top(g)' = Top(g)
    BY <1>1, LabelMoves
  <1>4. TaskTypes'
    BY DEF SpInv, TaskInv, TaskTypes
  <1>5. owner["ptable"] = c
    BY <1>1, AtLabel DEF HasTable
  <1>6. ASSUME NEW p \in Tasks PROVE TaskRight(p)'
    <2>1. TaskRight(p) /\ p \in Flows
      BY Numbers DEF SpInv, TaskInv
    <2>2. /\ run'[p] # "sleeping" /\ (run'[p] = "running" <=> run[p] = "running")
          /\ run'[p] = run[p] \/ run[p] = "sleeping"
      BY DEF SpInv, TaskInv, TaskTypes
    <2>3. CASE p = cur[c]
      <3>1. Top(p) = "wakeup1" /\ Top(p)' = "ticked"
        BY <2>3, <1>1, <1>3 DEF At, Top
      <3> QED  BY <2>1, <2>2, <2>3, <3>1 DEF TaskRight
    <2>4. CASE p # cur[c]
      <3>1. Top(p)' = Top(p)
        BY <2>1, <2>4, <1>3
      <3>2. Top(p) # "asleep"
        <4>1. SUFFICES ASSUME Top(p) = "asleep" PROVE FALSE
          OBVIOUS
        <4>2. PICK d \in Cpus : cur[d] = p
          BY <4>1, OnCpu
        <4>3. owner["ptable"] = d
          BY <4>1, <4>2, <1>1 DEF LockInv, CpuRight, HasTable
        <4> QED  BY <4>2, <4>3, <1>5, <2>4
      <3>3. \A d \in Cpus : cur[d] = p => run[p] # "sleeping"
        BY <2>1 DEF TaskRight
      <3> QED  BY <2>1, <2>2, <3>1, <3>2, <3>3 DEF TaskRight
    <2> QED  BY <2>3, <2>4
  <1> QED  BY <1>2, <1>4, <1>6 DEF SpInv, TaskInv

\* yield() makes the process RUNNABLE.
LEMMA YieldStep ==
  ASSUME SpInv, NEW c \in Cpus, Spin(c, "yacquire", "ptable", "yield"),
         run' = [run EXCEPT ![cur[c]] = "runnable"], UNCHANGED << cur, kept, scan, late >>
  PROVE  SpInv'
  <1>1. /\ LockInv /\ At(c, "yacquire") /\ GoTo(c, "yield")
        /\ SpinSteps("yacquire", "ptable", "yield")
    BY DEF Spin, SpInv, SpinSteps
  <1>2. LockInv'
    BY <1>1, SpinKeeps
  <1>3. Top(cur[c])' = "yield" /\ \A g \in Flows : g # cur[c] => Top(g)' = Top(g)
    BY <1>1, LabelMoves
  <1>4. TaskTypes'
    BY DEF SpInv, TaskInv, TaskTypes
  <1>5. \A d \in Cpus : cur[d] \in Flows /\ (cur[d] = cur[c] => d = c)
    BY <1>1 DEF LockInv, LockTypes
  <1>6. ASSUME NEW p \in Tasks PROVE TaskRight(p)'
    <2>1. TaskRight(p) /\ p \in Flows /\ run \in [Tasks -> {"runnable", "running", "sleeping"}]
      BY Numbers DEF SpInv, TaskInv, TaskTypes
    <2>2. CASE p = cur[c]
      <3>1. Top(p) = "yacquire" /\ Top(p)' = "yield" /\ run'[p] = "runnable"
        BY <2>1, <2>2, <1>1, <1>3 DEF At, Top
      <3> QED  BY <2>1, <2>2, <3>1 DEF TaskRight
    <2>3. CASE p # cur[c]
      <3>1. Top(p)' = Top(p) /\ run'[p] = run[p]
        BY <2>1, <2>3, <1>3
      <3>2. (\E d \in Cpus : Top(cur[d]) \in Wakers) => (\E d \in Cpus : Top(cur[d])' \in Wakers)
        BY <1>1, <1>3, <1>5 DEF At, Top, Wakers
      <3> QED  BY <2>1, <3>1, <3>2 DEF TaskRight
    <2> QED  BY <2>2, <2>3
  <1> QED  BY <1>2, <1>4, <1>6 DEF SpInv, TaskInv

\* sched(): out of sleep() and out of yield().
LEMMA SchedStep ==
  ASSUME SpInv, NEW c \in Cpus, NEW l, NEW back, At(c, l), sched(c, back),
         UNCHANGED << scan, late >>,
         \/ /\ l = "asleep" /\ back = "woken"
            /\ run' = [run EXCEPT ![cur[c]] = "sleeping"]
         \/ l = "yield" /\ back = "chosen" /\ UNCHANGED run
  PROVE  SpInv'
  <1>1. PICK q : q = cur[c]
    OBVIOUS
  <1>2. LockInv
    BY DEF SpInv
  <1>3. /\ LockInv' /\ q \in Tasks /\ cur' = [cur EXCEPT ![c] = -c] /\ Top(q) = l
        /\ \A g \in Flows : g # q => Top(g)' = Top(g)
        /\ Top(q)' = back
    BY <1>1, <1>2, SchedKeeps DEF Top
  <1>4. kept' = [kept EXCEPT ![q] = intena[c]] /\ intena[c] \in BOOLEAN
        /\ (l = "asleep" => intena[c]) /\ (l = "yield" => ~ intena[c])
    BY <1>1, <1>2, AtLabel DEF sched, WillHear, WillNotHear, LockInv, LockTypes
  <1>5. /\ TaskTypes' /\ TaskTypes
        /\ kept'[q] = intena[c] /\ \A p \in Tasks : p # q => kept'[p] = kept[p]
    BY <1>1, <1>3, <1>4 DEF SpInv, TaskInv, TaskTypes
  <1>6. /\ cur'[c] = -c /\ -c \notin Tasks
        /\ \A d \in Cpus : d # c => cur'[d] = cur[d] /\ cur[d] # q /\ cur[d] \in Flows
    BY <1>1, <1>2, <1>3, Numbers DEF LockInv, LockTypes
  <1>7. (\E d \in Cpus : Top(cur[d]) \in Wakers) => (\E d \in Cpus : Top(cur[d])' \in Wakers)
    <2>1. SUFFICES ASSUME NEW d \in Cpus, Top(cur[d]) \in Wakers
                   PROVE  Top(cur[d])' \in Wakers
      OBVIOUS
    <2>2. d # c
      BY <2>1, <1>1, <1>3 DEF Wakers
    <2>3. Top(cur[d])' = Top(cur[d])
      BY <2>2, <1>3, <1>6 DEF Top
    <2> QED  BY <2>1, <2>3
  <1>8. run[q] = (IF l = "yield" THEN "runnable" ELSE "running") /\ TaskRight(q)
    BY <1>1, <1>3 DEF SpInv, TaskInv, TaskRight
  <1>9. TaskRight(q)'
    <2>1. \A d \in Cpus : cur'[d] # q
      BY <1>3, <1>6
    <2>2. CASE l = "asleep"
      <3>1. run'[q] = "sleeping" /\ Top(q)' = "woken" /\ kept'[q]
        BY <2>2, <1>1, <1>3, <1>4, <1>5 DEF TaskTypes
      <3>2. late[q] => \E d \in Cpus : Top(cur[d]) \in Wakers
        BY <1>3, <1>8, <2>2 DEF TaskRight
      <3> QED  BY <2>1, <3>1, <3>2, <1>7 DEF TaskRight
    <2>3. CASE l = "yield"
      <3>1. run'[q] = "runnable" /\ Top(q)' = "chosen" /\ ~ kept'[q]
        BY <2>3, <1>3, <1>4, <1>5, <1>8
      <3> QED  BY <2>1, <3>1 DEF TaskRight
    <2> QED  BY <2>2, <2>3
  <1>a. ASSUME NEW p \in Tasks, p # q PROVE TaskRight(p)'
    <2>1. TaskRight(p) /\ p \in Flows
      BY Numbers DEF SpInv, TaskInv
    <2>2. Top(p)' = Top(p) /\ run'[p] = run[p] /\ kept'[p] = kept[p]
      BY <2>1, <1>1, <1>3, <1>5, <1>a DEF TaskTypes
    <2>3. \A d \in Cpus : cur'[d] = p <=> cur[d] = p
      BY <1>1, <1>6, <1>a
    <2> QED  BY <2>1, <2>2, <2>3, <1>7 DEF TaskRight
  <1> QED  BY <1>3, <1>5, <1>9, <1>a DEF SpInv, TaskInv

\* The scheduler picks a process.
LEMMA PickStep ==
  ASSUME SpInv, NEW c \in Cpus, pick(c)
  PROVE  SpInv'
  <1>1. PICK q \in Tasks : /\ run[q] = "runnable" /\ cur' = [cur EXCEPT ![c] = q]
                           /\ run' = [run EXCEPT ![q] = "running"]
    BY DEF pick, Ready
  <1>2. At(c, "loop") /\ UNCHANGED << lockvars, stack, kept, late >>
    BY DEF pick
  <1>3. /\ LockInv' /\ cur[c] = -c /\ (\A d \in Cpus : cur[d] # q)
        /\ Top(q) \in {"forkret", "woken", "chosen"}
    BY <1>1, <1>2, PickKeeps
  <1>4. /\ TaskTypes /\ TaskTypes' /\ run'[q] = "running"
        /\ \A p \in Tasks : p # q => run'[p] = run[p]
    BY <1>1, <1>2 DEF SpInv, TaskInv, TaskTypes
  <1>5. /\ cur'[c] = q /\ -c \notin Tasks /\ \A d \in Cpus : d # c => cur'[d] = cur[d]
    BY <1>1, Numbers DEF SpInv, LockInv, LockTypes
  <1>6. (\E d \in Cpus : Top(cur[d]) \in Wakers) => (\E d \in Cpus : Top(cur[d])' \in Wakers)
    <2>1. SUFFICES ASSUME NEW d \in Cpus, Top(cur[d]) \in Wakers
                   PROVE  Top(cur[d])' \in Wakers
      OBVIOUS
    <2>2. d # c
      BY <2>1, <1>2 DEF Wakers, At
    <2> QED  BY <2>1, <2>2, <1>2, <1>5 DEF Top
  <1>7. ASSUME NEW p \in Tasks PROVE TaskRight(p)'
    <2>1. TaskRight(p) /\ Top(p)' = Top(p)
      BY <1>2 DEF SpInv, TaskInv, Top
    <2>2. CASE p = q
      BY <2>1, <2>2, <1>2, <1>3, <1>4, <1>5 DEF TaskRight
    <2>3. CASE p # q
      <3>1. \A d \in Cpus : cur'[d] = p <=> cur[d] = p
        BY <2>3, <1>3, <1>5
      <3> QED  BY <2>1, <2>3, <3>1, <1>2, <1>4, <1>6 DEF TaskRight
    <2> QED  BY <2>2, <2>3
  <1> QED  BY <1>3, <1>4, <1>7 DEF SpInv, TaskInv

-----------------------------------------------------------------------------
(* Spinlock: the theorem.                                                   *)

LEMMA SpInitKeeps == SpInit => SpInv
  <1> SUFFICES ASSUME SpInit PROVE SpInv
    OBVIOUS
  <1>1. LockTypes /\ TaskTypes /\ ~ spPanic
    BY Numbers DEF SpInit, LockTypes, TaskTypes
  <1>2. /\ \A p \in Tasks : stack[p] = << "forkret" >> /\ Top(p) = "forkret"
        /\ \A c \in Cpus : cur[c] = -c /\ stack[-c] = << "sti" >> /\ Top(-c) = "sti"
    BY Numbers, Stacks DEF SpInit, Top
  <1>3. \A f \in Flows : FlowRight(f)
    <2>1. \A f \in Flows : f \in Tasks => FlowRight(f)
      BY <1>2 DEF FlowRight, Outer, TaskLabels
    <2>2. \A c \in Cpus : FlowRight(-c)
      BY <1>2, Numbers DEF FlowRight, Outer
    <2> QED  BY <2>1, <2>2 DEF Flows
  <1>4. \A c, d \in Cpus : cur[c] = cur[d] => c = d
    BY <1>2, Numbers
  <1>5. ASSUME NEW c \in Cpus PROVE CpuRight(c)
    <2>1. /\ owner["tickslock"] = 0 /\ owner["ptable"] = 0 /\ ncli[c] = 0
          /\ eflags[c] = FALSE /\ c # 0
      BY Numbers DEF SpInit, Locks
    <2> QED  BY <1>2, <2>1, Numbers DEF CpuRight, HasTicks, HasTable, Spinning, Hears,
             WillHear, WillNotHear, One
  <1>6. ASSUME NEW p \in Tasks PROVE TaskRight(p)
    <2>1. /\ run[p] = "runnable" /\ late[p] = FALSE /\ \A c \in Cpus : cur[c] # p
      BY <1>2, Numbers DEF SpInit
    <2> QED  BY <1>2, <2>1 DEF TaskRight
  <1> QED  BY <1>1, <1>3, <1>4, <1>5, <1>6 DEF SpInv, LockInv, TaskInv

LEMMA SpNextKeeps == SpInv /\ [SpNext]_spvars => SpInv'
  <1>1. ASSUME SpInv, SpNext PROVE SpInv'
    <2>1. PICK c \in Cpus :
            \/ forkret(c) \/ sti(c) \/ schedAcquire(c) \/ pick(c) \/ endOfTable(c)
            \/ syscall(c) \/ trapret(c) \/ sysSleep(c) \/ giveUp(c)
            \/ goToSleep(c) \/ wakesUp(c)
            \/ interrupt(c) \/ tick(c) \/ noTick(c) \/ yields(c) \/ noYield(c)
            \/ iret(c)
      BY <1>1 DEF SpNext
    <2>2. /\ LockInv /\ late \in [Tasks -> BOOLEAN] /\ kept \in [Tasks -> BOOLEAN]
          /\ intena[c] \in BOOLEAN
      BY <1>1 DEF SpInv, LockInv, LockTypes, TaskInv, TaskTypes
    <2>3. ASSUME NEW l, NEW lk, NEW m, Releases(c, l, lk, m), UNCHANGED taskvars,
                 ReleaseSteps(l, lk, m), l \notin {"wakeup1", "woken", "chosen"}
          PROVE  SpInv'
      BY <1>1, <2>2, <2>3, ReleaseStep DEF Releases, release, taskvars
    <2>4. ASSUME NEW l, NEW m, Resume(c, l, m), UNCHANGED taskvars,
                 ReleaseSteps(l, "ptable", m), l \in {"woken", "chosen"}
          PROVE  SpInv'
      <3>1. cur[c] \in Tasks
        <4>1. FlowRight(cur[c]) /\ Top(cur[c]) = l
          BY <2>2, <2>4, AtLabel DEF Resume
        <4> QED  BY <4>1, <2>4, TopKind DEF Outer, Inner, TrapLabels
      <3>2. kept[cur[c]] \in BOOLEAN /\ l # "wakeup1"
        BY <3>1, <2>2, <2>4
      <3>3. UNCHANGED << cur, run, kept, late >>
        BY <2>4 DEF taskvars
      <3> QED  BY <1>1, <2>2, <2>4, <3>2, <3>3, ReleaseStep DEF Resume
    <2>5. CASE forkret(c)
      BY <2>3, <2>5 DEF forkret, ReleaseSteps
    <2>6. CASE sti(c)
      <3>1. MoveSteps("sti", "idle", TRUE)
        BY DEF MoveSteps
      <3> QED  BY <1>1, <2>6, <3>1, MoveStep DEF sti
    <2>7. CASE schedAcquire(c)
      <3>1. CASE Push(c, "idle", "ptable", "sacquire")
        BY <1>1, <2>7, <3>1, PushStep DEF schedAcquire, PushSteps
      <3>2. CASE Spin(c, "sacquire", "ptable", "loop")
        BY <1>1, <2>7, <3>2, SpinStep DEF schedAcquire, SpinSteps
      <3> QED  BY <2>7, <3>1, <3>2 DEF schedAcquire
    <2>8. CASE pick(c)
      BY <1>1, <2>8, PickStep
    <2>9. CASE endOfTable(c)
      <3>1. ReleaseSteps("loop", "ptable", "sti")
        BY DEF ReleaseSteps
      <3> QED  BY <1>1, <2>2, <2>9, <3>1, ReleaseStep DEF endOfTable, Releases, release
    <2>10. CASE syscall(c)
      <3>1. MoveSteps("user", "kernel", FALSE)
        BY DEF MoveSteps
      <3> QED  BY <1>1, <2>10, <3>1, MoveStep DEF syscall, lockvars
    <2>11. CASE trapret(c)
      <3>1. MoveSteps("kernel", "user", TRUE) /\ MoveSteps("trapret", "user", TRUE)
        BY DEF MoveSteps
      <3> QED  BY <1>1, <2>11, <3>1, MoveStep DEF trapret
    <2>12. CASE sysSleep(c)
      <3>1. CASE Push(c, "kernel", "tickslock", "acquire") /\ UNCHANGED taskvars
        BY <1>1, <3>1, PushStep DEF PushSteps
      <3>2. CASE Spin(c, "acquire", "tickslock", "test") /\ UNCHANGED taskvars
        BY <1>1, <3>2, SpinStep DEF SpinSteps
      <3>3. CASE /\ Releases(c, "test", "tickslock", "kernel")
                 /\ late' = [late EXCEPT ![cur[c]] = FALSE]
                 /\ UNCHANGED << cur, run, kept, scan >>
        <4>1. ReleaseSteps("test", "tickslock", "kernel")
          BY DEF ReleaseSteps
        <4>2. late' \in [Tasks -> BOOLEAN] /\ \A p \in Tasks : late'[p] => late[p]
          BY <2>2, <3>3
        <4> QED  BY <1>1, <2>2, <3>3, <4>1, <4>2, ReleaseStep DEF Releases, release
      <3> QED  BY <2>12, <3>1, <3>2, <3>3 DEF sysSleep
    <2>13. CASE giveUp(c)
      <3>1. CASE /\ cur[c] \in Tasks /\ ~ late[cur[c]]
                 /\ Push(c, "test", "ptable", "pacquire") /\ UNCHANGED taskvars
        BY <1>1, <3>1, PushStep DEF PushSteps
      <3>2. CASE Spin(c, "pacquire", "ptable", "both") /\ UNCHANGED taskvars
        BY <1>1, <3>2, SpinStep DEF SpinSteps
      <3>3. CASE Releases(c, "both", "tickslock", "asleep") /\ UNCHANGED taskvars
        BY <2>3, <3>3 DEF ReleaseSteps
      <3> QED  BY <2>13, <3>1, <3>2, <3>3 DEF giveUp
    <2>14. CASE goToSleep(c)
      BY <1>1, <2>14, SchedStep DEF goToSleep
    <2>15. CASE wakesUp(c)
      <3>1. CASE Resume(c, "woken", "again")
        BY <2>4, <2>15, <3>1 DEF ReleaseSteps, wakesUp
      <3>2. CASE Push(c, "again", "tickslock", "reacquire")
        BY <1>1, <2>15, <3>2, PushStep DEF PushSteps, wakesUp
      <3>3. CASE Spin(c, "reacquire", "tickslock", "test")
        BY <1>1, <2>15, <3>3, SpinStep DEF SpinSteps, wakesUp
      <3> QED  BY <2>15, <3>1, <3>2, <3>3 DEF wakesUp
    <2>16. CASE interrupt(c) \/ iret(c)
      BY <1>1, <2>16, TrapStep
    <2>17. CASE tick(c)
      <3>1. CASE Push(c, "trap", "tickslock", "tacquire") /\ UNCHANGED taskvars
        BY <1>1, <3>1, PushStep DEF PushSteps
      <3>2. CASE /\ Spin(c, "tacquire", "tickslock", "wakeup")
                 /\ late' = [p \in Tasks |-> p \in TickSleepers]
                 /\ UNCHANGED << cur, run, kept, scan >>
        BY <1>1, <3>2, TickStep
      <3>3. CASE Push(c, "wakeup", "ptable", "wacquire") /\ UNCHANGED taskvars
        BY <1>1, <3>3, PushStep DEF PushSteps
      <3>4. CASE Spin(c, "wacquire", "ptable", "wakeup1") /\ UNCHANGED taskvars
        BY <1>1, <3>4, SpinStep DEF SpinSteps
      <3>5. CASE /\ Releases(c, "wakeup1", "ptable", "ticked")
                 /\ run' = [p \in Tasks |-> IF run[p] = "sleeping" THEN "runnable" ELSE run[p]]
                 /\ UNCHANGED << cur, kept, scan, late >>
        BY <1>1, <3>5, WakeupStep
      <3>6. CASE Releases(c, "ticked", "tickslock", "preempt") /\ UNCHANGED taskvars
        BY <2>3, <3>6 DEF ReleaseSteps
      <3> QED  BY <2>17, <3>1, <3>2, <3>3, <3>4, <3>5, <3>6 DEF tick
    <2>18. CASE noTick(c)
      <3>1. MoveSteps("trap", "preempt", FALSE)
        BY DEF MoveSteps
      <3> QED  BY <1>1, <2>18, <3>1, MoveStep DEF noTick, lockvars
    <2>19. CASE yields(c)
      <3>1. CASE /\ cur[c] \in Tasks /\ Push(c, "preempt", "ptable", "yacquire")
                 /\ UNCHANGED taskvars
        BY <1>1, <3>1, PushStep DEF PushSteps
      <3>2. CASE /\ Spin(c, "yacquire", "ptable", "yield")
                 /\ run' = [run EXCEPT ![cur[c]] = "runnable"]
                 /\ UNCHANGED << cur, kept, scan, late >>
        BY <1>1, <3>2, YieldStep
      <3>3. CASE At(c, "yield") /\ sched(c, "chosen") /\ UNCHANGED << run, scan, late >>
        BY <1>1, <3>3, SchedStep
      <3>4. CASE Resume(c, "chosen", "iret") /\ UNCHANGED taskvars
        BY <2>4, <3>4 DEF ReleaseSteps
      <3> QED  BY <2>19, <3>1, <3>2, <3>3, <3>4 DEF yields
    <2>20. CASE noYield(c)
      <3>1. MoveSteps("preempt", "iret", FALSE)
        BY DEF MoveSteps
      <3> QED  BY <1>1, <2>20, <3>1, MoveStep DEF noYield, lockvars
    <2> QED  BY <2>1, <2>5, <2>6, <2>7, <2>8, <2>9, <2>10, <2>11, <2>12, <2>13, <2>14,
             <2>15, <2>16, <2>17, <2>18, <2>19, <2>20
  <1>2. ASSUME SpInv, UNCHANGED spvars PROVE SpInv'
    BY <1>2 DEF spvars, lockvars, taskvars, SpInv, LockInv, LockTypes, TaskInv, TaskTypes,
       CpuRight, TaskRight, FlowRight, Top, Outer, Inner, Open
  <1> QED  BY <1>1, <1>2

\* ncli counts the locks that a CPU holds and the one that it spins for.
LEMMA HeldCounted ==
  ASSUME NEW c
  PROVE  Cardinality(Held(c)) = One(owner["tickslock"] = c) + One(owner["ptable"] = c)
  <1>1. CASE owner["tickslock"] = c /\ owner["ptable"] = c
    <2>1. Held(c) = {"tickslock"} \cup {"ptable"} /\ "ptable" \notin {"tickslock"}
      BY <1>1 DEF Held, Locks
    <2>2. IsFiniteSet({"tickslock"}) /\ Cardinality({"tickslock"}) = 1
      BY FS_Singleton
    <2>3. Cardinality({"tickslock"} \cup {"ptable"}) = 2
      BY <2>1, <2>2, FS_AddElement
    <2> QED  BY <1>1, <2>1, <2>3 DEF One
  <1>2. CASE owner["tickslock"] = c /\ owner["ptable"] # c
    <2>1. Held(c) = {"tickslock"}
      BY <1>2 DEF Held, Locks
    <2>2. Cardinality({"tickslock"}) = 1
      BY FS_Singleton
    <2> QED  BY <1>2, <2>1, <2>2 DEF One
  <1>3. CASE owner["tickslock"] # c /\ owner["ptable"] = c
    <2>1. Held(c) = {"ptable"}
      BY <1>3 DEF Held, Locks
    <2>2. Cardinality({"ptable"}) = 1
      BY FS_Singleton
    <2> QED  BY <1>3, <2>1, <2>2 DEF One
  <1>4. CASE owner["tickslock"] # c /\ owner["ptable"] # c
    <2>1. Held(c) = {}
      BY <1>4 DEF Held, Locks
    <2> QED  BY <1>4, <2>1, FS_EmptySet DEF One
  <1> QED  BY <1>1, <1>2, <1>3, <1>4

LEMMA SpInvSound == SpInv => SpinSound
  <1> SUFFICES ASSUME SpInv PROVE SpinSound
    OBVIOUS
  <1>1. InterruptsRight
    <2>1. SUFFICES ASSUME NEW c \in Cpus, NEW f, f = cur[c]
          PROVE  /\ eflags[c] => ncli[c] = 0 /\ Len(stack[f]) = 1
                 /\ ncli[c] = Cardinality(Held(c)) + (IF Top(f) \in Spinning THEN 1 ELSE 0)
                 /\ Top(f) \in {"user", "kernel", "idle", "again"} => eflags[c]
      BY DEF InterruptsRight
    <2>2. CpuRight(c) /\ FlowRight(f)
      BY <2>1 DEF SpInv, LockInv, LockTypes
    <2>3. ASSUME eflags[c] PROVE ncli[c] = 0 /\ Len(stack[f]) = 1
      <3>1. Top(f) \in {"user", "kernel", "again", "idle", "trapret", "sti"}
        BY <2>1, <2>2, <2>3 DEF CpuRight, Hears
      <3>2. ncli[c] = 0
        BY <2>1, <2>2, <3>1 DEF CpuRight, One, HasTicks, HasTable, Spinning
      <3>3. stack[f] = << Top(f) >>
        BY <2>2, <3>1, TopKind DEF Inner, TrapLabels, YieldLabels
      <3>4. Len(<< Top(f) >>) = 1
        OBVIOUS
      <3> QED  BY <3>2, <3>3, <3>4
    <2>4. ncli[c] = Cardinality(Held(c)) + (IF Top(f) \in Spinning THEN 1 ELSE 0)
      <3>1. ncli[c] = One(Top(f) \in HasTicks) + One(Top(f) \in HasTable)
                      + One(Top(f) \in Spinning)
        BY <2>1, <2>2 DEF CpuRight
      <3>2. /\ owner["tickslock"] = c <=> Top(f) \in HasTicks
            /\ owner["ptable"] = c <=> Top(f) \in HasTable
        BY <2>1, <2>2 DEF CpuRight
      <3>3. Cardinality(Held(c)) = One(owner["tickslock"] = c) + One(owner["ptable"] = c)
        BY HeldCounted
      <3>4. Cardinality(Held(c)) = One(Top(f) \in HasTicks) + One(Top(f) \in HasTable)
        BY <3>2, <3>3 DEF One
      <3> QED  BY <3>1, <3>4 DEF One
    <2>5. Top(f) \in {"user", "kernel", "idle", "again"} => eflags[c]
      BY <2>1, <2>2 DEF CpuRight, Hears
    <2> QED  BY <2>3, <2>4, <2>5
  <1>2. NoDeadlock
    BY DEF NoDeadlock, SpInv, LockInv, CpuRight, HasTicks, HasTable, Spinning
  <1>3. OneCpu
    BY DEF OneCpu, SpInv, LockInv, TaskInv, TaskRight
  <1>4. NoLostTick
    BY DEF NoLostTick, SpInv, TaskInv, TaskRight, Wakers
  <1> QED  BY <1>1, <1>2, <1>3, <1>4 DEF SpinSound, SpInv, LockInv

\* For any number of CPUs and of processes that sleep and are interrupted by
\* the timer: acquire(), release(), sched(), sleep() and wakeup() never
\* panic, ncli is the number of locks held and wanted and intena survives a
\* switch to another CPU; ptable.lock is the last lock taken; no process runs
\* on two CPUs; and none sleeps over a tick that has been announced.
THEOREM SpinlocksAreSound == SpInit /\ [][SpNext]_spvars => []SpinSound
  BY SpInitKeeps, SpNextKeeps, SpInvSound, PTL

-----------------------------------------------------------------------------
(* AddressSpace.                                                            *)

\* Multiples of the size of a page keep their order.
LEMMA Times ==
  ASSUME NEW P \in Nat \ {0}, NEW i \in Int, NEW j \in Int
  PROVE  /\ i * P < j * P <=> i < j
         /\ i * P <= j * P <=> i <= j
         /\ (i + 1) * P = i * P + P
         /\ i * P \in Int
  <1>1. /\ i < j => i * P < j * P
        /\ i = j => i * P = j * P
        /\ j < i => j * P < i * P
    OBVIOUS
  <1> QED BY <1>1

\* The addresses of the user pages.
Frames == {k * PGSIZE : k \in 0 .. USERTOP \div PGSIZE - 1}
Aligned(a) == \E k \in Int : a = k * PGSIZE

\* A page is the only one of its span, and those of user space have a frame.
LEMMA OnePage ==
  /\ \A x \in Frames : x \in Int /\ 0 <= x /\ x + PGSIZE <= USERTOP /\ Aligned(x)
  /\ \A x \in Int : Aligned(x) /\ 0 <= x /\ x < USERTOP => x \in Frames
  /\ \A x, y \in Int : Aligned(x) /\ Aligned(y) /\ y <= x /\ x < y + PGSIZE => x = y
  /\ \A x \in Int : Aligned(x) => Aligned(USERTOP - x) /\ Aligned(x + PGSIZE)
  /\ Aligned(0)
  <1>0. PGSIZE \in Nat \ {0} /\ USERTOP \in Nat
    BY VmAssumption
  <1>1. PICK T \in Nat : T = USERTOP \div PGSIZE /\ USERTOP = T * PGSIZE
    <2>1. USERTOP \div PGSIZE \in Nat /\ USERTOP = (USERTOP \div PGSIZE) * PGSIZE
      BY VmAssumption
    <2> QED  BY <2>1
  <1>2. ASSUME NEW x \in Frames PROVE x \in Int /\ 0 <= x /\ x + PGSIZE <= USERTOP /\ Aligned(x)
    <2>1. PICK k \in 0 .. T - 1 : x = k * PGSIZE
      BY <1>1 DEF Frames
    <2>2. 0 * PGSIZE <= k * PGSIZE /\ (k + 1) * PGSIZE <= T * PGSIZE
      BY <1>0, Times
    <2>3. (k + 1) * PGSIZE = k * PGSIZE + PGSIZE /\ k * PGSIZE \in Int /\ 0 * PGSIZE = 0
      BY <1>0, Times
    <2> QED  BY <1>1, <2>1, <2>2, <2>3 DEF Aligned
  <1>3. ASSUME NEW x \in Int, Aligned(x), 0 <= x, x < USERTOP PROVE x \in Frames
    <2>1. PICK k \in Int : x = k * PGSIZE
      BY <1>3 DEF Aligned
    <2>2. 0 * PGSIZE <= k * PGSIZE /\ k * PGSIZE < T * PGSIZE /\ 0 * PGSIZE = 0
      BY <1>0, <1>1, <1>3, <2>1
    <2>3. 0 <= k /\ k < T
      BY <1>0, <2>2, Times
    <2> QED  BY <1>1, <2>1, <2>3 DEF Frames
  <1>4. ASSUME NEW x \in Int, NEW y \in Int, Aligned(x), Aligned(y), y <= x, x < y + PGSIZE
        PROVE  x = y
    <2>1. PICK k \in Int, j \in Int : x = k * PGSIZE /\ y = j * PGSIZE
      BY <1>4 DEF Aligned
    <2>2. j * PGSIZE <= k * PGSIZE /\ k * PGSIZE < (j + 1) * PGSIZE
      BY <1>0, <1>4, <2>1, Times
    <2>3. j <= k /\ k < j + 1
      BY <1>0, <2>2, Times
    <2> QED  BY <2>1, <2>3
  <1>5. ASSUME NEW x \in Int, Aligned(x) PROVE Aligned(USERTOP - x) /\ Aligned(x + PGSIZE)
    <2>1. PICK k \in Int : x = k * PGSIZE
      BY <1>5 DEF Aligned
    <2>2. USERTOP - x = (T - k) * PGSIZE /\ x + PGSIZE = (k + 1) * PGSIZE
      BY <1>0, <1>1, <2>1
    <2>3. T - k \in Int /\ k + 1 \in Int
      OBVIOUS
    <2> QED  BY <2>2, <2>3 DEF Aligned
  <1>6. Aligned(0)
    <2>1. 0 = 0 * PGSIZE
      BY <1>0
    <2> QED  BY <2>1 DEF Aligned
  <1> QED  BY <1>2, <1>3, <1>4, <1>5, <1>6

LEMMA InSpan ==
  ASSUME NEW a, NEW b, NEW x
  PROVE  x \in Span(a, b) <=> x \in Frames /\ x \in Int /\ a <= x /\ x < b
  <1>1. x \in Frames => x \in Int
    BY OnePage
  <1> QED  BY <1>1 DEF Span, Frames

\* The stack is whole pages below USERTOP, and the heap ends below it.
VmInv ==
  /\ sz \in Nat /\ ss \in Nat /\ Aligned(ss) /\ emptied \in BOOLEAN
  /\ alive => sz + ss <= USERTOP
  /\ HeapStackApart

LEMMA VmInitKeeps == VmInit => VmInv
  <1> SUFFICES ASSUME VmInit PROVE VmInv
    OBVIOUS
  <1>0. PGSIZE \in Nat \ {0} /\ USERTOP \in Nat /\ USERTOP >= 2 * PGSIZE
    BY VmAssumption
  <1>1. sz = PGSIZE /\ ss = 0 /\ pages = {0} /\ vmPanic = "none" /\ alive /\ emptied = FALSE
    BY DEF VmInit
  <1>2. Heap = {0}
    <2>1. ASSUME NEW x \in Span(0, PGSIZE) PROVE x = 0
      <3>1. x \in Int /\ 0 <= x /\ x < 0 + PGSIZE /\ x \in Frames
        BY <1>0, <2>1, InSpan
      <3> QED  BY <3>1, OnePage
    <2>2. 0 \in Span(0, PGSIZE)
      <3>1. 0 \in Frames
        BY <1>0, OnePage
      <3> QED  BY <1>0, <3>1, InSpan
    <2> QED  BY <1>1, <2>1, <2>2 DEF Heap
  <1>3. Stack = {}
    <2>1. SUFFICES ASSUME NEW x, x \in Span(USERTOP - 0, USERTOP) PROVE FALSE
      BY <1>1 DEF Stack
    <2>2. x \in Int /\ USERTOP - 0 <= x /\ x < USERTOP
      BY <2>1, InSpan
    <2> QED  BY <1>0, <2>2
  <1>4. Aligned(ss) /\ sz + PGSIZE <= USERTOP - ss /\ sz + ss <= USERTOP
    BY <1>0, <1>1, OnePage
  <1> QED  BY <1>0, <1>1, <1>2, <1>3, <1>4 DEF VmInv, HeapStackApart

\* sbrk() upwards.
LEMMA GrowKeeps ==
  ASSUME VmInv, alive, vmPanic = "none", NEW n \in Grows, grow(n)
  PROVE  VmInv'
  <1>0. /\ PGSIZE \in Nat \ {0} /\ USERTOP \in Nat /\ n \in Int /\ sz \in Nat /\ ss \in Nat
        /\ n > 0 /\ sz + n <= USERTOP - ss - PGSIZE
        /\ Stack \subseteq pages /\ pages \subseteq Heap \cup Stack
        /\ emptied \/ Heap \subseteq pages
    BY VmAssumption DEF VmInv, grow, HeapStackApart
  <1>1. Span(sz, sz + n) \cap pages = {}
    <2>1. SUFFICES ASSUME NEW x, x \in Span(sz, sz + n), x \in Heap \cup Stack PROVE FALSE
      BY <1>0
    <2>2. x \in Int /\ sz <= x /\ x < sz + n /\ (x < sz \/ USERTOP - ss <= x)
      BY <2>1, InSpan DEF Heap, Stack
    <2> QED  BY <1>0, <2>2
  <1>2. /\ pages' = pages \cup Span(sz, sz + n) /\ sz' = sz + n
        /\ UNCHANGED << ss, alive, vmPanic, emptied >>
    BY <1>1 DEF grow, Remaps
  <1>3. Heap' = Heap \cup Span(sz, sz + n)
    <2>1. Heap' = Span(0, sz + n)
      BY <1>2 DEF Heap, Span
    <2>2. ASSUME NEW x PROVE x \in Span(0, sz + n) <=> x \in Span(0, sz) \/ x \in Span(sz, sz + n)
      <3>1. CASE x \notin Int
        BY <3>1, InSpan
      <3>2. CASE x \in Int
        BY <1>0, <3>2, InSpan
      <3> QED  BY <3>1, <3>2
    <2> QED  BY <2>1, <2>2 DEF Heap
  <1>4. Stack' = Stack
    BY <1>2 DEF Stack, Span
  <1>5. sz' + PGSIZE <= USERTOP - ss' /\ sz' + ss' <= USERTOP /\ sz' \in Nat
    BY <1>0, <1>2
  <1> QED  BY <1>0, <1>2, <1>3, <1>4, <1>5 DEF VmInv, HeapStackApart, Aligned
\* A lower end of the heap is no nearer to the stack.
LEMMA Lower ==
  ASSUME NEW s \in Nat, NEW t \in Nat, NEW S \in Nat, NEW P \in Nat, NEW U \in Nat,
         t <= s, s + S <= U, s + P <= U - S \/ (S = P /\ s + P <= U)
  PROVE  t + S <= U /\ (t + P <= U - S \/ (S = P /\ t + P <= U))
  OBVIOUS

\* sbrk() downwards.
LEMMA ShrinkKeeps ==
  ASSUME VmInv, alive, vmPanic = "none", NEW n \in Grows, shrink(n)
  PROVE  VmInv'
  <1>0. /\ PGSIZE \in Nat \ {0} /\ USERTOP \in Nat /\ n \in Int /\ sz \in Nat /\ ss \in Nat
        /\ n < 0 /\ sz + n >= 0 /\ sz + ss <= USERTOP
        /\ Stack \subseteq pages /\ pages \subseteq Heap \cup Stack
        /\ emptied \/ Heap \subseteq pages
        /\ \/ sz + PGSIZE <= USERTOP - ss
           \/ ss = PGSIZE /\ sz + PGSIZE <= USERTOP
    BY VmAssumption DEF VmInv, shrink, HeapStackApart
  <1>1. /\ pages' = pages \ Span(sz + n, sz) /\ UNCHANGED << ss, alive, vmPanic >>
        /\ \/ sz + n = 0 /\ emptied' = TRUE /\ sz' = sz
           \/ sz + n # 0 /\ sz' = sz + n /\ emptied' = emptied
    BY DEF shrink
  <1>2. Stack' = Stack /\ Stack \cap Span(sz + n, sz) = {}
    <2>1. ASSUME NEW x, x \in Span(USERTOP - ss, USERTOP), x \in Span(sz + n, sz) PROVE FALSE
      <3>1. x \in Int /\ USERTOP - ss <= x /\ x < sz
        BY <2>1, InSpan
      <3> QED  BY <1>0, <3>1
    <2> QED  BY <1>1, <2>1 DEF Stack, Span
  <1>3. Heap' \subseteq Heap /\ Heap \ Span(sz + n, sz) \subseteq Heap'
        /\ (sz + n # 0 => Heap' \cap Span(sz + n, sz) = {})
    <2>1. Heap' = Span(0, sz')
      BY DEF Heap, Span
    <2>2. sz' \in Int /\ (sz' = sz \/ sz' = sz + n) /\ (sz + n # 0 => sz' = sz + n)
      BY <1>0, <1>1
    <2>3. ASSUME NEW x \in Int
          PROVE  /\ x \in Span(0, sz') => x \in Span(0, sz)
                 /\ x \in Span(0, sz) /\ x \notin Span(sz + n, sz) => x \in Span(0, sz')
                 /\ sz + n # 0 => ~ (x \in Span(0, sz') /\ x \in Span(sz + n, sz))
      BY <1>0, <2>2, InSpan
    <2>4. \A x : x \in Span(0, sz) \/ x \in Span(0, sz') => x \in Int
      BY InSpan
    <2> QED  BY <2>1, <2>3, <2>4 DEF Heap
  <1>4. /\ sz' \in Nat /\ sz' <= sz /\ emptied' \in BOOLEAN
        /\ emptied' \/ Heap' \subseteq pages'
    <2>1. CASE sz + n = 0
      <3>1. emptied' = TRUE /\ sz' = sz
        BY <1>1, <2>1
      <3>2. sz \in Nat /\ sz <= sz
        BY <1>0
      <3> QED  BY <3>1, <3>2
    <2>2. CASE sz + n # 0
      <3>1. sz' = sz + n /\ emptied' = emptied /\ emptied \in BOOLEAN
        BY <1>1, <2>2 DEF VmInv
      <3>2. emptied \/ Heap' \subseteq pages'
        BY <1>0, <1>1, <1>3, <2>2
      <3> QED  BY <1>0, <3>1, <3>2
    <2> QED  BY <2>1, <2>2
  <1>5. Stack' \subseteq pages' /\ pages' \subseteq Heap' \cup Stack'
    BY <1>0, <1>1, <1>2, <1>3
  <1>6. /\ sz' + ss' <= USERTOP
        /\ \/ sz' + PGSIZE <= USERTOP - ss'
           \/ ss' = PGSIZE /\ sz' + PGSIZE <= USERTOP
    <2>1. sz' \in Nat /\ sz' <= sz /\ ss' = ss
      BY <1>1, <1>4
    <2>2. /\ PGSIZE \in Nat /\ USERTOP \in Nat /\ sz \in Nat /\ ss \in Nat /\ sz + ss <= USERTOP
          /\ \/ sz + PGSIZE <= USERTOP - ss
             \/ ss = PGSIZE /\ sz + PGSIZE <= USERTOP
      BY <1>0
    <2> QED  BY <2>1, <2>2, Lower
  <1>7. vmPanic' = "none" /\ Aligned(ss)'
    BY <1>1 DEF VmInv, Aligned
  <1> QED  BY <1>0, <1>1, <1>4, <1>5, <1>6, <1>7 DEF VmInv, HeapStackApart

\* The page fault.
LEMMA FaultKeeps ==
  ASSUME VmInv, alive, vmPanic = "none", pagefault
  PROVE  VmInv'
  <1>0. /\ PGSIZE \in Nat \ {0} /\ USERTOP \in Nat /\ sz \in Nat /\ ss \in Nat /\ Aligned(ss)
        /\ Stack \subseteq pages /\ pages \subseteq Heap \cup Stack
        /\ emptied \/ Heap \subseteq pages
    BY VmAssumption DEF VmInv, HeapStackApart
  <1>1. PICK old : old = USERTOP - ss - PGSIZE
    OBVIOUS
  <1>2. Aligned(ss + PGSIZE) /\ ss + PGSIZE \in Nat /\ old = USERTOP - (ss + PGSIZE)
        /\ Aligned(old) /\ old \in Int
    BY <1>0, <1>1, OnePage
  <1>3. CASE ~ Refused(old, USERTOP - ss)
    <2>1. old >= sz + PGSIZE
      BY <1>0, <1>1, <1>3 DEF Refused, TooClose
    <2>2. Span(old, USERTOP - ss) \cap pages = {}
      <3>1. ASSUME NEW x, x \in Span(old, USERTOP - ss),
                   x \in Span(0, sz) \/ x \in Span(USERTOP - ss, USERTOP)
            PROVE  FALSE
        <4>1. x \in Int /\ old <= x /\ x < USERTOP - ss /\ (x < sz \/ USERTOP - ss <= x)
          BY <3>1, InSpan
        <4> QED  BY <1>0, <1>2, <2>1, <4>1
      <3> QED  BY <1>0, <3>1 DEF Heap, Stack
    <2>3. CASE /\ pages' = pages \cup {old} /\ ss' = ss + PGSIZE
               /\ UNCHANGED << sz, alive, vmPanic, emptied >>
      <3>1. old \in Frames
        BY <1>0, <1>1, <1>2, <2>1, OnePage
      <3>2. Heap' = Heap
        BY <2>3 DEF Heap, Span
      <3>3. Stack' = Stack \cup {old}
        <4>1. Stack' = Span(old, USERTOP)
          <5>1. USERTOP - ss' = old
            BY <1>0, <1>1, <2>3
          <5> QED  BY <5>1 DEF Stack, Span
        <4>2. ASSUME NEW x \in Int
              PROVE  x \in Span(old, USERTOP) <=> x \in Span(USERTOP - ss, USERTOP) \/ x = old
          <5>1. x \in Frames /\ old <= x /\ x < old + PGSIZE => x = old
            BY <1>0, <1>2, OnePage
          <5> QED  BY <1>0, <1>1, <1>2, <3>1, <5>1, InSpan, OnePage
        <4>3. \A x : x \in Span(old, USERTOP) \/ x \in Span(USERTOP - ss, USERTOP) => x \in Int
          BY InSpan
        <4> QED  BY <1>2, <4>1, <4>2, <4>3 DEF Stack
      <3>4. sz' + PGSIZE <= USERTOP - ss' /\ sz' + ss' <= USERTOP
        BY <1>0, <1>1, <2>1, <2>3
      <3>5. Aligned(ss)' /\ ss' \in Nat
        BY <1>2, <2>3 DEF Aligned
      <3> QED  BY <1>0, <2>3, <3>2, <3>3, <3>4, <3>5 DEF VmInv, HeapStackApart
    <2>4. CASE /\ alive' = FALSE /\ pages' = {} /\ ss' = ss + PGSIZE
               /\ UNCHANGED << sz, vmPanic, emptied >>
      BY <1>0, <1>2, <2>4 DEF VmInv, HeapStackApart, Aligned
    <2> QED  BY <1>1, <2>2, <2>3, <2>4 DEF pagefault, Remaps
  <1>4. CASE /\ alive' = FALSE /\ pages' = {} /\ ss' = ss + PGSIZE
             /\ UNCHANGED << sz, vmPanic, emptied >>
    BY <1>0, <1>2, <1>4 DEF VmInv, HeapStackApart, Aligned
  <1> QED  BY <1>1, <1>3, <1>4 DEF pagefault

\* exec().
LEMMA ExecKeeps ==
  ASSUME VmInv, alive, vmPanic = "none", NEW image \in Images, exec(image)
  PROVE  VmInv'
  <1>0. /\ PGSIZE \in Nat \ {0} /\ USERTOP \in Nat /\ USERTOP >= 2 * PGSIZE
        /\ image \in Nat /\ sz \in Nat /\ ss \in Nat /\ Aligned(ss)
    BY VmAssumption DEF VmInv
  <1>1. PICK new, top : new = image + PGSIZE /\ top = USERTOP - PGSIZE
    OBVIOUS
  <1>2. /\ ~ Refused(0, new) /\ ~ Refused(top, USERTOP)
        /\ \/ Remaps(Span(0, new), top, USERTOP) /\ VmPanic("remap in exec")
           \/ /\ ~ Remaps(Span(0, new), top, USERTOP)
              /\ pages' = Span(0, new) \cup {top}
              /\ sz' = new /\ ss' = PGSIZE /\ emptied' = FALSE
              /\ UNCHANGED << alive, vmPanic >>
    BY <1>1 DEF exec
  <1>3. CASE VmPanic("remap in exec")
    BY <1>3 DEF VmPanic, VmInv, HeapStackApart, Aligned
  <1>4. CASE /\ ~ Remaps(Span(0, new), top, USERTOP)
             /\ pages' = Span(0, new) \cup {top}
             /\ sz' = new /\ ss' = PGSIZE /\ emptied' = FALSE
             /\ UNCHANGED << alive, vmPanic >>
    <2>1. Aligned(PGSIZE) /\ Aligned(top) /\ top \in Frames /\ new \in Nat /\ top \in Int
      <3>1. Aligned(0 + PGSIZE)
        BY OnePage
      <3>2. Aligned(PGSIZE)
        BY <1>0, <3>1
      <3>3. Aligned(top)
        BY <1>0, <1>1, <3>2, OnePage
      <3> QED  BY <1>0, <1>1, <3>2, <3>3, OnePage
    <2>2. Span(0, new) \cap Span(top, USERTOP) = {}
      BY <1>2, <1>4 DEF Remaps
    <2>3. new <= top
      <3>1. top \in Span(top, USERTOP)
        BY <1>0, <1>1, <2>1, InSpan
      <3>2. top \notin Span(0, new)
        BY <2>2, <3>1
      <3> QED  BY <1>0, <1>1, <2>1, <3>2, InSpan
    <2>4. Heap' = Span(0, new)
      BY <1>4 DEF Heap, Span
    <2>5. Stack' = {top}
      <3>1. Stack' = Span(top, USERTOP)
        BY <1>1, <1>4 DEF Stack, Span
      <3>2. ASSUME NEW x \in Int PROVE x \in Span(top, USERTOP) <=> x = top
        <4>1. x \in Frames /\ top <= x /\ x < top + PGSIZE => x = top
          BY <1>0, <2>1, OnePage
        <4> QED  BY <1>0, <1>1, <2>1, <4>1, InSpan
      <3>3. \A x \in Span(top, USERTOP) : x \in Int
        BY InSpan
      <3> QED  BY <2>1, <3>1, <3>2, <3>3
    <2>6. sz' + PGSIZE <= USERTOP /\ sz' + ss' <= USERTOP /\ Aligned(ss)'
      BY <1>0, <1>1, <1>4, <2>1, <2>3 DEF Aligned
    <2> QED  BY <1>0, <1>4, <2>1, <2>4, <2>5, <2>6 DEF VmInv, HeapStackApart
  <1> QED  BY <1>2, <1>3, <1>4

\* fork().
LEMMA ForkKeeps ==
  ASSUME VmInv, alive, vmPanic = "none", fork
  PROVE  VmInv'
  <1>1. CASE Heap \cup Stack \subseteq pages
    BY <1>1 DEF fork, Copied, VmInv, HeapStackApart, Heap, Stack, Span, Aligned
  <1>2. CASE ~ (Heap \cup Stack \subseteq pages)
    <2>1. emptied
      BY <1>2 DEF VmInv, HeapStackApart
    <2> QED  BY <1>2, <2>1 DEF fork, VmPanic, VmInv, HeapStackApart, Aligned
  <1> QED  BY <1>1, <1>2

\* For every size of user space and every sequence of sbrk(), page faults,
\* exec() and fork(): what is mapped is the heap and the stack, they are
\* apart, sbrk() and the page fault map no page twice, and a fork that
\* panics follows an sbrk() that gave back all of the program.
THEOREM HeapAndStackStayApart == VmSpec => []HeapStackApart
  <1>1. VmInv /\ [VmNext]_vmvars => VmInv'
    <2>1. ASSUME VmInv, VmNext PROVE VmInv'
      BY <2>1, GrowKeeps, ShrinkKeeps, FaultKeeps, ExecKeeps, ForkKeeps DEF VmNext
    <2>2. ASSUME VmInv, UNCHANGED vmvars PROVE VmInv'
      BY <2>2 DEF vmvars, VmInv, HeapStackApart, Heap, Stack, Span, Aligned
    <2> QED  BY <2>1, <2>2
  <1>2. VmInv => HeapStackApart
    BY DEF VmInv
  <1> QED  BY VmInitKeeps, <1>1, <1>2, PTL DEF VmSpec

-----------------------------------------------------------------------------
(* Console: indices that wrap.                                              *)

\* Division with rest.
LEMMA Rest ==
  ASSUME NEW B \in Nat \ {0}, NEW x \in Int
  PROVE  x % B \in 0 .. B - 1 /\ \E q \in Int : x = q * B + (x % B)
  <1>1. x % B \in 0 .. B - 1
    OBVIOUS
  <1>2. x \div B \in Int
    OBVIOUS
  <1>3. x = B * (x \div B) + (x % B)
    OBVIOUS
  <1>4. PICK q \in Int : q = x \div B
    BY <1>2
  <1>5. x = q * B + (x % B)
    BY <1>3, <1>4
  <1> QED  BY <1>1, <1>5

LEMMA RestIs ==
  ASSUME NEW B \in Nat \ {0}, NEW q \in Int, NEW s \in 0 .. B - 1
  PROVE  (q * B + s) % B = s
  <1>1. PICK x \in Int : x = q * B + s
    BY Times
  <1>2. PICK p \in Int : x = p * B + (x % B)
    BY Rest
  <1>3. PICK t \in 0 .. B - 1 : t = x % B
    BY Rest
  <1>4. q * B \in Int /\ p * B \in Int /\ (q + 1) * B = q * B + B /\ (p + 1) * B = p * B + B
    BY Times
  <1>5. q * B < (p + 1) * B /\ p * B < (q + 1) * B
    <2>1. PICK a \in Int, b \in Int : a = q * B /\ b = p * B
      BY <1>4
    <2>2. x = a + s /\ x = b + t /\ (q + 1) * B = a + B /\ (p + 1) * B = b + B
      BY <1>1, <1>2, <1>3, <1>4, <2>1
    <2>3. a < b + B /\ b < a + B
      BY <2>2
    <2> QED  BY <2>1, <2>2, <2>3
  <1>6. q < p + 1 /\ p < q + 1
    BY <1>5, Times
  <1>7. p = q
    BY <1>6
  <1> QED  BY <1>1, <1>2, <1>3, <1>4, <1>7

\* The rest of an index that has wrapped.
LEMMA RestShifts ==
  ASSUME NEW B \in Nat \ {0}, NEW m \in Nat, NEW x \in Int
  PROVE  (x - m * B) % B = x % B
  <1>1. PICK q \in Int : x = q * B + (x % B)
    BY Rest
  <1>2. PICK s \in 0 .. B - 1 : s = x % B
    BY Rest
  <1>3. x - m * B = (q - m) * B + s
    <2>1. PICK a \in Int, b \in Int : a = q * B /\ b = m * B
      BY Times
    <2>2. (q - m) * B = q * B - m * B
      OBVIOUS
    <2>3. x = a + s
      BY <1>1, <1>2, <2>1
    <2>4. x - b = (a - b) + s
      BY <2>3
    <2> QED  BY <2>1, <2>2, <2>4
  <1>4. q - m \in Int
    OBVIOUS
  <1> QED  BY <1>2, <1>3, <1>4, RestIs

LEMMA RestsDiffer ==
  ASSUME NEW B \in Nat \ {0}, NEW x \in Int, NEW y \in Int, x < y, y < x + B
  PROVE  x % B # y % B
  <1>1. SUFFICES ASSUME x % B = y % B PROVE FALSE
    OBVIOUS
  <1>2. PICK p \in Int : x = p * B + (x % B)
    BY Rest
  <1>3. PICK q \in Int : y = q * B + (y % B)
    BY Rest
  <1>4. PICK s \in 0 .. B - 1 : s = x % B
    BY Rest
  <1>5. p * B < q * B /\ q * B < (p + 1) * B
    BY <1>1, <1>2, <1>3, <1>4, Times
  <1> QED  BY <1>5, Times

\* An index below twice the modulus.
LEMMA Wraps ==
  ASSUME NEW N \in Nat \ {0}, NEW x \in 0 .. 2 * N - 1
  PROVE  x % N = IF x < N THEN x ELSE x - N
  <1>1. CASE x < N
    <2>1. x = 0 * N + x
      OBVIOUS
    <2> QED  BY <1>1, <2>1, RestIs
  <1>2. CASE ~ (x < N)
    <2>1. x = 1 * N + (x - N) /\ x - N \in 0 .. N - 1
      BY <1>2
    <2> QED  BY <1>2, <2>1, RestIs
  <1> QED  BY <1>1, <1>2

\* An index may wrap before something is added to it.
LEMMA WrapsFirst ==
  ASSUME INDEX \in Nat \ {0}, NEW x \in 0 .. 2 * INDEX - 1, NEW j \in Nat,
         NEW B \in Nat \ {0}, NEW m \in Nat, INDEX = m * B
  PROVE  ((x % INDEX) + j) % B = (x + j) % B
  <1>1. PICK y \in Int : y = x % INDEX /\ (y = x \/ y = x - INDEX)
    <2>1. x % INDEX = x \/ x % INDEX = x - INDEX
      BY Wraps
    <2>2. x % INDEX \in Int
      BY Rest
    <2> QED  BY <2>1, <2>2
  <1>2. CASE y = x
    BY <1>1, <1>2
  <1>3. CASE y = x - INDEX
    <2>1. y + j = (x + j) - m * B
      <3>1. PICK a \in Int : a = m * B /\ a = INDEX
        OBVIOUS
      <3>2. y + j = (x + j) - a
        BY <1>3, <3>1
      <3> QED  BY <3>1, <3>2
    <2>2. x + j \in Int
      OBVIOUS
    <2>3. ((x + j) - m * B) % B = (x + j) % B
      BY <2>2, RestShifts
    <2> QED  BY <1>1, <2>1, <2>3
  <1> QED  BY <1>1, <1>2, <1>3

\* The same for the ring and for the indices of the console.
LEMMA Index ==
  /\ INPUT_BUF \in Nat \ {0} /\ INDEX \in Nat \ {0} /\ INDEX >= 2 * INPUT_BUF
  /\ \A x \in 0 .. 2 * INDEX - 1, j \in Nat :
       /\ ((x % INDEX) + j) % INPUT_BUF = (x + j) % INPUT_BUF
       /\ ((x % INDEX) + j) % INDEX = (x + j) % INDEX
       /\ (x % INDEX) % INPUT_BUF = x % INPUT_BUF
       /\ x % INDEX = IF x < INDEX THEN x ELSE x - INDEX
  <1>1. INPUT_BUF \in Nat \ {0} /\ INDEX \in Nat \ {0} /\ INDEX >= 2 * INPUT_BUF
    BY ConAssumption
  <1>2. PICK m \in Nat \ {0} : INDEX = m * INPUT_BUF
    <2>1. INDEX \div INPUT_BUF \in Nat /\ INDEX = (INDEX \div INPUT_BUF) * INPUT_BUF
      BY ConAssumption
    <2>2. INDEX \div INPUT_BUF # 0
      <3>1. 0 * INPUT_BUF = 0
        BY <1>1
      <3> QED  BY <1>1, <2>1, <3>1
    <2> QED  BY <2>1, <2>2
  <1>3. ASSUME NEW x \in 0 .. 2 * INDEX - 1, NEW j \in Nat
        PROVE  /\ ((x % INDEX) + j) % INPUT_BUF = (x + j) % INPUT_BUF
               /\ ((x % INDEX) + j) % INDEX = (x + j) % INDEX
               /\ (x % INDEX) % INPUT_BUF = x % INPUT_BUF
               /\ x % INDEX = IF x < INDEX THEN x ELSE x - INDEX
    <2>1. ((x % INDEX) + j) % INPUT_BUF = (x + j) % INPUT_BUF
      BY <1>1, <1>2, WrapsFirst
    <2>2. ((x % INDEX) + j) % INDEX = (x + j) % INDEX
      <3>1. PICK one \in Nat, N \in Nat \ {0} : INDEX = one * N /\ N = INDEX
        <4>1. INDEX = 1 * INDEX
          BY <1>1
        <4> QED  BY <1>1, <4>1
      <3>2. ((x % INDEX) + j) % N = (x + j) % N
        BY <1>1, <3>1, WrapsFirst, ZenonT(60)
      <3> QED  BY <3>1, <3>2
    <2>3. ((x % INDEX) + 0) % INPUT_BUF = (x + 0) % INPUT_BUF
      <3>1. \A i \in Nat : ((x % INDEX) + i) % INPUT_BUF = (x + i) % INPUT_BUF
        BY <1>1, <1>2, WrapsFirst
      <3>2. 0 \in Nat
        OBVIOUS
      <3> QED  BY <3>1, <3>2, Zenon
    <2>4. (x % INDEX) + 0 = x % INDEX /\ x + 0 = x
      BY <1>1, Rest
    <2>5. x % INDEX = IF x < INDEX THEN x ELSE x - INDEX
      BY <1>1, Wraps
    <2> QED  BY <2>1, <2>2, <2>3, <2>4, <2>5
  <1> QED  BY <1>1, <1>3

\* Plus() and Minus() are inverse to each other.
LEMMA PlusMinus ==
  ASSUME NEW i \in 0 .. INDEX - 1, NEW a \in Nat, NEW b \in Nat, a + b < INDEX
  PROVE  /\ Plus(i, a) \in 0 .. INDEX - 1
         /\ Minus(Plus(i, a + b), Plus(i, a)) = b
         /\ Minus(Plus(i, a), i) = a
         /\ Plus(Plus(i, a), b) = Plus(i, a + b)
         /\ Plus(i, 0) = i
         /\ b = 1 => Minus(Plus(i, a + 1), 1) = Plus(i, a)
  <1>1. /\ INDEX \in Nat \ {0}
        /\ \A x \in 0 .. 2 * INDEX - 1 : x % INDEX = IF x < INDEX THEN x ELSE x - INDEX
    BY Index
  <1>2. /\ i + a \in 0 .. 2 * INDEX - 1 /\ i + (a + b) \in 0 .. 2 * INDEX - 1
        /\ i + 0 \in 0 .. 2 * INDEX - 1
    BY <1>1
  <1>3. PICK u \in Int : u = Plus(i, a) /\ u = IF i + a < INDEX THEN i + a ELSE i + a - INDEX
    BY <1>1, <1>2 DEF Plus
  <1>4. PICK v \in Int : /\ v = Plus(i, a + b)
                         /\ v = IF i + (a + b) < INDEX THEN i + (a + b) ELSE i + (a + b) - INDEX
    BY <1>1, <1>2 DEF Plus
  <1>5. u \in 0 .. INDEX - 1 /\ v \in 0 .. INDEX - 1
    BY <1>1, <1>3, <1>4
  <1>6. Minus(v, u) = b
    <2>1. v + INDEX - u \in 0 .. 2 * INDEX - 1
      BY <1>1, <1>5
    <2>2. v + INDEX - u = b \/ v + INDEX - u = b + INDEX
      <3>1. INDEX \in Nat
        BY <1>1
      <3>2. u = i + a \/ u = i + a - INDEX
        BY <1>3
      <3>3. CASE i + (a + b) < INDEX
        <4>1. u = i + a /\ v = i + (a + b)
          BY <1>3, <1>4, <3>1, <3>3
        <4> QED  BY <3>1, <4>1
      <3>4. CASE ~ (i + (a + b) < INDEX)
        <4>1. v = i + (a + b) - INDEX
          BY <1>4, <3>4
        <4> QED  BY <3>1, <3>2, <4>1
      <3> QED  BY <3>3, <3>4
    <2> QED  BY <1>1, <2>1, <2>2 DEF Minus
  <1>7. Minus(u, i) = a
    <2>1. u + INDEX - i \in 0 .. 2 * INDEX - 1
      BY <1>1, <1>5
    <2>2. u + INDEX - i = a \/ u + INDEX - i = a + INDEX
      BY <1>1, <1>3
    <2> QED  BY <1>1, <2>1, <2>2 DEF Minus
  <1>8. Plus(u, b) = v
    <2>1. u + b \in 0 .. 2 * INDEX - 1
      BY <1>1, <1>5
    <2>2. u + b = v \/ u + b = v + INDEX
      BY <1>1, <1>3, <1>4
    <2> QED  BY <1>1, <1>5, <2>1, <2>2 DEF Plus
  <1>9. Plus(i, 0) = i
    BY <1>1, <1>2 DEF Plus
  <1>a. b = 1 => Minus(v, 1) = u
    <2>1. SUFFICES ASSUME b = 1 PROVE Minus(v, 1) = u
      OBVIOUS
    <2>2. v + INDEX - 1 \in 0 .. 2 * INDEX - 1
      BY <1>1, <1>5
    <2>3. v + INDEX - 1 = u \/ v + INDEX - 1 = u + INDEX
      <3>1. INDEX \in Nat
        BY <1>1
      <3>2. u = i + a \/ u = i + a - INDEX
        BY <1>3
      <3>3. CASE i + (a + b) < INDEX
        <4>1. u = i + a /\ v = i + (a + b)
          BY <1>3, <1>4, <3>1, <3>3
        <4> QED  BY <2>1, <3>1, <4>1
      <3>4. CASE ~ (i + (a + b) < INDEX)
        <4>1. v = i + (a + b) - INDEX
          BY <1>4, <3>4
        <4> QED  BY <2>1, <3>1, <3>2, <4>1
      <3> QED  BY <3>3, <3>4
    <2> QED  BY <1>1, <1>5, <2>2, <2>3 DEF Minus
  <1> QED  BY <1>3, <1>4, <1>5, <1>6, <1>7, <1>8, <1>9, <1>a

-----------------------------------------------------------------------------
(* Console: the inductive invariant.                                        *)

Keys == {"x", "\n", "D"}
InRing(i) == buf[(r + i) % INPUT_BUF]

\* The ring from input.r on: the lines, then the line being typed, in which
\* no key has ended it.
ConInv ==
  /\ buf \in [0 .. INPUT_BUF - 1 -> Keys] /\ r \in 0 .. INDEX - 1
  /\ lines \in Seq(Keys) /\ edit \in Seq({"x"})
  /\ Len(lines) + Len(edit) <= INPUT_BUF
  /\ w = Plus(r, Len(lines)) /\ e = Plus(r, Len(lines) + Len(edit))
  /\ \A i \in 1 .. Len(lines) : InRing(i - 1) = lines[i]
  /\ \A i \in 1 .. Len(edit) : InRing(Len(lines) + (i - 1)) = "x"
  /\ asleep # {} => Len(lines) = 0
  /\ Len(lines) + Len(edit) = INPUT_BUF => Len(lines) # 0

\* What the differences of the indices are.
LEMMA ConLengths ==
  ASSUME ConInv
  PROVE  /\ Len(lines) \in Nat /\ Len(edit) \in Nat
         /\ Minus(w, r) = Len(lines) /\ Minus(e, w) = Len(edit)
         /\ Minus(e, r) = Len(lines) + Len(edit)
         /\ r = w <=> Len(lines) = 0
         /\ e = w <=> Len(edit) = 0
         /\ r \in 0 .. INDEX - 1 /\ w \in 0 .. INDEX - 1 /\ e \in 0 .. INDEX - 1
         /\ \A i \in 0 .. INPUT_BUF : Char(Plus(r, i)) = InRing(i)
  <1>1. PICK L \in Nat, E \in Nat : L = Len(lines) /\ E = Len(edit)
    BY DEF ConInv
  <1>2. INPUT_BUF \in Nat \ {0} /\ INDEX \in Nat \ {0} /\ INDEX >= 2 * INPUT_BUF
    BY Index
  <1>3. L + E < INDEX /\ L + E <= INPUT_BUF
    BY <1>1, <1>2 DEF ConInv
  <1>4. r \in 0 .. INDEX - 1 /\ w = Plus(r, L) /\ e = Plus(r, L + E)
    BY <1>1 DEF ConInv
  <1>5. w \in 0 .. INDEX - 1 /\ Minus(e, w) = E /\ Minus(w, r) = L
    <2>1. /\ Plus(r, L) \in 0 .. INDEX - 1 /\ Minus(Plus(r, L + E), Plus(r, L)) = E
          /\ Minus(Plus(r, L), r) = L
      <3>1. PICK i \in 0 .. INDEX - 1 : i = r
        BY <1>4
      <3>2. L + E < INDEX
        BY <1>3
      <3>4. Plus(i, L) \in 0 .. INDEX - 1
        BY <3>2, PlusMinus
      <3>5. Minus(Plus(i, L + E), Plus(i, L)) = E
        BY <3>2, PlusMinus
      <3>6. Minus(Plus(i, L), i) = L
        BY <3>2, PlusMinus
      <3> QED  BY <3>1, <3>4, <3>5, <3>6
    <2> QED  BY <1>4, <2>1
  <1>6. e \in 0 .. INDEX - 1 /\ Minus(e, r) = L + E
    <2>1. PICK s \in Nat : s = L + E /\ s + 0 < INDEX
      BY <1>3
    <2>2. 0 \in Nat
      OBVIOUS
    <2> QED  BY <1>4, <2>1, <2>2, PlusMinus
  <1>7. Minus(r, r) = 0 /\ Minus(w, w) = 0
    <2>1. ASSUME NEW i \in 0 .. INDEX - 1 PROVE Minus(i, i) = 0
      <3>1. i + INDEX - i = INDEX /\ INDEX \in 0 .. 2 * INDEX - 1
        BY <1>2
      <3> QED  BY <1>2, <3>1, Index DEF Minus
    <2> QED  BY <2>1, <1>4, <1>5
  <1>8. (r = w <=> L = 0) /\ (e = w <=> E = 0)
    <2>1. L = 0 => w = r
      BY <1>3, <1>4, PlusMinus
    <2>2. E = 0 => e = w
      BY <1>4
    <2> QED  BY <2>1, <2>2, <1>5, <1>7
  <1>9. ASSUME NEW i \in 0 .. INPUT_BUF PROVE Char(Plus(r, i)) = InRing(i)
    <2>1. r + i \in 0 .. 2 * INDEX - 1
      BY <1>2, <1>4
    <2>2. ((r + i) % INDEX) % INPUT_BUF = (r + i) % INPUT_BUF
      BY <2>1, Index
    <2> QED  BY <2>2 DEF Char, Plus, InRing
  <1> QED  BY <1>1, <1>4, <1>5, <1>6, <1>8, <1>9

LEMMA ConInvSound == ConInv => ConsoleSound
  <1> SUFFICES ASSUME ConInv PROVE ConsoleSound
    OBVIOUS
  <1>1. PICK L \in Nat, E \in Nat : L = Len(lines) /\ E = Len(edit)
    BY ConLengths
  <1>2. /\ Minus(w, r) = L /\ Minus(e, w) = E /\ Minus(e, r) = L + E /\ L + E <= INPUT_BUF
        /\ r = w <=> L = 0
        /\ INPUT_BUF \in Nat
    BY <1>1, ConLengths, Index DEF ConInv
  <1>3. ASSUME NEW i \in 1 .. L + E PROVE Char(Plus(r, i - 1)) = (lines \o edit)[i]
    <2>1. Char(Plus(r, i - 1)) = InRing(i - 1)
      <3>1. i - 1 \in 0 .. INPUT_BUF
        BY <1>2
      <3> QED  BY <3>1, ConLengths
    <2>2. lines \in Seq(Keys) /\ edit \in Seq(Keys) /\ edit \in Seq({"x"})
      BY DEF ConInv, Keys
    <2>3. (lines \o edit)[i] = IF i <= L THEN lines[i] ELSE edit[i - L]
      BY <1>1, <2>2
    <2>4. CASE i <= L
      BY <1>1, <2>1, <2>3, <2>4 DEF ConInv
    <2>5. CASE ~ (i <= L)
      <3>1. PICK j \in 1 .. E : i - L = j /\ i - 1 = L + (j - 1)
        BY <2>5
      <3>2. edit[j] = "x"
        BY <1>1, <2>2
      <3>3. InRing(L + (j - 1)) = "x"
        BY <1>1 DEF ConInv
      <3> QED  BY <2>1, <2>3, <2>5, <3>1, <3>2, <3>3
    <2> QED  BY <2>4, <2>5
  <1>4. (asleep # {} => r = w) /\ (Minus(e, r) = INPUT_BUF => r # w)
    BY <1>1, <1>2 DEF ConInv
  <1> QED  BY <1>1, <1>2, <1>3, <1>4 DEF ConsoleSound

LEMMA ConInitKeeps == ConInit => ConInv
  <1> SUFFICES ASSUME ConInit PROVE ConInv
    OBVIOUS
  <1>1. INPUT_BUF \in Nat \ {0} /\ INDEX \in Nat \ {0}
    BY Index
  <1>2. Len(lines) = 0 /\ Len(edit) = 0 /\ lines \in Seq(Keys) /\ edit \in Seq({"x"})
    BY DEF ConInit
  <1>3. 0 \in 0 .. INDEX - 1 /\ Plus(0, 0) = 0
    <2>1. 0 \in 0 .. INDEX - 1 /\ 0 + 0 < INDEX /\ 0 \in Nat
      BY <1>1
    <2> QED  BY <2>1, PlusMinus
  <1> QED  BY <1>1, <1>2, <1>3 DEF ConInv, ConInit, Keys

\* A key: the slot it takes is none of those in use.
LEMMA KeyKeeps ==
  ASSUME ConInv, NEW c \in Keys, key(c)
  PROVE  ConInv'
  <1>1. PICK L \in Nat, E \in Nat : L = Len(lines) /\ E = Len(edit)
    BY ConLengths
  <1>2. INPUT_BUF \in Nat \ {0} /\ INDEX \in Nat \ {0} /\ INDEX >= 2 * INPUT_BUF
    BY Index
  <1>3. /\ L + E < INPUT_BUF /\ r \in 0 .. INDEX - 1 /\ e = Plus(r, L + E)
        /\ w = Plus(r, L) /\ lines \in Seq(Keys) /\ edit \in Seq({"x"})
        /\ buf \in [0 .. INPUT_BUF - 1 -> Keys] /\ r' = r
    BY <1>1, ConLengths DEF ConInv, key
  <1>4. e' = Plus(r, L + E + 1) /\ Plus(e, 1) = Plus(r, L + E + 1)
    <2>1. PICK s \in Nat : s = L + E /\ s + 1 < INDEX /\ s + 1 = L + E + 1
      BY <1>2, <1>3
    <2>2. Plus(Plus(r, s), 1) = Plus(r, s + 1)
      BY <1>3, <2>1, PlusMinus
    <2> QED  BY <1>3, <2>1, <2>2 DEF key
  <1>5. PICK at \in 0 .. INPUT_BUF - 1 : at = (r + (L + E)) % INPUT_BUF /\ at = e % INPUT_BUF
    <2>1. r + (L + E) \in 0 .. 2 * INDEX - 1
      BY <1>2, <1>3
    <2>2. ((r + (L + E)) % INDEX) % INPUT_BUF = (r + (L + E)) % INPUT_BUF
      BY <2>1, Index
    <2>3. (r + (L + E)) % INPUT_BUF \in 0 .. INPUT_BUF - 1
      <3>1. PICK x \in Int : x = r + (L + E)
        BY <2>1
      <3>2. x % INPUT_BUF \in 0 .. INPUT_BUF - 1
        BY <1>2, Rest
      <3> QED  BY <3>1, <3>2
    <2> QED  BY <1>3, <2>2, <2>3 DEF Plus
  <1>6. /\ buf' \in [0 .. INPUT_BUF - 1 -> Keys]
        /\ InRing(L + E)' = c
        /\ \A i \in 0 .. L + E - 1 : InRing(i)' = InRing(i)
    <2>1. buf' = [buf EXCEPT ![at] = c]
      BY <1>5 DEF key
    <2>2. buf' \in [0 .. INPUT_BUF - 1 -> Keys] /\ InRing(L + E)' = c
      BY <1>3, <1>5, <2>1 DEF InRing
    <2>3. ASSUME NEW i \in 0 .. L + E - 1 PROVE InRing(i)' = InRing(i)
      <3>1. r + i \in Int /\ r + (L + E) \in Int /\ r + i < r + (L + E)
            /\ r + (L + E) < (r + i) + INPUT_BUF
        BY <1>2, <1>3
      <3>2. (r + i) % INPUT_BUF # at
        BY <1>2, <1>5, <3>1, RestsDiffer
      <3>3. (r + i) % INPUT_BUF \in 0 .. INPUT_BUF - 1
        BY <1>2, <3>1, Rest
      <3> QED  BY <1>3, <2>1, <3>2, <3>3 DEF InRing
    <2> QED  BY <2>2, <2>3
  <1>7. /\ \A i \in 1 .. L : InRing(i - 1)' = lines[i]
        /\ \A i \in 1 .. E : InRing(L + (i - 1))' = "x"
    <2>1. \A i \in 1 .. L : InRing(i - 1)' = InRing(i - 1)
      BY <1>6
    <2>2. \A i \in 1 .. E : InRing(L + (i - 1))' = InRing(L + (i - 1))
      BY <1>6
    <2> QED  BY <1>1, <2>1, <2>2 DEF ConInv
  <1>8. CASE Ends(c, Plus(e, 1))
    <2>1. /\ w' = e' /\ asleep' = {} /\ edit' = << >> /\ lines' = lines \o Append(edit, c)
      BY <1>8 DEF key
    <2>2. /\ edit \in Seq(Keys) /\ Append(edit, c) \in Seq(Keys) /\ Len(Append(edit, c)) = E + 1
          /\ \A i \in 1 .. E : Append(edit, c)[i] = "x"
          /\ Append(edit, c)[E + 1] = c
      BY <1>1, <1>3 DEF Keys
    <2>3. /\ lines' \in Seq(Keys) /\ Len(lines') = L + E + 1
          /\ \A i \in 1 .. L + E + 1 :
               lines'[i] = IF i <= L THEN lines[i] ELSE Append(edit, c)[i - L]
      <3>1. PICK t \in Seq(Keys) : t = Append(edit, c) /\ Len(t) = E + 1
        BY <2>2
      <3>2. PICK s \in Seq(Keys) : s = lines /\ Len(s) = L
        BY <1>1, <1>3
      <3>3. /\ s \o t \in Seq(Keys) /\ Len(s \o t) = L + (E + 1)
            /\ \A i \in 1 .. L + (E + 1) : (s \o t)[i] = IF i <= L THEN s[i] ELSE t[i - L]
        <4>1. /\ s \o t \in Seq(Keys) /\ Len(s \o t) = Len(s) + Len(t)
              /\ \A i \in 1 .. Len(s) + Len(t) :
                   (s \o t)[i] = IF i <= Len(s) THEN s[i] ELSE t[i - Len(s)]
          BY ConcatProperties
        <4> QED  BY <3>1, <3>2, <4>1, Zenon
      <3>4. L + (E + 1) = L + E + 1
        OBVIOUS
      <3> QED  BY <2>1, <3>1, <3>2, <3>3, <3>4
    <2>4. ASSUME NEW i \in 1 .. L + E + 1 PROVE InRing(i - 1)' = lines'[i]
      <3>1. CASE i <= L
        BY <1>7, <2>3, <3>1
      <3>2. CASE i > L /\ i <= L + E
        <4>1. PICK j \in 1 .. E : j = i - L /\ i - 1 = L + (j - 1)
          BY <3>2
        <4>2. lines'[i] = Append(edit, c)[j]
          <5>1. ~ (i <= L)
            BY <3>2
          <5>2. lines'[i] = Append(edit, c)[i - L]
            BY <2>3, <5>1
          <5> QED  BY <4>1, <5>2, Zenon
        <4>3. Append(edit, c)[j] = "x" /\ InRing(L + (j - 1))' = "x"
          BY <1>7, <2>2
        <4>4. (r' + (L + (j - 1))) % INPUT_BUF = (r' + (i - 1)) % INPUT_BUF
          BY <4>1
        <4>5. InRing(L + (j - 1))' = InRing(i - 1)'
          BY <4>4 DEF InRing
        <4> QED  BY <4>2, <4>3, <4>5
      <3>3. CASE i = L + E + 1
        <4>1. i - 1 = L + E /\ i - L = E + 1 /\ ~ (i <= L)
          BY <3>3
        <4> QED  BY <1>6, <2>2, <2>3, <4>1
      <3> QED  BY <3>1, <3>2, <3>3
    <2>5. edit' \in Seq({"x"}) /\ Len(edit') = 0
      BY <2>1
    <2>6. L + E + 1 = (L + E + 1) + 0 /\ L + E + 1 <= INPUT_BUF /\ L + E + 1 # 0
      BY <1>2, <1>3
    <2>7. PICK M \in Nat : M = Len(lines') /\ M = L + E + 1 /\ M + 0 = M
      BY <2>3
    <2>8. w' = Plus(r', M) /\ e' = Plus(r', M)
      BY <1>3, <1>4, <2>1, <2>7
    <2>9. r' \in 0 .. INDEX - 1 /\ M + Len(edit') = M /\ M <= INPUT_BUF /\ M # 0
      BY <1>3, <2>5, <2>6, <2>7
    <2>10. (\A i \in 1 .. M : InRing(i - 1)' = lines'[i]) /\ 1 .. Len(edit') = {}
      BY <2>4, <2>5, <2>7
    <2> QED
      BY <1>6, <2>1, <2>3, <2>5, <2>7, <2>8, <2>9, <2>10 DEF ConInv, Plus
  <1>9. CASE ~ Ends(c, Plus(e, 1))
    <2>1. edit' = Append(edit, c) /\ UNCHANGED << w, asleep, lines >>
      BY <1>9 DEF key
    <2>2. c = "x" /\ Plus(r, L + E + 1) # Plus(r, INPUT_BUF)
      BY <1>4, <1>9 DEF Ends, Keys
    <2>3. L + E + 1 < INPUT_BUF
      <3>1. L + E + 1 # INPUT_BUF
        BY <2>2, Zenon
      <3>2. L + E + 1 <= INPUT_BUF /\ INPUT_BUF \in Nat
        BY <1>2, <1>3, ConAssumption
      <3> QED
        BY <1>3, <3>1, <3>2
    <2>4. edit' \in Seq({"x"}) /\ Len(edit') = E + 1
      BY <1>1, <1>3, <2>1, <2>2
    <2>5. ASSUME NEW i \in 1 .. E + 1 PROVE InRing(L + (i - 1))' = "x"
      <3>1. CASE i <= E
        BY <1>7, <3>1
      <3>2. CASE i = E + 1
        <4>1. L + (i - 1) = L + E
          BY <3>2
        <4> QED  BY <1>6, <2>2, <4>1
      <3> QED  BY <3>1, <3>2
    <2>6. L + (E + 1) = L + E + 1 /\ L + (E + 1) <= INPUT_BUF /\ L + (E + 1) # INPUT_BUF
      BY <1>2, <1>3, <2>3
    <2>7. asleep' # {} => L = 0
      BY <1>1, <2>1 DEF ConInv
    <2> QED  BY <1>1, <1>3, <1>4, <1>6, <1>7, <2>1, <2>4, <2>5, <2>6, <2>7 DEF ConInv
  <1> QED  BY <1>8, <1>9

\* The key that kills the line finds no "\n" in it.
LEMMA KillLineKeeps ==
  ASSUME ConInv, killLine
  PROVE  ConInv'
  <1>1. PICK L \in Nat, E \in Nat : L = Len(lines) /\ E = Len(edit)
    BY ConLengths
  <1>2. INPUT_BUF \in Nat \ {0} /\ INDEX \in Nat \ {0} /\ INDEX >= 2 * INPUT_BUF
    BY Index
  <1>3. /\ L + E <= INPUT_BUF /\ r \in 0 .. INDEX - 1 /\ w = Plus(r, L)
        /\ Minus(e, w) = E /\ w \in 0 .. INDEX - 1
    BY <1>1, ConLengths DEF ConInv
  <1>4. ASSUME NEW j \in 1 .. E PROVE Char(Plus(w, j - 1)) = "x"
    <2>1. PICK i \in 0 .. INDEX - 1, k \in Nat : i = r /\ k = j - 1
      BY <1>3
    <2>2. L + k < INDEX /\ L + k \in 0 .. INPUT_BUF
      BY <1>2, <1>3, <2>1
    <2>3. Plus(Plus(i, L), k) = Plus(i, L + k)
      BY <2>2, PlusMinus
    <2>4. Char(Plus(r, L + k)) = InRing(L + k)
      BY <2>2, ConLengths
    <2>5. InRing(L + (j - 1)) = "x"
      BY <1>1 DEF ConInv
    <2> QED  BY <1>3, <2>1, <2>3, <2>4, <2>5
  <1>5. KeptOf = 0
    <2>1. \A j \in 0 + 1 .. E : Char(Plus(w, j - 1)) # "\n"
      BY <1>4
    <2>2. ASSUME NEW i \in 0 .. E, i = 0 \/ Char(Plus(w, i - 1)) = "\n" PROVE i = 0
      BY <1>4, <2>2
    <2>3. 0 \in 0 .. E
      OBVIOUS
    <2>4. KeptOf = CHOOSE i \in 0 .. E : /\ i = 0 \/ Char(Plus(w, i - 1)) = "\n"
                                         /\ \A j \in i + 1 .. E : Char(Plus(w, j - 1)) # "\n"
      BY <1>3 DEF KeptOf
    <2>5. \E i \in 0 .. E : /\ i = 0 \/ Char(Plus(w, i - 1)) = "\n"
                            /\ \A j \in i + 1 .. E : Char(Plus(w, j - 1)) # "\n"
      BY <2>1, <2>3
    <2>6. KeptOf \in 0 .. E /\ (KeptOf = 0 \/ Char(Plus(w, KeptOf - 1)) = "\n")
      BY <2>4, <2>5
    <2> QED  BY <2>2, <2>6
  <1>6. Plus(w, 0) = w
    <2>1. PICK i \in 0 .. INDEX - 1 : i = w
      BY <1>3
    <2>2. 0 + 0 < INDEX /\ 0 \in Nat
      BY <1>2
    <2>3. Plus(i, 0) = i
      BY <2>2, PlusMinus
    <2> QED  BY <2>1, <2>3
  <1>7. /\ e' = Plus(r, L) /\ edit' = << >> /\ Len(edit') = 0 /\ edit' \in Seq({"x"})
        /\ UNCHANGED << buf, r, w, lines, asleep >> /\ L + 0 = L
    BY <1>3, <1>5, <1>6 DEF killLine, readers
  <1>8. L <= INPUT_BUF /\ (L = INPUT_BUF => L # 0)
    BY <1>2, <1>3
  <1>9. \A i \in 1 .. L : InRing(i - 1)' = lines'[i]
    BY <1>1, <1>7 DEF ConInv, InRing
  <1> QED  BY <1>1, <1>3, <1>7, <1>8, <1>9 DEF ConInv, Plus

LEMMA BackspaceKeeps ==
  ASSUME ConInv, backspace
  PROVE  ConInv'
  <1>1. PICK L \in Nat, E \in Nat : L = Len(lines) /\ E = Len(edit)
    BY ConLengths
  <1>2. INPUT_BUF \in Nat \ {0} /\ INDEX \in Nat \ {0} /\ INDEX >= 2 * INPUT_BUF
    BY Index
  <1>3. /\ L + E <= INPUT_BUF /\ r \in 0 .. INDEX - 1 /\ e = Plus(r, L + E)
        /\ E # 0 /\ edit \in Seq({"x"}) /\ w = Plus(r, L)
    BY <1>1, ConLengths DEF ConInv, backspace
  <1>4. PICK F \in Nat : F = E - 1 /\ E = F + 1
    BY <1>3
  <1>5. e' = Plus(r, L + F)
    <2>1. PICK i \in 0 .. INDEX - 1, a \in Nat : i = r /\ a = L + F /\ a + 1 = L + E
      BY <1>3, <1>4
    <2>2. a + 1 < INDEX /\ 1 \in Nat
      BY <1>2, <1>3, <2>1
    <2>3. Minus(Plus(i, a + 1), 1) = Plus(i, a)
      BY <2>2, PlusMinus
    <2> QED  BY <1>3, <2>1, <2>3 DEF backspace
  <1>6. /\ edit' \in Seq({"x"}) /\ Len(edit') = F
    <2>1. edit' = SubSeq(edit, 1, F)
      BY <1>1, <1>4 DEF backspace
    <2>2. F \in 0 .. Len(edit)
      BY <1>1, <1>4
    <2> QED  BY <1>3, <2>1, <2>2
  <1>7. UNCHANGED << buf, r, w, lines, asleep >>
    BY DEF backspace, readers
  <1>8. /\ \A i \in 1 .. L : InRing(i - 1)' = lines'[i]
        /\ \A i \in 1 .. F : InRing(L + (i - 1))' = "x"
    <2>1. \A i : InRing(i)' = InRing(i)
      BY <1>7 DEF InRing
    <2>2. \A i \in 1 .. F : i \in 1 .. E
      BY <1>4
    <2>3. \A i \in 1 .. E : InRing(L + (i - 1)) = "x"
      BY <1>1 DEF ConInv
    <2>4. \A i \in 1 .. L : InRing(i - 1) = lines[i]
      BY <1>1 DEF ConInv
    <2> QED  BY <1>7, <2>1, <2>2, <2>3, <2>4
  <1>9. L + F <= INPUT_BUF /\ L + F # INPUT_BUF
    BY <1>2, <1>3, <1>4
  <1> QED  BY <1>1, <1>3, <1>5, <1>6, <1>7, <1>8, <1>9 DEF ConInv, Plus

\* A reader takes k characters; whoever sleeps afterwards has left none.
LEMMA TakesKeeps ==
  ASSUME ConInv, NEW k \in 0 .. Len(lines), Takes(k), asleep' # {} => k = Len(lines)
  PROVE  ConInv'
  <1>1. PICK L \in Nat, E \in Nat : L = Len(lines) /\ E = Len(edit)
    BY ConLengths
  <1>2. INPUT_BUF \in Nat \ {0} /\ INDEX \in Nat \ {0} /\ INDEX >= 2 * INPUT_BUF
    BY Index
  <1>3. /\ L + E <= INPUT_BUF /\ r \in 0 .. INDEX - 1 /\ e = Plus(r, L + E)
        /\ w = Plus(r, L) /\ lines \in Seq(Keys)
    BY <1>1 DEF ConInv
  <1>4. PICK M \in Nat : M = L - k /\ L = k + M /\ k \in Nat /\ k <= L
    <2>1. k \in 0 .. L
      BY <1>1
    <2> QED  BY <2>1
  <1>5. r' = Plus(r, k) /\ lines' = SubSeq(lines, k + 1, L) /\ UNCHANGED << buf, w, e, edit >>
    BY <1>1 DEF Takes
  <1>6. /\ r' \in 0 .. INDEX - 1 /\ w' = Plus(r', M) /\ e' = Plus(r', M + E)
    <2>1. PICK i \in 0 .. INDEX - 1, h \in Nat : i = r /\ h = M + E
      BY <1>3
    <2>2. k + M < INDEX /\ k + h < INDEX /\ k + h = L + E
      BY <1>2, <1>3, <1>4, <2>1
    <2>3. Plus(i, k) \in 0 .. INDEX - 1
      BY <1>4, <2>2, PlusMinus
    <2>4. Plus(Plus(i, k), M) = Plus(i, k + M)
      BY <1>4, <2>2, PlusMinus
    <2>5. Plus(Plus(i, k), h) = Plus(i, k + h)
      BY <1>4, <2>2, PlusMinus
    <2>6. Plus(Plus(r, k), M) = Plus(r, L) /\ Plus(Plus(r, k), M + E) = Plus(r, L + E)
      BY <1>4, <2>1, <2>2, <2>4, <2>5
    <2> QED  BY <1>3, <1>5, <2>1, <2>3, <2>6
  <1>7. /\ lines' \in Seq(Keys) /\ Len(lines') = M
        /\ \A i \in 1 .. M : lines'[i] = lines[k + i]
    <2>1. k + 1 \in 1 .. L + 1 /\ L \in 0 .. Len(lines)
      BY <1>1, <1>4
    <2>2. L - (k + 1) + 1 = M
      BY <1>4
    <2>3. lines' \in Seq(Keys) /\ Len(lines') = M
      BY <1>1, <1>3, <1>4, <1>5, <2>1, <2>2
    <2>4. ASSUME NEW i \in 1 .. M PROVE lines'[i] = lines[k + i]
      BY <1>1, <1>3, <1>4, <1>5, <2>1, <2>2, <2>3
    <2> QED  BY <2>3, <2>4
  <1>8. ASSUME NEW i \in Nat, k + i <= L + E PROVE InRing(i)' = InRing(k + i)
    <2>1. PICK x \in 0 .. 2 * INDEX - 1 : x = r + k
      BY <1>2, <1>3, <1>4
    <2>2. ((x % INDEX) + i) % INPUT_BUF = (x + i) % INPUT_BUF
      BY Index
    <2>3. x + i = r + (k + i)
      BY <1>3, <1>4, <2>1
    <2>4. r' = x % INDEX
      BY <1>5, <2>1 DEF Plus
    <2> QED  BY <1>5, <2>2, <2>3, <2>4 DEF InRing
  <1>9. ASSUME NEW i \in 1 .. M PROVE InRing(i - 1)' = lines'[i]
    <2>1. PICK h \in Nat : h = i - 1 /\ k + h = (k + i) - 1 /\ k + h <= L + E
      BY <1>4
    <2>2. InRing(h)' = InRing(k + h)
      BY <1>8, <2>1
    <2>3. PICK j \in 1 .. L : j = k + i
      BY <1>4
    <2>4. InRing(j - 1) = lines[j]
      BY <1>1 DEF ConInv
    <2>5. lines'[i] = lines[j]
      BY <1>7, <2>3
    <2> QED  BY <2>1, <2>2, <2>3, <2>4, <2>5
  <1>a. ASSUME NEW i \in 1 .. E PROVE InRing(M + (i - 1))' = "x"
    <2>1. PICK h \in Nat : h = M + (i - 1) /\ k + h = L + (i - 1) /\ k + h <= L + E
      BY <1>4
    <2>2. InRing(h)' = InRing(k + h)
      BY <1>8, <2>1
    <2>3. InRing(L + (i - 1)) = "x"
      BY <1>1 DEF ConInv
    <2> QED  BY <2>1, <2>2, <2>3
  <1>b. asleep' # {} => M = 0
    BY <1>1, <1>4
  <1>c. M + E <= INPUT_BUF /\ (M + E = INPUT_BUF => M # 0)
    <2>1. L + E = INPUT_BUF => L # 0
      BY <1>1 DEF ConInv
    <2> QED  BY <1>2, <1>3, <1>4, <2>1
  <1> QED  BY <1>1, <1>5, <1>6, <1>7, <1>9, <1>a, <1>b, <1>c DEF ConInv

\* The least of some numbers is one of them.
LEMMA LeastIn ==
  ASSUME NEW S, S \subseteq Nat, S # {}
  PROVE  Least(S) \in S
  <1>1. \E i \in S : \A j \in S : i <= j
    <2>1. PICK i \in S : \A j \in S : ~ (<< j, i >> \in OpToRel(<, Nat))
      BY NatLessThanWellFounded, WFMin, Zenon
    <2>2. \A j \in S : ~ (j < i)
      BY <2>1 DEF OpToRel
    <2> QED  BY <2>2
  <1> QED  BY <1>1 DEF Least

LEMMA ReadKeeps ==
  ASSUME ConInv, NEW p \in Readers, consoleread(p)
  PROVE  ConInv'
  <1>1. PICK L \in Nat : L = Len(lines) /\ L = Available
    BY ConLengths DEF Available
  <1>2. CASE Ending(want[p]) # {}
    <2>1. PICK i : i = Least(Ending(want[p]))
      OBVIOUS
    <2>2. i \in 1 .. L
      <3>1. Ending(want[p]) \subseteq 1 .. L
        BY <1>1 DEF Ending
      <3>2. Ending(want[p]) \subseteq Nat
        BY <3>1
      <3> QED  BY <1>2, <2>1, <3>1, <3>2, LeastIn
    <2>3. Takes(IF PutBack(p, i) THEN i - 1 ELSE i) /\ UNCHANGED asleep
      BY <1>2, <2>1 DEF consoleread
    <2>4. PICK k \in 0 .. L : k = IF PutBack(p, i) THEN i - 1 ELSE i
      BY <2>2
    <2>5. asleep = {}
      BY <1>1, <2>2 DEF ConInv
    <2> QED  BY <1>1, <2>3, <2>4, <2>5, TakesKeeps
  <1>3. CASE ~ (Ending(want[p]) # {})
    <2>1. Takes(Available)
      BY <1>3 DEF consoleread
    <2>2. L \in 0 .. Len(lines)
      BY <1>1
    <2> QED  BY <1>1, <2>1, <2>2, TakesKeeps
  <1> QED  BY <1>2, <1>3

\* For every size of the ring and every modulus of the indices that it
\* divides, and any number of readers: what consoleread() finds in the ring is
\* what was typed and not taken back, in order and over the wrap; nobody
\* sleeps while there is a line, and a full ring has one.
THEOREM ConsoleIsSound == ConSpec => []ConsoleSound
  <1>1. ConInv /\ [ConNext]_convars => ConInv'
    <2> SUFFICES ASSUME ConInv, [ConNext]_convars PROVE ConInv'
      OBVIOUS
    <2>1. ASSUME NEW c \in {"x", "\n", "D"}, key(c) PROVE ConInv'
      BY <2>1, KeyKeeps DEF Keys
    <2>2. CASE killLine \/ backspace
      BY <2>2, KillLineKeeps, BackspaceKeeps
    <2>3. ASSUME NEW p \in Readers, consoleread(p) PROVE ConInv'
      BY <2>3, ReadKeeps
    <2>4. ASSUME UNCHANGED ring, asleep' \subseteq asleep PROVE ConInv'
      <3>1. UNCHANGED << buf, r, w, e, lines, edit >>
        BY <2>4 DEF ring
      <3> QED  BY <2>4, <3>1 DEF ConInv, InRing, Plus
    <2>5. ASSUME NEW p \in Readers, NEW n, killReader(p) \/ read(p, n) PROVE ConInv'
      <3>1. UNCHANGED ring /\ asleep' \subseteq asleep
        BY <2>5 DEF killReader, read
      <3> QED  BY <2>4, <3>1
    <2>6. CASE UNCHANGED convars
      BY <2>4, <2>6 DEF convars, readers
    <2> QED  BY <2>1, <2>2, <2>3, <2>5, <2>6 DEF ConNext
  <1> QED  BY <1>1, ConInitKeeps, ConInvSound, PTL DEF ConSpec

-----------------------------------------------------------------------------
(* Blocks: the inductive invariant.                                          *)

\* The blocks of the disk, and the places of a file; a place is in use while
\* it names a block that bfree has not freed, and it keeps the file's data.
BlockNos == 0 .. SIZE - 1
Spots == 0 .. MAXFILE
Doomed(p) == work[p].pc \in {"trunc", "bfree"}
InPlace(i, x) == Place(i, x) # 0 /\ ~ Dropped(i, x)
Kept(i, x) == Place(i, x) # 0 /\ words[Place(i, x)] = Written(i)

\* What the state is made of: every block that is named is on the disk.
Works == [pc : {"idle", "write", "trunc", "bfree"}, ip : 0 .. NFILES, at : Nat,
          end : 0 .. MAXFILE, k : Nat]
BkTypes ==
  /\ words \in [1 .. SIZE - 1 -> [Entries -> Int]]
  /\ addrs \in [Inodes -> [0 .. NDIRECTS -> BlockNos]]
  /\ \A i \in Inodes, x \in Spots : Place(i, x) \in BlockNos
  /\ daddrs \in [Inodes -> [0 .. NDIRECTS -> BlockNos]]
  /\ len \in [Inodes -> 0 .. MAXFILE] /\ dlen = len
  /\ work \in [Writers -> Works]

\* The lock of an inode is with one process.
Single == \A p, q \in Writers : p # q /\ Ip(p) = Ip(q) => Ip(p) = 0

\* What a process has done so far: writei has filled the blocks it has passed
\* and overwritten none before the file's end that it has not; itrunc has
\* cleared the addresses it has passed, and bfree holds the number of a block
\* that it has zeroed.
WorkRight(p) ==
  LET i == Ip(p)
      at == work[p].at
  IN /\ Doing(p, "idle") => work[p] = Idle
     /\ ~ Doing(p, "idle") => i \in Inodes
     /\ Doing(p, "write") => at < work[p].end
     /\ Doing(p, "write") => \A x \in 0 .. MAXFILE - 1 : x < len[i] \/ x < at => Kept(i, x)
     /\ Doing(p, "write") /\ work[p].end <= len[i] => daddrs[i] = addrs[i]
     /\ Doing(p, "trunc") => at <= MAXFILE + 1
     /\ Doing(p, "bfree") => /\ at <= MAXFILE /\ work[p].k # 0
                             /\ work[p].k = Place(i, at) /\ words[work[p].k] = Zero
     /\ Doomed(p) => \A x \in 0 .. NDIRECTS - 1 : x < at => addrs[i][x] = 0
     /\ Doomed(p) /\ at > MAXFILE => Indirect(i) = 0

\* No two places in use name one block.
Apart == \A i, j \in Inodes, x, y \in Spots :
           InPlace(i, x) /\ InPlace(j, y) /\ Place(i, x) = Place(j, y) => i = j /\ x = y

\* The bits that are set are those of the blocks that places in use name.
BitsRight == /\ bitmap \subseteq BlockNos
             /\ \A b \in BlockNos : b \in bitmap <=>
                  b = 0 \/ \E i \in Inodes, x \in Spots : InPlace(i, x) /\ b = Place(i, x)

\* A free block is all zeros.
FreeZero == \A b \in 1 .. SIZE - 1 : b \notin bitmap => words[b] = Zero

\* A file that nobody works on is written up to its end, and its addresses
\* are on the disk.
FileRight(i) == Unlocked(i) => /\ \A x \in 0 .. MAXFILE - 1 : x < len[i] => Kept(i, x)
                               /\ daddrs[i] = addrs[i]

\* All of it, until balloc goes past the end of the disk.
BkAll == /\ BkTypes /\ Single /\ Apart /\ BitsRight /\ FreeZero
         /\ \A p \in Writers : WorkRight(p)
         /\ \A i \in Inodes : FileRight(i)
         /\ bkPanic # "freeing free block"
BkInv == outside \/ BkAll

-----------------------------------------------------------------------------
\* Sizes are what they seem.
LEMMA BkSizes ==
  /\ SIZE \in Nat /\ SIZE >= 1 /\ NDIRECTS \in Nat /\ NDIRECTS >= 1
  /\ NINDIRECTS \in Nat /\ NINDIRECTS >= 1 /\ NFILES \in Nat /\ BPB \in Nat /\ BPB >= 1
  /\ MAXFILE \in Nat /\ MAXFILE = NDIRECTS + NINDIRECTS /\ MAXFILE > NDIRECTS
  BY BlocksAssumption DEF MAXFILE

\* The three kinds of places.
PlaceRule(i, x) ==
  /\ x < NDIRECTS => Place(i, x) = addrs[i][x]
  /\ x >= NDIRECTS /\ x < MAXFILE /\ Indirect(i) = 0 => Place(i, x) = 0
  /\ x >= NDIRECTS /\ x < MAXFILE /\ Indirect(i) # 0
       => Place(i, x) = words[Indirect(i)][x - NDIRECTS]
  /\ x = MAXFILE => Place(i, x) = Indirect(i)

\* A place obeys the rule, before a step and after it.
LEMMA PlaceIs ==
  ASSUME NEW i \in Inodes, NEW x \in Spots
  PROVE  PlaceRule(i, x) /\ PlaceRule(i, x)'
<1>1. x \in Int /\ 0 <= x /\ x <= MAXFILE
  BY BkSizes DEF Spots
<1>2. PlaceRule(i, x)
  BY <1>1, BkSizes DEF Place, PlaceRule
<1>3. PlaceRule(i, x)'
  BY <1>1, BkSizes DEF Place, PlaceRule
<1> QED
  BY <1>2, <1>3

\* p works on file i: nobody else does, other files stay, and only blocks of
\* file i are written to.
WorksOn(p, i) ==
  /\ \A q \in Writers \ {p} : work'[q] = work[q] /\ Ip(q) # i
  /\ Ip(p) \in {0, i} /\ work'[p].ip \in {0, i}
  /\ \A j \in Inodes \ {i} : /\ addrs'[j] = addrs[j] /\ daddrs'[j] = daddrs[j]
                             /\ len'[j] = len[j]
  /\ \A b \in 1 .. SIZE - 1 :
       words'[b] = words[b] \/ \E x \in Spots : InPlace(i, x) /\ b = Place(i, x)

\* What stays of a file.
Stays(j) ==
  /\ Unlocked(j)' <=> Unlocked(j)
  /\ \A x \in Spots : /\ Place(j, x)' = Place(j, x)
                      /\ Dropped(j, x)' <=> Dropped(j, x)
                      /\ InPlace(j, x) => words'[Place(j, x)] = words[Place(j, x)]

\* The indirect block of a file is in place.
LEMMA IndirectInPlace ==
  ASSUME BkAll, NEW j \in Inodes, Indirect(j) # 0
  PROVE  InPlace(j, MAXFILE) /\ Place(j, MAXFILE) = Indirect(j)
<1>1. MAXFILE \in Spots
  BY BkSizes DEF Spots
<1>2. Place(j, MAXFILE) = Indirect(j)
  BY <1>1, PlaceIs DEF PlaceRule
<1>3. ~ Dropped(j, MAXFILE)
  BY DEF Dropped, BkAll, WorkRight, Doomed
<1> QED
  BY <1>2, <1>3 DEF InPlace

\* The other files stay as they are.
LEMMA OthersStay ==
  ASSUME BkAll, NEW p \in Writers, NEW i \in Inodes, WorksOn(p, i),
         NEW j \in Inodes \ {i}
  PROVE  Stays(j)
<1>0. 0 \notin Inodes
  BY BkSizes DEF Inodes
<1>1. \A q \in Writers : Ip(q)' = j <=> Ip(q) = j
  BY <1>0 DEF WorksOn, Ip
<1>2. \A q \in Writers : Ip(q) = j => work'[q] = work[q]
  BY <1>0 DEF WorksOn, Ip
<1>3. Unlocked(j)' <=> Unlocked(j)
  BY <1>1 DEF Unlocked
<1>4. ASSUME NEW x PROVE Dropped(j, x)' <=> Dropped(j, x)
  BY <1>1, <1>2 DEF Dropped
<1>5. ASSUME NEW x \in Spots, InPlace(j, x)
      PROVE  words'[Place(j, x)] = words[Place(j, x)]
  <2>1. Place(j, x) \in 1 .. SIZE - 1
    <3>1. Place(j, x) \in BlockNos /\ Place(j, x) # 0
      BY <1>5 DEF BkAll, BkTypes, InPlace
    <3> QED
      BY <3>1, BkSizes DEF BlockNos
  <2>2. ~ \E y \in Spots : InPlace(i, y) /\ Place(j, x) = Place(i, y)
    BY <1>5 DEF BkAll, Apart
  <2> QED
    BY <2>1, <2>2 DEF WorksOn
<1>6. Indirect(j)' = Indirect(j)
  BY DEF WorksOn, Indirect
<1>7. Indirect(j) # 0 => words'[Indirect(j)] = words[Indirect(j)]
  <2>1. MAXFILE \in Spots
    BY BkSizes DEF Spots
  <2> QED
    BY <1>5, <2>1, IndirectInPlace
<1>8. ASSUME NEW x \in Spots PROVE Place(j, x)' = Place(j, x)
  <2>1. PlaceRule(j, x) /\ PlaceRule(j, x)'
    BY PlaceIs
  <2>2. addrs'[j] = addrs[j]
    BY DEF WorksOn
  <2>3. x \in Int /\ 0 <= x /\ x <= MAXFILE
    BY BkSizes DEF Spots
  <2>4. CASE x < NDIRECTS
    BY <2>1, <2>2, <2>4 DEF PlaceRule
  <2>5. CASE x >= NDIRECTS /\ x < MAXFILE
    BY <2>1, <2>5, <1>6, <1>7 DEF PlaceRule
  <2>6. CASE x = MAXFILE
    BY <2>1, <2>6, <1>6 DEF PlaceRule
  <2> QED
    BY <2>3, <2>4, <2>5, <2>6, BkSizes
<1> QED
  BY <1>3, <1>4, <1>5, <1>8 DEF Stays

\* Nobody else is disturbed.
LEMMA OthersRight ==
  ASSUME BkAll, NEW p \in Writers, NEW i \in Inodes, WorksOn(p, i), work'[p] \in Works
  PROVE  /\ Single'
         /\ \A q \in Writers \ {p} : WorkRight(q)'
         /\ \A j \in Inodes \ {i} : FileRight(j)'
<1>0. 0 \notin Inodes
  BY BkSizes DEF Inodes
<1>1. Single'
  <2>1. \A q \in Writers \ {p} : Ip(q)' = Ip(q) /\ Ip(q) # i
    BY DEF WorksOn, Ip
  <2>2. Ip(p)' \in {0, i}
    BY DEF WorksOn, Ip
  <2>3. \A q, v \in Writers : q # v /\ Ip(q) = Ip(v) => Ip(q) = 0
    BY DEF BkAll, Single
  <2> SUFFICES ASSUME NEW q \in Writers, NEW v \in Writers, q # v, Ip(q)' = Ip(v)'
               PROVE  Ip(q)' = 0
    BY DEF Single
  <2> QED
    BY <2>1, <2>2, <2>3
<1>2. ASSUME NEW j \in Inodes \ {i}, NEW x \in Spots, Kept(j, x), ~ Dropped(j, x)
      PROVE  Kept(j, x)'
  <2>1. InPlace(j, x)
    BY <1>2 DEF Kept, InPlace
  <2>2. Place(j, x)' = Place(j, x) /\ words'[Place(j, x)] = words[Place(j, x)]
    BY <2>1, OthersStay DEF Stays
  <2> QED
    BY <1>2, <2>2 DEF Kept
<1>3. ASSUME NEW q \in Writers \ {p} PROVE WorkRight(q)'
  <2>1. work'[q] = work[q] /\ Ip(q)' = Ip(q) /\ Ip(q) # i
    BY DEF WorksOn, Ip
  <2>2. WorkRight(q)
    BY DEF BkAll
  <2>3. CASE Doing(q, "idle")
    BY <2>1, <2>2, <2>3 DEF WorkRight, Doing, Doomed
  <2>4. CASE ~ Doing(q, "idle")
    <3>0. Ip(q) \in Inodes \ {i}
      BY <2>1, <2>2, <2>4 DEF WorkRight
    <3>1. PICK j \in Inodes \ {i} : j = Ip(q)
      BY <3>0
    <3>2. /\ addrs'[j] = addrs[j] /\ daddrs'[j] = daddrs[j] /\ len'[j] = len[j]
      BY <3>1 DEF WorksOn
    <3>3. Stays(j)
      BY <3>1, OthersStay
    <3>4. \A x \in Spots : Doing(q, "write") => ~ Dropped(j, x)
      BY <3>1, <1>0 DEF Dropped, Doing, BkAll, Single, Ip
    <3>5. ASSUME Doing(q, "write"), NEW x \in 0 .. MAXFILE - 1, Kept(j, x) PROVE Kept(j, x)'
      <4>1. x \in Spots
        BY BkSizes DEF Spots
      <4> QED
        BY <3>1, <3>4, <3>5, <4>1, <1>2
    <3>6. Indirect(j)' = Indirect(j)
      BY <3>2 DEF Indirect
    <3>a. PICK at \in Nat : at = work[q].at
      BY DEF BkAll, BkTypes, Works
    <3>7. ASSUME Doing(q, "bfree")
          PROVE  work[q].k = Place(j, at)' /\ words'[work[q].k] = Zero
      <4>1. at \in Spots
        BY <2>2, <3>7, <3>a, BkSizes DEF WorkRight, Spots
      <4>2. Place(j, at)' = Place(j, at)
        BY <3>3, <4>1 DEF Stays
      <4>3. InPlace(j, at)
        <5>1. \A v \in Writers : Ip(v) = j => v = q
          BY <3>1, <1>0 DEF BkAll, Single
        <5>2. ~ Dropped(j, at)
          BY <3>a, <5>1 DEF Dropped
        <5> QED
          BY <2>2, <3>1, <3>7, <3>a, <5>2 DEF InPlace, WorkRight
      <4> QED
        BY <2>2, <3>1, <3>3, <3>7, <3>a, <4>1, <4>2, <4>3 DEF Stays, WorkRight
    <3>8. Doing(q, "idle")' <=> Doing(q, "idle")
      BY <2>1 DEF Doing
    <3>9. Doing(q, "write")' <=> Doing(q, "write")
      BY <2>1 DEF Doing
    <3>10. (Doing(q, "trunc")' <=> Doing(q, "trunc")) /\ (Doing(q, "bfree")' <=> Doing(q, "bfree"))
      BY <2>1 DEF Doing
    <3>11. Doomed(q)' <=> Doomed(q)
      BY <2>1 DEF Doomed
    <3>12. work'[q].at = at /\ Ip(q)' = j
      BY <2>1, <3>1, <3>a
    <3> QED
      BY <2>1, <2>2, <2>4, <3>1, <3>2, <3>5, <3>6, <3>7, <3>8, <3>9, <3>10, <3>11, <3>12, <3>a
         DEF WorkRight
  <2> QED
    BY <2>3, <2>4
<1>4. ASSUME NEW j \in Inodes \ {i} PROVE FileRight(j)'
  <2>1. Stays(j) /\ FileRight(j)
    BY OthersStay DEF BkAll
  <2>2. Unlocked(j) => \A x \in Spots : ~ Dropped(j, x)
    BY DEF Unlocked, Dropped
  <2>3. \A x \in 0 .. MAXFILE - 1 : x \in Spots
    BY BkSizes DEF Spots
  <2>4. /\ addrs'[j] = addrs[j] /\ daddrs'[j] = daddrs[j] /\ len'[j] = len[j]
    BY DEF WorksOn
  <2> QED
    BY <1>2, <2>1, <2>2, <2>3, <2>4 DEF FileRight, Stays
<1> QED
  BY <1>1, <1>3, <1>4

\* Whether a place of file i is dropped depends on p alone.
LEMMA DroppedIs ==
  ASSUME BkAll, NEW p \in Writers, NEW i \in Inodes, WorksOn(p, i), NEW x \in Spots
  PROVE  /\ Dropped(i, x) <=> Ip(p) = i /\ Doomed(p) /\ work[p].at > x
         /\ Dropped(i, x)' <=> /\ work'[p].ip = i /\ work'[p].at > x
                               /\ work'[p].pc \in {"trunc", "bfree"}
<1>1. \A q \in Writers \ {p} : Ip(q) # i /\ Ip(q)' # i
  BY DEF WorksOn, Ip
<1>2. Dropped(i, x) <=> Ip(p) = i /\ Doomed(p) /\ work[p].at > x
  BY <1>1 DEF Dropped, Doomed
<1>3. Ip(p)' = work'[p].ip
  BY DEF Ip
<1>4. Dropped(i, x)' <=> /\ work'[p].ip = i /\ work'[p].at > x
                         /\ work'[p].pc \in {"trunc", "bfree"}
  BY <1>1, <1>3 DEF Dropped
<1> QED
  BY <1>2, <1>4

\* A block in place is on the disk and has its bit set.
LEMMA InPlaceIs ==
  ASSUME BkAll, NEW i \in Inodes, NEW x \in Spots, InPlace(i, x)
  PROVE  Place(i, x) \in 1 .. SIZE - 1 /\ Place(i, x) \in bitmap
<1>1. Place(i, x) \in BlockNos /\ Place(i, x) # 0
  BY DEF BkAll, BkTypes, InPlace
<1>2. Place(i, x) \in bitmap
  BY <1>1 DEF BkAll, BitsRight
<1> QED
  BY <1>1, <1>2, BkSizes DEF BlockNos

\* The places of file i stay where they are.
SpotsSame(i) == \A x \in Spots : /\ InPlace(i, x)' <=> InPlace(i, x)
                                 /\ InPlace(i, x) => Place(i, x)' = Place(i, x)

\* If the places of file i stay too, so does what the bitmap says.
LEMMA SameKeeps ==
  ASSUME BkAll, NEW p \in Writers, NEW i \in Inodes, WorksOn(p, i), SpotsSame(i),
         bitmap' = bitmap
  PROVE  Apart' /\ BitsRight' /\ FreeZero'
<1>1. \A j \in Inodes, x \in Spots : /\ InPlace(j, x)' <=> InPlace(j, x)
                                     /\ InPlace(j, x) => Place(j, x)' = Place(j, x)
  <2> SUFFICES ASSUME NEW j \in Inodes, NEW x \in Spots
               PROVE  /\ InPlace(j, x)' <=> InPlace(j, x)
                      /\ InPlace(j, x) => Place(j, x)' = Place(j, x)
    OBVIOUS
  <2>1. CASE j = i
    BY <2>1 DEF SpotsSame
  <2>2. CASE j # i
    BY <2>2, OthersStay DEF Stays, InPlace
  <2> QED
    BY <2>1, <2>2
<1>2. Apart'
  <2> SUFFICES ASSUME NEW j \in Inodes, NEW k \in Inodes, NEW x \in Spots, NEW y \in Spots,
                      InPlace(j, x)', InPlace(k, y)', Place(j, x)' = Place(k, y)'
               PROVE  j = k /\ x = y
    BY DEF Apart
  <2>1. InPlace(j, x) /\ InPlace(k, y) /\ Place(j, x) = Place(k, y)
    BY <1>1
  <2> QED
    BY <2>1 DEF BkAll, Apart
<1>3. BitsRight'
  <2>1. ASSUME NEW b \in BlockNos
        PROVE  (\E j \in Inodes, x \in Spots : InPlace(j, x) /\ b = Place(j, x)) <=>
               (\E j \in Inodes, x \in Spots : InPlace(j, x)' /\ b = Place(j, x)')
    BY <1>1
  <2> QED
    BY <2>1 DEF BkAll, BitsRight
<1>4. FreeZero'
  <2> SUFFICES ASSUME NEW b \in 1 .. SIZE - 1, b \notin bitmap PROVE words'[b] = Zero
    BY DEF FreeZero
  <2>1. ~ \E x \in Spots : InPlace(i, x) /\ b = Place(i, x)
    BY InPlaceIs
  <2> QED
    BY <2>1 DEF WorksOn, BkAll, FreeZero
<1> QED
  BY <1>2, <1>3, <1>4

\* What a step of p on file i has to show.
LEMMA StepKeeps ==
  ASSUME BkAll, NEW p \in Writers, NEW i \in Inodes, WorksOn(p, i),
         words' \in [1 .. SIZE - 1 -> [Entries -> Int]],
         addrs' \in [Inodes -> [0 .. NDIRECTS -> BlockNos]],
         daddrs' \in [Inodes -> [0 .. NDIRECTS -> BlockNos]],
         len' \in [Inodes -> 0 .. MAXFILE], dlen' = len',
         work' \in [Writers -> Works],
         \A x \in Spots : Place(i, x)' \in BlockNos,
         WorkRight(p)', FileRight(i)', Apart', BitsRight', FreeZero',
         bkPanic' # "freeing free block"
  PROVE  BkAll'
<1>1. \A j \in Inodes \ {i}, x \in Spots : Place(j, x)' \in BlockNos
  BY OthersStay DEF Stays, BkAll, BkTypes
<1>2. BkTypes'
  BY <1>1 DEF BkTypes
<1>3. work'[p] \in Works
  OBVIOUS
<1>4. /\ Single'
      /\ \A q \in Writers \ {p} : WorkRight(q)'
      /\ \A j \in Inodes \ {i} : FileRight(j)'
  BY <1>3, OthersRight
<1>5. \A q \in Writers : WorkRight(q)'
  BY <1>4
<1>6. \A j \in Inodes : FileRight(j)'
  BY <1>4
<1> QED
  BY <1>2, <1>4, <1>5, <1>6 DEF BkAll

\* A file that a process works on is not unlocked, and nobody else has it.
LEMMA Alone ==
  ASSUME BkAll, NEW p \in Writers, ~ Doing(p, "idle")
  PROVE  Ip(p) \in Inodes /\ work[p].at \in Nat /\ \A q \in Writers \ {p} : Ip(q) # Ip(p)
<1>1. Ip(p) \in Inodes
  BY DEF BkAll, WorkRight
<1>2. 0 \notin Inodes
  BY BkSizes DEF Inodes
<1>3. work[p] \in Works
  BY DEF BkAll, BkTypes
<1>4. work[p].at \in Nat
  BY <1>3 DEF Works
<1> QED
  BY <1>1, <1>2, <1>4 DEF BkAll, Single

-----------------------------------------------------------------------------
\* A process that does nothing.
LEMMA IdleIs == Idle \in Works /\ Idle.pc = "idle" /\ Idle.ip = 0 /\ Idle.at = 0
  BY BkSizes DEF Idle, Works

\* writei and itrunc take the lock of the inode.
LEMMA BeginKeeps ==
  ASSUME BkAll, NEW p \in Writers, NEW i \in Inodes,
         \/ itrunc(p, i)
         \/ \E off \in 0 .. MAXFILE - 1, n \in 1 .. MAXFILE : writeBegin(p, i, off, n)
  PROVE  BkAll'
<1>0. i \in 0 .. NFILES
  BY BkSizes DEF Inodes
<1>1. PICK u \in Works :
        /\ work' = [work EXCEPT ![p] = u] /\ u.ip = i
        /\ \/ u.pc = "trunc" /\ u.at = 0
           \/ u.pc = "write" /\ u.at <= len[i] /\ u.at < u.end
  <2>1. CASE itrunc(p, i)
    <3> DEFINE u == [Idle EXCEPT !.pc = "trunc", !.ip = i]
    <3>1. u \in Works /\ u.ip = i /\ u.pc = "trunc" /\ u.at = 0
      BY <1>0, IdleIs DEF Works
    <3>2. work' = [work EXCEPT ![p] = u]
      BY <2>1 DEF itrunc, Set
    <3> HIDE DEF u
    <3> QED
      BY <3>1, <3>2
  <2>2. ASSUME NEW off \in 0 .. MAXFILE - 1, NEW n \in 1 .. MAXFILE, writeBegin(p, i, off, n)
        PROVE  \E u \in Works :
                 /\ work' = [work EXCEPT ![p] = u] /\ u.ip = i
                 /\ u.pc = "write" /\ u.at <= len[i] /\ u.at < u.end
    <3> DEFINE end == IF off + n > MAXFILE THEN MAXFILE ELSE off + n
               u == [Idle EXCEPT !.pc = "write", !.ip = i, !.at = off, !.end = end]
    <3>1. end \in 0 .. MAXFILE /\ off \in Nat
      BY BkSizes
    <3>2. off <= len[i] /\ end > off /\ work' = [work EXCEPT ![p] = u]
      BY <2>2 DEF writeBegin, Set
    <3> HIDE DEF end
    <3>3. u \in Works /\ u.ip = i /\ u.pc = "write" /\ u.at = off /\ u.end = end
      BY <1>0, <3>1, IdleIs DEF Works
    <3> HIDE DEF u
    <3>4. u.at <= len[i] /\ u.at < u.end
      BY <3>1, <3>2, <3>3
    <3> QED
      BY <3>2, <3>3, <3>4
  <2> QED
    BY <2>1, <2>2
<1>2. /\ Doing(p, "idle") /\ Unlocked(i)
      /\ UNCHANGED << bitmap, words, addrs, len, daddrs, dlen, bkPanic, outside >>
  BY DEF itrunc, writeBegin, disk3
<1>3. work'[p] = u /\ \A q \in Writers \ {p} : work'[q] = work[q]
  BY <1>1 DEF BkAll, BkTypes
<1>4. WorksOn(p, i)
  <2>1. Ip(p) = 0
    <3>1. work[p] = Idle
      BY <1>2 DEF BkAll, WorkRight
    <3> QED
      BY <3>1 DEF Ip, Idle
  <2> QED
    BY <1>1, <1>2, <1>3, <2>1 DEF WorksOn, Unlocked
<1>5. \A x \in Spots : Place(i, x)' = Place(i, x)
  BY <1>2 DEF Place, Indirect
<1>6. \A x \in Spots : ~ Dropped(i, x) /\ ~ Dropped(i, x)'
  <2>1. \A x \in Spots : ~ Dropped(i, x)
    BY <1>2 DEF Dropped, Unlocked
  <2>2. \A x \in Spots : ~ (0 > x)
    BY BkSizes DEF Spots
  <2> QED
    BY <1>1, <1>3, <1>4, <2>1, <2>2, DroppedIs
<1>7. SpotsSame(i)
  BY <1>5, <1>6 DEF SpotsSame, InPlace
<1>8. work' \in [Writers -> Works]
  BY <1>1 DEF BkAll, BkTypes
<1>9. \A x \in 0 .. MAXFILE - 1 : Kept(i, x) => Kept(i, x)'
  <2>1. \A x \in 0 .. MAXFILE - 1 : x \in Spots
    BY BkSizes DEF Spots
  <2> QED
    BY <1>2, <1>5, <2>1 DEF Kept
<1>10. FileRight(i)
  BY DEF BkAll
<1>11. WorkRight(p)'
  <2>1. Ip(p)' = i
    BY <1>1, <1>3 DEF Ip
  <2>2. CASE u.pc = "trunc" /\ u.at = 0
    BY <1>1, <1>3, <2>1, <2>2, BkSizes DEF WorkRight, Doing, Doomed
  <2>3. CASE u.pc = "write" /\ u.at <= len[i] /\ u.at < u.end
    <3>1. \A x \in 0 .. MAXFILE - 1 : x < len[i] \/ x < u.at => Kept(i, x)'
      <4>1. \A x \in 0 .. MAXFILE - 1 : x < u.at => x < len[i]
        <5>1. u.at \in Int /\ len[i] \in Int
          <6>1. len \in [Inodes -> 0 .. MAXFILE]
            BY DEF BkAll, BkTypes
          <6> QED
            BY <1>1, <6>1, BkSizes DEF Works
        <5> QED
          BY <2>3, <5>1, BkSizes
      <4> QED
        BY <1>2, <1>9, <1>10, <4>1 DEF FileRight
    <3>2. daddrs[i] = addrs[i]
      BY <1>2, <1>10 DEF FileRight
    <3> QED
      BY <1>1, <1>2, <1>3, <2>1, <2>3, <3>1, <3>2 DEF WorkRight, Doing, Doomed
  <2> QED
    BY <1>1, <2>2, <2>3
<1>12. FileRight(i)'
  <2>1. ~ Unlocked(i)'
    BY <1>1, <1>3 DEF Unlocked, Ip
  <2> QED
    BY <2>1 DEF FileRight
<1>13. Apart' /\ BitsRight' /\ FreeZero'
  BY <1>2, <1>4, <1>7, SameKeeps
<1>14. \A x \in Spots : Place(i, x)' \in BlockNos
  BY <1>5 DEF BkAll, BkTypes
<1>15. /\ words' \in [1 .. SIZE - 1 -> [Entries -> Int]]
       /\ addrs' \in [Inodes -> [0 .. NDIRECTS -> BlockNos]]
       /\ daddrs' \in [Inodes -> [0 .. NDIRECTS -> BlockNos]]
       /\ len' \in [Inodes -> 0 .. MAXFILE] /\ dlen' = len'
       /\ bkPanic' # "freeing free block"
  BY <1>2 DEF BkAll, BkTypes
<1> QED
  BY <1>4, <1>8, <1>11, <1>12, <1>13, <1>14, <1>15, StepKeeps

\* Nothing is dropped of a file that is written.
LEMMA WritesWhole ==
  ASSUME BkAll, NEW p \in Writers, Doing(p, "write"), NEW x
  PROVE  ~ Dropped(Ip(p), x)
<1>1. \A q \in Writers : Ip(q) = Ip(p) => q = p
  BY Alone DEF Doing
<1> QED
  BY <1>1 DEF Dropped, Doing

\* balloc goes on to the next bitmap block, or finds none.
LEMMA NextKeeps ==
  ASSUME BkAll, NEW p \in Writers, ballocNext(p)
  PROVE  BkAll'
<1>0. Doing(p, "write")
  BY DEF ballocNext, bmapMisses
<1>1. PICK i \in Inodes : i = Ip(p)
  BY <1>0, Alone DEF Doing
<1>2. UNCHANGED << bitmap, words, addrs, len, daddrs, dlen, outside >>
  BY DEF ballocNext, disk3
<1>3. /\ work' \in [Writers -> Works]
      /\ \A q \in Writers \ {p} : work'[q] = work[q]
      /\ work'[p].pc = work[p].pc /\ work'[p].ip = work[p].ip
      /\ work'[p].at = work[p].at /\ work'[p].end = work[p].end
  <2>1. work \in [Writers -> Works] /\ work[p] \in Works
    BY DEF BkAll, BkTypes
  <2>2. CASE work' = work
    BY <2>1, <2>2
  <2>3. CASE work' = [work EXCEPT ![p] = [work[p] EXCEPT !.k = work[p].k + 1]]
    <3>1. work[p].k + 1 \in Nat
      BY <2>1 DEF Works
    <3>2. PICK n \in Nat : n = work[p].k + 1
      BY <3>1
    <3>3. [work[p] EXCEPT !.k = n] \in Works
      BY <2>1 DEF Works
    <3> QED
      BY <2>1, <2>3, <3>2, <3>3 DEF Works
  <2> QED
    BY <2>2, <2>3 DEF ballocNext, Set
<1>4. WorksOn(p, i)
  <2>1. \A q \in Writers \ {p} : Ip(q) # i
    BY <1>0, <1>1, Alone DEF Doing
  <2> QED
    BY <1>1, <1>2, <1>3, <2>1 DEF WorksOn, Ip
<1>5. \A x \in Spots : Place(i, x)' = Place(i, x)
  BY <1>2 DEF Place, Indirect
<1>6. \A x \in Spots : ~ Dropped(i, x) /\ ~ Dropped(i, x)'
  BY <1>0, <1>1, <1>3, <1>4, WritesWhole, DroppedIs DEF Doing
<1>7. SpotsSame(i)
  BY <1>5, <1>6 DEF SpotsSame, InPlace
<1>8. \A x \in 0 .. MAXFILE - 1 : Kept(i, x) => Kept(i, x)'
  <2>1. \A x \in 0 .. MAXFILE - 1 : x \in Spots
    BY BkSizes DEF Spots
  <2> QED
    BY <1>2, <1>5, <2>1 DEF Kept
<1>9. WorkRight(p)'
  <2>1. Ip(p)' = i
    BY <1>1, <1>3 DEF Ip
  <2>2. WorkRight(p)
    BY DEF BkAll
  <2>3. Doing(p, "write")' /\ ~ Doing(p, "idle")' /\ ~ Doing(p, "trunc")'
        /\ ~ Doing(p, "bfree")' /\ ~ Doomed(p)'
    BY <1>0, <1>3 DEF Doing, Doomed
  <2> QED
    BY <1>0, <1>1, <1>2, <1>3, <1>8, <2>1, <2>2, <2>3 DEF WorkRight
<1>10. FileRight(i)'
  <2>1. ~ Unlocked(i)'
    BY <1>1, <1>3 DEF Unlocked, Ip
  <2> QED
    BY <2>1 DEF FileRight
<1>11. Apart' /\ BitsRight' /\ FreeZero'
  BY <1>2, <1>4, <1>7, SameKeeps
<1>12. \A x \in Spots : Place(i, x)' \in BlockNos
  BY <1>5 DEF BkAll, BkTypes
<1>13. /\ words' \in [1 .. SIZE - 1 -> [Entries -> Int]]
       /\ addrs' \in [Inodes -> [0 .. NDIRECTS -> BlockNos]]
       /\ daddrs' \in [Inodes -> [0 .. NDIRECTS -> BlockNos]]
       /\ len' \in [Inodes -> 0 .. MAXFILE] /\ dlen' = len'
       /\ bkPanic' # "freeing free block"
  BY <1>2 DEF BkAll, BkTypes, ballocNext
<1> QED
  BY <1>3, <1>4, <1>9, <1>10, <1>11, <1>12, <1>13, StepKeeps

\* Writing to a block in place that is not the indirect one leaves all places.
LEMMA DataPlaces ==
  ASSUME BkAll, NEW i \in Inodes, NEW y \in 0 .. MAXFILE - 1, InPlace(i, y),
         addrs' = addrs, \A b \in 1 .. SIZE - 1 : b # Place(i, y) => words'[b] = words[b]
  PROVE  \A x \in Spots : Place(i, x)' = Place(i, x)
<1>1. y \in Spots /\ MAXFILE \in Spots /\ y # MAXFILE
  BY BkSizes DEF Spots
<1>2. Indirect(i)' = Indirect(i)
  BY DEF Indirect
<1>3. Indirect(i) # 0 => words'[Indirect(i)] = words[Indirect(i)]
  <2> SUFFICES ASSUME Indirect(i) # 0 PROVE words'[Indirect(i)] = words[Indirect(i)]
    OBVIOUS
  <2>1. InPlace(i, MAXFILE) /\ Place(i, MAXFILE) = Indirect(i)
    BY IndirectInPlace
  <2>2. Indirect(i) # Place(i, y)
    BY <1>1, <2>1 DEF BkAll, Apart
  <2>3. Indirect(i) \in 1 .. SIZE - 1
    BY <1>1, <2>1, InPlaceIs
  <2> QED
    BY <2>2, <2>3
<1> SUFFICES ASSUME NEW x \in Spots PROVE Place(i, x)' = Place(i, x)
  OBVIOUS
<1>4. PlaceRule(i, x) /\ PlaceRule(i, x)'
  BY PlaceIs
<1>5. x \in Int /\ 0 <= x /\ x <= MAXFILE
  BY BkSizes DEF Spots
<1>6. CASE x < NDIRECTS
  BY <1>4, <1>6 DEF PlaceRule
<1>7. CASE x >= NDIRECTS /\ x < MAXFILE
  BY <1>4, <1>7, <1>2, <1>3 DEF PlaceRule
<1>8. CASE x = MAXFILE
  BY <1>4, <1>8, <1>2 DEF PlaceRule
<1> QED
  BY <1>5, <1>6, <1>7, <1>8, BkSizes

\* What is written to a file is a block's contents.
LEMMA WrittenIs == ASSUME NEW i \in Inodes PROVE Written(i) \in [Entries -> Int]
  BY BkSizes DEF Written, Inodes

\* A block of zeros is a block.
LEMMA ZeroIs == Zero \in [Entries -> Int]
  BY DEF Zero

\* The data are written to the block that bmap has found.
LEMMA DataKeeps ==
  ASSUME BkAll, NEW p \in Writers, writeData(p)
  PROVE  BkAll'
<1>0. Doing(p, "write") /\ work \in [Writers -> Works] /\ work[p] \in Works
  BY DEF writeData, bmapFinds, BkAll, BkTypes
<1>1. PICK i \in Inodes : i = Ip(p)
  BY <1>0, Alone DEF Doing
<1>2. PICK y \in Nat : y = work[p].at
  BY <1>0 DEF Works
<1>3. PICK t \in 0 .. MAXFILE : t = work[p].end
  BY <1>0 DEF Works
<1>4. WorkRight(p)
  BY DEF BkAll
<1>5. y < t /\ y \in 0 .. MAXFILE - 1 /\ y \in Spots
  BY <1>0, <1>1, <1>2, <1>3, <1>4, BkSizes DEF WorkRight, Spots
<1>6. PICK b \in BlockNos : b = Place(i, y)
  BY <1>5 DEF BkAll, BkTypes
<1>7. InPlace(i, y)
  BY <1>0, <1>1, <1>2, WritesWhole DEF InPlace, writeData, bmapFinds
<1>8. b \in 1 .. SIZE - 1
  BY <1>5, <1>6, <1>7, InPlaceIs
<1>9. words' = [words EXCEPT ![b] = Written(i)]
  BY <1>1, <1>2, <1>6 DEF writeData
<1>10. /\ words' \in [1 .. SIZE - 1 -> [Entries -> Int]]
       /\ words'[b] = Written(i)
       /\ \A c \in 1 .. SIZE - 1 : c # b => words'[c] = words[c]
  BY <1>8, <1>9, WrittenIs DEF BkAll, BkTypes
<1>11. bitmap' = bitmap /\ addrs' = addrs /\ bkPanic' = bkPanic
  BY DEF writeData
<1>12. \A x \in Spots : Place(i, x)' = Place(i, x)
  BY <1>5, <1>6, <1>7, <1>10, <1>11, DataPlaces
<1>13. PICK done \in BOOLEAN : done <=> y + 1 = t
  OBVIOUS
<1>14. PICK grows \in BOOLEAN : grows <=> done /\ y + 1 > len[i]
  OBVIOUS
<1>15. /\ len' = IF grows THEN [len EXCEPT ![i] = y + 1] ELSE len
       /\ dlen' = IF grows THEN [dlen EXCEPT ![i] = y + 1] ELSE dlen
       /\ daddrs' = IF grows THEN [daddrs EXCEPT ![i] = addrs[i]] ELSE daddrs
       /\ work' = [work EXCEPT ![p] = IF done THEN Idle ELSE [work[p] EXCEPT !.at = y + 1]]
  BY <1>1, <1>2, <1>3, <1>13, <1>14 DEF writeData, Set
<1>16. /\ len \in [Inodes -> 0 .. MAXFILE] /\ dlen = len
       /\ addrs \in [Inodes -> [0 .. NDIRECTS -> BlockNos]]
       /\ daddrs \in [Inodes -> [0 .. NDIRECTS -> BlockNos]]
  BY DEF BkAll, BkTypes
<1>17. y + 1 \in 0 .. MAXFILE /\ y + 1 \in Nat
  BY <1>5, BkSizes
<1>18. /\ len' \in [Inodes -> 0 .. MAXFILE] /\ dlen' = len'
       /\ \A j \in Inodes \ {i} : len'[j] = len[j]
       /\ len'[i] = IF grows THEN y + 1 ELSE len[i]
  BY <1>15, <1>16, <1>17
<1>19. /\ daddrs' \in [Inodes -> [0 .. NDIRECTS -> BlockNos]]
       /\ \A j \in Inodes \ {i} : daddrs'[j] = daddrs[j]
       /\ daddrs'[i] = IF grows THEN addrs[i] ELSE daddrs[i]
  BY <1>15, <1>16
<1>20. PICK u \in Works : /\ work' = [work EXCEPT ![p] = u]
                          /\ done => u = Idle
                          /\ ~ done => /\ u.pc = "write" /\ u.ip = i /\ u.at = y + 1
                                       /\ u.end = t
  <2>1. CASE done
    BY <1>15, <2>1, IdleIs
  <2>2. CASE ~ done
    <3>1. PICK n \in Nat : n = y + 1
      BY <1>17
    <3>2. PICK u \in Works : u = [work[p] EXCEPT !.at = n]
      BY <1>0 DEF Works
    <3>3. u.pc = work[p].pc /\ u.ip = work[p].ip /\ u.at = n /\ u.end = work[p].end
      BY <1>0, <3>2 DEF Works
    <3>4. u.pc = "write" /\ u.ip = i /\ u.at = y + 1 /\ u.end = t
      BY <1>0, <1>1, <1>3, <3>1, <3>3 DEF Doing, Ip
    <3> QED
      BY <1>15, <2>2, <3>1, <3>2, <3>4
  <2> QED
    BY <2>1, <2>2
<1>21. /\ work' \in [Writers -> Works] /\ work'[p] = u
       /\ \A q \in Writers \ {p} : work'[q] = work[q]
  BY <1>0, <1>20
<1>22. u.ip \in {0, i} /\ u.pc \in {"idle", "write"}
  BY <1>20, IdleIs
<1>23. WorksOn(p, i)
  <2>1. \A q \in Writers \ {p} : Ip(q) # i
    BY <1>0, <1>1, Alone DEF Doing
  <2>2. \A c \in 1 .. SIZE - 1 :
          words'[c] = words[c] \/ \E x \in Spots : InPlace(i, x) /\ c = Place(i, x)
    BY <1>5, <1>6, <1>7, <1>10
  <2> QED
    BY <1>1, <1>11, <1>18, <1>19, <1>21, <1>22, <2>1, <2>2 DEF WorksOn
<1>24. \A x \in Spots : ~ Dropped(i, x) /\ ~ Dropped(i, x)'
  BY <1>0, <1>1, <1>21, <1>22, <1>23, WritesWhole, DroppedIs
<1>25. SpotsSame(i)
  BY <1>12, <1>24 DEF SpotsSame, InPlace
<1>26. ASSUME NEW x \in 0 .. MAXFILE - 1, x < len[i] \/ x < y + 1
       PROVE  Kept(i, x)'
  <2>1. x \in Spots
    BY BkSizes DEF Spots
  <2>2. CASE x = y
    <3>1. Place(i, y)' = b
      BY <1>5, <1>6, <1>12
    <3> QED
      BY <1>6, <1>7, <1>10, <2>2, <3>1 DEF Kept, InPlace
  <2>3. CASE x # y
    <3>1. x < len[i] \/ x < y
      BY <1>26, <2>3
    <3>2. Kept(i, x)
      BY <1>0, <1>1, <1>2, <1>4, <3>1 DEF WorkRight
    <3>3. InPlace(i, x)
      BY <1>24, <2>1, <3>2 DEF InPlace, Kept
    <3>4. Place(i, x) # b
      BY <1>5, <1>6, <1>7, <2>1, <2>3, <3>3 DEF BkAll, Apart
    <3>5. Place(i, x) \in 1 .. SIZE - 1
      BY <2>1, <3>3, InPlaceIs
    <3> QED
      BY <1>10, <1>12, <2>1, <3>2, <3>4, <3>5 DEF Kept
  <2> QED
    BY <2>2, <2>3
<1>27. ASSUME NEW x \in 0 .. MAXFILE - 1, x < len'[i] PROVE Kept(i, x)'
  BY <1>18, <1>26, <1>27
<1>28. WorkRight(p)'
  <2>1. CASE done
    <3>1. work'[p] = Idle
      BY <1>20, <1>21, <2>1
    <3> QED
      BY <3>1, IdleIs DEF WorkRight, Doing, Doomed
  <2>2. CASE ~ done
    <3>1. work'[p].pc = "write" /\ Ip(p)' = i /\ work'[p].at = y + 1 /\ work'[p].end = t
      BY <1>20, <1>21, <2>2 DEF Ip
    <3>2. y + 1 < t
      BY <1>5, <1>13, <2>2
    <3>3. len'[i] = len[i] /\ daddrs'[i] = daddrs[i] /\ addrs'[i] = addrs[i]
      BY <1>11, <1>14, <1>18, <1>19, <2>2
    <3>4. t <= len[i] => daddrs[i] = addrs[i]
      BY <1>0, <1>1, <1>3, <1>4 DEF WorkRight
    <3> QED
      BY <1>26, <3>1, <3>2, <3>3, <3>4 DEF WorkRight, Doing, Doomed
  <2> QED
    BY <2>1, <2>2
<1>29. FileRight(i)'
  <2>1. CASE ~ done
    <3>1. ~ Unlocked(i)'
      BY <1>20, <1>21, <2>1 DEF Unlocked, Ip
    <3> QED
      BY <3>1 DEF FileRight
  <2>2. CASE done
    <3>1. daddrs'[i] = addrs'[i]
      <4>1. CASE grows
        BY <1>11, <1>19, <4>1
      <4>2. CASE ~ grows
        <5>1. t <= len[i]
          BY <1>13, <1>14, <1>16, <2>2, <4>2, BkSizes
        <5> QED
          BY <1>0, <1>1, <1>3, <1>4, <1>11, <1>19, <4>2, <5>1 DEF WorkRight
      <4> QED
        BY <4>1, <4>2
    <3> QED
      BY <1>27, <3>1 DEF FileRight
  <2> QED
    BY <2>1, <2>2
<1>30. Apart' /\ BitsRight' /\ FreeZero'
  BY <1>11, <1>23, <1>25, SameKeeps
<1>31. \A x \in Spots : Place(i, x)' \in BlockNos
  BY <1>12 DEF BkAll, BkTypes
<1>32. addrs' \in [Inodes -> [0 .. NDIRECTS -> BlockNos]] /\ bkPanic' # "freeing free block"
  BY <1>11 DEF BkAll, BkTypes
<1> QED
  BY <1>10, <1>18, <1>19, <1>21, <1>23, <1>28, <1>29, <1>30, <1>31, <1>32, StepKeeps

-----------------------------------------------------------------------------
\* The record of a process with its place, and with its block, set.
Onward(d, n) == [d EXCEPT !.at = n]
Freeing(d, b) == [d EXCEPT !.pc = "bfree", !.k = b]
Freed(d, n) == [d EXCEPT !.pc = "trunc", !.at = n, !.k = 0]
Found(d) == [d EXCEPT !.k = 0]

\* Such records are of the right type and keep the other fields.
LEMMA WorkSet ==
  ASSUME NEW d \in Works, NEW n \in Nat
  PROVE  /\ Onward(d, n) \in Works
         /\ Onward(d, n).pc = d.pc /\ Onward(d, n).ip = d.ip /\ Onward(d, n).at = n
         /\ Freeing(d, n) \in Works
         /\ Freeing(d, n).pc = "bfree" /\ Freeing(d, n).ip = d.ip
         /\ Freeing(d, n).at = d.at /\ Freeing(d, n).k = n
         /\ Freed(d, n) \in Works
         /\ Freed(d, n).pc = "trunc" /\ Freed(d, n).ip = d.ip /\ Freed(d, n).at = n
         /\ Found(d) \in Works
         /\ Found(d).pc = d.pc /\ Found(d).ip = d.ip
         /\ Found(d).at = d.at /\ Found(d).end = d.end
<1>1. Onward(d, n) \in Works
  BY DEF Works, Onward
<1>2. Freeing(d, n) \in Works
  BY DEF Works, Freeing
<1>3. Freed(d, n) \in Works
  BY DEF Works, Freed
<1>4. Found(d) \in Works
  BY DEF Works, Found
<1>5. Onward(d, n).pc = d.pc /\ Onward(d, n).ip = d.ip /\ Onward(d, n).at = n
  BY DEF Works, Onward
<1>6. /\ Freeing(d, n).pc = "bfree" /\ Freeing(d, n).ip = d.ip
      /\ Freeing(d, n).at = d.at /\ Freeing(d, n).k = n
  BY DEF Works, Freeing
<1>7. Freed(d, n).pc = "trunc" /\ Freed(d, n).ip = d.ip /\ Freed(d, n).at = n
  BY DEF Works, Freed
<1>8. /\ Found(d).pc = d.pc /\ Found(d).ip = d.ip
      /\ Found(d).at = d.at /\ Found(d).end = d.end
  BY DEF Works, Found
<1> QED
  BY <1>1, <1>2, <1>3, <1>4, <1>5, <1>6, <1>7, <1>8

\* itrunc passes a place that names no block.
LEMMA SkipKeeps ==
  ASSUME BkAll, NEW p \in Writers, bzero(p), Place(Ip(p), work[p].at) = 0
  PROVE  BkAll'
<1>0. Doing(p, "trunc") /\ work \in [Writers -> Works] /\ work[p] \in Works
  BY DEF bzero, BkAll, BkTypes
<1>1. PICK i \in Inodes : i = Ip(p)
  BY <1>0, Alone DEF Doing
<1>2. PICK y \in Nat : y = work[p].at
  BY <1>0 DEF Works
<1>3. y <= MAXFILE /\ y \in Spots /\ y + 1 \in Nat
  BY <1>2, BkSizes DEF bzero, Spots
<1>4. /\ work' = [work EXCEPT ![p] = Onward(work[p], y + 1)]
      /\ UNCHANGED << bitmap, words, addrs, len, daddrs, dlen, bkPanic, outside >>
  BY <1>2 DEF bzero, Set, disk3, Onward
<1>5. PICK u \in Works : /\ u.pc = "trunc" /\ u.ip = i /\ u.at = y + 1
                         /\ work' = [work EXCEPT ![p] = u]
  <2>1. PICK n \in Nat : n = y + 1
    BY <1>3
  <2>2. /\ Onward(work[p], n) \in Works
        /\ Onward(work[p], n).pc = work[p].pc /\ Onward(work[p], n).ip = work[p].ip
        /\ Onward(work[p], n).at = n
    BY <1>0, WorkSet
  <2>3. work[p].ip = i /\ work[p].pc = "trunc"
    BY <1>0, <1>1 DEF Ip, Doing
  <2> QED
    BY <1>4, <2>1, <2>2, <2>3
<1>6. /\ work' \in [Writers -> Works] /\ work'[p] = u
      /\ \A q \in Writers \ {p} : work'[q] = work[q]
  BY <1>0, <1>5
<1>7. WorksOn(p, i)
  <2>1. \A q \in Writers \ {p} : Ip(q) # i
    BY <1>0, <1>1, Alone DEF Doing
  <2> QED
    BY <1>1, <1>4, <1>5, <1>6, <2>1 DEF WorksOn
<1>8. \A x \in Spots : Place(i, x)' = Place(i, x)
  BY <1>4 DEF Place, Indirect
<1>9. \A x \in Spots : x # y => (Dropped(i, x)' <=> Dropped(i, x))
  <2> SUFFICES ASSUME NEW x \in Spots, x # y PROVE Dropped(i, x)' <=> Dropped(i, x)
    OBVIOUS
  <2>1. y + 1 > x <=> y > x
    BY BkSizes DEF Spots
  <2>2. Dropped(i, x) <=> y > x
    BY <1>0, <1>1, <1>2, <1>7, DroppedIs DEF Doing, Doomed
  <2>3. Dropped(i, x)' <=> y + 1 > x
    BY <1>5, <1>6, <1>7, DroppedIs
  <2> QED
    BY <2>1, <2>2, <2>3
<1>10. Place(i, y) = 0
  BY <1>1, <1>2
<1>11. SpotsSame(i)
  BY <1>8, <1>9, <1>10 DEF SpotsSame, InPlace
<1>12. WorkRight(p)'
  <2>1. Ip(p)' = i /\ work'[p].at = y + 1 /\ work'[p].pc = "trunc"
    BY <1>5, <1>6 DEF Ip
  <2>2. \A x \in 0 .. NDIRECTS - 1 : x < y => addrs[i][x] = 0
    BY <1>0, <1>1, <1>2 DEF BkAll, WorkRight, Doing, Doomed
  <2>3. PlaceRule(i, y)
    BY <1>3, PlaceIs
  <2>4. \A x \in 0 .. NDIRECTS - 1 : x < y + 1 => addrs[i][x] = 0
    BY <1>10, <2>2, <2>3, BkSizes DEF PlaceRule
  <2>5. y + 1 > MAXFILE => Indirect(i) = 0
    BY <1>3, <1>10, <2>3, BkSizes DEF PlaceRule
  <2>6. Indirect(i)' = Indirect(i)
    BY <1>4 DEF Indirect
  <2>7. y + 1 <= MAXFILE + 1
    BY <1>3, BkSizes
  <2> QED
    BY <1>4, <2>1, <2>4, <2>5, <2>6, <2>7 DEF WorkRight, Doing, Doomed
<1>13. FileRight(i)'
  <2>1. ~ Unlocked(i)'
    BY <1>5, <1>6 DEF Unlocked, Ip
  <2> QED
    BY <2>1 DEF FileRight
<1>14. Apart' /\ BitsRight' /\ FreeZero'
  BY <1>4, <1>7, <1>11, SameKeeps
<1>15. \A x \in Spots : Place(i, x)' \in BlockNos
  BY <1>8 DEF BkAll, BkTypes
<1>16. /\ words' \in [1 .. SIZE - 1 -> [Entries -> Int]]
       /\ addrs' \in [Inodes -> [0 .. NDIRECTS -> BlockNos]]
       /\ daddrs' \in [Inodes -> [0 .. NDIRECTS -> BlockNos]]
       /\ len' \in [Inodes -> 0 .. MAXFILE] /\ dlen' = len'
       /\ bkPanic' # "freeing free block"
  BY <1>4 DEF BkAll, BkTypes
<1> QED
  BY <1>6, <1>7, <1>12, <1>13, <1>14, <1>15, <1>16, StepKeeps

\* bfree zeroes a block.
LEMMA ZeroKeeps ==
  ASSUME BkAll, NEW p \in Writers, bzero(p), Place(Ip(p), work[p].at) # 0
  PROVE  BkAll'
<1>0. Doing(p, "trunc") /\ work \in [Writers -> Works] /\ work[p] \in Works
  BY DEF bzero, BkAll, BkTypes
<1>1. PICK i \in Inodes : i = Ip(p)
  BY <1>0, Alone DEF Doing
<1>2. PICK y \in Nat : y = work[p].at
  BY <1>0 DEF Works
<1>3. y <= MAXFILE /\ y \in Spots
  BY <1>2, BkSizes DEF bzero, Spots
<1>a. \A q \in Writers \ {p} : Ip(q) # i
  BY <1>0, <1>1, Alone DEF Doing
<1>b. \A x \in Spots : Dropped(i, x) <=> y > x
  BY <1>0, <1>1, <1>2, <1>a DEF Dropped, Doing
<1>4. InPlace(i, y)
  BY <1>1, <1>2, <1>3, <1>b DEF InPlace
<1>5. PICK b \in 1 .. SIZE - 1 : b = Place(i, y)
  BY <1>3, <1>4, InPlaceIs
<1>c. b \in Nat /\ b # 0
  BY BkSizes
<1>6. /\ work' = [work EXCEPT ![p] = Freeing(work[p], b)]
      /\ words' = [words EXCEPT ![b] = Zero]
      /\ UNCHANGED << bitmap, addrs, len, daddrs, dlen, bkPanic, outside >>
  BY <1>1, <1>2, <1>5 DEF bzero, Set, disk3, Cleaned, Freeing
<1>7. PICK u \in Works : /\ u.pc = "bfree" /\ u.ip = i /\ u.at = y /\ u.k = b
                         /\ work' = [work EXCEPT ![p] = u]
  <2>1. /\ Freeing(work[p], b) \in Works
        /\ Freeing(work[p], b).pc = "bfree" /\ Freeing(work[p], b).ip = work[p].ip
        /\ Freeing(work[p], b).at = work[p].at /\ Freeing(work[p], b).k = b
    BY <1>0, <1>c, WorkSet
  <2>2. work[p].ip = i
    BY <1>1 DEF Ip
  <2> QED
    BY <1>2, <1>6, <2>1, <2>2
<1>8. /\ work' \in [Writers -> Works] /\ work'[p] = u
      /\ \A q \in Writers \ {p} : work'[q] = work[q]
  BY <1>0, <1>7
<1>9. /\ words' \in [1 .. SIZE - 1 -> [Entries -> Int]]
      /\ words'[b] = Zero
      /\ \A c \in 1 .. SIZE - 1 : c # b => words'[c] = words[c]
  BY <1>6, ZeroIs DEF BkAll, BkTypes
<1>10. WorksOn(p, i)
  <2>1. \A c \in 1 .. SIZE - 1 :
          words'[c] = words[c] \/ \E x \in Spots : InPlace(i, x) /\ c = Place(i, x)
    BY <1>3, <1>4, <1>5, <1>9
  <2> QED
    BY <1>1, <1>6, <1>7, <1>8, <1>a, <2>1 DEF WorksOn
<1>11. \A x \in Spots : Dropped(i, x)' <=> y > x
  BY <1>7, <1>8, <1>10, DroppedIs
<1>12. \A x \in Spots : y <= x => Place(i, x)' = Place(i, x)
  <2>1. CASE y < MAXFILE
    <3>1. y \in 0 .. MAXFILE - 1
      BY <2>1, BkSizes
    <3> QED
      BY <1>4, <1>5, <1>6, <1>9, <3>1, DataPlaces
  <2>2. CASE y = MAXFILE
    <3>1. \A x \in Spots : y <= x => x = MAXFILE
      BY <2>2, BkSizes DEF Spots
    <3>2. PlaceRule(i, y) /\ PlaceRule(i, y)'
      BY <1>3, PlaceIs
    <3>3. Indirect(i)' = Indirect(i)
      BY <1>6 DEF Indirect
    <3> QED
      BY <2>2, <3>1, <3>2, <3>3 DEF PlaceRule
  <2> QED
    BY <1>3, <2>1, <2>2, BkSizes
<1>13. SpotsSame(i)
  <2>1. \A x \in Spots : y <= x <=> ~ (y > x)
    BY BkSizes DEF Spots
  <2> QED
    BY <1>b, <1>11, <1>12, <2>1 DEF SpotsSame, InPlace
<1>14. ASSUME NEW x \in Spots PROVE Place(i, x)' \in BlockNos
  <2>0. Place(i, x) \in BlockNos /\ 0 \in BlockNos
    <3>1. Place(i, x) \in BlockNos
      BY DEF BkAll, BkTypes
    <3> QED
      BY <3>1, BkSizes DEF BlockNos
  <2>1. CASE y < MAXFILE
    <3>1. y \in 0 .. MAXFILE - 1
      BY <2>1, BkSizes
    <3>2. Place(i, x)' = Place(i, x)
      BY <1>4, <1>5, <1>6, <1>9, <3>1, DataPlaces
    <3> QED
      BY <2>0, <3>2
  <2>2. CASE y = MAXFILE
    <3>1. Indirect(i)' = b
      <4>1. PlaceRule(i, y)
        BY <1>3, PlaceIs
      <4>2. Indirect(i)' = Indirect(i)
        BY <1>6 DEF Indirect
      <4> QED
        BY <1>5, <2>2, <4>1, <4>2 DEF PlaceRule
    <3>2. PlaceRule(i, x) /\ PlaceRule(i, x)'
      BY PlaceIs
    <3>3. x \in Int /\ 0 <= x /\ x <= MAXFILE
      BY BkSizes DEF Spots
    <3>4. CASE x < NDIRECTS
      BY <1>6, <2>0, <3>2, <3>4 DEF PlaceRule
    <3>5. CASE x >= NDIRECTS /\ x < MAXFILE
      <4>1. Place(i, x)' = Zero[x - NDIRECTS]
        BY <1>9, <1>c, <3>1, <3>2, <3>5 DEF PlaceRule
      <4>2. x - NDIRECTS \in Entries
        BY <3>3, <3>5, BkSizes DEF Entries
      <4>3. Zero[x - NDIRECTS] = 0
        BY <4>2 DEF Zero
      <4> QED
        BY <2>0, <4>1, <4>3
    <3>6. CASE x = MAXFILE
      <4>1. b \in BlockNos
        BY BkSizes DEF BlockNos
      <4> QED
        BY <3>1, <3>2, <3>6, <4>1 DEF PlaceRule
    <3> QED
      BY <3>3, <3>4, <3>5, <3>6, BkSizes
  <2> QED
    BY <1>3, <2>1, <2>2, BkSizes
<1>15. WorkRight(p)'
  <2>1. Ip(p)' = i /\ work'[p].at = y /\ work'[p].pc = "bfree" /\ work'[p].k = b
    BY <1>7, <1>8 DEF Ip
  <2>2. \A x \in 0 .. NDIRECTS - 1 : x < y => addrs'[i][x] = 0
    BY <1>0, <1>1, <1>2, <1>6 DEF BkAll, WorkRight, Doing, Doomed
  <2>3. Place(i, y)' = b
    BY <1>3, <1>5, <1>12
  <2>4. ~ (y > MAXFILE)
    BY <1>3, BkSizes
  <2> QED
    BY <1>3, <1>9, <1>c, <2>1, <2>2, <2>3, <2>4 DEF WorkRight, Doing, Doomed
<1>16. FileRight(i)'
  <2>1. ~ Unlocked(i)'
    BY <1>7, <1>8 DEF Unlocked, Ip
  <2> QED
    BY <2>1 DEF FileRight
<1>17. Apart' /\ BitsRight' /\ FreeZero'
  BY <1>6, <1>10, <1>13, SameKeeps
<1>18. /\ addrs' \in [Inodes -> [0 .. NDIRECTS -> BlockNos]]
       /\ daddrs' \in [Inodes -> [0 .. NDIRECTS -> BlockNos]]
       /\ len' \in [Inodes -> 0 .. MAXFILE] /\ dlen' = len'
       /\ bkPanic' # "freeing free block"
  BY <1>6 DEF BkAll, BkTypes
<1> QED
  BY <1>8, <1>9, <1>10, <1>14, <1>15, <1>16, <1>17, <1>18, StepKeeps

\* One place of file i has gone, with its block, which is zero and free now.
LEMMA RemovedKeeps ==
  ASSUME BkAll, NEW p \in Writers, NEW i \in Inodes, WorksOn(p, i), NEW y \in Spots,
         InPlace(i, y), words' = words, words[Place(i, y)] = Zero,
         bitmap' = bitmap \ {Place(i, y)},
         \A x \in Spots : /\ InPlace(i, x)' <=> InPlace(i, x) /\ x # y
                          /\ InPlace(i, x)' => Place(i, x)' = Place(i, x)
  PROVE  Apart' /\ BitsRight' /\ FreeZero'
<1>1. \A j \in Inodes, x \in Spots :
        /\ InPlace(j, x)' <=> InPlace(j, x) /\ ~ (j = i /\ x = y)
        /\ InPlace(j, x)' => Place(j, x)' = Place(j, x)
  <2> SUFFICES ASSUME NEW j \in Inodes, NEW x \in Spots
               PROVE  /\ InPlace(j, x)' <=> InPlace(j, x) /\ ~ (j = i /\ x = y)
                      /\ InPlace(j, x)' => Place(j, x)' = Place(j, x)
    OBVIOUS
  <2>1. CASE j = i
    BY <2>1
  <2>2. CASE j # i
    BY <2>2, OthersStay DEF Stays, InPlace
  <2> QED
    BY <2>1, <2>2
<1>2. Apart'
  <2> SUFFICES ASSUME NEW j \in Inodes, NEW k \in Inodes, NEW x \in Spots, NEW z \in Spots,
                      InPlace(j, x)', InPlace(k, z)', Place(j, x)' = Place(k, z)'
               PROVE  j = k /\ x = z
    BY DEF Apart
  <2>1. InPlace(j, x) /\ InPlace(k, z) /\ Place(j, x) = Place(k, z)
    BY <1>1
  <2> QED
    BY <2>1 DEF BkAll, Apart
<1>3. BitsRight'
  <2>0. Place(i, y) # 0
    BY DEF InPlace
  <2>1. bitmap' \subseteq BlockNos
    BY DEF BkAll, BitsRight
  <2>2. ASSUME NEW b \in BlockNos
        PROVE  b \in bitmap' <=>
                 b = 0 \/ \E j \in Inodes, x \in Spots : InPlace(j, x)' /\ b = Place(j, x)'
    <3>1. b \in bitmap <=>
            b = 0 \/ \E j \in Inodes, x \in Spots : InPlace(j, x) /\ b = Place(j, x)
      BY DEF BkAll, BitsRight
    <3>2. ASSUME b \in bitmap', b # 0
          PROVE  \E j \in Inodes, x \in Spots : InPlace(j, x)' /\ b = Place(j, x)'
      <4>1. PICK j \in Inodes, x \in Spots : InPlace(j, x) /\ b = Place(j, x)
        BY <3>1, <3>2
      <4>2. ~ (j = i /\ x = y)
        BY <3>2, <4>1
      <4>3. InPlace(j, x)' /\ Place(j, x)' = Place(j, x)
        BY <1>1, <4>1, <4>2
      <4> QED
        BY <4>1, <4>3
    <3>3. ASSUME NEW j \in Inodes, NEW x \in Spots, InPlace(j, x)', b = Place(j, x)'
          PROVE  b \in bitmap'
      <4>1. InPlace(j, x) /\ ~ (j = i /\ x = y) /\ b = Place(j, x)
        BY <1>1, <3>3
      <4>2. b # Place(i, y)
        BY <4>1 DEF BkAll, Apart
      <4> QED
        BY <3>1, <4>1, <4>2
    <3> QED
      BY <2>0, <3>1, <3>2, <3>3
  <2> QED
    BY <2>1, <2>2 DEF BitsRight
<1>4. FreeZero'
  BY DEF BkAll, FreeZero
<1> QED
  BY <1>2, <1>3, <1>4

\* The addresses with one of them set.
WithAddr(i, s, b) == [addrs EXCEPT ![i][s] = b]

SetAt(A, i, s, b) ==
  /\ A \in [Inodes -> [0 .. NDIRECTS -> BlockNos]]
  /\ \A j \in Inodes \ {i} : A[j] = addrs[j]
  /\ \A z \in 0 .. NDIRECTS : A[i][z] = IF z = s THEN b ELSE addrs[i][z]

\* They are addresses still, and no other has changed.
LEMMA AddrSet ==
  ASSUME addrs \in [Inodes -> [0 .. NDIRECTS -> BlockNos]],
         NEW i \in Inodes, NEW s \in 0 .. NDIRECTS, NEW b \in BlockNos
  PROVE  SetAt(WithAddr(i, s, b), i, s, b)
  BY DEF WithAddr, SetAt

\* bfree clears the bit of the block and the address in the inode.
LEMMA FreeKeeps ==
  ASSUME BkAll, NEW p \in Writers, bfree(p)
  PROVE  BkAll'
<1>0. Doing(p, "bfree") /\ work \in [Writers -> Works] /\ work[p] \in Works
  BY DEF bfree, BkAll, BkTypes
<1>1. PICK i \in Inodes : i = Ip(p)
  BY <1>0, Alone DEF Doing
<1>2. PICK y \in Nat : y = work[p].at
  BY <1>0 DEF Works
<1>w. WorkRight(p)
  BY DEF BkAll
<1>3. y <= MAXFILE /\ y \in Spots /\ y + 1 \in Nat
  <2>1. y <= MAXFILE
    BY <1>0, <1>2, <1>w DEF WorkRight
  <2> QED
    BY <2>1, BkSizes DEF Spots
<1>a. \A q \in Writers \ {p} : Ip(q) # i
  BY <1>0, <1>1, Alone DEF Doing
<1>b. \A x \in Spots : Dropped(i, x) <=> y > x
  BY <1>0, <1>1, <1>2, <1>a DEF Dropped, Doing
<1>4. work[p].k = Place(i, y) /\ Place(i, y) # 0 /\ words[Place(i, y)] = Zero
  BY <1>0, <1>1, <1>2, <1>w DEF WorkRight
<1>5. InPlace(i, y) /\ Place(i, y) \in bitmap
  <2>1. InPlace(i, y)
    BY <1>3, <1>4, <1>b DEF InPlace
  <2> QED
    BY <1>3, <2>1, InPlaceIs
<1>6. /\ bkPanic' = "none" /\ bitmap' = bitmap \ {Place(i, y)}
      /\ work' = [work EXCEPT ![p] = Freed(work[p], y + 1)]
      /\ UNCHANGED << words, len, daddrs, dlen, outside >>
  BY <1>2, <1>4, <1>5 DEF bfree, Set, disk3, Freed
<1>7. addrs' = IF y < NDIRECTS THEN [addrs EXCEPT ![i][y] = 0]
               ELSE IF y = MAXFILE THEN [addrs EXCEPT ![i][NDIRECTS] = 0]
               ELSE addrs
  <2>1. y < NDIRECTS => y # MAXFILE
    BY BkSizes
  <2> QED
    BY <1>1, <1>2, <2>1 DEF bfree
<1>8. PICK u \in Works : /\ u.pc = "trunc" /\ u.ip = i /\ u.at = y + 1
                         /\ work' = [work EXCEPT ![p] = u]
  <2>1. PICK n \in Nat : n = y + 1
    BY <1>3
  <2>2. /\ Freed(work[p], n) \in Works
        /\ Freed(work[p], n).pc = "trunc" /\ Freed(work[p], n).ip = work[p].ip
        /\ Freed(work[p], n).at = n
    BY <1>0, WorkSet
  <2>3. work[p].ip = i
    BY <1>1 DEF Ip
  <2> QED
    BY <1>6, <2>1, <2>2, <2>3
<1>9. /\ work' \in [Writers -> Works] /\ work'[p] = u
      /\ \A q \in Writers \ {p} : work'[q] = work[q]
  BY <1>0, <1>8
<1>10. /\ addrs' \in [Inodes -> [0 .. NDIRECTS -> BlockNos]]
       /\ \A j \in Inodes \ {i} : addrs'[j] = addrs[j]
       /\ \A s \in 0 .. NDIRECTS : addrs'[i][s] =
            IF (y < NDIRECTS /\ s = y) \/ (y = MAXFILE /\ s = NDIRECTS) THEN 0 ELSE addrs[i][s]
  <2>0. /\ 0 \in BlockNos /\ NDIRECTS \in 0 .. NDIRECTS
        /\ addrs \in [Inodes -> [0 .. NDIRECTS -> BlockNos]]
    <3>1. addrs \in [Inodes -> [0 .. NDIRECTS -> BlockNos]]
      BY DEF BkAll, BkTypes
    <3> QED
      BY <3>1, BkSizes DEF BlockNos
  <2>1. CASE y < NDIRECTS
    <3>1. y \in 0 .. NDIRECTS /\ y # MAXFILE
      BY <2>1, BkSizes
    <3>2. addrs' = WithAddr(i, y, 0)
      BY <1>7, <2>1 DEF WithAddr
    <3>3. SetAt(addrs', i, y, 0)
      BY <2>0, <3>1, <3>2, AddrSet
    <3> QED
      BY <2>1, <3>1, <3>3 DEF SetAt
  <2>2. CASE y = MAXFILE
    <3>1. ~ (y < NDIRECTS)
      BY <2>2, BkSizes
    <3>2. addrs' = WithAddr(i, NDIRECTS, 0)
      BY <1>7, <2>2, <3>1 DEF WithAddr
    <3>3. SetAt(addrs', i, NDIRECTS, 0)
      BY <2>0, <3>2, AddrSet
    <3> QED
      BY <2>2, <3>1, <3>3 DEF SetAt
  <2>3. CASE ~ (y < NDIRECTS) /\ y # MAXFILE
    BY <1>7, <2>0, <2>3
  <2> QED
    BY <2>1, <2>2, <2>3
<1>11. WorksOn(p, i)
  BY <1>1, <1>6, <1>8, <1>9, <1>10, <1>a DEF WorksOn
<1>12. \A x \in Spots : Dropped(i, x)' <=> y + 1 > x
  BY <1>8, <1>9, <1>11, DroppedIs
<1>13. Indirect(i)' = IF y = MAXFILE THEN 0 ELSE Indirect(i)
  <2>1. NDIRECTS \in 0 .. NDIRECTS
    BY BkSizes
  <2>2. y < NDIRECTS => NDIRECTS # y
    BY BkSizes
  <2> QED
    BY <1>10, <2>1, <2>2 DEF Indirect
<1>14. ASSUME NEW x \in Spots
       PROVE  Place(i, x)' \in {0, Place(i, x)} /\ (y < x => Place(i, x)' = Place(i, x))
  <2>1. PlaceRule(i, x) /\ PlaceRule(i, x)'
    BY PlaceIs
  <2>2. x \in Int /\ 0 <= x /\ x <= MAXFILE
    BY BkSizes DEF Spots
  <2>3. CASE x < NDIRECTS
    <3>1. x \in 0 .. NDIRECTS /\ x # NDIRECTS
      BY <2>2, <2>3, BkSizes
    <3>2. y < x => x # y
      BY <2>2
    <3> QED
      BY <1>10, <2>1, <2>3, <3>1, <3>2 DEF PlaceRule
  <2>4. CASE x >= NDIRECTS /\ x < MAXFILE
    <3>1. y < x => y # MAXFILE
      BY <2>2, <2>4, BkSizes
    <3> QED
      BY <1>6, <1>13, <2>1, <2>4, <3>1 DEF PlaceRule
  <2>5. CASE x = MAXFILE
    <3>1. y < x => y # MAXFILE
      BY <2>5, BkSizes
    <3> QED
      BY <1>13, <2>1, <2>5, <3>1 DEF PlaceRule
  <2> QED
    BY <2>2, <2>3, <2>4, <2>5, BkSizes
<1>15. \A x \in Spots : /\ InPlace(i, x)' <=> InPlace(i, x) /\ x # y
                        /\ InPlace(i, x)' => Place(i, x)' = Place(i, x)
  <2> SUFFICES ASSUME NEW x \in Spots
               PROVE  /\ InPlace(i, x)' <=> InPlace(i, x) /\ x # y
                      /\ InPlace(i, x)' => Place(i, x)' = Place(i, x)
    OBVIOUS
  <2>1. CASE y < x
    <3>1. ~ (y + 1 > x) /\ ~ (y > x) /\ x # y
      BY <2>1, BkSizes DEF Spots
    <3> QED
      BY <1>12, <1>14, <1>b, <2>1, <3>1 DEF InPlace
  <2>2. CASE ~ (y < x)
    <3>1. y + 1 > x /\ (x # y => y > x)
      BY <2>2, BkSizes DEF Spots
    <3> QED
      BY <1>12, <1>b, <3>1 DEF InPlace
  <2> QED
    BY <2>1, <2>2
<1>16. Apart' /\ BitsRight' /\ FreeZero'
  BY <1>3, <1>4, <1>5, <1>6, <1>11, <1>15, RemovedKeeps
<1>17. \A x \in Spots : Place(i, x)' \in BlockNos
  <2>1. 0 \in BlockNos
    BY BkSizes DEF BlockNos
  <2>2. \A x \in Spots : Place(i, x) \in BlockNos
    BY DEF BkAll, BkTypes
  <2> QED
    BY <1>14, <2>1, <2>2
<1>18. WorkRight(p)'
  <2>1. Ip(p)' = i /\ work'[p].at = y + 1 /\ work'[p].pc = "trunc"
    BY <1>8, <1>9 DEF Ip
  <2>2. \A x \in 0 .. NDIRECTS - 1 : x < y => addrs[i][x] = 0
    BY <1>0, <1>1, <1>2, <1>w DEF WorkRight, Doing, Doomed
  <2>3. ASSUME NEW x \in 0 .. NDIRECTS - 1, x < y + 1 PROVE addrs'[i][x] = 0
    <3>1. x \in 0 .. NDIRECTS /\ (x = y => y < NDIRECTS) /\ (x # y => x < y)
      BY <2>3, BkSizes
    <3>2. CASE x = y
      BY <1>10, <3>1, <3>2
    <3>3. CASE x # y
      <4>1. addrs[i][x] = 0
        BY <2>2, <3>1, <3>3
      <4> QED
        BY <1>10, <3>1, <4>1
    <3> QED
      BY <3>2, <3>3
  <2>4. y + 1 > MAXFILE => Indirect(i)' = 0
    BY <1>3, <1>13, BkSizes
  <2>5. y + 1 <= MAXFILE + 1
    BY <1>3, BkSizes
  <2> QED
    BY <2>1, <2>3, <2>4, <2>5 DEF WorkRight, Doing, Doomed
<1>19. FileRight(i)'
  <2>1. ~ Unlocked(i)'
    BY <1>8, <1>9 DEF Unlocked, Ip
  <2> QED
    BY <2>1 DEF FileRight
<1>20. /\ words' \in [1 .. SIZE - 1 -> [Entries -> Int]]
       /\ daddrs' \in [Inodes -> [0 .. NDIRECTS -> BlockNos]]
       /\ len' \in [Inodes -> 0 .. MAXFILE] /\ dlen' = len'
       /\ bkPanic' # "freeing free block"
  BY <1>6 DEF BkAll, BkTypes
<1> QED
  BY <1>9, <1>10, <1>11, <1>16, <1>17, <1>18, <1>19, <1>20, StepKeeps

\* The end of itrunc: the file is empty.
LEMMA EndKeeps ==
  ASSUME BkAll, NEW p \in Writers, truncEnd(p)
  PROVE  BkAll'
<1>0. Doing(p, "trunc") /\ work \in [Writers -> Works] /\ work[p] \in Works
  BY DEF truncEnd, BkAll, BkTypes
<1>1. PICK i \in Inodes : i = Ip(p)
  BY <1>0, Alone DEF Doing
<1>2. PICK y \in Nat : y = work[p].at
  BY <1>0 DEF Works
<1>3. y > MAXFILE
  BY <1>2 DEF truncEnd
<1>4. /\ len' = [len EXCEPT ![i] = 0] /\ dlen' = [dlen EXCEPT ![i] = 0]
      /\ daddrs' = [daddrs EXCEPT ![i] = addrs[i]]
      /\ work' = [work EXCEPT ![p] = Idle]
      /\ UNCHANGED << bitmap, words, addrs, bkPanic, outside >>
  BY <1>1 DEF truncEnd, Set
<1>5. /\ len' \in [Inodes -> 0 .. MAXFILE] /\ dlen' = len' /\ len'[i] = 0
      /\ \A j \in Inodes \ {i} : len'[j] = len[j]
  <2>1. 0 \in 0 .. MAXFILE
    BY BkSizes
  <2>2. len \in [Inodes -> 0 .. MAXFILE] /\ dlen = len
    BY DEF BkAll, BkTypes
  <2> QED
    BY <1>4, <2>1, <2>2
<1>6. /\ daddrs' \in [Inodes -> [0 .. NDIRECTS -> BlockNos]] /\ daddrs'[i] = addrs'[i]
      /\ \A j \in Inodes \ {i} : daddrs'[j] = daddrs[j]
      /\ addrs' \in [Inodes -> [0 .. NDIRECTS -> BlockNos]]
  BY <1>4 DEF BkAll, BkTypes
<1>7. /\ work' \in [Writers -> Works] /\ work'[p] = Idle
      /\ \A q \in Writers \ {p} : work'[q] = work[q]
  BY <1>0, <1>4, IdleIs
<1>8. WorksOn(p, i)
  <2>1. \A q \in Writers \ {p} : Ip(q) # i
    BY <1>0, <1>1, Alone DEF Doing
  <2> QED
    BY <1>1, <1>4, <1>5, <1>6, <1>7, <2>1, IdleIs DEF WorksOn
<1>9. ASSUME NEW x \in Spots PROVE Place(i, x) = 0 /\ Place(i, x)' = 0
  <2>1. PlaceRule(i, x)
    BY PlaceIs
  <2>2. x \in Int /\ 0 <= x /\ x <= MAXFILE
    BY BkSizes DEF Spots
  <2>3. Indirect(i) = 0
    BY <1>0, <1>1, <1>2, <1>3 DEF BkAll, WorkRight, Doing, Doomed
  <2>4. \A z \in 0 .. NDIRECTS - 1 : z < y => addrs[i][z] = 0
    BY <1>0, <1>1, <1>2 DEF BkAll, WorkRight, Doing, Doomed
  <2>5. CASE x < NDIRECTS
    <3>1. x \in 0 .. NDIRECTS - 1 /\ x < y
      BY <1>3, <2>2, <2>5, BkSizes
    <3>2. Place(i, x) = 0
      BY <2>1, <2>4, <2>5, <3>1 DEF PlaceRule
    <3> QED
      BY <1>4, <3>2 DEF Place, Indirect
  <2>6. CASE ~ (x < NDIRECTS)
    <3>1. Place(i, x) = 0
      BY <2>1, <2>2, <2>3, <2>6, BkSizes DEF PlaceRule
    <3> QED
      BY <1>4, <3>1 DEF Place, Indirect
  <2> QED
    BY <2>5, <2>6
<1>10. SpotsSame(i)
  BY <1>9 DEF SpotsSame, InPlace
<1>11. Apart' /\ BitsRight' /\ FreeZero'
  BY <1>4, <1>8, <1>10, SameKeeps
<1>12. WorkRight(p)'
  BY <1>7, IdleIs DEF WorkRight, Doing, Doomed
<1>13. FileRight(i)'
  <2>1. \A x \in 0 .. MAXFILE - 1 : ~ (x < 0)
    BY BkSizes
  <2> QED
    BY <1>5, <1>6, <2>1 DEF FileRight
<1>14. \A x \in Spots : Place(i, x)' \in BlockNos
  <2>1. 0 \in BlockNos
    BY BkSizes DEF BlockNos
  <2> QED
    BY <1>9, <2>1
<1>15. words' \in [1 .. SIZE - 1 -> [Entries -> Int]] /\ bkPanic' # "freeing free block"
  BY <1>4 DEF BkAll, BkTypes
<1> QED
  BY <1>5, <1>6, <1>7, <1>8, <1>11, <1>12, <1>13, <1>14, <1>15, StepKeeps

-----------------------------------------------------------------------------
\* A place z of file i has got a block that was free.
LEMMA AddedKeeps ==
  ASSUME BkAll, NEW p \in Writers, NEW i \in Inodes, WorksOn(p, i), NEW z \in Spots,
         NEW b \in 1 .. SIZE - 1, b \notin bitmap, bitmap' = bitmap \cup {b},
         ~ InPlace(i, z), InPlace(i, z)', Place(i, z)' = b,
         \A x \in Spots \ {z} : /\ InPlace(i, x)' <=> InPlace(i, x)
                                /\ Place(i, x)' = Place(i, x)
  PROVE  Apart' /\ BitsRight' /\ FreeZero'
<1>1. \A j \in Inodes, x \in Spots : ~ (j = i /\ x = z) =>
        (InPlace(j, x)' <=> InPlace(j, x)) /\ Place(j, x)' = Place(j, x)
  <2> SUFFICES ASSUME NEW j \in Inodes, NEW x \in Spots, ~ (j = i /\ x = z)
               PROVE  (InPlace(j, x)' <=> InPlace(j, x)) /\ Place(j, x)' = Place(j, x)
    OBVIOUS
  <2>1. CASE j = i
    BY <2>1
  <2>2. CASE j # i
    BY <2>2, OthersStay DEF Stays, InPlace
  <2> QED
    BY <2>1, <2>2
<1>2. \A j \in Inodes, x \in Spots : InPlace(j, x) => Place(j, x) # b
  BY InPlaceIs
<1>3. Apart'
  <2> SUFFICES ASSUME NEW j \in Inodes, NEW k \in Inodes, NEW x \in Spots, NEW y \in Spots,
                      InPlace(j, x)', InPlace(k, y)', Place(j, x)' = Place(k, y)'
               PROVE  j = k /\ x = y
    BY DEF Apart
  <2>1. CASE (j = i /\ x = z) \/ (k = i /\ y = z)
    BY <1>1, <1>2, <2>1
  <2>2. CASE ~ (j = i /\ x = z) /\ ~ (k = i /\ y = z)
    <3>1. InPlace(j, x) /\ InPlace(k, y) /\ Place(j, x) = Place(k, y)
      BY <1>1, <2>2
    <3> QED
      BY <3>1 DEF BkAll, Apart
  <2> QED
    BY <2>1, <2>2
<1>4. BitsRight'
  <2>0. b \in BlockNos
    BY BkSizes DEF BlockNos
  <2>1. bitmap' \subseteq BlockNos
    BY <2>0 DEF BkAll, BitsRight
  <2>2. ASSUME NEW c \in BlockNos
        PROVE  c \in bitmap' <=>
                 c = 0 \/ \E j \in Inodes, x \in Spots : InPlace(j, x)' /\ c = Place(j, x)'
    <3>1. c \in bitmap <=>
            c = 0 \/ \E j \in Inodes, x \in Spots : InPlace(j, x) /\ c = Place(j, x)
      BY DEF BkAll, BitsRight
    <3>2. ASSUME c \in bitmap', c # 0
          PROVE  \E j \in Inodes, x \in Spots : InPlace(j, x)' /\ c = Place(j, x)'
      <4>1. CASE c = b
        BY <4>1
      <4>2. CASE c # b
        <5>1. PICK j \in Inodes, x \in Spots : InPlace(j, x) /\ c = Place(j, x)
          BY <3>1, <3>2, <4>2
        <5>2. ~ (j = i /\ x = z)
          BY <5>1
        <5> QED
          BY <1>1, <5>1, <5>2
      <4> QED
        BY <4>1, <4>2
    <3>3. ASSUME NEW j \in Inodes, NEW x \in Spots, InPlace(j, x)', c = Place(j, x)'
          PROVE  c \in bitmap'
      <4>1. CASE j = i /\ x = z
        BY <3>3, <4>1
      <4>2. CASE ~ (j = i /\ x = z)
        <5>1. InPlace(j, x) /\ c = Place(j, x)
          BY <1>1, <3>3, <4>2
        <5> QED
          BY <3>1, <5>1
      <4> QED
        BY <4>1, <4>2
    <3> QED
      BY <3>1, <3>2, <3>3
  <2> QED
    BY <2>1, <2>2 DEF BitsRight
<1>5. FreeZero'
  <2> SUFFICES ASSUME NEW c \in 1 .. SIZE - 1, c \notin bitmap' PROVE words'[c] = Zero
    BY DEF FreeZero
  <2>1. ~ \E x \in Spots : InPlace(i, x) /\ c = Place(i, x)
    BY InPlaceIs
  <2> QED
    BY <2>1 DEF WorksOn, BkAll, FreeZero
<1> QED
  BY <1>3, <1>4, <1>5

\* The first clear bit is a clear bit.
LEMMA FirstFreeIs ==
  ASSUME NEW k \in Nat, BitsOf(k) \ bitmap # {}
  PROVE  FirstFree(k) \in Nat /\ FirstFree(k) \in BitsOf(k) \ bitmap
<1> DEFINE S == BitsOf(k) \ bitmap
<1>1. BitsOf(k) \subseteq Nat
  <2>1. k * BPB \in Nat
    BY BkSizes
  <2> QED
    BY <2>1, BkSizes DEF BitsOf
<1>2. S \subseteq Nat /\ S # {}
  BY <1>1
<1> HIDE DEF S
<1>3. \E n \in S : \A m \in S : n <= m
  <2>1. PICK n \in S : \A m \in S : ~ (<< m, n >> \in OpToRel(<, Nat))
    BY <1>2, NatLessThanWellFounded, WFMin, Zenon
  <2>2. \A m \in S : ~ (m < n)
    BY <1>2, <2>1 DEF OpToRel
  <2> QED
    BY <1>2, <2>2
<1>4. FirstFree(k) = CHOOSE n \in S : \A m \in S : n <= m
  BY DEF FirstFree, S
<1>5. FirstFree(k) \in S
  BY <1>3, <1>4
<1> QED
  BY <1>2, <1>5 DEF S

\* The indirect block with one word set.
WithWord(a, t, b) == [words EXCEPT ![a][t] = b]

WordAt(W, a, g, b) ==
  /\ W \in [1 .. SIZE - 1 -> [Entries -> Int]]
  /\ \A c \in 1 .. SIZE - 1 : c # a => W[c] = words[c]
  /\ \A f \in Entries : W[a][f] = IF f = g THEN b ELSE words[a][f]

\* It is a block still, and no other word has changed.
LEMMA WordSet ==
  ASSUME words \in [1 .. SIZE - 1 -> [Entries -> Int]],
         NEW a \in 1 .. SIZE - 1, NEW g \in Entries, NEW b \in Int
  PROVE  WordAt(WithWord(a, g, b), a, g, b)
  BY DEF WithWord, WordAt

\* Where bmap notes the new block: the place that is missing, or the indirect block.
LEMMA NotedAt ==
  ASSUME BkAll, NEW p \in Writers, Doing(p, "write"), NEW i \in Inodes, i = Ip(p),
         NEW y \in 0 .. MAXFILE - 1, y = work[p].at, Place(i, y) = 0,
         NEW b \in 1 .. SIZE - 1, b \notin bitmap, Noted(p, b)
  PROVE  \E z \in Spots :
           /\ Place(i, z) = 0 /\ Place(i, z)' = b
           /\ \A x \in Spots \ {z} : Place(i, x)' = Place(i, x)
           /\ words' \in [1 .. SIZE - 1 -> [Entries -> Int]]
           /\ addrs' \in [Inodes -> [0 .. NDIRECTS -> BlockNos]]
           /\ \A j \in Inodes \ {i} : addrs'[j] = addrs[j]
           /\ \A c \in 1 .. SIZE - 1 : c # Indirect(i) => words'[c] = words[c]
<1>0. /\ words \in [1 .. SIZE - 1 -> [Entries -> Int]]
      /\ addrs \in [Inodes -> [0 .. NDIRECTS -> BlockNos]]
  BY DEF BkAll, BkTypes
<1>1. /\ b \in BlockNos /\ b \in Int /\ b # 0 /\ y \in Spots /\ MAXFILE \in Spots
      /\ NDIRECTS \in 0 .. NDIRECTS /\ y \in Int /\ 0 <= y /\ y < MAXFILE
  BY BkSizes DEF BlockNos, Spots
<1>2. ASSUME NEW x \in Spots PROVE /\ x \in Int /\ 0 <= x /\ x <= MAXFILE
                                   /\ PlaceRule(i, x) /\ PlaceRule(i, x)'
  BY BkSizes, PlaceIs DEF Spots
<1>3. CASE y < NDIRECTS
  <2>1. addrs' = WithAddr(i, y, b) /\ words' = words
    BY <1>3 DEF Noted, WithAddr
  <2>2. y \in 0 .. NDIRECTS /\ y # NDIRECTS
    BY <1>1, <1>3, BkSizes
  <2>3. /\ addrs' \in [Inodes -> [0 .. NDIRECTS -> BlockNos]]
        /\ \A j \in Inodes \ {i} : addrs'[j] = addrs[j]
        /\ \A s \in 0 .. NDIRECTS : addrs'[i][s] = IF s = y THEN b ELSE addrs[i][s]
    <3>1. SetAt(addrs', i, y, b)
      BY <1>0, <1>1, <2>1, <2>2, AddrSet
    <3> QED
      BY <3>1 DEF SetAt
  <2>4. Indirect(i)' = Indirect(i)
    BY <1>1, <2>2, <2>3 DEF Indirect
  <2>5. Place(i, y)' = b
    BY <1>1, <1>2, <1>3, <2>2, <2>3 DEF PlaceRule
  <2>6. ASSUME NEW x \in Spots \ {y} PROVE Place(i, x)' = Place(i, x)
    <3>1. CASE x < NDIRECTS
      <4>1. x \in 0 .. NDIRECTS
        BY <1>2, <3>1, BkSizes
      <4> QED
        BY <1>2, <2>3, <3>1, <4>1 DEF PlaceRule
    <3>2. CASE ~ (x < NDIRECTS)
      BY <1>2, <2>1, <2>4, <3>2, BkSizes DEF PlaceRule
    <3> QED
      BY <3>1, <3>2
  <2> QED
    BY <1>0, <1>1, <2>1, <2>3, <2>5, <2>6
<1>4. CASE ~ (y < NDIRECTS) /\ Indirect(i) = 0
  <2>1. addrs' = WithAddr(i, NDIRECTS, b) /\ words' = words
    BY <1>4 DEF Noted, WithAddr
  <2>2. /\ addrs' \in [Inodes -> [0 .. NDIRECTS -> BlockNos]]
        /\ \A j \in Inodes \ {i} : addrs'[j] = addrs[j]
        /\ \A s \in 0 .. NDIRECTS : addrs'[i][s] = IF s = NDIRECTS THEN b ELSE addrs[i][s]
    <3>1. SetAt(addrs', i, NDIRECTS, b)
      BY <1>0, <1>1, <2>1, AddrSet
    <3> QED
      BY <3>1 DEF SetAt
  <2>3. Indirect(i)' = b
    BY <1>1, <2>2 DEF Indirect
  <2>4. words'[b] = Zero
    BY <2>1 DEF BkAll, FreeZero
  <2>5. Place(i, MAXFILE) = 0 /\ Place(i, MAXFILE)' = b
    BY <1>1, <1>2, <1>4, <2>3 DEF PlaceRule
  <2>6. ASSUME NEW x \in Spots \ {MAXFILE} PROVE Place(i, x)' = Place(i, x)
    <3>1. CASE x < NDIRECTS
      <4>1. x \in 0 .. NDIRECTS /\ x # NDIRECTS
        BY <1>2, <3>1, BkSizes
      <4> QED
        BY <1>2, <2>2, <3>1, <4>1 DEF PlaceRule
    <3>2. CASE ~ (x < NDIRECTS)
      <4>1. x >= NDIRECTS /\ x < MAXFILE /\ x - NDIRECTS \in Entries
        BY <1>2, <3>2, BkSizes DEF Entries
      <4>2. Zero[x - NDIRECTS] = 0
        BY <4>1 DEF Zero
      <4>3. Place(i, x) = 0
        BY <1>2, <1>4, <4>1 DEF PlaceRule
      <4>4. Place(i, x)' = words'[b][x - NDIRECTS]
        BY <1>1, <1>2, <2>3, <4>1 DEF PlaceRule
      <4> QED
        BY <2>4, <4>2, <4>3, <4>4
    <3> QED
      BY <3>1, <3>2
  <2> QED
    BY <1>0, <1>1, <2>1, <2>2, <2>5, <2>6
<1>5. CASE ~ (y < NDIRECTS) /\ Indirect(i) # 0
  <2>1. PICK a \in 1 .. SIZE - 1 : a = Indirect(i)
    BY <1>1, <1>5, IndirectInPlace, InPlaceIs
  <2>2. PICK t \in Entries : t = y - NDIRECTS
    BY <1>1, <1>5, BkSizes DEF Entries
  <2>3. words' = WithWord(a, t, b) /\ addrs' = addrs
    BY <1>5, <2>1, <2>2 DEF Noted, WithWord
  <2>4. /\ words' \in [1 .. SIZE - 1 -> [Entries -> Int]]
        /\ \A c \in 1 .. SIZE - 1 : c # a => words'[c] = words[c]
        /\ \A f \in Entries : words'[a][f] = IF f = t THEN b ELSE words[a][f]
    <3>0. b \in Int
      OBVIOUS
    <3>1. words \in [1 .. SIZE - 1 -> [Entries -> Int]]
      BY DEF BkAll, BkTypes
    <3>2. WordAt(words', a, t, b)
      BY <2>3, <3>0, <3>1, WordSet
    <3> QED
      BY <3>2 DEF WordAt
  <2>5. Indirect(i)' = Indirect(i)
    BY <2>3 DEF Indirect
  <2>6. Place(i, y)' = b
    <3>1. y >= NDIRECTS /\ y < MAXFILE
      BY <1>1, <1>5, BkSizes
    <3>2. Place(i, y)' = words'[a][t]
      BY <1>1, <1>2, <1>5, <2>1, <2>2, <2>5, <3>1 DEF PlaceRule
    <3> QED
      BY <2>4, <3>2
  <2>7. ASSUME NEW x \in Spots \ {y} PROVE Place(i, x)' = Place(i, x)
    <3>1. CASE x < NDIRECTS
      BY <1>2, <2>3, <3>1 DEF PlaceRule
    <3>2. CASE x >= NDIRECTS /\ x < MAXFILE
      <4>0. x \in Int /\ x # y
        BY <1>2, <2>7
      <4>1. x - NDIRECTS \in Entries /\ x - NDIRECTS # t
        <5>1. x - NDIRECTS \in Entries
          BY <3>2, <4>0, BkSizes DEF Entries
        <5>2. x - NDIRECTS # y - NDIRECTS
          BY <1>1, <4>0, BkSizes
        <5> QED
          BY <2>2, <5>1, <5>2
      <4>2. Place(i, x) = words[a][x - NDIRECTS]
        BY <1>2, <1>5, <2>1, <3>2 DEF PlaceRule
      <4>3. Place(i, x)' = words'[a][x - NDIRECTS]
        BY <1>2, <1>5, <2>1, <2>5, <3>2 DEF PlaceRule
      <4> QED
        BY <2>4, <4>1, <4>2, <4>3
    <3>3. CASE x = MAXFILE
      BY <1>2, <2>5, <3>3 DEF PlaceRule
    <3> QED
      BY <1>2, <3>1, <3>2, <3>3, BkSizes
  <2> QED
    BY <1>0, <1>1, <2>1, <2>3, <2>4, <2>6, <2>7
<1> QED
  BY <1>3, <1>4, <1>5

\* balloc sets a bit, and bmap notes the block, unless it is beyond the disk.
LEMMA BallocKeeps ==
  ASSUME BkAll, NEW p \in Writers, ballocTakes(p), ~ outside'
  PROVE  BkAll'
<1>0. Doing(p, "write") /\ work \in [Writers -> Works] /\ work[p] \in Works
  BY DEF ballocTakes, bmapMisses, BkAll, BkTypes
<1>1. PICK i \in Inodes : i = Ip(p)
  BY <1>0, Alone DEF Doing
<1>2. PICK y \in Nat : y = work[p].at
  BY <1>0 DEF Works
<1>3. PICK t \in 0 .. MAXFILE : t = work[p].end
  BY <1>0 DEF Works
<1>w. WorkRight(p)
  BY DEF BkAll
<1>4. y < t /\ y \in 0 .. MAXFILE - 1
  BY <1>0, <1>1, <1>2, <1>3, <1>w, BkSizes DEF WorkRight
<1>5. PICK b \in Nat : b = FirstFree(work[p].k) /\ b \notin bitmap
  <2>1. work[p].k \in Nat
    BY <1>0 DEF Works
  <2> QED
    BY <2>1, FirstFreeIs DEF ballocTakes
<1>6. b \in 1 .. SIZE - 1
  <2>1. ~ (b >= SIZE)
    BY <1>5 DEF ballocTakes
  <2>2. 0 \in BlockNos
    BY BkSizes DEF BlockNos
  <2>3. 0 \in bitmap
    BY <2>2 DEF BkAll, BitsRight
  <2> QED
    BY <1>5, <2>1, <2>3, BkSizes
<1>7. /\ bitmap' = bitmap \cup {b} /\ Noted(p, b) /\ Place(i, y) = 0
      /\ work' = [work EXCEPT ![p] = Found(work[p])]
      /\ UNCHANGED << len, daddrs, dlen, bkPanic >>
  BY <1>1, <1>2, <1>5 DEF ballocTakes, bmapMisses, Set, disk3, Found
<1>8. PICK z \in Spots :
        /\ Place(i, z) = 0 /\ Place(i, z)' = b
        /\ \A x \in Spots \ {z} : Place(i, x)' = Place(i, x)
        /\ words' \in [1 .. SIZE - 1 -> [Entries -> Int]]
        /\ addrs' \in [Inodes -> [0 .. NDIRECTS -> BlockNos]]
        /\ \A j \in Inodes \ {i} : addrs'[j] = addrs[j]
        /\ \A c \in 1 .. SIZE - 1 : c # Indirect(i) => words'[c] = words[c]
  BY <1>0, <1>1, <1>2, <1>4, <1>5, <1>6, <1>7, NotedAt
<1>9. PICK u \in Works : /\ u.pc = "write" /\ u.ip = i /\ u.at = y /\ u.end = t
                         /\ work' = [work EXCEPT ![p] = u]
  <2>1. /\ Found(work[p]) \in Works
        /\ Found(work[p]).pc = work[p].pc /\ Found(work[p]).ip = work[p].ip
        /\ Found(work[p]).at = work[p].at /\ Found(work[p]).end = work[p].end
    BY <1>0, <1>2, WorkSet
  <2>2. work[p].ip = i /\ work[p].pc = "write"
    BY <1>0, <1>1 DEF Ip, Doing
  <2> QED
    BY <1>2, <1>3, <1>7, <2>1, <2>2
<1>10. /\ work' \in [Writers -> Works] /\ work'[p] = u
       /\ \A q \in Writers \ {p} : work'[q] = work[q]
  BY <1>0, <1>9
<1>m. MAXFILE \in Spots
  BY BkSizes DEF Spots
<1>11. WorksOn(p, i)
  <2>1. \A q \in Writers \ {p} : Ip(q) # i
    BY <1>0, <1>1, Alone DEF Doing
  <2>2. ASSUME NEW c \in 1 .. SIZE - 1, words'[c] # words[c]
        PROVE  \E x \in Spots : InPlace(i, x) /\ c = Place(i, x)
    <3>1. c = Indirect(i)
      BY <1>8, <2>2
    <3>2. c # 0
      BY BkSizes
    <3> QED
      BY <1>m, <3>1, <3>2, IndirectInPlace
  <2> QED
    BY <1>1, <1>7, <1>8, <1>9, <1>10, <2>1, <2>2 DEF WorksOn
<1>12. \A x \in Spots : ~ Dropped(i, x) /\ ~ Dropped(i, x)'
  BY <1>0, <1>1, <1>9, <1>10, <1>11, WritesWhole, DroppedIs
<1>13. b # 0
  BY <1>6, BkSizes
<1>14. Apart' /\ BitsRight' /\ FreeZero'
  <2>1. ~ InPlace(i, z) /\ InPlace(i, z)'
    BY <1>8, <1>12, <1>13 DEF InPlace
  <2>2. \A x \in Spots \ {z} : /\ InPlace(i, x)' <=> InPlace(i, x)
                               /\ Place(i, x)' = Place(i, x)
    BY <1>8, <1>12 DEF InPlace
  <2> QED
    BY <1>5, <1>6, <1>7, <1>8, <1>11, <2>1, <2>2, AddedKeeps
<1>15. ASSUME NEW x \in 0 .. MAXFILE - 1, Kept(i, x) PROVE Kept(i, x)'
  <2>1. x \in Spots /\ x # MAXFILE
    BY BkSizes DEF Spots
  <2>2. InPlace(i, x) /\ x # z
    BY <1>8, <1>12, <1>15, <2>1 DEF InPlace, Kept
  <2>3. Place(i, x)' = Place(i, x)
    BY <1>8, <2>1, <2>2
  <2>4. Place(i, x) \in 1 .. SIZE - 1
    BY <2>1, <2>2, InPlaceIs
  <2>5. Place(i, x) # Indirect(i)
    <3>1. CASE Indirect(i) = 0
      BY <2>2, <3>1 DEF InPlace
    <3>2. CASE Indirect(i) # 0
      BY <1>m, <2>1, <2>2, <3>2, IndirectInPlace DEF BkAll, Apart
    <3> QED
      BY <3>1, <3>2
  <2> QED
    BY <1>8, <1>15, <2>3, <2>4, <2>5 DEF Kept
<1>16. WorkRight(p)'
  <2>1. work'[p].pc = "write" /\ Ip(p)' = i /\ work'[p].at = y /\ work'[p].end = t
    BY <1>9, <1>10 DEF Ip
  <2>2. \A x \in 0 .. MAXFILE - 1 : x < len[i] \/ x < y => Kept(i, x)
    BY <1>0, <1>1, <1>2, <1>w DEF WorkRight
  <2>3. \A x \in 0 .. MAXFILE - 1 : x < len[i] \/ x < y => Kept(i, x)'
    BY <1>15, <2>2
  <2>4. ~ (t <= len[i])
    <3>1. ~ (y < len[i])
      BY <1>4, <1>7, <2>2 DEF Kept
    <3>2. len[i] \in Int
      <4>1. len \in [Inodes -> 0 .. MAXFILE]
        BY DEF BkAll, BkTypes
      <4> QED
        BY <4>1, BkSizes
    <3> QED
      BY <1>4, <3>1, <3>2, BkSizes
  <2> QED
    BY <1>4, <1>7, <2>1, <2>3, <2>4 DEF WorkRight, Doing, Doomed
<1>17. FileRight(i)'
  <2>1. ~ Unlocked(i)'
    BY <1>9, <1>10 DEF Unlocked, Ip
  <2> QED
    BY <2>1 DEF FileRight
<1>18. \A x \in Spots : Place(i, x)' \in BlockNos
  <2>1. \A x \in Spots : Place(i, x) \in BlockNos
    BY DEF BkAll, BkTypes
  <2>2. b \in BlockNos
    BY <1>6, BkSizes DEF BlockNos
  <2> QED
    BY <1>8, <2>1, <2>2
<1>19. /\ daddrs' \in [Inodes -> [0 .. NDIRECTS -> BlockNos]]
       /\ len' \in [Inodes -> 0 .. MAXFILE] /\ dlen' = len'
       /\ bkPanic' # "freeing free block"
  BY <1>7 DEF BkAll, BkTypes
<1> QED
  BY <1>8, <1>10, <1>11, <1>14, <1>16, <1>17, <1>18, <1>19, StepKeeps

-----------------------------------------------------------------------------
\* The empty disk has the invariant.
LEMMA BkInitKeeps == BkInit => BkInv
<1> SUFFICES ASSUME BkInit PROVE BkAll
  BY DEF BkInv
<1>0. 0 \in BlockNos /\ 0 \in 0 .. MAXFILE
  BY BkSizes DEF BlockNos
<1>1. /\ words \in [1 .. SIZE - 1 -> [Entries -> Int]] /\ daddrs = addrs
      /\ addrs \in [Inodes -> [0 .. NDIRECTS -> BlockNos]]
      /\ len \in [Inodes -> 0 .. MAXFILE] /\ dlen = len
      /\ work \in [Writers -> Works]
  BY <1>0, IdleIs, ZeroIs DEF BkInit
<1>2. \A p \in Writers : work[p] = Idle /\ Ip(p) = 0
  BY IdleIs DEF BkInit, Ip
<1>3. \A i \in Inodes : len[i] = 0 /\ \A s \in 0 .. NDIRECTS : addrs[i][s] = 0
  BY DEF BkInit
<1>4. \A i \in Inodes : Indirect(i) = 0
  BY <1>3, BkSizes DEF Indirect
<1>5. ASSUME NEW i \in Inodes, NEW x \in Spots PROVE Place(i, x) = 0
  <2>1. PlaceRule(i, x)
    BY PlaceIs
  <2>2. x \in Int /\ 0 <= x /\ x <= MAXFILE
    BY BkSizes DEF Spots
  <2>3. CASE x < NDIRECTS
    <3>1. x \in 0 .. NDIRECTS
      BY <2>2, <2>3, BkSizes
    <3> QED
      BY <1>3, <2>1, <2>3, <3>1 DEF PlaceRule
  <2>4. CASE ~ (x < NDIRECTS)
    BY <1>4, <2>1, <2>2, <2>4, BkSizes DEF PlaceRule
  <2> QED
    BY <2>3, <2>4
<1>6. BkTypes
  BY <1>0, <1>1, <1>5 DEF BkTypes
<1>7. Single
  BY <1>2 DEF Single
<1>8. Apart
  BY <1>5 DEF Apart, InPlace
<1>9. BitsRight
  <2>1. bitmap = {0}
    BY DEF BkInit
  <2> QED
    BY <1>0, <1>5, <2>1 DEF BitsRight, InPlace
<1>10. FreeZero
  BY DEF BkInit, FreeZero
<1>11. \A p \in Writers : WorkRight(p)
  BY <1>2, IdleIs DEF WorkRight, Doing, Doomed
<1>12. \A i \in Inodes : FileRight(i)
  <2>1. \A x \in 0 .. MAXFILE - 1 : ~ (x < 0)
    BY BkSizes
  <2> QED
    BY <1>1, <1>3, <2>1 DEF FileRight
<1>13. bkPanic # "freeing free block"
  BY DEF BkInit
<1> QED
  BY <1>6, <1>7, <1>8, <1>9, <1>10, <1>11, <1>12, <1>13 DEF BkAll

\* Every step keeps the invariant.
LEMMA BkNextKeeps == BkInv /\ [BkNext]_bkvars => BkInv'
<1> SUFFICES ASSUME BkInv, [BkNext]_bkvars PROVE BkInv'
  OBVIOUS
<1>1. CASE BkNext
  <2>1. BkAll
    BY <1>1 DEF BkInv, BkNext
  <2>2. PICK p \in Writers :
          \/ \E i \in Inodes : \/ \E off \in 0 .. MAXFILE - 1, n \in 1 .. MAXFILE :
                                    writeBegin(p, i, off, n)
                               \/ itrunc(p, i)
          \/ ballocTakes(p)
          \/ ballocNext(p)
          \/ writeData(p)
          \/ bzero(p)
          \/ bfree(p)
          \/ truncEnd(p)
    BY <1>1 DEF BkNext
  <2> QED
    BY <2>1, <2>2, BeginKeeps, BallocKeeps, NextKeeps, DataKeeps, SkipKeeps, ZeroKeeps,
       FreeKeeps, EndKeeps, Zenon DEF BkInv
<1>2. CASE UNCHANGED bkvars
  <2>1. /\ bitmap' = bitmap /\ words' = words /\ addrs' = addrs /\ len' = len
        /\ daddrs' = daddrs /\ dlen' = dlen /\ work' = work /\ bkPanic' = bkPanic
        /\ outside' = outside
    BY <1>2 DEF bkvars, disk3
  <2> SUFFICES ASSUME BkAll PROVE BkAll'
    BY <2>1 DEF BkInv
  <2>2. \A i, x : (Place(i, x)' = Place(i, x)) /\ (Indirect(i)' = Indirect(i))
    BY <2>1 DEF Place, Indirect
  <2>3. \A i, x : Dropped(i, x)' <=> Dropped(i, x)
    BY <2>1 DEF Dropped, Ip
  <2>4. /\ \A i, x : InPlace(i, x)' <=> InPlace(i, x)
        /\ \A i, x : Kept(i, x)' <=> Kept(i, x)
    BY <2>1, <2>2, <2>3 DEF InPlace, Kept
  <2>5. /\ \A i : Unlocked(i)' <=> Unlocked(i)
        /\ \A q : (Ip(q)' = Ip(q)) /\ (Doomed(q)' <=> Doomed(q))
        /\ \A q, l : Doing(q, l)' <=> Doing(q, l)
    BY <2>1 DEF Unlocked, Ip, Doomed, Doing
  <2>6. BkTypes' /\ Single' /\ FreeZero'
    BY <2>1, <2>2, <2>5 DEF BkAll, BkTypes, Single, FreeZero
  <2>7. Apart' /\ BitsRight'
    BY <2>1, <2>2, <2>4 DEF BkAll, Apart, BitsRight
  <2>8. \A q \in Writers : WorkRight(q)'
    BY <2>1, <2>2, <2>4, <2>5 DEF BkAll, WorkRight
  <2>9. \A i \in Inodes : FileRight(i)'
    BY <2>1, <2>4, <2>5 DEF BkAll, FileRight
  <2> QED
    BY <2>1, <2>6, <2>7, <2>8, <2>9 DEF BkAll
<1> QED
  BY <1>1, <1>2

\* The invariant says what the run checks.
LEMMA BkInvSound == BkInv => BlocksSound
<1> SUFFICES ASSUME BkAll PROVE BlocksSound
  BY DEF BkInv, BlocksSound
<1>0. Spots = 0 .. MAXFILE
  BY DEF Spots
<1>1. \A l \in Places : /\ l[1] \in Inodes /\ l[2] \in Spots /\ l = << l[1], l[2] >>
                        /\ InPlace(l[1], l[2]) /\ BlockAt(l) = Place(l[1], l[2])
  BY <1>0 DEF Places, BlockAt, InPlace
<1>2. \A l, m \in Places : BlockAt(l) = BlockAt(m) => l = m
  <2> SUFFICES ASSUME NEW l \in Places, NEW m \in Places, BlockAt(l) = BlockAt(m) PROVE l = m
    OBVIOUS
  <2>0. PICK i \in Inodes, j \in Inodes, x \in Spots, y \in Spots :
          /\ i = l[1] /\ x = l[2] /\ j = m[1] /\ y = m[2]
          /\ InPlace(i, x) /\ InPlace(j, y) /\ Place(i, x) = Place(j, y)
    <3>1. /\ l[1] \in Inodes /\ l[2] \in Spots /\ InPlace(l[1], l[2])
          /\ BlockAt(l) = Place(l[1], l[2])
      BY <1>1
    <3>2. /\ m[1] \in Inodes /\ m[2] \in Spots /\ InPlace(m[1], m[2])
          /\ BlockAt(m) = Place(m[1], m[2])
      BY <1>1
    <3>3. Place(l[1], l[2]) = Place(m[1], m[2])
      BY <3>1, <3>2
    <3> QED
      BY <3>1, <3>2, <3>3, Zenon
  <2>1. l[1] = m[1] /\ l[2] = m[2]
    <3>1. Apart
      BY DEF BkAll
    <3>2. i = j /\ x = y
      <4>1. InPlace(i, x) /\ InPlace(j, y) /\ Place(i, x) = Place(j, y)
        BY <2>0
      <4>2. (InPlace(i, x) /\ InPlace(j, y) /\ Place(i, x) = Place(j, y)) => (i = j /\ x = y)
        BY <3>1 DEF Apart
      <4> QED
        BY <4>1, <4>2
    <3> QED
      BY <2>0, <3>2
  <2> QED
    BY <1>1, <2>1
<1>3. bitmap = {0} \cup {BlockAt(l) : l \in Places}
  <2>1. 0 \in BlockNos
    BY BkSizes DEF BlockNos
  <2>2. ASSUME NEW b \in bitmap PROVE b = 0 \/ \E l \in Places : b = BlockAt(l)
    <3>1. b \in BlockNos
      BY DEF BkAll, BitsRight
    <3>2. CASE b # 0
      <4>1. PICK i \in Inodes, x \in Spots : InPlace(i, x) /\ b = Place(i, x)
        BY <3>1, <3>2 DEF BkAll, BitsRight
      <4>2. << i, x >> \in Places /\ BlockAt(<< i, x >>) = b
        BY <1>0, <4>1 DEF Places, BlockAt, InPlace
      <4> QED
        BY <4>2
    <3> QED
      BY <3>2
  <2>3. ASSUME NEW l \in Places PROVE BlockAt(l) \in bitmap
    BY <1>1, InPlaceIs
  <2>4. 0 \in bitmap
    BY <2>1 DEF BkAll, BitsRight
  <2> QED
    BY <2>2, <2>3, <2>4
<1>4. \A b \in DOMAIN words \ bitmap : words[b] = Zero
  <2>1. DOMAIN words = 1 .. SIZE - 1
    BY DEF BkAll, BkTypes
  <2> QED
    BY <2>1 DEF BkAll, FreeZero
<1>5. ASSUME NEW i \in Inodes, Unlocked(i)
      PROVE  /\ \A x \in 0 .. len[i] - 1 : words[Place(i, x)] = Written(i)
             /\ daddrs[i] = addrs[i] /\ dlen[i] = len[i]
  <2>1. len[i] \in 0 .. MAXFILE /\ dlen = len
    BY DEF BkAll, BkTypes
  <2>2. \A x \in 0 .. len[i] - 1 : x \in 0 .. MAXFILE - 1 /\ x < len[i]
    BY <2>1, BkSizes
  <2>3. FileRight(i)
    BY DEF BkAll
  <2> QED
    BY <1>5, <2>1, <2>2, <2>3 DEF FileRight, Kept
<1>6. bkPanic # "freeing free block"
  BY DEF BkAll
<1> QED
  BY <1>2, <1>3, <1>4, <1>5, <1>6 DEF BlocksSound

\* For any numbers of processes, files, blocks and addresses in an inode, the
\* bitmap agrees with what files name, no two places share a block, free blocks
\* are zero and files nobody works on hold what was written, as long as balloc
\* has not gone past the end of the disk.
THEOREM BlocksAreSound == BkSpec => []BlocksSound
<1> QED
  BY BkInitKeeps, BkNextKeeps, BkInvSound, PTL DEF BkSpec

-----------------------------------------------------------------------------
(* Lottery: the processes and the CPUs.                                     *)

\* Tickets are below the modulus, and a process runs on one CPU.
LotTypes ==
  /\ state \in [Slots -> {"unused", "runnable", "running", "sleeping"}]
  /\ numTickets \in [Slots -> 1 .. UINT - 1] /\ queue \in [Slots -> {0, 1}]
  /\ proc \in [CPUs -> Slots \cup {0}]
OneEach ==
  /\ \A c \in CPUs : proc[c] # 0 => state[proc[c]] = "running"
  /\ \A c, b \in CPUs : proc[c] # 0 /\ proc[c] = proc[b] => c = b
  /\ \A p \in Slots : state[p] = "running" => \E c \in CPUs : proc[c] = p
LotInv == LotTypes /\ OneEach

\* There are NPROC slots, and none of them is 0.
LEMMA SlotsAre ==
  /\ Cardinality(Slots) \in Nat /\ Cardinality(Slots) >= 1
  /\ Slots = 1 .. Cardinality(Slots) /\ 0 \notin Slots /\ 1 \in Slots
<1>1. Cardinality(Slots) \in Nat
  BY LotteryAssumption, FS_CardinalityType
<1>2. Cardinality(Slots) >= 1
  BY <1>1, LotteryAssumption
<1> QED
  BY <1>1, <1>2, LotteryAssumption

\* userinit leaves one process, and no CPU runs it yet.
LEMMA LotInitRight == LotInit => LotInv
<1> SUFFICES ASSUME LotInit PROVE LotInv
  OBVIOUS
<1>1. LotTypes
  BY LotteryAssumption, SlotsAre DEF LotInit, LotTypes
<1>2. OneEach
  BY DEF LotInit, OneEach
<1> QED
  BY <1>1, <1>2 DEF LotInv

\* A CPU that leaves a process no longer runs it.
LEMMA LeavesRight ==
  ASSUME LotInv, NEW c \in CPUs, NEW s \in {"unused", "runnable", "sleeping"}, Leaves(c, s)
  PROVE  /\ state' \in [Slots -> {"unused", "runnable", "running", "sleeping"}]
         /\ proc' \in [CPUs -> Slots \cup {0}] /\ OneEach'
<1>1. PICK q \in Slots : q = proc[c] /\ q # 0
  BY DEF Leaves, LotInv, LotTypes
<1>2. /\ state' = [state EXCEPT ![q] = s] /\ proc' = [proc EXCEPT ![c] = 0]
      /\ state \in [Slots -> {"unused", "runnable", "running", "sleeping"}]
      /\ proc \in [CPUs -> Slots \cup {0}]
  BY <1>1 DEF Leaves, LotInv, LotTypes
<1>3. /\ \A b \in CPUs : proc'[b] = IF b = c THEN 0 ELSE proc[b]
      /\ \A p \in Slots : state'[p] = IF p = q THEN s ELSE state[p]
  BY <1>2
<1>4. \A b \in CPUs : b # c => proc[b] # q
  BY <1>1 DEF LotInv, OneEach
<1>5. \A b \in CPUs : proc'[b] # 0 => state'[proc'[b]] = "running"
  BY <1>1, <1>2, <1>3, <1>4 DEF LotInv, OneEach
<1>6. \A d, b \in CPUs : proc'[d] # 0 /\ proc'[d] = proc'[b] => d = b
  BY <1>3 DEF LotInv, OneEach
<1>7. ASSUME NEW p \in Slots, state'[p] = "running" PROVE \E b \in CPUs : proc'[b] = p
  <2>1. p # q /\ state[p] = "running"
    BY <1>3, <1>7
  <2>2. PICK b \in CPUs : proc[b] = p
    BY <2>1 DEF LotInv, OneEach
  <2> QED
    BY <1>1, <1>3, <2>1, <2>2
<1> QED
  BY <1>2, <1>5, <1>6, <1>7 DEF OneEach

\* The scheduler runs a process that can run.
LEMMA SchedulerRight ==
  ASSUME LotInv, NEW c \in CPUs, scheduler(c) PROVE LotInv'
<1>1. CASE Total = 0
  BY <1>1 DEF scheduler, LotInv, LotTypes, OneEach
<1>2. CASE Total # 0
  <2>1. PICK p \in Pool : /\ proc' = [proc EXCEPT ![c] = p]
                          /\ state' = [state EXCEPT ![p] = "running"]
    BY <1>2 DEF scheduler, Winners
  <2>2. p \in Slots /\ state[p] = "runnable" /\ p # 0 /\ proc[c] = 0
    BY SlotsAre DEF Pool, Runnable, scheduler
  <2>3. /\ state \in [Slots -> {"unused", "runnable", "running", "sleeping"}]
        /\ proc \in [CPUs -> Slots \cup {0}]
    BY DEF LotInv, LotTypes
  <2>4. /\ \A b \in CPUs : proc'[b] = IF b = c THEN p ELSE proc[b]
        /\ \A q \in Slots : state'[q] = IF q = p THEN "running" ELSE state[q]
    BY <2>1, <2>2, <2>3
  <2>5. \A b \in CPUs : proc[b] # p
    BY <2>2 DEF LotInv, OneEach
  <2>6. LotTypes'
    <3>1. numTickets' = numTickets /\ queue' = queue
      BY <1>2 DEF scheduler
    <3> QED
      BY <2>1, <2>2, <2>3, <3>1 DEF LotInv, LotTypes
  <2>7. \A b \in CPUs : proc'[b] # 0 => state'[proc'[b]] = "running"
    BY <2>2, <2>3, <2>4 DEF LotInv, OneEach
  <2>8. \A d, b \in CPUs : proc'[d] # 0 /\ proc'[d] = proc'[b] => d = b
    BY <2>4, <2>5 DEF LotInv, OneEach
  <2>9. ASSUME NEW q \in Slots, state'[q] = "running" PROVE \E b \in CPUs : proc'[b] = q
    <3>1. CASE q = p
      BY <2>4, <3>1
    <3>2. CASE q # p
      <4>1. PICK b \in CPUs : proc[b] = q
        BY <2>4, <2>9, <3>2 DEF LotInv, OneEach
      <4> QED
        BY <2>2, <2>4, <4>1, SlotsAre
    <3> QED
      BY <3>1, <3>2
  <2> QED
    BY <2>6, <2>7, <2>8, <2>9 DEF LotInv, OneEach
<1> QED
  BY <1>1, <1>2

\* A process that is not running may change from one such state to another.
LEMMA ElsewhereRight ==
  ASSUME LotInv, NEW p \in Slots, NEW s \in {"unused", "runnable", "sleeping"},
         state[p] # "running", state' = [state EXCEPT ![p] = s], proc' = proc
  PROVE  /\ state' \in [Slots -> {"unused", "runnable", "running", "sleeping"}]
         /\ proc' \in [CPUs -> Slots \cup {0}] /\ OneEach'
<1>1. /\ state \in [Slots -> {"unused", "runnable", "running", "sleeping"}]
      /\ proc \in [CPUs -> Slots \cup {0}]
  BY DEF LotInv, LotTypes
<1>2. \A q \in Slots : state'[q] = IF q = p THEN s ELSE state[q]
  BY <1>1
<1>3. \A c \in CPUs : proc[c] # 0 => proc[c] \in Slots /\ proc[c] # p
  BY <1>1 DEF LotInv, OneEach
<1>4. OneEach'
  BY <1>2, <1>3 DEF LotInv, OneEach
<1> QED
  BY <1>1, <1>4

\* Every step keeps types and CPUs.
LEMMA LotNextRight == LotInv /\ [LotNext]_lotvars => LotInv'
<1> SUFFICES ASSUME LotInv, [LotNext]_lotvars PROVE LotInv'
  OBVIOUS
<1>0. /\ numTickets \in [Slots -> 1 .. UINT - 1] /\ queue \in [Slots -> {0, 1}]
      /\ proc \in [CPUs -> Slots \cup {0}] /\ 1 \in 1 .. UINT - 1
  BY LotteryAssumption DEF LotInv, LotTypes
<1>1. ASSUME NEW c \in CPUs, yield(c) PROVE LotInv'
  <2>1. Leaves(c, "runnable") /\ numTickets' = numTickets
        /\ queue' = [queue EXCEPT ![proc[c]] = 0]
    BY <1>1 DEF yield
  <2>2. queue' \in [Slots -> {0, 1}]
    BY <1>0, <2>1
  <2> QED
    BY <1>0, <2>1, <2>2, LeavesRight DEF LotInv, LotTypes
<1>2. ASSUME NEW c \in CPUs, sleep(c) \/ exit(c) PROVE LotInv'
  <2>1. PICK s \in {"unused", "sleeping"} : Leaves(c, s)
    BY <1>2 DEF sleep, exit
  <2>2. numTickets' = numTickets /\ queue' = queue
    BY <1>2 DEF sleep, exit
  <2> QED
    BY <1>0, <2>1, <2>2, LeavesRight DEF LotInv, LotTypes
<1>3. ASSUME NEW c \in CPUs, NEW p \in Slots, forks(c, p) PROVE LotInv'
  <2>1. /\ state[p] # "running" /\ state' = [state EXCEPT ![p] = "runnable"] /\ proc' = proc
        /\ numTickets' = [numTickets EXCEPT ![p] = 1] /\ queue' = [queue EXCEPT ![p] = 1]
    BY <1>3 DEF forks
  <2>2. numTickets' \in [Slots -> 1 .. UINT - 1] /\ queue' \in [Slots -> {0, 1}]
    BY <1>0, <2>1
  <2> QED
    BY <2>1, <2>2, ElsewhereRight DEF LotInv, LotTypes
<1>4. ASSUME NEW c \in CPUs, NEW num \in Counts, settickets(c, num) PROVE LotInv'
  <2>1. num \in 1 .. UINT - 1
    BY <1>4, LotteryAssumption DEF settickets
  <2>2. /\ numTickets' = [numTickets EXCEPT ![proc[c]] = num]
        /\ state' = state /\ queue' = queue /\ proc' = proc
    BY <1>4 DEF settickets
  <2>3. numTickets' \in [Slots -> 1 .. UINT - 1]
    BY <1>0, <2>1, <2>2
  <2> QED
    BY <2>2, <2>3 DEF LotInv, LotTypes, OneEach
<1>5. ASSUME NEW p \in Slots, wakeup(p) PROVE LotInv'
  <2>1. /\ state[p] # "running" /\ state' = [state EXCEPT ![p] = "runnable"] /\ proc' = proc
        /\ numTickets' = numTickets /\ queue' = queue
    BY <1>5 DEF wakeup
  <2> QED
    BY <1>0, <2>1, ElsewhereRight DEF LotInv, LotTypes
<1>6. CASE UNCHANGED lotvars
  BY <1>6 DEF lotvars, LotInv, LotTypes, OneEach
<1>7. CASE LotNext
  <2>1. \/ \E c \in CPUs : \/ scheduler(c)
                           \/ yield(c)
                           \/ sleep(c)
                           \/ exit(c)
                           \/ \E p \in Slots : forks(c, p)
                           \/ \E num \in Counts : settickets(c, num)
        \/ \E p \in Slots : wakeup(p)
    BY <1>7 DEF LotNext
  <2> QED
    BY <2>1, <1>1, <1>2, <1>3, <1>4, <1>5, SchedulerRight
<1> QED
  BY <1>6, <1>7

-----------------------------------------------------------------------------
(* Lottery: what counter is.                                                *)

\* What the loop of scheduler adds at slot p, and the sum that begins it.
Tick(p) == IF p \in Pool THEN numTickets[p] ELSE 0
SumTo(f, p) == IF p = 0 THEN 0 ELSE (f[p - 1] + Tick(p)) % UINT
LastSlot == Cardinality(Slots)

\* The tickets of one slot.
LEMMA TickIs ==
  ASSUME LotTypes
  PROVE  /\ \A p : Tick(p) \in 0 .. UINT - 1
         /\ \A p \in Pool : p \in Slots /\ Tick(p) = numTickets[p] /\ Tick(p) >= 1
         /\ \A p : p \notin Pool => Tick(p) = 0
  BY LotteryAssumption DEF LotTypes, Tick, Pool, Runnable

\* A set of numbers has a least one.
LEMMA LeastOne ==
  ASSUME NEW T, T \subseteq Nat, T # {}
  PROVE  \E x \in T : \A y \in Nat : y < x => y \notin T
<1>1. PICK x \in T : \A y \in T : ~(<<y, x>> \in OpToRel(<, Nat))
  BY NatLessThanWellFounded, WFMin, Zenon
<1> QED
  BY <1>1 DEF OpToRel

\* The sum can be formed slot by slot up to any slot.
LEMMA SumsExist ==
  ASSUME LotTypes, NEW m \in Nat
  PROVE  \E f \in [0 .. m -> 0 .. UINT - 1] : \A p \in 0 .. m : f[p] = SumTo(f, p)
<1> DEFINE Has(n) == \E f \in [0 .. n -> 0 .. UINT - 1] : \A p \in 0 .. n : f[p] = SumTo(f, p)
           T == {n \in Nat : ~ Has(n)}
<1>1. SUFFICES ASSUME T # {} PROVE FALSE
  OBVIOUS
<1>2. PICK x \in T : \A y \in Nat : y < x => y \notin T
  <2>1. T \subseteq Nat
    OBVIOUS
  <2> QED
    BY <1>1, <2>1, LeastOne, Zenon
<1>3. x \in Nat /\ ~ Has(x) /\ \A y \in Nat : y < x => Has(y)
  BY <1>2
<1> HIDE DEF T
<1>4. x # 0
  <2>1. SUFFICES ASSUME x = 0 PROVE Has(0)
    BY <1>3
  <2>2. PICK h : h = [p \in 0 .. 0 |-> 0]
    OBVIOUS
  <2>3. h \in [0 .. 0 -> 0 .. UINT - 1]
    BY <2>2, LotteryAssumption
  <2>4. ASSUME NEW p \in 0 .. 0 PROVE h[p] = SumTo(h, p)
    BY <2>2 DEF SumTo
  <2> QED
    BY <2>3, <2>4
<1>5. x - 1 \in Nat /\ x - 1 < x
  BY <1>3, <1>4
<1>6. PICK f \in [0 .. x - 1 -> 0 .. UINT - 1] : \A p \in 0 .. x - 1 : f[p] = SumTo(f, p)
  BY <1>3, <1>5
<1>7. PICK g : g = [p \in 0 .. x |-> IF p = x THEN (f[x - 1] + Tick(x)) % UINT ELSE f[p]]
  OBVIOUS
<1>8. (f[x - 1] + Tick(x)) % UINT \in 0 .. UINT - 1
  <2>1. f[x - 1] \in Nat
    BY <1>5
  <2>2. Tick(x) \in Nat
    BY TickIs, LotteryAssumption
  <2> QED
    BY <2>1, <2>2, LotteryAssumption
<1>9. g \in [0 .. x -> 0 .. UINT - 1]
  <2>1. \A p \in 0 .. x : p # x => p \in 0 .. x - 1
    BY <1>3
  <2> QED
    BY <1>7, <1>8, <2>1
<1>10. ASSUME NEW p \in 0 .. x PROVE g[p] = SumTo(g, p)
  <2>1. CASE p = 0
    <3>1. 0 \in 0 .. x - 1 /\ f[0] = 0
      BY <1>5, <1>6 DEF SumTo
    <3> QED
      BY <1>4, <1>7, <2>1, <3>1 DEF SumTo
  <2>2. CASE p # 0
    <3>1. p - 1 \in 0 .. x /\ p - 1 # x /\ p \in Nat
      BY <1>3, <2>2
    <3>2. g[p - 1] = f[p - 1]
      BY <1>7, <3>1
    <3>3. CASE p = x
      BY <1>7, <2>2, <3>2, <3>3 DEF SumTo
    <3>4. CASE p # x
      <4>1. p \in 0 .. x - 1
        BY <1>3, <3>4
      <4>2. g[p] = f[p] /\ f[p] = SumTo(f, p)
        BY <1>6, <1>7, <3>4, <4>1
      <4> QED
        BY <2>2, <3>2, <4>2 DEF SumTo
    <3> QED
      BY <3>3, <3>4
  <2> QED
    BY <2>1, <2>2
<1>11. Has(x)
  BY <1>9, <1>10
<1> QED
  BY <1>3, <1>11

\* So counter is that sum.
LEMMA CounterIs ==
  ASSUME LotTypes
  PROVE  \A p \in 0 .. LastSlot : counter[p] = SumTo(counter, p)
<1>1. {0} \cup Slots = 0 .. LastSlot
  BY SlotsAre DEF LastSlot
<1>2. PICK f \in [0 .. LastSlot -> 0 .. UINT - 1] : \A p \in 0 .. LastSlot : f[p] = SumTo(f, p)
  BY SumsExist, SlotsAre DEF LastSlot
<1>3. f = [p \in {0} \cup Slots |-> SumTo(f, p)]
  BY <1>1, <1>2
<1>4. counter = CHOOSE h : h = [p \in {0} \cup Slots |-> SumTo(h, p)]
  BY DEF counter, SumTo, Tick
<1>5. counter = [p \in {0} \cup Slots |-> SumTo(counter, p)]
  BY <1>3, <1>4
<1> QED
  BY <1>1, <1>5

\* counter is an unsigned number at every slot.
LEMMA CounterBound ==
  ASSUME LotTypes
  PROVE  \A p \in 0 .. LastSlot : counter[p] \in 0 .. UINT - 1
<1> DEFINE T == {n \in Nat : n <= LastSlot /\ counter[n] \notin 0 .. UINT - 1}
<1>0. LastSlot \in Nat
  BY SlotsAre DEF LastSlot
<1>1. SUFFICES ASSUME T # {} PROVE FALSE
  BY <1>0
<1>2. PICK x \in T : \A y \in Nat : y < x => y \notin T
  <2>1. T \subseteq Nat
    OBVIOUS
  <2> QED
    BY <1>1, <2>1, LeastOne, Zenon
<1>3. /\ x \in Nat /\ x <= LastSlot /\ counter[x] \notin 0 .. UINT - 1
      /\ \A y \in Nat : y < x => counter[y] \in 0 .. UINT - 1
  BY <1>0, <1>2
<1> HIDE DEF T
<1>4. counter[x] = SumTo(counter, x)
  BY <1>0, <1>3, CounterIs
<1>5. x # 0
  BY <1>3, <1>4, LotteryAssumption DEF SumTo
<1>6. counter[x - 1] \in 0 .. UINT - 1
  BY <1>3, <1>5
<1>7. Tick(x) \in 0 .. UINT - 1
  BY TickIs
<1>8. counter[x] = (counter[x - 1] + Tick(x)) % UINT
  BY <1>4, <1>5 DEF SumTo
<1>9. \A a, t \in 0 .. UINT - 1 : (a + t) % UINT \in 0 .. UINT - 1
  BY LotteryAssumption
<1> QED
  BY <1>3, <1>6, <1>7, <1>8, <1>9

\* One slot more.
LEMMA CounterStep ==
  ASSUME LotTypes, NEW p \in Slots
  PROVE  /\ p \in Nat /\ p >= 1 /\ p <= LastSlot /\ p - 1 \in 0 .. LastSlot
         /\ counter[0] = 0 /\ counter[p] \in 0 .. UINT - 1 /\ counter[p - 1] \in 0 .. UINT - 1
         /\ p \notin Pool => counter[p] = counter[p - 1]
         /\ p \in Pool => \/ counter[p] = counter[p - 1] + numTickets[p]
                          \/ counter[p] = counter[p - 1] + numTickets[p] - UINT
<1>1. p \in Nat /\ p >= 1 /\ p <= LastSlot /\ p - 1 \in 0 .. LastSlot /\ p \in 0 .. LastSlot
      /\ 0 \in 0 .. LastSlot
  BY SlotsAre DEF LastSlot
<1>2. counter[p] \in 0 .. UINT - 1 /\ counter[p - 1] \in 0 .. UINT - 1
  BY <1>1, CounterBound
<1>3. counter[0] = 0
  BY <1>1, CounterIs DEF SumTo
<1>4. counter[p] = (counter[p - 1] + Tick(p)) % UINT
  BY <1>1, CounterIs DEF SumTo
<1>5. PICK a \in 0 .. UINT - 1 : a = counter[p - 1]
  BY <1>2
<1>6. PICK t \in 0 .. UINT - 1 : t = Tick(p)
  BY TickIs
<1>7. (a + t) % UINT = a + t \/ (a + t) % UINT = (a + t) - UINT
  BY LotteryAssumption
<1>8. t = 0 => (a + t) % UINT = a
  BY LotteryAssumption
<1>9. p \notin Pool => counter[p] = counter[p - 1]
  BY <1>4, <1>5, <1>6, <1>8, TickIs
<1>10. p \in Pool => \/ counter[p] = counter[p - 1] + numTickets[p]
                     \/ counter[p] = counter[p - 1] + numTickets[p] - UINT
  <2>1. p \in Pool => t = numTickets[p]
    BY <1>6, TickIs
  <2>2. counter[p] = (a + t) % UINT
    BY <1>4, <1>5, <1>6
  <2>3. counter[p] = a + t \/ counter[p] = (a + t) - UINT
    BY <1>7, <2>2
  <2>4. (a + t) - UINT = a + t - UINT
    BY LotteryAssumption
  <2> QED
    BY <1>5, <2>1, <2>3, <2>4
<1> QED
  BY <1>1, <1>2, <1>3, <1>9, <1>10

\* Up to slot k there is nobody in the pool and nothing is counted, or the last
\* one of the pool has what is counted.
NoneUpTo(k) == counter[k] = 0 /\ \A q \in Pool : q > k
LastUpTo(k, q) == /\ q \in Pool /\ q <= k /\ counter[q] = counter[k]
                  /\ \A u \in Pool : u <= k => u <= q

\* At every slot it is one or the other.
LEMMA LastOne ==
  ASSUME LotTypes, NEW k \in 0 .. LastSlot
  PROVE  NoneUpTo(k) \/ \E q \in Slots : LastUpTo(k, q)
<1> DEFINE Good(n) == NoneUpTo(n) \/ \E q \in Slots : LastUpTo(n, q)
           T == {n \in Nat : n <= LastSlot /\ ~ Good(n)}
<1>0. LastSlot \in Nat /\ Slots = 1 .. LastSlot
  BY SlotsAre DEF LastSlot
<1>1. SUFFICES ASSUME T # {} PROVE FALSE
  BY <1>0
<1>2. PICK x \in T : \A y \in Nat : y < x => y \notin T
  <2>1. T \subseteq Nat
    OBVIOUS
  <2> QED
    BY <1>1, <2>1, LeastOne, Zenon
<1>3. /\ x \in Nat /\ x <= LastSlot /\ ~ Good(x)
      /\ \A y \in Nat : y < x => Good(y)
  BY <1>0, <1>2
<1> HIDE DEF T
<1>4. x # 0
  <2>1. SUFFICES ASSUME x = 0 PROVE NoneUpTo(0)
    BY <1>3
  <2>2. counter[0] = 0
    BY CounterStep, SlotsAre
  <2>3. \A q \in Pool : q \in Nat /\ q >= 1
    BY TickIs, <1>0
  <2> QED
    BY <2>2, <2>3 DEF NoneUpTo
<1>5. x \in Slots /\ x - 1 \in Nat /\ x - 1 < x /\ x <= x
  BY <1>0, <1>3, <1>4
<1>6. Good(x - 1)
  BY <1>3, <1>5
<1>7. \A u \in Pool : u \in Nat /\ u >= 1
  BY TickIs, <1>0
<1>8. x \notin Pool
  <2>1. SUFFICES ASSUME x \in Pool PROVE LastUpTo(x, x)
    BY <1>3, <1>5
  <2> QED
    BY <1>5, <2>1 DEF LastUpTo
<1>9. \A u \in Pool : (u <= x <=> u <= x - 1) /\ (u > x - 1 => u > x)
  BY <1>3, <1>7, <1>8
<1>10. counter[x] = counter[x - 1]
  BY <1>5, <1>8, CounterStep
<1>11. CASE NoneUpTo(x - 1)
  <2>1. NoneUpTo(x)
    BY <1>9, <1>10, <1>11 DEF NoneUpTo
  <2> QED
    BY <1>3, <2>1
<1>12. CASE \E q \in Slots : LastUpTo(x - 1, q)
  <2>1. PICK q \in Slots : LastUpTo(x - 1, q)
    BY <1>12
  <2>2. LastUpTo(x, q)
    BY <1>9, <1>10, <2>1 DEF LastUpTo
  <2> QED
    BY <1>3, <2>2
<1> QED
  BY <1>6, <1>11, <1>12

\* The loop stops at the first slot whose sum is beyond the ticket.
LEMMA OneWins ==
  ASSUME LotTypes, NEW v \in 0 .. Total - 1
  PROVE  Cardinality(Winners(v)) = 1
<1> DEFINE T == {n \in Nat : n <= LastSlot /\ counter[n] > v}
<1>0. LastSlot \in Nat /\ Slots = 1 .. LastSlot /\ Total = counter[LastSlot]
  BY SlotsAre DEF LastSlot, Total
<1>1. Total \in Nat /\ v \in Nat /\ v < Total
  BY <1>0, CounterBound, LotteryAssumption
<1>2. LastSlot \in T
  BY <1>0, <1>1
<1>3. PICK x \in T : \A y \in Nat : y < x => y \notin T
  <2>1. T \subseteq Nat
    OBVIOUS
  <2> QED
    BY <1>2, <2>1, LeastOne, Zenon
<1>4. /\ x \in Nat /\ x <= LastSlot /\ counter[x] > v
      /\ \A y \in Nat : y < x => ~ (counter[y] > v)
  BY <1>0, <1>3
<1> HIDE DEF T
<1>5. x # 0
  <2>1. counter[0] = 0
    BY CounterStep, SlotsAre
  <2> QED
    BY <1>1, <1>4, <2>1
<1>6. x \in Slots /\ x - 1 \in Nat /\ x - 1 < x
  BY <1>0, <1>4, <1>5
<1>7. x \in Pool
  BY <1>4, <1>6, CounterStep
<1>8. \A q \in Pool : q \in Nat
  BY TickIs, <1>0
<1>9. x \in Winners(v)
  BY <1>4, <1>7, <1>8 DEF Winners, Passed
<1>10. ASSUME NEW q \in Winners(v) PROVE q = x
  <2>1. q \in Pool /\ q \in Nat /\ counter[q] > v
    BY <1>8 DEF Winners, Passed
  <2>2. ~ (q < x)
    BY <1>4, <2>1
  <2>3. ~ (x < q)
    BY <1>4, <1>7 DEF Winners, Passed
  <2> QED
    BY <1>4, <2>1, <2>2, <2>3
<1>11. Winners(v) = {x}
  BY <1>9, <1>10
<1> QED
  BY <1>11, FS_Singleton

\* The sums of the pool do not fall: none has wrapped.
NoWrap == \A p \in Pool, q \in Pool : p < q => counter[p] <= counter[q]

\* If none has wrapped, p wins on the tickets from the sum before it on.
LEMMA WinsItsTickets ==
  ASSUME LotTypes, NoWrap, NEW p \in Pool
  PROVE  /\ counter[p] = counter[p - 1] + numTickets[p] /\ counter[p] <= Total
         /\ \A q \in Pool : q < p => counter[q] <= counter[p - 1]
         /\ counter[p - 1] = 0 \/ \E q \in Pool : q < p /\ counter[q] = counter[p - 1]
<1>0. LastSlot \in Nat /\ Slots = 1 .. LastSlot /\ Total = counter[LastSlot]
  BY SlotsAre DEF LastSlot, Total
<1>1. p \in Slots /\ p \in Nat /\ p - 1 \in 0 .. LastSlot /\ p <= LastSlot
      /\ LastSlot \in 0 .. LastSlot
  BY <1>0, TickIs
<1>2. \A q \in Pool : q \in Slots /\ q \in Nat /\ counter[q] \in 0 .. UINT - 1
  BY <1>0, TickIs, CounterStep
<1>3. /\ counter[p] \in 0 .. UINT - 1 /\ counter[p - 1] \in 0 .. UINT - 1
      /\ \/ counter[p] = counter[p - 1] + numTickets[p]
         \/ counter[p] = counter[p - 1] + numTickets[p] - UINT
  BY <1>1, CounterStep
<1>4. numTickets[p] \in 1 .. UINT - 1
  BY <1>1 DEF LotTypes
<1>5. \A q \in Pool : q < p <=> q <= p - 1
  BY <1>1, <1>2
<1>t. counter[p] <= Total
  <2>1. CASE NoneUpTo(LastSlot)
    BY <1>1, <2>1 DEF NoneUpTo
  <2>2. CASE \E q \in Slots : LastUpTo(LastSlot, q)
    <3>1. PICK q \in Pool : counter[q] = Total /\ p <= q
      BY <1>0, <1>1, <2>2 DEF LastUpTo
    <3>2. CASE p = q
      BY <1>3, <3>1, <3>2
    <3>3. CASE p # q
      <4>1. p < q
        BY <1>1, <1>2, <3>1, <3>3
      <4> QED
        BY <3>1, <4>1 DEF NoWrap
    <3> QED
      BY <3>2, <3>3
  <2> QED
    BY <1>1, <2>1, <2>2, LastOne
<1>6. CASE NoneUpTo(p - 1)
  <2>1. counter[p - 1] = 0 /\ \A q \in Pool : ~ (q < p)
    BY <1>1, <1>2, <1>6 DEF NoneUpTo
  <2>2. counter[p] = counter[p - 1] + numTickets[p]
    BY <1>3, <1>4, <2>1, LotteryAssumption
  <2> QED
    BY <2>1, <2>2, <1>t
<1>7. CASE \E q \in Slots : LastUpTo(p - 1, q)
  <2>1. PICK q \in Pool : q < p /\ counter[q] = counter[p - 1] /\ LastUpTo(p - 1, q)
    BY <1>5, <1>7 DEF LastUpTo
  <2>2. counter[p - 1] <= counter[p]
    BY <2>1 DEF NoWrap
  <2>3. counter[p] = counter[p - 1] + numTickets[p]
    BY <1>3, <1>4, <2>2, LotteryAssumption
  <2>4. ASSUME NEW s \in Pool, s < p PROVE counter[s] <= counter[p - 1]
    <3>1. s <= q
      BY <1>5, <2>1, <2>4 DEF LastUpTo
    <3>2. CASE s = q
      BY <1>2, <2>1, <3>2
    <3>3. CASE s # q
      <4>1. s < q
        BY <1>2, <3>1, <3>3
      <4> QED
        BY <2>1, <4>1 DEF NoWrap
    <3> QED
      BY <3>2, <3>3
  <2> QED
    BY <2>1, <2>3, <2>4, <1>t
<1> QED
  BY <1>1, <1>6, <1>7, LastOne

\* As many tickets make p win as it has bought.
LEMMA DrawsAreFair ==
  ASSUME LotTypes, NoWrap, NEW p \in Pool
  PROVE  Cardinality({v \in 0 .. Total - 1 : p \in Winners(v)}) = numTickets[p]
<1>0. LastSlot \in 0 .. LastSlot /\ Slots = 1 .. LastSlot /\ Total = counter[LastSlot]
  BY SlotsAre DEF LastSlot, Total
<1>1. p \in Slots
  BY TickIs
<1>2. PICK a \in 0 .. UINT - 1 : a = counter[p - 1]
  BY <1>1, CounterStep
<1>3. PICK b \in 0 .. UINT - 1 : b = counter[p]
  BY <1>1, CounterStep
<1>4. PICK t \in 1 .. UINT - 1 : t = numTickets[p]
  BY <1>1 DEF LotTypes
<1>5. PICK z \in 0 .. UINT - 1 : z = Total
  BY <1>0, CounterBound
<1>6. /\ b = a + t /\ b <= z
      /\ \A q \in Pool : q < p => counter[q] <= a
      /\ a = 0 \/ \E q \in Pool : q < p /\ counter[q] = a
  BY <1>2, <1>3, <1>4, <1>5, WinsItsTickets
<1>7. \A q \in Pool : counter[q] \in 0 .. UINT - 1
  BY TickIs, CounterStep
<1>8. ASSUME NEW v \in 0 .. Total - 1 PROVE p \in Winners(v) <=> v \in a .. b - 1
  <2>1. v \in Nat
    BY <1>5
  <2>2. ASSUME p \in Winners(v) PROVE v \in a .. b - 1
    <3>1. b > v /\ \A q \in Pool : q < p => ~ (counter[q] > v)
      BY <1>3, <2>2 DEF Winners, Passed
    <3>2. a <= v
      BY <1>6, <1>7, <2>1, <3>1
    <3> QED
      BY <2>1, <3>1, <3>2
  <2>3. ASSUME v \in a .. b - 1 PROVE p \in Winners(v)
    <3>1. counter[p] > v /\ a <= v
      BY <1>3, <2>1, <2>3
    <3>2. ASSUME NEW q \in Pool, q < p PROVE ~ (counter[q] > v)
      BY <1>6, <1>7, <2>1, <3>1, <3>2
    <3> QED
      BY <3>1, <3>2 DEF Winners, Passed
  <2> QED
    BY <2>2, <2>3
<1>9. a .. b - 1 \subseteq 0 .. Total - 1
  BY <1>5, <1>6
<1>10. {v \in 0 .. Total - 1 : p \in Winners(v)} = a .. b - 1
  BY <1>8, <1>9
<1>11. a \in Int /\ b - 1 \in Int /\ a <= b - 1 /\ (b - 1) - a + 1 = t
  BY <1>6
<1>12. Cardinality(a .. b - 1) = t
  BY <1>11, FS_Interval
<1> QED
  BY <1>4, <1>10, <1>12

\* A process is on one CPU exactly if it is running.
LEMMA OnOneCpu ==
  ASSUME LotInv, NEW p \in Slots
  PROVE  Cardinality({c \in CPUs : proc[c] = p}) = IF state[p] = "running" THEN 1 ELSE 0
<1>1. p # 0
  BY SlotsAre
<1>2. CASE state[p] = "running"
  <2>1. PICK c \in CPUs : proc[c] = p
    BY <1>2 DEF LotInv, OneEach
  <2>2. {b \in CPUs : proc[b] = p} = {c}
    BY <1>1, <2>1 DEF LotInv, OneEach
  <2> QED
    BY <1>2, <2>2, FS_Singleton
<1>3. CASE state[p] # "running"
  <2>1. {b \in CPUs : proc[b] = p} = {}
    BY <1>1, <1>3 DEF LotInv, OneEach
  <2> QED
    BY <1>3, <2>1, FS_EmptySet
<1> QED
  BY <1>2, <1>3

\* For any numbers of processes and CPUs and any modulus: a process is on at
\* most one CPU, every ticket has exactly one winner, and as long as the sum
\* does not wrap each process has as many winning tickets as it has bought.
THEOREM DrawsAreRight == LotSpec => []DrawsRight
<1>1. LotInv => DrawsRight
  <2> SUFFICES ASSUME LotInv PROVE DrawsRight
    OBVIOUS
  <2>1. LotTypes
    BY DEF LotInv
  <2>2. NoWrap => \A p \in Pool :
          Cardinality({v \in 0 .. Total - 1 : p \in Winners(v)}) = numTickets[p]
    BY <2>1, DrawsAreFair
  <2> QED
    BY <2>1, <2>2, OnOneCpu, OneWins DEF DrawsRight, NoWrap
<1> QED
  BY <1>1, LotInitRight, LotNextRight, PTL DEF LotSpec

-----------------------------------------------------------------------------
(* Shell: the inductive invariant.                                          *)

\* The children, and what the shell knows of their number.
KidsRight ==
  /\ active \subseteq Kids /\ zombies \subseteq Kids /\ active \cap zombies = {}
  /\ owed \in Int
  /\ shpc \in {"prompt", "waiting"} => Cardinality(active \cup zombies) = owed
  /\ shpc = "foreground" => Cardinality(active \cup zombies) = owed + 1

\* Copies are counted, and what was copied is kept until it is restored.
CopiesRight ==
  /\ copies \in Int /\ copies <= MaxCopies
  /\ shpc \in {"prompt", "waiting"} => out = "tty" \/ spoiled
  /\ shpc = "foreground" /\ ~ redirect => out = "tty" \/ spoiled
  /\ shpc = "foreground" /\ redirect => saved = "tty" \/ spoiled

\* errno is from a command wait that met the end, and a later one finds it
\* only if fgetpos() succeeds on standard output.
ErrnoRight ==
  /\ errno = "ECHILD" => none
  /\ shpc = "waiting" /\ errno = "ECHILD" => seekable \/ spoiled
  /\ short => none /\ (seekable \/ spoiled)

ShInv == KidsRight /\ CopiesRight /\ ErrnoRight

\* There are finitely many children; one more or one less counts.
LEMMA KidCounts ==
  ASSUME KidsRight
  PROVE  /\ IsFiniteSet(active \cup zombies) /\ Cardinality(active \cup zombies) \in Nat
         /\ \A k \in Kids \ (active \cup zombies) :
              Cardinality((active \cup {k}) \cup zombies) = Cardinality(active \cup zombies) + 1
         /\ \A k \in zombies :
              Cardinality(active \cup (zombies \ {k})) = Cardinality(active \cup zombies) - 1
<1>1. IsFiniteSet(active \cup zombies)
  BY ShellAssumption, FS_Subset DEF KidsRight
<1>2. Cardinality(active \cup zombies) \in Nat
  BY <1>1, FS_CardinalityType
<1>3. ASSUME NEW k \in Kids \ (active \cup zombies)
      PROVE  Cardinality((active \cup {k}) \cup zombies) = Cardinality(active \cup zombies) + 1
  <2>1. (active \cup {k}) \cup zombies = (active \cup zombies) \cup {k}
    OBVIOUS
  <2> QED
    BY <1>1, <2>1, FS_AddElement
<1>4. ASSUME NEW k \in zombies
      PROVE  Cardinality(active \cup (zombies \ {k})) = Cardinality(active \cup zombies) - 1
  <2>1. active \cup (zombies \ {k}) = (active \cup zombies) \ {k} /\ k \in active \cup zombies
    BY DEF KidsRight
  <2> QED
    BY <1>1, <2>1, FS_RemoveElement
<1> QED
  BY <1>1, <1>2, <1>3, <1>4

\* dup() makes a copy only below the limit.
LEMMA CopyCounts ==
  ASSUME CopiesRight
  PROVE  /\ Copies \in Int /\ Copies <= MaxCopies
         /\ Saved = out \/ Saved = "none"
         /\ CanCopy => Saved = out
  BY ShellAssumption DEF CopiesRight, Copies, CanCopy, One, Saved

\* The end of runCommand puts back what was copied.
LEMMA RestoreRight ==
  ASSUME NEW u \in BOOLEAN, NEW d, NEW n \in Int, n <= MaxCopies, NEW x, Restore(u, d, n, x)
  PROVE  /\ copies' \in Int /\ copies' <= MaxCopies
         /\ ~ u => out' = out /\ errno' = x
         /\ u => out' = Restored(d)
         /\ errno' \in {x, "other"}
  BY ShellAssumption DEF Restore

\* The shell begins with no child and with its terminal.
LEMMA ShInitRight == ShInit => ShInv
  BY ShellAssumption, FS_EmptySet DEF ShInit, ShInv, KidsRight, CopiesRight, ErrnoRight

\* A command that runs no program keeps the children.
LEMMA SameKids ==
  ASSUME KidsRight, UNCHANGED << active, zombies, owed >>,
         shpc' = shpc \/ shpc' = "gone" \/ (shpc = "prompt" /\ shpc' = "waiting")
  PROVE  KidsRight'
  BY DEF KidsRight

\* cd and pwd.
LEMMA BuiltinRight ==
  ASSUME ShInv, NEW l \in Line, runBuiltin(l) PROVE ShInv'
<1>1. PICK x \in {Errno, "other"} : Restore(l.redirect, Saved, Copies, x)
  BY DEF runBuiltin
<1>2. /\ UNCHANGED << shpc, active, zombies, seekable, owed, none, short >>
      /\ spoiled' = (spoiled \/ (l.redirect /\ Saved = "none")) /\ shpc = "prompt"
  BY DEF runBuiltin, Runs
<1>3. KidsRight'
  BY <1>2, SameKids DEF ShInv
<1>4. l.redirect \in BOOLEAN /\ Copies \in Int /\ Copies <= MaxCopies
      /\ (Saved = out \/ Saved = "none")
  BY CopyCounts DEF Line, ShInv
<1>5. /\ copies' \in Int /\ copies' <= MaxCopies
      /\ ~ l.redirect => out' = out
      /\ l.redirect => out' = Restored(Saved)
      /\ errno' \in {x, "other"}
  BY <1>1, <1>4, RestoreRight
<1>6. out' = "tty" \/ spoiled'
  BY <1>2, <1>4, <1>5, Zenon DEF ShInv, CopiesRight, Restored
<1>7. errno' = "ECHILD" => errno = "ECHILD"
  BY <1>1, <1>5 DEF Errno
<1>8. CopiesRight'
  BY <1>2, <1>5, <1>6 DEF CopiesRight
<1>9. ErrnoRight'
  BY <1>2, <1>7 DEF ErrnoRight, ShInv
<1> QED
  BY <1>3, <1>8, <1>9 DEF ShInv

\* The command wait begins, or is refused.
LEMMA WaitRight ==
  ASSUME ShInv, NEW l \in Line, waitCommand(l) \/ waitRefused(l) PROVE ShInv'
<1>1. /\ UNCHANGED << active, zombies, seekable, owed, none, short >>
      /\ copies' = Copies /\ errno' = Errno /\ shpc = "prompt"
      /\ shpc' \in {"prompt", "waiting"}
  BY DEF waitCommand, waitRefused, Runs
<1>2. KidsRight'
  BY <1>1, SameKids DEF ShInv
<1>3. out' = "tty" \/ spoiled'
  BY <1>1 DEF waitCommand, waitRefused, ShInv, CopiesRight
<1>4. spoiled => spoiled'
  BY DEF waitCommand, waitRefused
<1>5. CopiesRight'
  BY <1>1, <1>3, CopyCounts DEF CopiesRight, ShInv
<1>6. errno' = "ECHILD" => errno = "ECHILD" /\ Seeks(out)
  BY <1>1 DEF Errno
<1>7. shpc' = "waiting" /\ errno' = "ECHILD" => seekable' \/ spoiled'
  BY <1>1, <1>3, <1>4, <1>6 DEF Seeks, ShInv, CopiesRight
<1>8. ErrnoRight'
  BY <1>1, <1>4, <1>6, <1>7 DEF ErrnoRight, ShInv
<1> QED
  BY <1>2, <1>5, <1>8 DEF ShInv

\* A program is started.
LEMMA ProgramRight ==
  ASSUME ShInv, NEW l \in Line, program(l) PROVE ShInv'
<1>1. PICK k \in Kids \ (active \cup zombies) : active' = active \cup {k}
  BY DEF program
<1>2. /\ UNCHANGED << zombies, seekable, none, short >> /\ shpc = "prompt"
      /\ spoiled' = (spoiled \/ (l.redirect /\ Saved = "none"))
  BY DEF program, Runs
<1>3. Cardinality(active' \cup zombies') = Cardinality(active \cup zombies) + 1
  BY <1>1, <1>2, KidCounts DEF ShInv
<1>4. Cardinality(active \cup zombies) = owed /\ owed \in Int
  BY <1>2 DEF ShInv, KidsRight
<1>5. active' \subseteq Kids /\ zombies' \subseteq Kids /\ active' \cap zombies' = {}
  BY <1>1, <1>2 DEF ShInv, KidsRight
<1>6. l.redirect \in BOOLEAN /\ Copies \in Int /\ Copies <= MaxCopies
      /\ (Saved = out \/ Saved = "none")
  BY CopyCounts DEF Line, ShInv
<1>7. CASE l.amp = "no"
  <2>1. /\ shpc' = "foreground" /\ owed' = owed /\ copies' = Copies /\ errno' = Errno
        /\ redirect' = l.redirect /\ saved' = Saved
        /\ out' = IF l.redirect THEN "file" ELSE out
    BY <1>7 DEF program
  <2>2. KidsRight'
    BY <1>3, <1>4, <1>5, <2>1 DEF KidsRight
  <2>3. CopiesRight'
    BY <1>2, <1>6, <2>1 DEF CopiesRight, ShInv
  <2>4. errno' = "ECHILD" => errno = "ECHILD"
    BY <2>1 DEF Errno
  <2>5. ErrnoRight'
    BY <1>2, <2>1, <2>4 DEF ErrnoRight, ShInv
  <2> QED
    BY <2>2, <2>3, <2>5 DEF ShInv
<1>8. CASE l.amp # "no"
  <2>1. /\ shpc' = shpc /\ owed' = owed + 1 /\ Restore(l.redirect, Saved, Copies, Errno)
    BY <1>8 DEF program
  <2>2. KidsRight'
    BY <1>2, <1>3, <1>4, <1>5, <2>1 DEF KidsRight
  <2>3. /\ copies' \in Int /\ copies' <= MaxCopies
        /\ ~ l.redirect => out' = out
        /\ l.redirect => out' = Restored(Saved)
        /\ errno' \in {Errno, "other"}
    BY <1>6, <2>1, RestoreRight
  <2>4. out' = "tty" \/ spoiled'
    BY <1>2, <1>6, <2>3, Zenon DEF ShInv, CopiesRight, Restored
  <2>5. CopiesRight'
    BY <1>2, <2>1, <2>3, <2>4 DEF CopiesRight
  <2>6. errno' = "ECHILD" => errno = "ECHILD"
    BY <2>3 DEF Errno
  <2>7. ErrnoRight'
    BY <1>2, <2>1, <2>6 DEF ErrnoRight, ShInv
  <2> QED
    BY <2>2, <2>5, <2>7 DEF ShInv
<1> QED
  BY <1>7, <1>8

\* One turn of the loop of the command wait.
LEMMA WaitpidRight == ASSUME ShInv, waitpid PROVE ShInv'
<1>1. shpc = "waiting" /\ UNCHANGED << active, out, copies, saved, redirect, seekable, spoiled >>
      /\ Cardinality(active \cup zombies) = owed
  BY DEF waitpid, ShInv, KidsRight
<1>2. CASE /\ active \cup zombies = {}
           /\ errno' = "ECHILD" /\ shpc' = "prompt" /\ none' = TRUE
           /\ UNCHANGED << zombies, owed, short >>
  <2>1. KidsRight'
    BY <1>1, <1>2 DEF ShInv, KidsRight
  <2>2. CopiesRight' /\ ErrnoRight'
    BY <1>1, <1>2 DEF ShInv, CopiesRight, ErrnoRight
  <2> QED
    BY <2>1, <2>2 DEF ShInv
<1>3. ASSUME NEW k \in zombies, zombies' = zombies \ {k}, owed' = owed - 1,
             shpc' = IF errno = "ECHILD" THEN "prompt" ELSE "waiting",
             short' = (short \/ errno = "ECHILD"), UNCHANGED << errno, none >>
      PROVE  ShInv'
  <2>1. Cardinality(active' \cup zombies') = owed' /\ owed' \in Int
    <3>1. Cardinality(active \cup (zombies \ {k})) = Cardinality(active \cup zombies) - 1
      BY KidCounts DEF ShInv
    <3>2. owed \in Int
      BY DEF ShInv, KidsRight
    <3>3. active' = active
      BY <1>1
    <3> QED
      BY <1>1, <1>3, <3>1, <3>2, <3>3
  <2>2. KidsRight'
    BY <1>1, <1>3, <2>1 DEF ShInv, KidsRight
  <2>3. CopiesRight'
    BY <1>1, <1>3 DEF ShInv, CopiesRight
  <2>4. ErrnoRight'
    BY <1>1, <1>3, Zenon DEF ShInv, ErrnoRight
  <2> QED
    BY <2>2, <2>3, <2>4 DEF ShInv
<1> QED
  BY <1>2, <1>3 DEF waitpid

\* The wait for the command in the foreground returns.
LEMMA ForegroundRight == ASSUME ShInv, waitForeground PROVE ShInv'
<1>1. PICK k \in zombies : zombies' = zombies \ {k}
  BY DEF waitForeground
<1>2. /\ shpc = "foreground" /\ shpc' = "prompt" /\ Restore(redirect, saved, copies, errno)
      /\ UNCHANGED << active, seekable, owed, none, short, spoiled >>
  BY DEF waitForeground
<1>3. Cardinality(active' \cup zombies') = owed' /\ owed' \in Int
  BY <1>1, <1>2, KidCounts DEF ShInv, KidsRight
<1>4. KidsRight'
  BY <1>1, <1>2, <1>3 DEF ShInv, KidsRight
<1>5. /\ copies' \in Int /\ copies' <= MaxCopies
      /\ out' = IF redirect THEN Restored(saved) ELSE out
      /\ errno' \in {errno, "other"}
  BY <1>2, ShellAssumption DEF Restore, ShInv, CopiesRight
<1>6. out' = "tty" \/ spoiled'
  BY <1>2, <1>5 DEF ShInv, CopiesRight, Restored
<1>7. CopiesRight'
  BY <1>2, <1>5, <1>6 DEF CopiesRight
<1>8. ErrnoRight'
  BY <1>2, <1>5 DEF ShInv, ErrnoRight
<1> QED
  BY <1>4, <1>7, <1>8 DEF ShInv

\* Every step keeps the invariant.
LEMMA ShNextRight == ShInv /\ [ShNext]_shvars => ShInv'
<1> SUFFICES ASSUME ShInv, [ShNext]_shvars PROVE ShInv'
  OBVIOUS
<1>1. ASSUME NEW l \in Line, OpenFails(l) PROVE ShInv'
  <2>1. /\ out' = "closed" /\ copies' = Copies /\ errno' = "other" /\ spoiled' = TRUE
        /\ UNCHANGED << shpc, active, zombies, saved, redirect, seekable, owed, none, short >>
    BY <1>1 DEF OpenFails
  <2>2. KidsRight'
    BY <2>1, SameKids DEF ShInv
  <2>3. CopiesRight'
    BY <2>1, CopyCounts DEF ShInv, CopiesRight
  <2>4. ErrnoRight'
    BY <2>1 DEF ShInv, ErrnoRight
  <2> QED
    BY <2>2, <2>3, <2>4 DEF ShInv
<1>2. ASSUME NEW l \in Line, exitShell(l) \/ forkFails(l) PROVE ShInv'
  <2>1. /\ shpc' = "gone"
        /\ UNCHANGED << active, zombies, out, copies, saved, redirect, errno,
                        seekable, owed, none, short, spoiled >>
    BY <1>2 DEF exitShell, forkFails
  <2>2. KidsRight'
    BY <2>1, SameKids DEF ShInv
  <2>3. CopiesRight' /\ ErrnoRight'
    BY <2>1 DEF ShInv, CopiesRight, ErrnoRight
  <2> QED
    BY <2>2, <2>3 DEF ShInv
<1>3. ASSUME NEW k \in Kids, KidEnds(k) PROVE ShInv'
  <2>1. /\ k \in active /\ active' = active \ {k} /\ zombies' = zombies \cup {k}
        /\ UNCHANGED << shpc, out, copies, saved, redirect, errno, seekable, owed,
                        none, short, spoiled >>
    BY <1>3 DEF KidEnds
  <2>2. active' \cup zombies' = active \cup zombies
    BY <2>1
  <2>3. KidsRight'
    BY <2>1, <2>2 DEF ShInv, KidsRight
  <2>4. CopiesRight' /\ ErrnoRight'
    BY <2>1 DEF ShInv, CopiesRight, ErrnoRight
  <2> QED
    BY <2>3, <2>4 DEF ShInv
<1>4. CASE UNCHANGED shvars
  BY <1>4 DEF shvars, ShInv, KidsRight, CopiesRight, ErrnoRight
<1>5. CASE ShNext
  <2>1. \/ \E l \in Line : \/ OpenFails(l)
                           \/ exitShell(l)
                           \/ runBuiltin(l)
                           \/ waitRefused(l)
                           \/ waitCommand(l)
                           \/ program(l)
                           \/ forkFails(l)
        \/ waitpid
        \/ waitForeground
        \/ \E k \in Kids : KidEnds(k)
    BY <1>5 DEF ShNext
  <2> QED
    BY <2>1, <1>1, <1>2, <1>3, BuiltinRight, WaitRight, ProgramRight, WaitpidRight,
       ForegroundRight
<1> QED
  BY <1>4, <1>5

\* For any number of children and of descriptors: the shell knows how many
\* children it has, a wait stops early only because of the errno an earlier
\* one has left, and standard output is put back unless it could not be copied.
THEOREM ShellIsExplained == ShSpec => []ShellExplained
<1>1. ShInv => ShellExplained
  BY DEF ShInv, KidsRight, CopiesRight, ErrnoRight, ShellExplained
<1> QED
  BY <1>1, ShInitRight, ShNextRight, PTL DEF ShSpec

-----------------------------------------------------------------------------
(* Checked: the inductive invariant.                                        *)

Offsets == 0 .. BSIZE - 1
Contents == [Offsets -> Bits]

ChkTypes ==
  /\ fsize \in Nat /\ data \in [Blks -> Contents]
  /\ sum \in [Blks -> Bits] /\ dsum \in [Blks -> Bits] /\ over \in [Blks -> 0 .. BSIZE]
  /\ dirty \subseteq Blks /\ damage \subseteq Blks \X Offsets

\* A checksum that was not lost is that of the bytes it was made from, but for
\* those that went bad.
SumRight(b) == b \notin lost => sum[b] = (Xor(data[b], over[b]) + Bad(b, over[b])) % 2

\* The inode on the disk has it too, unless the block was written since.
DiskRight(b) == b < NDIRECT /\ b \notin dirty \cup lost => dsum[b] = sum[b]

\* Beyond the end of the file there is nothing.
BlankRight(b) == b * BSIZE >= fsize =>
                   /\ sum[b] = 0 /\ dsum[b] = 0
                   /\ \A i \in Offsets : data[b][i] = 0

ChkInv == ChkTypes /\ \A b \in Blks : SumRight(b) /\ DiskRight(b) /\ BlankRight(b)

\* The bytes that are 1 among the first k, and those that went bad.
Ones(f, k) == {i \in 0 .. k - 1 : f[i] = 1}
Bads(b, k) == {i \in 0 .. k - 1 : << b, i >> \in damage}

\* There are finitely many of each.
LEMMA FinitelyMany ==
  ASSUME NEW k \in Nat, NEW f, NEW b
  PROVE  /\ IsFiniteSet(Ones(f, k)) /\ Cardinality(Ones(f, k)) \in Nat
         /\ IsFiniteSet(Bads(b, k)) /\ Cardinality(Bads(b, k)) \in Nat
         /\ Xor(f, k) \in Bits
<1>1. IsFiniteSet(0 .. k - 1)
  BY FS_Interval
<1>2. Ones(f, k) \in SUBSET (0 .. k - 1) /\ Bads(b, k) \in SUBSET (0 .. k - 1)
  BY DEF Ones, Bads
<1>3. IsFiniteSet(Ones(f, k)) /\ IsFiniteSet(Bads(b, k))
  BY <1>1, <1>2, FS_Subset
<1>4. Cardinality(Ones(f, k)) \in Nat /\ Cardinality(Bads(b, k)) \in Nat
  BY <1>3, FS_CardinalityType
<1>5. Xor(f, k) = Cardinality(Ones(f, k)) % 2
  BY DEF Xor, Ones
<1>6. \A n \in Nat : n % 2 \in Bits
  BY DEF Bits
<1> QED
  BY <1>3, <1>4, <1>5, <1>6

\* A byte that goes bad changes both sides of the sum, or neither.
LEMMA FlipRight ==
  ASSUME ChkTypes, NEW b \in Blks, NEW i \in Offsets, NEW k \in Nat, corrupt(b, i)
  PROVE  (Xor(data[b], k)' + Bad(b, k)') % 2 = (Xor(data[b], k) + Bad(b, k)) % 2
<1>1. data[b][i] \in Bits /\ data'[b] = [data[b] EXCEPT ![i] = 1 - data[b][i]]
  BY DEF corrupt, ChkTypes, Contents
<1>2. data[b] \in Contents
  BY DEF ChkTypes
<1>3. \A x \in Offsets : data'[b][x] = IF x = i THEN 1 - data[b][i] ELSE data[b][x]
  BY <1>1, <1>2 DEF Contents
<1>3a. \A x \in Int : x # i => data'[b][x] = data[b][x]
  BY <1>1, <1>2 DEF Contents
<1>4. damage' = damage \cup {<< b, i >>} /\ << b, i >> \notin damage
  BY DEF corrupt
<1>5. CASE i >= k
  <2>1. Ones(data'[b], k) = Ones(data[b], k)
    BY <1>3a, <1>5 DEF Ones, Offsets
  <2>2. Bads(b, k)' = Bads(b, k)
    BY <1>4, <1>5 DEF Bads, Offsets
  <2> QED
    BY <2>1, <2>2 DEF Xor, Bad, Ones, Bads
<1>6. CASE i < k
  <2>1. Bads(b, k)' = Bads(b, k) \cup {i} /\ i \notin Bads(b, k)
    BY <1>4, <1>6 DEF Bads, Offsets
  <2>2. Cardinality(Bads(b, k)') = Cardinality(Bads(b, k)) + 1
    BY <2>1, FinitelyMany, FS_AddElement
  <2>3. CASE data[b][i] = 0
    <3>1. Ones(data'[b], k) = Ones(data[b], k) \cup {i} /\ i \notin Ones(data[b], k)
      BY <1>3, <1>3a, <1>6, <2>3 DEF Ones, Offsets
    <3>2. Cardinality(Ones(data'[b], k)) = Cardinality(Ones(data[b], k)) + 1
      BY <3>1, FinitelyMany, FS_AddElement
    <3>3. PICK u \in Nat : u = Cardinality(Ones(data[b], k))
      BY FinitelyMany
    <3>4. PICK v \in Nat : v = Cardinality(Bads(b, k))
      BY FinitelyMany
    <3>5. (((u + 1) % 2) + (v + 1)) % 2 = ((u % 2) + v) % 2
      BY SMT
    <3> QED
      BY <2>2, <3>2, <3>3, <3>4, <3>5 DEF Xor, Bad, Ones, Bads
  <2>4. CASE data[b][i] = 1
    <3>1. Ones(data'[b], k) = Ones(data[b], k) \ {i} /\ i \in Ones(data[b], k)
      BY <1>3, <1>3a, <1>6, <2>4 DEF Ones, Offsets
    <3>2. Cardinality(Ones(data'[b], k)) = Cardinality(Ones(data[b], k)) - 1
      BY <3>1, FinitelyMany, FS_RemoveElement
    <3>3. PICK u \in Nat : u = Cardinality(Ones(data[b], k))
      BY FinitelyMany
    <3>4. PICK v \in Nat : v = Cardinality(Bads(b, k))
      BY FinitelyMany
    <3>5. (((u - 1) % 2) + (v + 1)) % 2 = ((u % 2) + v) % 2
      BY SMT
    <3> QED
      BY <2>2, <3>2, <3>3, <3>4, <3>5 DEF Xor, Bad, Ones, Bads
  <2> QED
    BY <1>1, <2>3, <2>4 DEF Bits
<1> QED
  BY <1>5, <1>6 DEF Offsets

\* The file is empty at first.
LEMMA ChkInitRight == ChkInit => ChkInv
<1> SUFFICES ASSUME ChkInit PROVE ChkInv
  OBVIOUS
<1>1. ChkTypes
  BY ChkAssumption DEF ChkInit, ChkTypes, Contents, Offsets, Bits
<1>2. ASSUME NEW b \in Blks PROVE SumRight(b) /\ DiskRight(b) /\ BlankRight(b)
  <2>1. Ones(data[b], 0) = {} /\ Bads(b, 0) = {}
    BY DEF Ones, Bads
  <2>2. Xor(data[b], 0) = 0 % 2 /\ Bad(b, 0) = 0
    BY <2>1, FS_EmptySet DEF Xor, Bad, Ones, Bads
  <2>3. over[b] = 0 /\ sum[b] = 0 /\ dsum[b] = 0 /\ \A i \in Offsets : data[b][i] = 0
    BY <1>2 DEF ChkInit, Offsets
  <2> QED
    BY <2>2, <2>3 DEF SumRight, DiskRight, BlankRight
<1> QED
  BY <1>1, <1>2 DEF ChkInv

\* A byte goes bad.
LEMMA CorruptRight ==
  ASSUME ChkInv, NEW c \in Blks, NEW j \in Offsets, corrupt(c, j) PROVE ChkInv'
<1>1. /\ UNCHANGED << fsize, sum, dsum, over, dirty, lost >>
      /\ damage' = damage \cup {<< c, j >>} /\ c * BSIZE < fsize
      /\ data' = [data EXCEPT ![c][j] = 1 - data[c][j]]
  BY DEF corrupt
<1>2. ChkTypes
  BY DEF ChkInv
<1>3. ChkTypes'
  <2>1. data' \in [Blks -> Contents]
    BY <1>1, <1>2 DEF ChkTypes, Contents, Bits
  <2> QED
    BY <1>1, <1>2, <2>1 DEF ChkTypes
<1>4. ASSUME NEW b \in Blks PROVE SumRight(b)' /\ DiskRight(b)' /\ BlankRight(b)'
  <2>1. SumRight(b) /\ DiskRight(b) /\ BlankRight(b) /\ over[b] \in Nat
    BY <1>4, ChkAssumption DEF ChkInv, ChkTypes
  <2>2. CASE b = c
    <3>1. PICK k \in Nat : k = over[b]
      BY <2>1
    <3>2. (Xor(data[b], k)' + Bad(b, k)') % 2 = (Xor(data[b], k) + Bad(b, k)) % 2
      BY <1>2, <2>2, FlipRight
    <3>3. over'[b] = k /\ sum'[b] = sum[b] /\ dsum'[b] = dsum[b]
      BY <1>1, <3>1
    <3>3a. Bad(b, over[b])' = Bad(b, k)' /\ Xor(data[b], over[b])' = Xor(data[b], k)'
      BY <3>3 DEF Bad, Xor
    <3>3b. (Xor(data[b], over[b])' + Bad(b, over[b])') % 2 = (Xor(data[b], over[b]) + Bad(b, over[b])) % 2
      BY <3>1, <3>2, <3>3a
    <3>3c. b \notin lost' => sum'[b] = (Xor(data[b], over[b])' + Bad(b, over[b])') % 2
      BY <1>1, <2>1, <3>3, <3>3b DEF SumRight
    <3>4. SumRight(b)'
      BY <3>3c DEF SumRight
    <3>5. DiskRight(b)'
      BY <1>1, <2>1 DEF DiskRight
    <3>6. b * BSIZE \in Int /\ fsize \in Nat
      BY <1>2, ChkAssumption DEF Blks, ChkTypes
    <3>7. ~ (b * BSIZE >= fsize')
      BY <1>1, <2>2, <3>6
    <3>8. BlankRight(b)'
      BY <3>7 DEF BlankRight
    <3> QED
      BY <3>4, <3>5, <3>8
  <2>3. CASE b # c
    <3>1. data'[b] = data[b] /\ Bads(b, over[b])' = Bads(b, over[b])
      BY <1>1, <1>2, <2>3 DEF ChkTypes, Bads
    <3>2. Bad(b, over[b])' = Bad(b, over[b]) /\ Xor(data[b], over[b])' = Xor(data[b], over[b])
      BY <1>1, <3>1 DEF Bad, Bads, Xor
    <3> QED
      BY <1>1, <2>1, <3>1, <3>2 DEF SumRight, DiskRight, BlankRight
  <2> QED
    BY <2>2, <2>3
<1> QED
  BY <1>3, <1>4 DEF ChkInv

\* The inode is read again.
LEMMA ReopenRight == ASSUME ChkInv, reopen PROVE ChkInv'
<1>1. /\ sum' = [b \in Blks |-> IF b < NDIRECT THEN dsum[b] ELSE sum[b]]
      /\ lost' = lost \cup dirty /\ dirty' = {}
      /\ UNCHANGED << fsize, data, dsum, over, damage >>
  BY DEF reopen
<1>2. ChkTypes'
  BY <1>1 DEF ChkInv, ChkTypes
<1>3. ASSUME NEW b \in Blks PROVE SumRight(b)' /\ DiskRight(b)' /\ BlankRight(b)'
  <2>1. SumRight(b) /\ DiskRight(b) /\ BlankRight(b)
    BY <1>3 DEF ChkInv
  <2>2. Xor(data[b], over[b])' = Xor(data[b], over[b]) /\ Bad(b, over[b])' = Bad(b, over[b])
    BY <1>1 DEF Xor, Bad
  <2>3. b \notin lost' => sum'[b] = sum[b]
    BY <1>1, <2>1 DEF DiskRight
  <2>4. SumRight(b)'
    BY <1>1, <2>1, <2>2, <2>3 DEF SumRight
  <2>5. DiskRight(b)'
    BY <1>1 DEF DiskRight
  <2>6. BlankRight(b)'
    BY <1>1, <2>1 DEF BlankRight
  <2> QED
    BY <2>4, <2>5, <2>6
<1> QED
  BY <1>2, <1>3 DEF ChkInv

\* writei.
LEMMA WriteRight ==
  ASSUME ChkInv, NEW off \in 0 .. MAXBYTES, NEW n \in 1 .. MaxN,
         NEW src \in [0 .. n - 1 -> Bits], writei(off, src, n)
  PROVE  ChkInv'
<1> DEFINE m == Least2(n, MAXBYTES - off)
           new(b) == [i \in 0 .. BSIZE - 1 |->
                        IF off <= b * BSIZE + i /\ b * BSIZE + i < off + m
                        THEN src[b * BSIZE + i - off] ELSE data[b][i]]
           t == Touched(off, m)
<1>1. /\ data' = [b \in Blks |-> IF b \in t THEN new(b) ELSE data[b]]
      /\ sum' = [b \in Blks |-> IF b \in t THEN Recorded(b, new(b), n) ELSE sum[b]]
      /\ over' = [b \in Blks |-> IF b \in t THEN nbytes(n) ELSE over[b]]
      /\ lost' = lost \ t /\ damage' = {d \in damage : d[1] \notin t}
      /\ m > 0
      /\ IF off + m > fsize
         THEN fsize' = off + m /\ dsum' = sum' /\ dirty' = {}
         ELSE /\ dirty' = dirty \cup {b \in t : b < NDIRECT}
              /\ UNCHANGED << fsize, dsum >>
  BY DEF writei
<1>2. /\ n \in Nat /\ n >= 1 /\ MAXBYTES \in Int /\ off \in Nat /\ m \in Int /\ m <= n
      /\ nbytes(n) \in 0 .. BSIZE
  BY ChkAssumption DEF MAXBYTES, Least2, nbytes
<1>3. m \in Nat /\ t \subseteq Blks /\ \A b \in t : b * BSIZE < off + m
  BY <1>1, <1>2 DEF Touched
<1>4. ASSUME NEW b \in Blks PROVE new(b) \in Contents
  <2>1. b * BSIZE \in Int /\ data[b] \in Contents
    BY ChkAssumption DEF Blks, ChkInv, ChkTypes
  <2>2. ASSUME NEW i \in Offsets, off <= b * BSIZE + i, b * BSIZE + i < off + m
        PROVE  src[b * BSIZE + i - off] \in Bits
    <3>1. b * BSIZE + i - off \in 0 .. n - 1
      BY <1>2, <2>1, <2>2, ChkAssumption DEF Offsets
    <3> QED
      BY <3>1
  <2> QED
    BY <2>1, <2>2 DEF Contents, Offsets
<1> HIDE DEF new, m, t
<1>5. ChkTypes
  BY DEF ChkInv
<1>6. ASSUME NEW b \in Blks PROVE Recorded(b, new(b), n) \in Bits
  BY <1>2, FinitelyMany DEF Recorded
<1>7. sum' \in [Blks -> Bits]
  BY <1>1, <1>5, <1>6 DEF ChkTypes
<1>8. ChkTypes'
  <2>1. data' \in [Blks -> Contents] /\ over' \in [Blks -> 0 .. BSIZE]
    BY <1>1, <1>2, <1>4, <1>5 DEF ChkTypes
  <2>2. fsize' \in Nat /\ dsum' \in [Blks -> Bits]
    <3>1. fsize \in Nat /\ dsum \in [Blks -> Bits] /\ off + m \in Nat
      BY <1>2, <1>3, <1>5 DEF ChkTypes
    <3>2. CASE off + m > fsize
      BY <1>1, <1>7, <3>1, <3>2
    <3>3. CASE ~ (off + m > fsize)
      BY <1>1, <3>1, <3>3
    <3> QED
      BY <3>2, <3>3
  <2>3. dirty' \subseteq Blks
    <3>1. dirty \subseteq Blks /\ {b \in t : b < NDIRECT} \subseteq Blks
      BY <1>3, <1>5 DEF ChkTypes
    <3>2. dirty' = {} \/ dirty' = dirty \cup {b \in t : b < NDIRECT}
      BY <1>1
    <3> QED
      BY <3>1, <3>2
  <2>4. damage' \subseteq damage
    BY <1>1
  <2>5. damage' \subseteq Blks \X Offsets
    BY <1>5, <2>4 DEF ChkTypes
  <2> QED
    BY <1>7, <2>1, <2>2, <2>3, <2>5 DEF ChkTypes
<1>9. ASSUME NEW b \in t PROVE SumRight(b)' /\ DiskRight(b)' /\ BlankRight(b)'
  <2>1. b \in Blks /\ b * BSIZE < off + m
    BY <1>3
  <2>2. /\ data'[b] = new(b) /\ sum'[b] = Xor(data'[b], nbytes(n)) /\ over'[b] = nbytes(n)
    BY <1>1, <2>1 DEF Recorded
  <2>3. Bads(b, nbytes(n))' = {}
    BY <1>1 DEF Bads
  <2>4. Bad(b, nbytes(n))' = 0
    BY <2>3, FS_EmptySet DEF Bad, Bads
  <2>5. Xor(data'[b], nbytes(n)) \in Bits
    BY <1>2, FinitelyMany
  <2>6. PICK k \in 0 .. BSIZE : k = nbytes(n)
    BY <1>2
  <2>6a. PICK u \in Bits : u = Xor(data'[b], k)
    BY <2>5, <2>6
  <2>6b. (u + 0) % 2 = u
    BY DEF Bits
  <2>6c. Xor(data[b], over[b])' = u /\ Bad(b, over[b])' = 0 /\ sum'[b] = u
    BY <2>2, <2>4, <2>6, <2>6a
  <2>7. SumRight(b)'
    BY <2>6b, <2>6c DEF SumRight
  <2>8. DiskRight(b)'
    BY <1>1 DEF DiskRight
  <2>9. BlankRight(b)'
    <3>1. b * BSIZE \in Int
      BY <2>1, ChkAssumption DEF Blks
    <3>2. b * BSIZE < fsize'
      BY <1>1, <1>2, <1>3, <1>5, <2>1, <3>1 DEF ChkTypes
    <3>3. fsize' \in Nat
      BY <1>8 DEF ChkTypes
    <3> QED
      BY <3>1, <3>2, <3>3 DEF BlankRight
  <2> QED
    BY <2>7, <2>8, <2>9
<1>10. ASSUME NEW b \in Blks \ t PROVE SumRight(b)' /\ DiskRight(b)' /\ BlankRight(b)'
  <2>1. /\ data'[b] = data[b] /\ sum'[b] = sum[b] /\ over'[b] = over[b]
        /\ b \in lost' <=> b \in lost
    BY <1>1
  <2>2. SumRight(b) /\ DiskRight(b) /\ BlankRight(b)
    BY DEF ChkInv
  <2>3. \A k : Bads(b, k)' = Bads(b, k)
    BY <1>1 DEF Bads
  <2>4. Bad(b, over[b])' = Bad(b, over[b])
    BY <2>1, <2>3 DEF Bad, Bads
  <2>5. SumRight(b)'
    BY <2>1, <2>2, <2>4 DEF SumRight
  <2>6. DiskRight(b)'
    BY <1>1, <2>1, <2>2 DEF DiskRight
  <2>7. BlankRight(b)'
    <3>1. b * BSIZE \in Int
      BY ChkAssumption DEF Blks
    <3>2. fsize' >= fsize /\ fsize \in Nat /\ fsize' \in Nat
      BY <1>1, <1>2, <1>3, <1>5, <1>8 DEF ChkTypes
    <3>3. b * BSIZE >= fsize' => b * BSIZE >= fsize
      BY <3>1, <3>2
    <3>4. dsum'[b] = dsum[b] \/ dsum'[b] = sum[b]
      BY <1>1, <2>1
    <3> QED
      BY <2>1, <2>2, <3>3, <3>4 DEF BlankRight
  <2> QED
    BY <2>5, <2>6, <2>7
<1> QED
  BY <1>8, <1>9, <1>10 DEF ChkInv

\* Every step keeps the invariant.
LEMMA ChkNextRight == ChkInv /\ [ChkNext]_chkvars => ChkInv'
<1> SUFFICES ASSUME ChkInv, [ChkNext]_chkvars PROVE ChkInv'
  OBVIOUS
<1>1. CASE UNCHANGED chkvars
  <2>1. ChkTypes'
    BY <1>1 DEF chkvars, ChkInv, ChkTypes
  <2>2. ASSUME NEW b \in Blks PROVE SumRight(b)' /\ DiskRight(b)' /\ BlankRight(b)'
    BY <1>1 DEF chkvars, ChkInv, SumRight, DiskRight, BlankRight, Bad, Xor
  <2> QED
    BY <2>1, <2>2 DEF ChkInv
<1>2. CASE ChkNext
  BY <1>2, WriteRight, ReopenRight, CorruptRight DEF ChkNext, Offsets
<1> QED
  BY <1>1, <1>2

\* The bytes that are 1 in the first k blocks, and the blocks whose checksum is.
OnesIn(k) == {p \in (0 .. k - 1) \X Offsets : data[p[1]][p[2]] = 1}
SumsIn(k) == {b \in 0 .. k - 1 : sum[b] = 1}

\* As many bytes of block k are 1 as pairs of k and such a byte.
LEMMA ColumnCounts ==
  ASSUME NEW k \in Nat, NEW f
  PROVE  /\ IsFiniteSet({k} \X Ones(f, BSIZE))
         /\ Cardinality({k} \X Ones(f, BSIZE)) = Cardinality(Ones(f, BSIZE))
<1>1. PICK g : g = [i \in Ones(f, BSIZE) |-> << k, i >>]
  OBVIOUS
<1>2. g \in Bijection(Ones(f, BSIZE), {k} \X Ones(f, BSIZE))
  <2> DEFINE S == Ones(f, BSIZE)
  <2>1. g \in [S -> {k} \X S] /\ \A i \in S : g[i] = << k, i >>
    BY <1>1
  <2> HIDE DEF S
  <2>2. \A i, j \in S : g[i] = g[j] => i = j
    BY <2>1
  <2>3. \A p \in {k} \X S : \E i \in S : g[i] = p
    BY <2>1
  <2> QED
    BY <2>1, <2>2, <2>3 DEF Bijection, Injection, Surjection, IsInjective, S
<1>3. IsFiniteSet(Ones(f, BSIZE))
  BY ChkAssumption, FinitelyMany
<1> QED
  BY <1>2, <1>3, FS_Bijection DEF ExistsBijection

\* One block more.
LEMMA OneBlockMore ==
  ASSUME NEW k \in Nat, IsFiniteSet(OnesIn(k)), IsFiniteSet(SumsIn(k)),
         sum[k] \in Bits, sum[k] = Xor(data[k], BSIZE),
         Cardinality(SumsIn(k)) % 2 = Cardinality(OnesIn(k)) % 2
  PROVE  /\ IsFiniteSet(OnesIn(k + 1)) /\ IsFiniteSet(SumsIn(k + 1))
         /\ Cardinality(SumsIn(k + 1)) % 2 = Cardinality(OnesIn(k + 1)) % 2
<1> DEFINE C == {k} \X Ones(data[k], BSIZE)
<1>1. 0 .. (k + 1) - 1 = (0 .. k - 1) \cup {k} /\ k \notin 0 .. k - 1
  OBVIOUS
<1>2. OnesIn(k + 1) = OnesIn(k) \cup C
  BY <1>1 DEF OnesIn, Ones, Offsets
<1>3. OnesIn(k) \cap C = {}
  BY <1>1 DEF OnesIn
<1>4. IsFiniteSet(C) /\ Cardinality(C) = Cardinality(Ones(data[k], BSIZE))
  BY ColumnCounts
<1> HIDE DEF C
<1>5. /\ IsFiniteSet(OnesIn(k + 1))
      /\ Cardinality(OnesIn(k + 1)) = Cardinality(OnesIn(k)) + Cardinality(C)
  <2>1. /\ IsFiniteSet(OnesIn(k) \cup C)
        /\ Cardinality(OnesIn(k) \cup C)
             = Cardinality(OnesIn(k)) + Cardinality(C) - Cardinality(OnesIn(k) \cap C)
    BY <1>4, FS_Union
  <2>2. Cardinality(OnesIn(k) \cap C) = 0
    BY <1>3, FS_EmptySet
  <2>3. Cardinality(OnesIn(k)) \in Nat /\ Cardinality(C) \in Nat
    BY <1>4, FS_CardinalityType
  <2>4. Cardinality(OnesIn(k) \cup C) = Cardinality(OnesIn(k)) + Cardinality(C)
    BY <2>1, <2>2, <2>3
  <2> QED
    BY <1>2, <2>1, <2>4, Zenon
<1>6. IsFiniteSet(SumsIn(k + 1)) /\ Cardinality(SumsIn(k + 1)) = Cardinality(SumsIn(k)) + sum[k]
  <2>1. CASE sum[k] = 1
    <3>1. SumsIn(k + 1) = SumsIn(k) \cup {k} /\ k \notin SumsIn(k)
      BY <1>1, <2>1 DEF SumsIn
    <3> QED
      BY <2>1, <3>1, FS_AddElement
  <2>2. CASE sum[k] = 0
    <3>1. SumsIn(k + 1) = SumsIn(k)
      BY <1>1, <2>2 DEF SumsIn
    <3> QED
      BY <2>2, <3>1, FS_CardinalityType
  <2> QED
    BY <2>1, <2>2 DEF Bits
<1>7. PICK u \in Nat : u = Cardinality(OnesIn(k))
  BY FS_CardinalityType
<1>8. PICK v \in Nat : v = Cardinality(SumsIn(k))
  BY FS_CardinalityType
<1>9. PICK y \in Nat : y = Cardinality(C)
  BY <1>4, FS_CardinalityType
<1>10. sum[k] = y % 2
  BY <1>4, <1>9 DEF Xor, Ones
<1>11. v % 2 = u % 2 => (v + (y % 2)) % 2 = (u + y) % 2
  <2>1. (v + (y % 2)) % 2 = ((v % 2) + (y % 2)) % 2
    BY SMT
  <2>2. (u + y) % 2 = ((u % 2) + (y % 2)) % 2
    BY SMT
  <2> QED
    BY <2>1, <2>2
<1>12. v % 2 = u % 2
  BY <1>7, <1>8
<1>13. Cardinality(SumsIn(k + 1)) = v + (y % 2) /\ Cardinality(OnesIn(k + 1)) = u + y
  BY <1>5, <1>6, <1>7, <1>8, <1>9, <1>10
<1> QED
  BY <1>5, <1>6, <1>11, <1>12, <1>13

\* If every checksum is that of its block, all together are that of the file.
LEMMA SumsOfAll ==
  ASSUME ChkTypes, \A b \in Blks : sum[b] = Xor(data[b], BSIZE)
  PROVE  stati = Cardinality({p \in Blks \X Offsets : data[p[1]][p[2]] = 1}) % 2
<1> DEFINE All == NDIRECT + NINDIRECT
           Has(k) == /\ IsFiniteSet(OnesIn(k)) /\ IsFiniteSet(SumsIn(k))
                     /\ Cardinality(SumsIn(k)) % 2 = Cardinality(OnesIn(k)) % 2
           T == {k \in Nat : k <= All /\ ~ Has(k)}
<1>1. All \in Nat /\ Blks = 0 .. All - 1
  BY ChkAssumption DEF Blks
<1>2. Has(0)
  <2>1. OnesIn(0) = {} /\ SumsIn(0) = {}
    BY DEF OnesIn, SumsIn
  <2> QED
    BY <2>1, FS_EmptySet
<1>3. ASSUME NEW k \in Nat, k < All, Has(k) PROVE Has(k + 1)
  <2>1. k \in Blks
    BY <1>1, <1>3
  <2>2. sum[k] \in Bits /\ sum[k] = Xor(data[k], BSIZE)
    BY <2>1 DEF ChkTypes
  <2> QED
    BY <1>3, <2>2, OneBlockMore
<1> HIDE DEF Has, All
<1>4. T = {}
  <2>1. SUFFICES ASSUME T # {} PROVE FALSE
    OBVIOUS
  <2>2. T \subseteq Nat
    OBVIOUS
  <2>3. PICK x \in T : \A y \in Nat : y < x => y \notin T
    BY <2>1, <2>2, LeastOne, Zenon
  <2>4. x \in Nat /\ x <= All /\ ~ Has(x) /\ x # 0
    BY <1>2, <2>3
  <2>5. x - 1 \in Nat /\ x - 1 < x /\ x - 1 < All /\ x - 1 <= All /\ (x - 1) + 1 = x
    BY <1>1, <2>4
  <2>6. Has(x - 1)
    BY <2>3, <2>5
  <2> QED
    BY <1>3, <2>4, <2>5, <2>6
<1>5. Has(All)
  BY <1>1, <1>4
<1>6. SumsIn(All) = {b \in Blks : sum[b] = 1}
      /\ OnesIn(All) = {p \in Blks \X Offsets : data[p[1]][p[2]] = 1}
  BY <1>1 DEF SumsIn, OnesIn
<1> QED
  BY <1>5, <1>6 DEF Has, stati

\* What the invariant says of a read and of stat().
LEMMA ChkInvExplains == ChkInv => ChecksExplained
<1> SUFFICES ASSUME ChkInv PROVE ChecksExplained
  OBVIOUS
<1>1. ChkTypes /\ \A b \in Blks : SumRight(b) /\ BlankRight(b)
  BY DEF ChkInv
<1>2. ASSUME NEW b \in Blks, NEW k \in Nat, Current(b, k)
      PROVE  /\ Xor(data[b], k) \in Bits /\ Bad(b, k) \in Nat
             /\ Bad(b, k) = 0 => sum[b] = Xor(data[b], k)
             /\ Bad(b, k) = 1 => sum[b] # Xor(data[b], k)
  <2>1. PICK u \in Bits : u = Xor(data[b], k)
    BY FinitelyMany
  <2>2. PICK v \in Nat : v = Bad(b, k)
    BY FinitelyMany DEF Bads, Bad
  <2>3. sum[b] = (u + v) % 2
    BY <1>1, <1>2, <2>1, <2>2 DEF SumRight, Current
  <2>4. (u + 0) % 2 = u /\ (u + 1) % 2 # u
    BY DEF Bits
  <2> QED
    BY <2>1, <2>2, <2>3, <2>4
<1>3. ASSUME NEW off \in 0 .. fsize, NEW n \in 1 .. MaxN
      PROVE  LET t == Touched(off, Least2(n, fsize - off))
             IN /\ ReadFails(off, n) =>
                     \E b \in t : ~ Current(b, nbytes(n)) \/ Bad(b, nbytes(n)) > 0
                /\ \A b \in t : Current(b, nbytes(n)) /\ Bad(b, nbytes(n)) = 1 =>
                                  ReadFails(off, n)
  <2> DEFINE t == Touched(off, Least2(n, fsize - off))
  <2>1. t \subseteq Blks
    BY DEF Touched
  <2>2. nbytes(n) \in Nat
    BY ChkAssumption DEF nbytes, Least2
  <2>3. ReadFails(off, n) <=> \E b \in t : sum[b] # Xor(data[b], nbytes(n))
    BY DEF ReadFails
  <2> HIDE DEF t
  <2>4. ASSUME NEW b \in t, sum[b] # Xor(data[b], nbytes(n)), Current(b, nbytes(n))
        PROVE  Bad(b, nbytes(n)) > 0
    <3>1. Bad(b, nbytes(n)) \in Nat /\ Bad(b, nbytes(n)) # 0
      BY <1>2, <2>1, <2>2, <2>4
    <3> QED
      BY <3>1
  <2>5. ASSUME NEW b \in t, Current(b, nbytes(n)), Bad(b, nbytes(n)) = 1
        PROVE  sum[b] # Xor(data[b], nbytes(n))
    BY <1>2, <2>1, <2>2, <2>5
  <2> USE DEF t
  <2> QED
    BY <2>3, <2>4, <2>5
<1>4. ASSUME \A b \in Blks : b * BSIZE < fsize => Current(b, BSIZE), damage = {}
      PROVE  stati = Cardinality({p \in Blks \X (0 .. BSIZE - 1) : data[p[1]][p[2]] = 1}) % 2
  <2>1. ASSUME NEW b \in Blks PROVE sum[b] = Xor(data[b], BSIZE)
    <3>1. b * BSIZE \in Int /\ fsize \in Nat /\ BSIZE \in Nat
      BY <1>1, ChkAssumption DEF Blks, ChkTypes
    <3>2. CASE b * BSIZE < fsize
      <4>1. Current(b, BSIZE)
        BY <1>4, <3>2
      <4>2. Bads(b, BSIZE) = {}
        BY <1>4 DEF Bads
      <4>3. Bad(b, BSIZE) = 0
        BY <4>2, FS_EmptySet DEF Bad, Bads
      <4> QED
        BY <1>2, <3>1, <4>1, <4>3
    <3>3. CASE b * BSIZE >= fsize
      <4>1. sum[b] = 0 /\ \A i \in Offsets : data[b][i] = 0
        BY <1>1, <3>3 DEF BlankRight
      <4>2. Ones(data[b], BSIZE) = {}
        BY <4>1 DEF Ones, Offsets
      <4>3. Xor(data[b], BSIZE) = 0 % 2
        BY <4>2, FS_EmptySet DEF Xor, Ones
      <4> QED
        BY <4>1, <4>3
    <3> QED
      BY <3>1, <3>2, <3>3
  <2> QED
    BY <1>1, <2>1, SumsOfAll DEF Offsets
<1> QED
  BY <1>3, <1>4 DEF ChecksExplained

\* For any sizes of blocks and files, any calls and any damage: a read refuses
\* no good data and lets no single bad byte through, and stat() gives the
\* checksum of the file, where the calls summed up alike and no write was
\* forgotten with the inode in memory.
THEOREM ChecksAreExplained == ChkSpec => []ChecksExplained
<1> QED
  BY ChkInitRight, ChkNextRight, ChkInvExplains, PTL DEF ChkSpec
=============================================================================
