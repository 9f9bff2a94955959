------------------------------- MODULE Lottery -------------------------------
(***************************************************************************)
(* The scheduler of P2's xv6 (proc.c): a lottery among the processes of    *)
(* the high queue, and among those of the low one when the high one has    *)
(* nobody to run.  Everything here is done under ptable.lock, so a step is *)
(* a whole pass of scheduler() or a whole call.  rand_int() is any number; *)
(* the counters that getpinfo() reports are left out.                      *)
(***************************************************************************)
EXTENDS Integers, FiniteSets

CONSTANTS
  Slots,       \* 1 .. NPROC
  CPUs,
  Counts,      \* bound: arguments of settickets
  UINT         \* 2^32: unsigned arithmetic is modulo this

\* An int is less than 2^32.
ASSUME LotteryAssumption ==
  /\ IsFiniteSet(Slots) /\ Slots # {} /\ Slots = 1 .. Cardinality(Slots)
  /\ UINT \in Nat /\ UINT > 1
  /\ \A num \in Counts : num \in Int /\ num < UINT

VARIABLES
  state,       \* state[p]: "unused", "runnable", "running" or "sleeping"
  numTickets, queue,
  proc,        \* proc[c]: the process that CPU c runs, or 0
  divided      \* the kernel has divided by zero

lotvars == << state, numTickets, queue, proc, divided >>

\* userinit has made the first process.
LotInit ==
  /\ state = [p \in Slots |-> IF p = 1 THEN "runnable" ELSE "unused"]
  /\ numTickets = [p \in Slots |-> 1] /\ queue = [p \in Slots |-> 1]
  /\ proc = [c \in CPUs |-> 0] /\ divided = FALSE

-----------------------------------------------------------------------------
(* scheduler.                                                               *)

Runnable(k) == {p \in Slots : state[p] = "runnable" /\ queue[p] = k}

\* The processes among which the lottery is held.
Pool == IF Runnable(1) # {} THEN Runnable(1) ELSE Runnable(0)

\* counter after the processes of Pool up to slot p.
counter[p \in {0} \cup Slots] ==
  IF p = 0 THEN 0
  ELSE (counter[p - 1] + (IF p \in Pool THEN numTickets[p] ELSE 0)) % UINT

\* htTickets or ltTickets
Total == counter[Cardinality(Slots)]

\* Mutant of Passed: the ticket after the last one of p is his, too.
PassedTwice(p, winner) == counter[p] >= winner

\* The loop stops at the first process for which this holds.
Passed(p, winner) == counter[p] > winner

\* The processes at which the loop stops for this ticket: one or none.
Winners(winner) == {p \in Pool : /\ Passed(p, winner)
                                 /\ \A q \in Pool : q < p => ~ Passed(q, winner)}

scheduler(c) ==
  /\ proc[c] = 0 /\ Pool # {}
  /\ IF Total = 0
     THEN divided' = TRUE /\ UNCHANGED << state, numTickets, queue, proc >>
     ELSE /\ \E winner \in 0 .. Total - 1 : \E p \in Winners(winner) :
               /\ proc' = [proc EXCEPT ![c] = p]
               /\ state' = [state EXCEPT ![p] = "running"]
          /\ UNCHANGED << numTickets, queue, divided >>

-----------------------------------------------------------------------------
(* What the running processes do.                                           *)

\* The process on c leaves it in state s.
Leaves(c, s) == /\ proc[c] # 0
                /\ state' = [state EXCEPT ![proc[c]] = s]
                /\ proc' = [proc EXCEPT ![c] = 0]

\* The clock tick: the process has used up its slice.
yield(c) == /\ Leaves(c, "runnable")
            /\ queue' = [queue EXCEPT ![proc[c]] = 0]
            /\ UNCHANGED << numTickets, divided >>

sleep(c) == Leaves(c, "sleeping") /\ UNCHANGED << numTickets, queue, divided >>

\* exit, and wait of the parent, which gives the slot back.
exit(c) == Leaves(c, "unused") /\ UNCHANGED << numTickets, queue, divided >>

wakeup(p) == /\ state[p] = "sleeping"
             /\ state' = [state EXCEPT ![p] = "runnable"]
             /\ UNCHANGED << numTickets, queue, proc, divided >>

\* fork, with what allocproc sets.
forks(c, p) ==
  /\ proc[c] # 0 /\ state[p] = "unused"
  /\ state' = [state EXCEPT ![p] = "runnable"]
  /\ numTickets' = [numTickets EXCEPT ![p] = 1]
  /\ queue' = [queue EXCEPT ![p] = 1]
  /\ UNCHANGED << proc, divided >>

settickets(c, num) ==
  /\ proc[c] # 0 /\ num >= 1
  /\ numTickets' = [numTickets EXCEPT ![proc[c]] = num]
  /\ UNCHANGED << state, queue, proc, divided >>

LotNext ==
  /\ ~ divided
  /\ \/ \E c \in CPUs : \/ scheduler(c) \/ yield(c) \/ sleep(c) \/ exit(c)
                        \/ \E p \in Slots : forks(c, p)
                        \/ \E num \in Counts : settickets(c, num)
     \/ \E p \in Slots : wakeup(p)

LotSpec == LotInit /\ [][LotNext]_lotvars

-----------------------------------------------------------------------------
(* Properties.                                                              *)

\* A process is on at most one CPU, and on one exactly if it is running.
\* Whatever ticket is drawn, the loop stops at exactly one process, so a CPU
\* never idles while something can run.  As long as the sum of the tickets
\* is an unsigned number, each process of the pool has as many tickets that
\* make it win as it has bought.
DrawsRight ==
  /\ \A p \in Slots : Cardinality({c \in CPUs : proc[c] = p})
                        = IF state[p] = "running" THEN 1 ELSE 0
  /\ \A w \in 0 .. Total - 1 : Cardinality(Winners(w)) = 1
  /\ (\A p \in Pool, q \in Pool : p < q => counter[p] <= counter[q]) =>
       \A p \in Pool :
         Cardinality({w \in 0 .. Total - 1 : p \in Winners(w)}) = numTickets[p]
=============================================================================
