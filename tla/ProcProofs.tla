---------------------------- MODULE ProcProofs ----------------------------
(***************************************************************************)
(* The process table keeps its promises for any number of slots,           *)
(* processors and page directories, and whatever programs do (every value  *)
(* of Calls): slots and pids are not shared, every process has a live      *)
(* parent, and no exit is missed by a parent asleep in wait() or join().   *)
(***************************************************************************)
EXTENDS Proc, WellFoundedInduction, TLAPS

USE SizesAssumption

Live == {"SLEEPING", "RUNNABLE", "RUNNING"}

\* Pids in use were handed out; init does not exit; whoever sleeps in wait()
\* or join() sleeps on its own slot, where exit() will look for it.
PidsBelow == \A p \in Slots : Alive(p) => pid[p] < nextpid
InitAlive == state[initproc] \in Live
SleepsOnSelf ==
  \A p \in Slots : state[p] = "SLEEPING" /\ kpc[p] \in {"wait", "join"} =>
     chan[p] = p

IInv == /\ TypeOK /\ SlotsDistinct /\ PidsBelow /\ ParentAlive /\ InitAlive
        /\ NoMissedExit /\ SleepsOnSelf

\* The first slot or directory of a set (the loops' scan order) is in the set.
LEMMA LowestIn == ASSUME NEW S, S \subseteq Nat, S # {}
                  PROVE  Lowest(S) \in S
<1> DEFINE R == {ss \in Nat \X Nat : ss[1] < ss[2]}
<1>1. IsWellFoundedOn(R, Nat)
  <2>1. R = OpToRel(<, Nat)
    BY DEF OpToRel
  <2> QED
    BY <2>1, NatLessThanWellFounded, Zenon
<1>2. PICK x \in S : \A y \in S : ~(<<y, x>> \in R)
  <2> HIDE DEF R
  <2> QED
    BY <1>1, WFMin, Zenon
<1>3. ASSUME NEW y \in S PROVE x =< y
  <2>1. x \in Nat /\ y \in Nat /\ ~(<<y, x>> \in R)
    BY <1>2
  <2>2. ~(y < x)
    BY <2>1
  <2> QED
    BY <2>1, <2>2
<1> QED
  BY <1>3, Zenon DEF Lowest

\* An assignment to one slot of a field keeps the field's type.
LEMMA ExceptType ==
  ASSUME NEW S, NEW T, NEW f \in [S -> T], NEW a, NEW b, b \in T
  PROVE  [f EXCEPT ![a] = b] \in [S -> T]
  OBVIOUS

\* The actions of Next, flattened.
LEMMA Actions ==
  ASSUME [Next]_vars
  PROVE  \/ \E p \in Slots :
              \/ Scheduler(p) \/ Yield(p) \/ AllocFails(p) \/ Fork(p)
              \/ ForkPanics(p) \/ Clone(p) \/ Propagate(p) \/ Sleep(p)
              \/ SleepReturns(p) \/ Exit(p) \/ ExitWithThreads(p)
              \/ GrowProc(p) \/ ShrinkProc(p) \/ Exec(p) \/ SysSleep(p)
              \/ CondWakeup(p)
              \/ \E call \in {"fork", "clone"} : AllocProc(p, call)
              \/ \E call \in {"wait", "join"} :
                    Reap(p, call) \/ GiveUp(p, call) \/ Block(p, call)
              \/ \E k \in 0 .. MaxPid : Kill(p, k)
         \/ Tick \/ UNCHANGED vars
  BY Zenon DEF Next, Kernel, Program

-----------------------------------------------------------------------------
(* Frames: what most actions leave alone.                                   *)

SameSlots ==
  /\ pid' = pid /\ np' = np /\ nextpid' = nextpid
  /\ \A s \in Slots : /\ state'[s] = "UNUSED" <=> state[s] = "UNUSED"
                      /\ state'[s] = "EMBRYO" <=> state[s] = "EMBRYO"
                      /\ kpc'[s] \in {"fork", "clone"} => kpc[s] = kpc'[s]

SameFamily ==
  /\ parent' = parent
  /\ \A s \in Slots : /\ state'[s] \in Live <=> state[s] \in Live
                      /\ SetUp(s)' <=> SetUp(s)

SameWait ==
  \A s \in Slots :
    /\ state'[s] = "SLEEPING" /\ kpc'[s] \in {"wait", "join"} =>
          /\ state[s] = "SLEEPING" /\ kpc'[s] = kpc[s] /\ chan'[s] = chan[s]
          /\ killed'[s] = killed[s] /\ pgdir'[s] = pgdir[s]
    /\ state'[s] = "ZOMBIE" =>
          /\ state[s] = "ZOMBIE" /\ parent'[s] = parent[s]
          /\ pgdir'[s] = pgdir[s]

\* No slot is taken or given back.
LEMMA SlotsFrame ==
  ASSUME SlotsDistinct, PidsBelow, SameSlots PROVE SlotsDistinct' /\ PidsBelow'
  BY DEF SlotsDistinct, PidsBelow, SameSlots, Filling, Alive

\* Nobody becomes a process or a zombie, or changes parent.
LEMMA FamilyFrame ==
  ASSUME TypeOK, ParentAlive, InitAlive, SameFamily
  PROVE  ParentAlive' /\ InitAlive'
<1>1. initproc \in Slots
  BY DEF initproc, Slots
<1>2. ASSUME NEW p \in Slots \ {initproc}, SetUp(p)'
      PROVE  parent'[p] \notin {None, p} /\ state'[parent'[p]] \in Live
  <2>1. parent[p] \in Slots \union {None}
    BY DEF TypeOK
  <2> QED
    BY <1>2, <2>1 DEF SameFamily, ParentAlive, Live
<1> QED
  BY <1>1, <1>2 DEF ParentAlive, InitAlive, SameFamily, Live

\* Nobody goes to sleep in wait() or join(), or becomes a zombie.
LEMMA WaitFrame ==
  ASSUME NoMissedExit, SleepsOnSelf, SameWait
  PROVE  NoMissedExit' /\ SleepsOnSelf'
  BY DEF NoMissedExit, SleepsOnSelf, SameWait, Zombies, Kids

-----------------------------------------------------------------------------
\* Every field of the table keeps its type; sz stays below USERTOP.
LEMMA TypeStep == ASSUME IInv, [Next]_vars PROVE TypeOK'
<1> USE DEF Set
<1>0. /\ TypeOK
      /\ \A p \in Filling : np[p] \in Slots
      /\ None \notin Slots /\ initproc \in Slots
  BY DEF IInv, SlotsDistinct, None, Slots, initproc
<1>1. Unused # {} => Lowest(Unused) \in Slots
  BY LowestIn DEF Unused, Slots
<1>2. FreeDirs # {} => Lowest(FreeDirs) \in PgDirs
  BY LowestIn DEF FreeDirs, PgDirs
<1>3. \A p \in Slots : 0 .. sz[p] - 1 \subseteq Pages
  BY <1>0 DEF TypeOK, Pages
<1>4. \A c : Woken(state, c) \in [Slots -> States]
  BY <1>0 DEF TypeOK, Woken, States
<1>5. ASSUME NEW p \in Slots, Scheduler(p) \/ Yield(p) \/ SysSleep(p)
                              \/ Sleep(p) \/ SleepReturns(p)
      PROVE  TypeOK'
  <2>1. CASE Scheduler(p) \/ Yield(p)
    BY <1>0, <2>1 DEF TypeOK, Scheduler, Yield, States, memory, history
  <2>2. CASE SysSleep(p)
    BY <1>0, <2>2 DEF TypeOK, SysSleep, memory, history, None
  <2>3. CASE Sleep(p)
    BY <1>0, <2>3 DEF TypeOK, Sleep, States, memory, history, Ticks, Cond
  <2>4. CASE SleepReturns(p)
    BY <1>0, <2>4 DEF TypeOK, SleepReturns, memory, history, None
  <2> QED
    BY <1>5, <2>1, <2>2, <2>3, <2>4
<1>6. ASSUME NEW p \in Slots, NEW call \in {"fork", "clone"},
             AllocProc(p, call)
      PROVE  TypeOK'
  BY <1>0, <1>1, <1>6 DEF TypeOK, AllocProc, NextPid, States, memory, history
<1>7. ASSUME NEW p \in Slots, AllocFails(p) PROVE TypeOK'
  BY <1>0, <1>7 DEF TypeOK, AllocFails, Filling, States, memory, history
<1>8. ASSUME NEW p \in Slots, Fork(p) PROVE TypeOK'
  BY <1>0, <1>2, <1>3, <1>8 DEF TypeOK, Fork, Filling, States
<1>9. ASSUME NEW p \in Slots, ForkPanics(p) PROVE TypeOK'
  BY <1>0, <1>9 DEF TypeOK, ForkPanics, Panic, table, memory, history
<1>10. ASSUME NEW p \in Slots, Clone(p) PROVE TypeOK'
  BY <1>0, <1>10 DEF TypeOK, Clone, Filling, States, memory
<1>11. ASSUME NEW p \in Slots, NEW call \in {"wait", "join"}, Reap(p, call)
       PROVE  TypeOK'
  <2>1. Zombies(p, call) \subseteq Slots
    BY DEF Zombies, Kids
  <2>2. Lowest(Zombies(p, call)) \in Slots
    BY <1>11, <2>1, LowestIn DEF Reap, Slots
  <2> QED
    BY <1>0, <1>11, <2>2
    DEF TypeOK, Reap, Clears, Frees, States, history, None
<1>12. ASSUME NEW p \in Slots, NEW call \in {"wait", "join"},
              GiveUp(p, call) \/ Block(p, call)
       PROVE  TypeOK'
  <2>1. CASE GiveUp(p, call)
    BY <1>0, <2>1 DEF TypeOK, GiveUp, memory, history
  <2>2. CASE Block(p, call)
    BY <1>0, <2>2 DEF TypeOK, Block, States, memory, history
  <2> QED
    BY <1>12, <2>1, <2>2
<1>13. ASSUME NEW p \in Slots
       PROVE  /\ ExitStates(p) \in [Slots -> States]
              /\ Adopted(p) \in [Slots -> Slots \union {None}]
  <2>1. Adopted(p) \in [Slots -> Slots \union {None}]
    BY <1>0 DEF TypeOK, Adopted
  <2>2. ASSUME NEW st \in [Slots -> States]
        PROVE  /\ \A c : Woken(st, c) \in [Slots -> States]
               /\ [st EXCEPT ![p] = "ZOMBIE"] \in [Slots -> States]
    BY DEF Woken, States
  <2>3. ExitStates(p) \in [Slots -> States]
    BY <1>4, <2>2, Zenon DEF ExitStates
  <2> QED
    BY <2>1, <2>3
<1>14. ASSUME NEW p \in Slots, Exit(p) PROVE TypeOK'
  BY <1>0, <1>13, <1>14 DEF TypeOK, Exit, memory, history
<1>15. ASSUME NEW p \in Slots, ExitWithThreads(p) PROVE TypeOK'
  <2>1. Kids(p, "join") \subseteq Slots
    BY DEF Kids
  <2>2. Lowest(Kids(p, "join")) \in Slots
    BY <1>15, <2>1, LowestIn DEF ExitWithThreads, Slots
  <2> DEFINE q == Lowest(Kids(p, "join"))
  <2>3. 0 .. sz[q] - 1 \subseteq Pages
    BY <1>3, <2>2
  <2>4. CASE Panic
    BY <1>0, <2>4 DEF TypeOK, Panic, table, memory, history
  <2>5. CASE ~Panic
    <3>1. /\ state' \in [Slots -> States]
          /\ parent' \in [Slots -> Slots \union {None}]
          /\ UNCHANGED <<pid, sz, killed, chan, kpc, np, nextpid, panic,
                         history>>
      BY <1>13, <1>15, <2>5 DEF ExitWithThreads
    <3>2. \/ /\ FreeDirs # {}
             /\ dirs' = dirs \union {Lowest(FreeDirs)}
             /\ vm' = [vm EXCEPT ![Lowest(FreeDirs)] = 0 .. sz[q] - 1]
             /\ pgdir' = [pgdir EXCEPT ![p] = Lowest(FreeDirs)]
          \/ /\ pgdir' = [pgdir EXCEPT ![p] = None]
             /\ UNCHANGED memory
      BY <1>15, <2>5, Zenon DEF ExitWithThreads
    <3> HIDE DEF q
    <3>3. /\ pgdir' \in [Slots -> PgDirs \union {None}]
          /\ dirs' \subseteq PgDirs
          /\ vm' \in [PgDirs -> SUBSET Pages]
      <4>1. CASE UNCHANGED memory
        BY <1>0, <3>2, <4>1 DEF TypeOK, memory
      <4>2. CASE ~UNCHANGED memory
        <5>1. vm' = [vm EXCEPT ![Lowest(FreeDirs)] = 0 .. sz[q] - 1]
          BY <3>2, <4>2
        <5>2. vm' \in [PgDirs -> SUBSET Pages]
          BY <1>0, <2>3, <5>1, ExceptType, Zenon DEF TypeOK
        <5>3. /\ FreeDirs # {} /\ dirs' = dirs \union {Lowest(FreeDirs)}
              /\ pgdir' = [pgdir EXCEPT ![p] = Lowest(FreeDirs)]
          BY <3>2, <4>2
        <5>4. Lowest(FreeDirs) \in PgDirs /\ dirs \subseteq PgDirs
          BY <1>0, <1>2, <5>3 DEF TypeOK
        <5>5. pgdir' \in [Slots -> PgDirs \union {None}]
          BY <1>0, <5>3, <5>4 DEF TypeOK
        <5> QED
          BY <5>2, <5>3, <5>4, <5>5
      <4> QED
        BY <4>1, <4>2
    <3> QED
      BY <1>0, <3>1, <3>3 DEF TypeOK, history
  <2> QED
    BY <2>4, <2>5
<1>16. ASSUME NEW p \in Slots,
              GrowProc(p) \/ ShrinkProc(p) \/ Propagate(p)
       PROVE  TypeOK'
  <2>1. CASE GrowProc(p)
    <3>1. sz[p] \in 0 .. MaxPages /\ sz[p] + 1 =< MaxPages
      BY <1>0, <2>1 DEF TypeOK, GrowProc, Fits
    <3>2. sz[p] \in Pages /\ sz[p] + 1 \in 0 .. MaxPages
      BY <3>1 DEF Pages
    <3>3. CASE Panic
      BY <1>0, <3>3 DEF TypeOK, Panic, table, memory, history
    <3>4. CASE ~Panic
      <4>1. /\ vm' = [vm EXCEPT ![pgdir[p]] = vm[pgdir[p]] \union {sz[p]}]
            /\ sz' = [sz EXCEPT ![p] = sz[p] + 1]
            /\ kpc' = [kpc EXCEPT ![p] = "grow"]
            /\ UNCHANGED <<state, pid, parent, pgdir, killed, chan, np,
                           nextpid, dirs, panic, history>>
        BY <2>1, <3>4 DEF GrowProc
      <4>2. vm' \in [PgDirs -> SUBSET Pages]
        BY <1>0, <3>2, <4>1 DEF TypeOK
      <4> QED
        BY <1>0, <3>2, <4>1, <4>2 DEF TypeOK, history
    <3> QED
      BY <3>3, <3>4
  <2>2. CASE ShrinkProc(p)
    <3>1. sz[p] - 1 \in 0 .. MaxPages
      BY <1>0, <2>2 DEF TypeOK, ShrinkProc
    <3>2. vm' \in [PgDirs -> SUBSET Pages]
      BY <1>0, <2>2 DEF TypeOK, ShrinkProc, Unmapped
    <3> QED
      BY <1>0, <2>2, <3>1, <3>2 DEF TypeOK, ShrinkProc, history
  <2>3. CASE Propagate(p)
    BY <1>0, <2>3 DEF TypeOK, Propagate, Told, memory, history
  <2> QED
    BY <1>16, <2>1, <2>2, <2>3
<1>17. ASSUME NEW p \in Slots, Exec(p) PROVE TypeOK'
  <2>1. {0} \subseteq Pages /\ 1 \in 0 .. MaxPages
    BY DEF Pages
  <2> QED
    BY <1>0, <1>2, <1>17, <2>1 DEF TypeOK, Exec, history
<1>18. ASSUME NEW p \in Slots, NEW k \in 0 .. MaxPid, Kill(p, k)
       PROVE  TypeOK'
  <2> DEFINE q == Lowest({s \in Slots : pid[s] = k})
  <2>1. {s \in Slots : pid[s] = k} # {}
    BY <1>18 DEF Kill
  <2>2. q \in Slots
    BY <2>1, LowestIn DEF Slots
  <2>3. Killed(q) \in States
    BY <1>0, <2>2 DEF TypeOK, Killed, States
  <2> HIDE DEF q
  <2> QED
    BY <1>0, <1>18, <2>2, <2>3 DEF TypeOK, Kill, memory, q
<1>19. ASSUME NEW p \in Slots, CondWakeup(p) PROVE TypeOK'
  BY <1>0, <1>4, <1>19 DEF TypeOK, CondWakeup, memory, history
<1>20. CASE Tick
  BY <1>0, <1>4, <1>20 DEF TypeOK, Tick, memory, history
<1>21. CASE UNCHANGED vars
  BY <1>0, <1>21 DEF TypeOK, vars, table, memory, history
<1> QED
  BY <1>5, <1>6, <1>7, <1>8, <1>9, <1>10, <1>11, <1>12, <1>14, <1>15, <1>16,
     <1>17, <1>18, <1>19, <1>20, <1>21, Actions, Zenon

-----------------------------------------------------------------------------
Quiet == SameSlots /\ SameFamily /\ SameWait

\* wakeup1() makes sleepers runnable and touches nothing else.
LEMMA WokenFrame ==
  ASSUME TypeOK, NEW c, state' = Woken(state, c),
         UNCHANGED <<pid, np, nextpid, kpc, parent, chan, killed, pgdir>>
  PROVE  Quiet
  BY DEF TypeOK, Woken, Quiet, SameSlots, SameFamily, SameWait, SetUp, Live

\* The steps that take no slot, end no process and do not sleep in wait().
LEMMA QuietSteps ==
  ASSUME TypeOK, NEW p \in Slots,
         \/ Scheduler(p) \/ Yield(p) \/ ForkPanics(p) \/ Propagate(p)
         \/ Sleep(p) \/ SleepReturns(p) \/ GrowProc(p) \/ ShrinkProc(p)
         \/ Exec(p) \/ SysSleep(p) \/ CondWakeup(p)
         \/ \E call \in {"wait", "join"} : GiveUp(p, call)
         \/ \E k \in 0 .. MaxPid : Kill(p, k)
  PROVE  Quiet
<1> USE DEF TypeOK, Set, Quiet, SameSlots, SameFamily, SameWait, SetUp, Live,
            Running, Enters
<1>1. CASE Scheduler(p)
  BY <1>1 DEF Scheduler
<1>2. CASE Yield(p)
  BY <1>2 DEF Yield
<1>3. CASE ForkPanics(p)
  BY <1>3 DEF ForkPanics, Panic, table
<1>4. CASE Propagate(p)
  BY <1>4 DEF Propagate
<1>5. CASE Sleep(p)
  BY <1>5 DEF Sleep
<1>6. CASE SleepReturns(p)
  BY <1>6 DEF SleepReturns
<1>7. CASE GrowProc(p)
  BY <1>7 DEF GrowProc, MayGrow, Panic, table
<1>8. CASE ShrinkProc(p)
  BY <1>8 DEF ShrinkProc, MayGrow
<1>9. CASE Exec(p)
  BY <1>9 DEF Exec
<1>10. CASE SysSleep(p)
  BY <1>10 DEF SysSleep
<1>11. CASE CondWakeup(p)
  BY <1>11, WokenFrame DEF CondWakeup
<1>12. ASSUME NEW call \in {"wait", "join"}, GiveUp(p, call) PROVE Quiet
  BY <1>12 DEF GiveUp
<1>13. ASSUME NEW k \in 0 .. MaxPid, Kill(p, k) PROVE Quiet
  <2> DEFINE q == Lowest({s \in Slots : pid[s] = k})
  <2>1. /\ state' = [state EXCEPT ![q] = Killed(q)]
        /\ killed' = [killed EXCEPT ![q] = TRUE]
        /\ UNCHANGED <<pid, parent, pgdir, chan, kpc, np, nextpid>>
    BY <1>13 DEF Kill
  <2>2. q \in Slots
    <3>1. {s \in Slots : pid[s] = k} # {}
      BY <1>13 DEF Kill
    <3>2. {s \in Slots : pid[s] = k} \subseteq Nat
      BY DEF Slots
    <3>3. q \in {s \in Slots : pid[s] = k}
      BY <3>1, <3>2, LowestIn, Zenon
    <3> QED
      BY <3>3
  <2> HIDE DEF q
  <2> QED
    BY <2>1, <2>2 DEF Killed
<1> QED
  BY <1>1, <1>2, <1>3, <1>4, <1>5, <1>6, <1>7, <1>8, <1>9, <1>10, <1>11,
     <1>12, <1>13

\* Nor do the timer and stuttering.
LEMMA QuietTick ==
  ASSUME TypeOK, Tick \/ UNCHANGED vars PROVE Quiet
<1>1. CASE Tick
  BY <1>1, WokenFrame DEF Tick
<1>2. CASE UNCHANGED vars
  BY <1>2 DEF vars, table, Quiet, SameSlots, SameFamily, SameWait, SetUp
<1> QED
  BY <1>1, <1>2

-----------------------------------------------------------------------------
\* allocproc() takes a slot nobody has; only its caller fills it or gives it
\* back; wait() and join() give back slots of zombies.
LEMMA SlotsStep ==
  ASSUME IInv, [Next]_vars PROVE SlotsDistinct' /\ PidsBelow'
<1> USE DEF Set
<1>0. TypeOK /\ SlotsDistinct /\ PidsBelow
  BY DEF IInv
<1>1. ASSUME NEW p \in Slots, NEW call \in {"fork", "clone"},
             AllocProc(p, call)
      PROVE  SlotsDistinct' /\ PidsBelow'
  <2> DEFINE s == Lowest(Unused)
  <2>1. s \in Slots /\ state[s] = "UNUSED"
    <3>1. Unused # {} /\ Unused \subseteq Nat
      BY <1>1 DEF AllocProc, Unused, Slots
    <3> QED
      BY <3>1, LowestIn DEF Unused
  <2>2. p \notin Filling
    BY <1>1 DEF AllocProc, Enters, Filling
  <2>3. /\ state' = [state EXCEPT ![s] = "EMBRYO"]
        /\ pid' = [pid EXCEPT ![s] = nextpid]
        /\ np' = [np EXCEPT ![p] = s]
        /\ kpc' = [kpc EXCEPT ![p] = call]
        /\ nextpid' = nextpid + 1
    BY <1>1 DEF AllocProc, NextPid
  <2> HIDE DEF s
  <2>4. nextpid \in Nat /\ \A q \in Slots : pid[q] \in Nat
    BY <1>0 DEF TypeOK
  <2>5. PidsBelow'
    BY <1>0, <2>1, <2>3, <2>4 DEF PidsBelow, Alive, TypeOK
  <2>6. Filling' = Filling \union {p}
    BY <1>0, <2>3 DEF TypeOK, Filling
  <2>7. \A q \in Filling : np[q] # s
    BY <1>0, <2>1 DEF SlotsDistinct
  <2> QED
    BY <1>0, <2>1, <2>2, <2>3, <2>4, <2>5, <2>6, <2>7
    DEF TypeOK, SlotsDistinct, PidsBelow, Alive, Filling
<1>2. ASSUME NEW p \in Slots, AllocFails(p) \/ Fork(p) \/ Clone(p)
      PROVE  SlotsDistinct' /\ PidsBelow'
  <2>1. /\ p \in Filling /\ kpc' = [kpc EXCEPT ![p] = "user"]
        /\ \E v : state' = [state EXCEPT ![np[p]] = v]
        /\ UNCHANGED <<pid, np, nextpid>>
    BY <1>2 DEF AllocFails, Fork, Clone, Filling
  <2>2. Filling' = Filling \ {p}
    BY <1>0, <2>1 DEF TypeOK, Filling
  <2>3. np[p] \in Slots /\ state[np[p]] = "EMBRYO"
    BY <1>0, <2>1 DEF SlotsDistinct
  <2>4. \A q \in Filling \ {p} : np[q] # np[p]
    BY <1>0, <2>1 DEF SlotsDistinct
  <2>5. \A q \in Slots : q # np[p] => state'[q] = state[q]
    BY <1>0, <2>1 DEF TypeOK
  <2>6. \A q \in Slots : Alive(q)' => Alive(q)
    BY <2>3, <2>5 DEF Alive
  <2> QED
    BY <1>0, <2>1, <2>2, <2>3, <2>4, <2>5, <2>6
    DEF SlotsDistinct, PidsBelow
<1>3. ASSUME NEW p \in Slots, NEW call \in {"wait", "join"}, Reap(p, call)
      PROVE  SlotsDistinct' /\ PidsBelow'
  <2> DEFINE z == Lowest(Zombies(p, call))
  <2>1. z \in Slots /\ state[z] = "ZOMBIE"
    <3>1. Zombies(p, call) # {} /\ Zombies(p, call) \subseteq Nat
      BY <1>3 DEF Reap, Zombies, Kids, Slots
    <3> QED
      BY <3>1, LowestIn DEF Zombies, Kids
  <2>2. /\ state' = [state EXCEPT ![z] = "UNUSED"]
        /\ pid' = [pid EXCEPT ![z] = 0]
        /\ kpc' = [kpc EXCEPT ![p] = "user"]
        /\ np' = np /\ nextpid' = nextpid
    BY <1>3 DEF Reap, Clears
  <2> HIDE DEF z
  <2>3. Filling' \subseteq Filling
    BY <1>0, <2>2 DEF TypeOK, Filling
  <2> QED
    BY <1>0, <2>1, <2>2, <2>3
    DEF TypeOK, SlotsDistinct, PidsBelow, Alive
<1>4. ASSUME NEW p \in Slots, NEW call \in {"wait", "join"}, Block(p, call)
      PROVE  SlotsDistinct' /\ PidsBelow'
  <2>1. SameSlots
    BY <1>0, <1>4
    DEF Block, Scans, Enters, Running, SameSlots, TypeOK
  <2> QED
    BY <1>0, <2>1, SlotsFrame
<1>5. ASSUME NEW p \in Slots, Exit(p) \/ ExitWithThreads(p)
      PROVE  SlotsDistinct' /\ PidsBelow'
  <2>1. /\ pid' = pid /\ np' = np /\ nextpid' = nextpid /\ kpc' = kpc
        /\ state[p] = "RUNNING"
        /\ state' = state \/ state' = ExitStates(p)
    BY <1>5 DEF Exit, ExitWithThreads, Panic, table, Exits, Running
  <2>2. \A q \in Slots :
           \/ ExitStates(p)[q] = state[q]
           \/ state[q] = "SLEEPING" /\ ExitStates(p)[q] = "RUNNABLE"
           \/ q = p /\ ExitStates(p)[q] = "ZOMBIE"
    BY DEF ExitStates, Woken
  <2>3. SameSlots
    BY <2>1, <2>2 DEF SameSlots
  <2> QED
    BY <1>0, <2>3, SlotsFrame
<1>6. Quiet => SlotsDistinct' /\ PidsBelow'
  BY <1>0, SlotsFrame DEF Quiet
<1> QED
  BY <1>0, <1>1, <1>2, <1>3, <1>4, <1>5, <1>6, Actions, QuietSteps, QuietTick,
     Zenon

-----------------------------------------------------------------------------
\* What exit() does to the states: p becomes a zombie, sleepers may wake.
LEMMA ExitEffect ==
  ASSUME TypeOK, NEW p \in Slots, Exit(p) \/ ExitWithThreads(p), ~Panic
  PROVE  /\ p # initproc /\ state[p] = "RUNNING" /\ state'[p] = "ZOMBIE"
         /\ state' = ExitStates(p) /\ parent' = Adopted(p)
         /\ kpc' = kpc /\ chan' = chan /\ killed' = killed
         /\ \A q \in Slots \ {p} :
               /\ pgdir'[q] = pgdir[q]
               /\ \/ state'[q] = state[q]
                  \/ state[q] = "SLEEPING" /\ state'[q] = "RUNNABLE"
<1>1. /\ p # initproc /\ state[p] = "RUNNING"
      /\ state' = ExitStates(p) /\ parent' = Adopted(p)
      /\ kpc' = kpc /\ chan' = chan /\ killed' = killed
  BY DEF Exit, ExitWithThreads, Exits, Running
<1>2. pgdir' = pgdir \/ \E d : pgdir' = [pgdir EXCEPT ![p] = d]
  BY DEF Exit, ExitWithThreads, Set
<1>3. \A q \in Slots \ {p} : pgdir'[q] = pgdir[q]
  BY <1>2 DEF TypeOK
<1>4. /\ state'[p] = "ZOMBIE"
      /\ \A q \in Slots \ {p} :
            \/ state'[q] = state[q]
            \/ state[q] = "SLEEPING" /\ state'[q] = "RUNNABLE"
  BY <1>1 DEF ExitStates, Woken
<1> QED
  BY <1>1, <1>3, <1>4

\* A panic changes nothing in the table.
LEMMA PanicQuiet == ASSUME TypeOK, Panic PROVE Quiet
  BY DEF Panic, table, Quiet, SameSlots, SameFamily, SameWait, SetUp

\* A new child has its running creator for parent, and exit() passes on every
\* child before it makes a zombie of their parent.
LEMMA FamilyStep == ASSUME IInv, [Next]_vars PROVE ParentAlive' /\ InitAlive'
<1> USE DEF Set
<1>0. TypeOK /\ SlotsDistinct /\ ParentAlive /\ InitAlive
  BY DEF IInv
<1>1. initproc \in Slots /\ None \notin Slots
  BY DEF initproc, Slots, None
<1>2. ASSUME NEW p \in Slots, NEW call \in {"fork", "clone"},
             AllocProc(p, call)
      PROVE  SameFamily
  <2>1. Unused # {} /\ Unused \subseteq Nat
    BY <1>2 DEF AllocProc, Unused, Slots
  <2>2. Lowest(Unused) \in Slots /\ state[Lowest(Unused)] = "UNUSED"
    BY <2>1, LowestIn DEF Unused
  <2> QED
    BY <1>0, <1>2, <2>2 DEF AllocProc, SameFamily, SetUp, Live, TypeOK
<1>3. ASSUME NEW p \in Slots, AllocFails(p) PROVE SameFamily
  <2>1. np[p] \in Slots /\ state[np[p]] = "EMBRYO"
    BY <1>0, <1>3 DEF AllocFails, SlotsDistinct, Filling
  <2> QED
    BY <1>0, <1>3, <2>1 DEF AllocFails, SameFamily, SetUp, Live, TypeOK
<1>4. ASSUME NEW p \in Slots, NEW call \in {"wait", "join"}, Block(p, call)
      PROVE  SameFamily
  BY <1>0, <1>4
  DEF Block, Scans, Enters, Running, SameFamily, SetUp, Live, TypeOK
<1>5. ASSUME NEW p \in Slots, Fork(p) \/ Clone(p)
      PROVE  ParentAlive' /\ InitAlive'
  <2>1. /\ np[p] \in Slots /\ state[np[p]] = "EMBRYO"
        /\ state[p] = "RUNNING"
    BY <1>0, <1>5 DEF Fork, Clone, SlotsDistinct, Filling, Running
  <2>2. PICK v : state' = [state EXCEPT ![np[p]] = v]
    BY <1>5 DEF Fork, Clone
  <2>3. parent' = [parent EXCEPT ![np[p]] = p]
    BY <1>5 DEF Fork, Clone
  <2>4. \A q \in Slots \ {np[p]} : /\ state'[q] = state[q]
                                   /\ parent'[q] = parent[q]
    BY <1>0, <2>2, <2>3 DEF TypeOK
  <2>5. p # np[p] /\ initproc # np[p] /\ parent'[np[p]] = p
    BY <1>0, <1>1, <2>1, <2>3 DEF InitAlive, Live, TypeOK
  <2>6. InitAlive'
    BY <1>0, <1>1, <2>4, <2>5 DEF InitAlive
  <2>7. ASSUME NEW q \in Slots \ {initproc}, SetUp(q)'
        PROVE  parent'[q] \notin {None, q} /\ state'[parent'[q]] \in Live
    <3>1. CASE q = np[p]
      BY <1>1, <2>1, <2>4, <2>5, <3>1 DEF Live
    <3>2. CASE q # np[p]
      <4>1. parent[q] \in Slots \ {q} /\ state[parent[q]] \in Live
        BY <1>0, <2>4, <2>7, <3>2 DEF ParentAlive, SetUp, Live, TypeOK
      <4> QED
        BY <1>1, <2>1, <2>4, <3>2, <4>1 DEF Live
    <3> QED
      BY <3>1, <3>2
  <2> QED
    BY <2>6, <2>7 DEF ParentAlive, Live
<1>6. ASSUME NEW p \in Slots, NEW call \in {"wait", "join"}, Reap(p, call)
      PROVE  ParentAlive' /\ InitAlive'
  <2> DEFINE z == Lowest(Zombies(p, call))
  <2>1. z \in Slots /\ state[z] = "ZOMBIE"
    <3>1. Zombies(p, call) # {} /\ Zombies(p, call) \subseteq Nat
      BY <1>6 DEF Reap, Zombies, Kids, Slots
    <3> QED
      BY <3>1, LowestIn DEF Zombies, Kids
  <2>2. /\ state' = [state EXCEPT ![z] = "UNUSED"]
        /\ parent' = [parent EXCEPT ![z] = None]
    BY <1>6 DEF Reap, Clears
  <2> HIDE DEF z
  <2> QED
    BY <1>0, <1>1, <2>1, <2>2
    DEF TypeOK, ParentAlive, InitAlive, SetUp, Live
<1>7. ASSUME NEW p \in Slots, Exit(p) \/ ExitWithThreads(p)
      PROVE  ParentAlive' /\ InitAlive'
  <2>1. CASE Panic
    BY <1>0, <2>1, PanicQuiet, FamilyFrame DEF Quiet
  <2>2. CASE ~Panic
    <3>1. InitAlive'
      BY <1>0, <1>1, <1>7, <2>2, ExitEffect DEF InitAlive, Live
    <3>2. ASSUME NEW q \in Slots \ {initproc}, SetUp(q)'
          PROVE  parent'[q] \notin {None, q} /\ state'[parent'[q]] \in Live
      <4>1. parent'[q] = IF parent[q] = p THEN initproc ELSE parent[q]
        BY <1>0, <1>7, <2>2, ExitEffect DEF Adopted
      <4>2. SetUp(q)
        BY <1>0, <1>7, <2>2, <3>2, ExitEffect DEF SetUp
      <4>3. parent[q] \in Slots \ {q} /\ state[parent[q]] \in Live
        BY <1>0, <4>2 DEF ParentAlive, Live, TypeOK
      <4>4. CASE parent[q] = p
        BY <1>1, <3>1, <4>1, <4>4 DEF InitAlive
      <4>5. CASE parent[q] # p
        BY <1>0, <1>1, <1>7, <2>2, <4>1, <4>3, <4>5, ExitEffect DEF Live
      <4> QED
        BY <4>4, <4>5
    <3> QED
      BY <3>1, <3>2 DEF ParentAlive, Live
  <2> QED
    BY <2>1, <2>2
<1>8. SameFamily => ParentAlive' /\ InitAlive'
  BY <1>0, FamilyFrame
<1>9. Quiet => SameFamily
  BY DEF Quiet
<1> QED
  BY <1>0, <1>2, <1>3, <1>4, <1>5, <1>6, <1>7, <1>8, <1>9, Actions,
     QuietSteps, QuietTick, Zenon

-----------------------------------------------------------------------------
\* exit() wakes whoever it gives a zombie to, and wait() and join() go to sleep
\* under the lock exit() takes.
LEMMA WaitStep ==
  ASSUME IInv, [Next]_vars PROVE NoMissedExit' /\ SleepsOnSelf'
<1> USE DEF Set
<1>0. TypeOK /\ SlotsDistinct /\ InitAlive /\ NoMissedExit /\ SleepsOnSelf
  BY DEF IInv
<1>1. initproc \in Slots /\ None \notin Slots
  BY DEF initproc, Slots, None
<1>2. ASSUME NEW p \in Slots, NEW call \in {"fork", "clone"},
             AllocProc(p, call)
      PROVE  SameWait
  <2>1. /\ kpc' = [kpc EXCEPT ![p] = call]
        /\ state' = [state EXCEPT ![Lowest(Unused)] = "EMBRYO"]
        /\ UNCHANGED <<chan, killed, pgdir, parent>>
    BY <1>2 DEF AllocProc
  <2> QED
    BY <1>0, <1>2, <2>1 DEF SameWait, TypeOK
<1>3. ASSUME NEW p \in Slots, AllocFails(p) \/ Fork(p) \/ Clone(p)
      PROVE  SameWait
  <2>1. np[p] \in Slots /\ state[np[p]] = "EMBRYO"
    BY <1>0, <1>3 DEF AllocFails, Fork, Clone, SlotsDistinct, Filling
  <2>2. PICK v \in {"UNUSED", "RUNNABLE", "EMBRYO"} :
           state' = [state EXCEPT ![np[p]] = v]
    BY <1>3 DEF AllocFails, Fork, Clone
  <2>3. \/ pgdir' = pgdir
        \/ \E d : pgdir' = [pgdir EXCEPT ![np[p]] = d]
    BY <1>3 DEF AllocFails, Fork, Clone
  <2>4. parent' = parent \/ parent' = [parent EXCEPT ![np[p]] = p]
    BY <1>3 DEF AllocFails, Fork, Clone
  <2>5. \A q \in Slots \ {np[p]} :
           /\ state'[q] = state[q] /\ pgdir'[q] = pgdir[q]
           /\ parent'[q] = parent[q]
    BY <1>0, <2>2, <2>3, <2>4 DEF TypeOK
  <2>6. state'[np[p]] \notin {"SLEEPING", "ZOMBIE"}
    BY <1>0, <2>1, <2>2 DEF TypeOK
  <2>7. /\ kpc' = [kpc EXCEPT ![p] = "user"]
        /\ chan' = chan /\ killed' = killed
    BY <1>3 DEF AllocFails, Fork, Clone
  <2> QED
    BY <1>0, <2>5, <2>6, <2>7 DEF SameWait, TypeOK
<1>4. ASSUME NEW p \in Slots, NEW call \in {"wait", "join"}, Reap(p, call)
      PROVE  SameWait
  <2> DEFINE z == Lowest(Zombies(p, call))
  <2>1. z \in Slots /\ state[z] = "ZOMBIE"
    <3>1. Zombies(p, call) # {} /\ Zombies(p, call) \subseteq Nat
      BY <1>4 DEF Reap, Zombies, Kids, Slots
    <3> QED
      BY <3>1, LowestIn DEF Zombies, Kids
  <2>2. /\ state' = [state EXCEPT ![z] = "UNUSED"]
        /\ parent' = [parent EXCEPT ![z] = None]
        /\ killed' = [killed EXCEPT ![z] = FALSE]
        /\ kpc' = [kpc EXCEPT ![p] = "user"]
        /\ chan' = [chan EXCEPT ![p] = None]
        /\ pgdir' = pgdir /\ state[p] = "RUNNING"
    BY <1>4 DEF Reap, Clears, Scans, Enters, Running
  <2> HIDE DEF z
  <2> QED
    BY <1>0, <2>1, <2>2 DEF SameWait, TypeOK
<1>5. ASSUME NEW p \in Slots, NEW call \in {"wait", "join"}, Block(p, call)
      PROVE  NoMissedExit' /\ SleepsOnSelf'
  <2>1. /\ Zombies(p, call) = {} /\ ~killed[p] /\ state[p] = "RUNNING"
        /\ state' = [state EXCEPT ![p] = "SLEEPING"]
        /\ chan' = [chan EXCEPT ![p] = p]
        /\ kpc' = [kpc EXCEPT ![p] = call]
        /\ UNCHANGED <<parent, pgdir, killed>>
    BY <1>5 DEF Block, MaySleep, Scans, Enters, Running
  <2>2. \A q \in Slots : \A c : Zombies(q, c)' = Zombies(q, c)
    BY <1>0, <2>1 DEF Zombies, Kids, TypeOK
  <2>3. ASSUME NEW q \in Slots, state'[q] = "SLEEPING",
               kpc'[q] \in {"wait", "join"}
        PROVE  /\ ~killed'[q] /\ Zombies(q, kpc[q])' = {}
               /\ chan'[q] = q
    <3>1. CASE q = p
      <4>1. kpc'[q] = call /\ chan'[q] = q /\ ~killed'[q]
        BY <1>0, <2>1, <3>1 DEF TypeOK
      <4>2. Zombies(q, kpc[q])' = {}
        BY <2>1, <3>1, <4>1 DEF Zombies, Kids
      <4> QED
        BY <4>1, <4>2
    <3>2. CASE q # p
      <4>1. /\ state[q] = "SLEEPING" /\ kpc'[q] = kpc[q]
            /\ chan'[q] = chan[q] /\ killed'[q] = killed[q]
        BY <1>0, <2>1, <2>3, <3>2 DEF TypeOK
      <4>2. ~killed[q] /\ Zombies(q, kpc[q]) = {} /\ chan[q] = q
        BY <1>0, <2>3, <4>1 DEF NoMissedExit, SleepsOnSelf
      <4>3. Zombies(q, kpc[q])' = {}
        BY <2>1, <4>1, <4>2 DEF Zombies, Kids
      <4> QED
        BY <4>1, <4>2, <4>3
    <3> QED
      BY <3>1, <3>2
  <2> QED
    BY <2>3 DEF NoMissedExit, SleepsOnSelf
<1>6. ASSUME NEW p \in Slots, Exit(p) \/ ExitWithThreads(p)
      PROVE  NoMissedExit' /\ SleepsOnSelf'
  <2>1. CASE Panic
    BY <1>0, <2>1, PanicQuiet, WaitFrame DEF Quiet
  <2>2. CASE ~Panic
    <3>1. ASSUME NEW q \in Slots, state'[q] = "SLEEPING",
                 kpc'[q] \in {"wait", "join"}
          PROVE  /\ ~killed'[q] /\ Zombies(q, kpc[q])' = {}
                 /\ chan'[q] = q
      <4>1. q # p /\ state[q] = "SLEEPING" /\ kpc[q] \in {"wait", "join"}
        BY <1>0, <1>6, <2>2, <3>1, ExitEffect
      <4>2. ~killed[q] /\ Zombies(q, kpc[q]) = {} /\ chan[q] = q
        BY <1>0, <4>1 DEF NoMissedExit, SleepsOnSelf
      <4>3. parent[p] # q
        <5>1. ExitStates(p)[q] = "SLEEPING"
          BY <1>0, <1>6, <2>2, <3>1, ExitEffect
        <5> QED
          BY <4>1, <4>2, <5>1 DEF ExitStates, Woken
      <4>4. ASSUME NEW z \in Slots, z \in Zombies(q, kpc[q])' PROVE FALSE
        <5>1. /\ parent'[z] = q /\ state'[z] = "ZOMBIE"
              /\ kpc'[q] = kpc[q] /\ pgdir'[q] = pgdir[q]
          BY <1>0, <1>6, <2>2, <4>1, <4>4, ExitEffect DEF Zombies, Kids
        <5>2. parent'[z] = IF parent[z] = p THEN initproc ELSE parent[z]
          BY <1>0, <1>6, <2>2, ExitEffect DEF Adopted
        <5>3. CASE z = p
          <6>1. parent[p] = p /\ q = initproc
            BY <4>3, <5>1, <5>2, <5>3
          <6>2. p # initproc /\ state[p] = "RUNNING"
            BY <1>0, <1>6, <2>2, ExitEffect
          <6> QED
            BY <6>1, <6>2 DEF IInv, ParentAlive, SetUp
        <5>4. CASE z # p
          <6>1. state[z] = "ZOMBIE" /\ pgdir'[z] = pgdir[z]
            BY <1>0, <1>6, <2>2, <5>1, <5>4, ExitEffect
          <6>2. CASE parent[z] = p
            <7>1. q = initproc
              BY <5>1, <5>2, <6>2
            <7>2. ExitStates(p)[q] # "SLEEPING"
              BY <4>1, <4>2, <6>1, <6>2, <7>1 DEF ExitStates, Woken
            <7> QED
              BY <1>0, <1>6, <2>2, <3>1, <7>2, ExitEffect
          <6>3. CASE parent[z] # p
            BY <4>2, <4>4, <5>1, <5>2, <6>1, <6>3 DEF Zombies, Kids
          <6> QED
            BY <6>2, <6>3
        <5> QED
          BY <5>3, <5>4
      <4>5. Zombies(q, kpc[q])' = {}
        BY <4>4 DEF Zombies, Kids
      <4> QED
        BY <1>0, <1>6, <2>2, <4>2, <4>5, ExitEffect
    <3> QED
      BY <3>1 DEF NoMissedExit, SleepsOnSelf
  <2> QED
    BY <2>1, <2>2
<1>7. SameWait => NoMissedExit' /\ SleepsOnSelf'
  BY <1>0, WaitFrame
<1>8. Quiet => SameWait
  BY DEF Quiet
<1> QED
  BY <1>0, <1>2, <1>3, <1>4, <1>5, <1>6, <1>7, <1>8, Actions, QuietSteps,
     QuietTick, Zenon

\* userinit() sets up one process.
LEMMA InitIInv == Init => IInv
<1> SUFFICES ASSUME Init PROVE IInv
  OBVIOUS
<1>1. TypeOK
  <2>1. /\ 0 \in Pages /\ 1 \in PgDirs /\ 1 \in Slots
        /\ 1 \in 0 .. MaxPid /\ 0 \in 0 .. MaxPid /\ 2 \in 2 .. MaxPid + 1
        /\ 1 \in 0 .. MaxPages /\ 0 \in 0 .. MaxPages
    BY DEF Pages, PgDirs, Slots
  <2>2. vm \in [PgDirs -> SUBSET Pages]
    BY <2>1 DEF Init
  <2>3. /\ state \in [Slots -> States]
        /\ pid \in [Slots -> 0 .. MaxPid]
        /\ sz \in [Slots -> 0 .. MaxPages]
        /\ pgdir \in [Slots -> PgDirs \union {None}]
    BY <2>1 DEF Init, States
  <2> QED
    BY <2>1, <2>2, <2>3 DEF Init, TypeOK
<1>2. InitAlive /\ SlotsDistinct /\ PidsBelow /\ ParentAlive
  BY DEF Init, InitAlive, SlotsDistinct, PidsBelow, ParentAlive, Filling,
         SetUp, Live, Alive, Slots, initproc
<1>3. NoMissedExit /\ SleepsOnSelf
  BY DEF Init, NoMissedExit, SleepsOnSelf
<1> QED
  BY <1>1, <1>2, <1>3 DEF IInv

\* The inductive invariant of the process table.
THEOREM Invariance == Spec => []IInv
<1>1. IInv /\ [Next]_vars => IInv'
  BY TypeStep, SlotsStep, FamilyStep, WaitStep DEF IInv
<1> QED
  BY InitIInv, <1>1, PTL DEF Spec

\* Types: pids and sizes stay in their bounds, pointers in their tables.
THEOREM TypeOKHolds == Spec => []TypeOK
<1>1. IInv => TypeOK
  BY DEF IInv
<1> QED
  BY Invariance, <1>1, PTL

\* No two processes share a slot or a pid, however many CPUs fork and clone.
THEOREM SlotsDistinctHolds == Spec => []SlotsDistinct
<1>1. IInv => SlotsDistinct
  BY DEF IInv
<1> QED
  BY Invariance, <1>1, PTL

\* Every process and every zombie has a parent that can still reap it.
THEOREM ParentAliveHolds == Spec => []ParentAlive
<1>1. IInv => ParentAlive
  BY DEF IInv
<1> QED
  BY Invariance, <1>1, PTL

\* No parent sleeps in wait() or join() over a zombie or over its own kill.
THEOREM NoMissedExitHolds == Spec => []NoMissedExit
<1>1. IInv => NoMissedExit
  BY DEF IInv
<1> QED
  BY Invariance, <1>1, PTL

\* The three together: the process table is sound for any numbers of slots
\* and CPUs and whatever programs call.
THEOREM TableSoundHolds == Spec => []TableSound
<1>1. IInv => TableSound
  BY DEF IInv, TableSound
<1> QED
  BY Invariance, <1>1, PTL

-----------------------------------------------------------------------------
(* kill() reaches the process it names, or the next one in its slot.        *)

\* Every slot has the pid it had last, and whoever is marked killed, in use or
\* not, was named by a pid of its slot.
PidsHad == \A p \in Slots : pid[p] \in had[p]
MarksNamed == \A p \in Slots : killed[p] => had[p] \cap asked # {}

SameNames == /\ pid' = pid /\ killed' = killed /\ asked' = asked /\ had' = had

\* No process is born, named or reaped.
LEMMA NamesFrame ==
  ASSUME PidsHad, MarksNamed, SameNames
  PROVE  PidsHad' /\ MarksNamed'
  BY DEF PidsHad, MarksNamed, SameNames

\* The steps that leave pids and kills alone, a failing fork() among them.
LEMMA NamesSteps ==
  ASSUME NEW p \in Slots,
         \/ Scheduler(p) \/ Yield(p) \/ AllocFails(p) \/ Fork(p) \/ ForkPanics(p)
         \/ Clone(p) \/ Propagate(p) \/ Sleep(p) \/ SleepReturns(p) \/ GrowProc(p)
         \/ ShrinkProc(p) \/ Exec(p) \/ SysSleep(p) \/ CondWakeup(p)
         \/ Exit(p) \/ ExitWithThreads(p)
         \/ \E call \in {"wait", "join"} : GiveUp(p, call) \/ Block(p, call)
  PROVE  SameNames
<1> USE DEF SameNames, history
<1>1. CASE Scheduler(p) \/ Yield(p) \/ Sleep(p) \/ SleepReturns(p)
  BY <1>1 DEF Scheduler, Yield, Sleep, SleepReturns
<1>2. CASE AllocFails(p) \/ Fork(p) \/ Clone(p)
  BY <1>2 DEF AllocFails, Fork, Clone
<1>3. CASE ForkPanics(p)
  BY <1>3 DEF ForkPanics, Panic, table
<1>4. CASE Propagate(p) \/ ShrinkProc(p) \/ Exec(p) \/ SysSleep(p)
  BY <1>4 DEF Propagate, ShrinkProc, Exec, SysSleep
<1>5. CASE GrowProc(p)
  BY <1>5 DEF GrowProc, Panic, table
<1>6. CASE CondWakeup(p)
  BY <1>6 DEF CondWakeup
<1>7. CASE Exit(p) \/ ExitWithThreads(p)
  BY <1>7 DEF Exit, ExitWithThreads, Panic, table
<1>8. ASSUME NEW call \in {"wait", "join"}, GiveUp(p, call) \/ Block(p, call)
      PROVE  SameNames
  BY <1>8 DEF GiveUp, Block
<1> QED
  BY <1>1, <1>2, <1>3, <1>4, <1>5, <1>6, <1>7, <1>8

\* allocproc() keeps the mark of the slot it takes, and with it the pid that
\* was named; only reaping takes both away.
LEMMA NamesStep ==
  ASSUME TypeOK, PidsHad, MarksNamed, [Next]_vars
  PROVE  PidsHad' /\ MarksNamed'
<1> USE DEF Set
<1>1. ASSUME NEW p \in Slots, NEW call \in {"fork", "clone"},
             AllocProc(p, call)
      PROVE  PidsHad' /\ MarksNamed'
  <2> DEFINE s == Lowest(Unused)
  <2>1. s \in Slots
    <3>1. Unused # {} /\ Unused \subseteq Nat
      BY <1>1 DEF AllocProc, Unused, Slots
    <3> QED
      BY <3>1, LowestIn DEF Unused
  <2>2. /\ pid' = [pid EXCEPT ![s] = nextpid]
        /\ had' = [had EXCEPT ![s] = had[s] \union {nextpid}]
        /\ killed' = killed /\ asked' = asked
    BY <1>1 DEF AllocProc
  <2> HIDE DEF s
  <2> QED
    BY <2>1, <2>2 DEF TypeOK, PidsHad, MarksNamed
<1>2. ASSUME NEW p \in Slots, NEW call \in {"wait", "join"}, Reap(p, call)
      PROVE  PidsHad' /\ MarksNamed'
  <2> DEFINE z == Lowest(Zombies(p, call))
  <2>1. z \in Slots
    <3>1. Zombies(p, call) # {} /\ Zombies(p, call) \subseteq Nat
      BY <1>2 DEF Reap, Zombies, Kids, Slots
    <3> QED
      BY <3>1, LowestIn DEF Zombies, Kids
  <2>2. /\ pid' = [pid EXCEPT ![z] = 0]
        /\ had' = [had EXCEPT ![z] = {0}]
        /\ killed' = [killed EXCEPT ![z] = FALSE]
        /\ asked' = asked
    BY <1>2 DEF Reap, Clears
  <2> HIDE DEF z
  <2> QED
    BY <2>1, <2>2 DEF TypeOK, PidsHad, MarksNamed
<1>3. ASSUME NEW p \in Slots, NEW k \in 0 .. MaxPid, Kill(p, k)
      PROVE  PidsHad' /\ MarksNamed'
  <2> DEFINE q == Lowest({s \in Slots : pid[s] = k})
  <2>1. PICK r \in Slots : pid[r] = k
    BY <1>3 DEF Kill
  <2>2. q \in Slots /\ pid[q] = k
    <3>1. {s \in Slots : pid[s] = k} # {} /\ {s \in Slots : pid[s] = k} \subseteq Nat
      BY <2>1 DEF Slots
    <3>2. q \in {s \in Slots : pid[s] = k}
      BY <3>1, LowestIn, Zenon
    <3> QED
      BY <3>2
  <2>3. /\ killed' = [killed EXCEPT ![q] = TRUE]
        /\ asked' = asked \union {k} /\ pid' = pid /\ had' = had
    BY <1>3 DEF Kill
  <2> HIDE DEF q
  <2> QED
    BY <2>2, <2>3 DEF TypeOK, PidsHad, MarksNamed
<1>4. CASE Tick \/ UNCHANGED vars
  <2>1. SameNames
    BY <1>4 DEF Tick, vars, table, history, SameNames
  <2> QED
    BY <2>1, NamesFrame
<1> QED
  BY <1>1, <1>2, <1>3, <1>4, Actions, NamesSteps, NamesFrame, Zenon

\* Whatever programs call, kills of pids of no process and failing forks
\* included: whoever is found killed was named by a pid its slot has had since
\* it was last reaped.
THEOREM KilledByOwnPidHolds == Spec => []KilledByOwnPid
<1>1. Init => PidsHad /\ MarksNamed
  BY DEF Init, PidsHad, MarksNamed
<1>2. IInv /\ PidsHad /\ MarksNamed /\ [Next]_vars => PidsHad' /\ MarksNamed'
  BY NamesStep DEF IInv
<1>3. MarksNamed => KilledByOwnPid
  BY DEF MarksNamed, KilledByOwnPid
<1> QED
  BY Invariance, <1>1, <1>2, <1>3, PTL DEF Spec

-----------------------------------------------------------------------------
(* Memory.                                                                  *)

\* Programs use threads as the library does: a thread makes no process and no
\* thread and does not change the memory, and a process joins its threads
\* before it exits.  A kill may end it earlier, so there are none.
Disciplined ==
  Calls \subseteq {"fork", "wait", "clone", "join", "exit", "sbrk", "exec",
                   "sleep", "condsleep", "nomem"}

\* The process whose page directory p uses.
Owner(p) == IF p \in cloned THEN parent[p] ELSE p

Undisturbed == ~panic /\ \A p \in Slots : ~killed[p]

\* A slot without a process has no parent, and no call outlives its process.
Unborn == \A p \in Slots : /\ ~SetUp(p) => parent[p] = None
                           /\ state[p] \notin Live => kpc[p] = "user"

\* Threads have processes for parents, and init is none.
Kinship == \A p \in Slots : SetUp(p) /\ p \in cloned =>
             p # initproc /\ parent[p] \notin cloned

\* A page directory is shared by a process and its threads and no others.
Sharing == \A p, q \in Slots : SetUp(p) /\ SetUp(q) =>
             (pgdir[p] = pgdir[q] <=> Owner(p) = Owner(q))

\* Threads are in no call that reads or changes the size of the memory.
Busy == \A p \in Slots : kpc[p] \in {"fork", "clone", "grow"} => p \notin cloned

Mapped(p) == vm[pgdir[p]] = 0 .. sz[p] - 1
Sizes == \A p \in Slots : SetUp(p) /\ ~Mapped(p) =>
           p \in cloned /\ kpc[parent[p]] = "grow"

MInv == /\ Undisturbed /\ NoDangling /\ NoDirLeak /\ Unborn
        /\ Kinship /\ Sharing /\ Busy /\ Sizes

\* What the invariant says of a process and of a thread.
LEMMA ThreadIs ==
  ASSUME IInv, MInv, NEW p \in Slots, SetUp(p)
  PROVE  /\ pgdir[p] \in PgDirs /\ pgdir[p] \in dirs
         /\ p \in cloned =>
              /\ p # initproc /\ parent[p] \in Slots \ {p}
              /\ state[parent[p]] \in Live /\ SetUp(parent[p])
              /\ parent[p] \notin cloned /\ pgdir[parent[p]] = pgdir[p]
              /\ IsThread(p)
         /\ p \notin cloned => Mapped(p)
<1>1. pgdir[p] \in dirs /\ dirs \subseteq PgDirs
  BY DEF IInv, TypeOK, MInv, NoDangling
<1>2. p \notin cloned => Mapped(p)
  BY DEF MInv, Sizes
<1>3. ASSUME p \in cloned
      PROVE  /\ p # initproc /\ parent[p] \in Slots \ {p}
             /\ state[parent[p]] \in Live /\ SetUp(parent[p])
             /\ parent[p] \notin cloned /\ pgdir[parent[p]] = pgdir[p]
             /\ IsThread(p)
  <2>1. p # initproc /\ parent[p] \notin cloned
    BY <1>3 DEF MInv, Kinship
  <2>2. parent[p] \in Slots \ {p} /\ state[parent[p]] \in Live /\ parent[p] # None
    BY <2>1 DEF IInv, TypeOK, ParentAlive, Live
  <2>3. SetUp(parent[p])
    BY <2>2 DEF SetUp, Live
  <2>4. pgdir[parent[p]] = pgdir[p]
    BY <1>3, <2>1, <2>2, <2>3 DEF MInv, Sharing, Owner
  <2> QED
    BY <2>1, <2>2, <2>3, <2>4 DEF IsThread
<1> QED
  BY <1>1, <1>2, <1>3

\* Nobody has a slot without a process for owner.
LEMMA OwnerIs ==
  ASSUME IInv, MInv, NEW p \in Slots, SetUp(p)
  PROVE  Owner(p) \in Slots /\ SetUp(Owner(p)) /\ (Owner(p) = p \/ state[Owner(p)] \in Live)
  BY ThreadIs DEF Owner

\* What most steps leave alone.
SameMemory ==
  /\ UNCHANGED <<parent, pgdir, sz, killed, dirs, vm, panic, cloned>>
  /\ \A s \in Slots :
       /\ SetUp(s)' <=> SetUp(s)
       /\ state'[s] \in Live <=> state[s] \in Live
       /\ \/ kpc'[s] = kpc[s]
          \/ /\ kpc'[s] \notin {"fork", "clone", "grow"} /\ kpc[s] # "grow"
             /\ state'[s] \in Live

LEMMA MemoryFrame ==
  ASSUME IInv, MInv, SameMemory PROVE MInv'
<1>1. Undisturbed' /\ NoDangling' /\ NoDirLeak'
  BY DEF MInv, SameMemory, Undisturbed, NoDangling, NoDirLeak
<1>2. Unborn' /\ Busy'
  BY DEF MInv, SameMemory, Unborn, Busy
<1>3. Kinship' /\ Sharing'
  BY DEF MInv, SameMemory, Kinship, Sharing, Owner
<1>4. ASSUME NEW p \in Slots, SetUp(p)', ~Mapped(p)'
      PROVE  p \in cloned' /\ kpc'[parent'[p]] = "grow"
  <2>1. SetUp(p) /\ ~Mapped(p)
    BY <1>4 DEF SameMemory, Mapped
  <2>2. p \in cloned /\ kpc[parent[p]] = "grow"
    BY <2>1 DEF MInv, Sizes
  <2>3. parent[p] \in Slots
    BY <2>1, <2>2, ThreadIs
  <2> QED
    BY <2>2, <2>3 DEF SameMemory
<1> QED
  BY <1>1, <1>2, <1>3, <1>4 DEF MInv, Sizes

LEMMA MemorySteps ==
  ASSUME TypeOK, NEW p \in Slots,
         \/ Scheduler(p) \/ Yield(p) \/ Sleep(p) \/ SleepReturns(p)
         \/ SysSleep(p) \/ CondWakeup(p)
         \/ \E call \in {"wait", "join"} : GiveUp(p, call) \/ Block(p, call)
  PROVE  SameMemory
<1> USE DEF TypeOK, Set, SameMemory, SetUp, Live, Running, Enters, history, memory
<1>1. CASE Scheduler(p) \/ Yield(p)
  BY <1>1 DEF Scheduler, Yield
<1>2. CASE Sleep(p) \/ SleepReturns(p)
  BY <1>2 DEF Sleep, SleepReturns
<1>3. CASE SysSleep(p)
  BY <1>3 DEF SysSleep
<1>4. CASE CondWakeup(p)
  BY <1>4 DEF CondWakeup, Woken
<1>5. ASSUME NEW call \in {"wait", "join"}, GiveUp(p, call) \/ Block(p, call)
      PROVE  SameMemory
  BY <1>5 DEF GiveUp, Block, Scans
<1> QED
  BY <1>1, <1>2, <1>3, <1>4, <1>5

LEMMA MemoryTick ==
  ASSUME TypeOK, Tick \/ UNCHANGED vars PROVE SameMemory
  BY DEF TypeOK, SameMemory, SetUp, Live, Tick, Woken, vars, table, memory, history

-----------------------------------------------------------------------------
\* fork() and clone() begin: their caller is no thread.
LEMMA AllocMemory ==
  ASSUME Disciplined, IInv, MInv, NEW p \in Slots, NEW call \in {"fork", "clone"},
         AllocProc(p, call)
  PROVE  MInv'
<1> DEFINE s == Lowest(Unused)
<1>0. TypeOK
  BY DEF IInv
<1>1. s \in Slots /\ state[s] = "UNUSED"
  <2>1. Unused # {} /\ Unused \subseteq Nat
    BY DEF AllocProc, Unused, Slots
  <2> QED
    BY <2>1, LowestIn DEF Unused
<1>2. /\ state' = [state EXCEPT ![s] = "EMBRYO"]
      /\ kpc' = [kpc EXCEPT ![p] = call] /\ kpc[p] = "user"
      /\ UNCHANGED <<parent, pgdir, sz, killed, dirs, vm, panic, cloned>>
      /\ state[p] = "RUNNING"
  BY DEF AllocProc, Enters, Running, Set, memory, history
<1>3. ~IsThread(p)
  BY DEF AllocProc, Enters, Disciplined
<1> HIDE DEF s
<1>4. p \notin cloned
  BY <1>2, <1>3, ThreadIs DEF SetUp
<1>5. \A q \in Slots : /\ SetUp(q)' <=> SetUp(q)
                       /\ state'[q] \in Live <=> state[q] \in Live
  BY <1>0, <1>1, <1>2 DEF TypeOK, SetUp, Live
<1>6. \A q \in Slots : kpc'[q] = kpc[q] \/ q = p
  BY <1>0, <1>2 DEF TypeOK
<1>7. Undisturbed' /\ NoDangling' /\ NoDirLeak'
  BY <1>2, <1>5 DEF MInv, Undisturbed, NoDangling, NoDirLeak
<1>8. Kinship' /\ Sharing'
  BY <1>2, <1>5 DEF MInv, Kinship, Sharing, Owner
<1>9. Unborn' /\ Busy'
  <2>1. state[p] \in Live
    BY <1>2 DEF Live
  <2> QED
    BY <1>2, <1>4, <1>5, <1>6, <2>1 DEF MInv, Unborn, Busy
<1>10. ASSUME NEW q \in Slots, SetUp(q)', ~Mapped(q)'
       PROVE  q \in cloned' /\ kpc'[parent'[q]] = "grow"
  <2>1. SetUp(q) /\ ~Mapped(q)
    BY <1>2, <1>5, <1>10 DEF Mapped
  <2>2. q \in cloned /\ kpc[parent[q]] = "grow" /\ parent[q] \in Slots
    BY <2>1, ThreadIs DEF MInv, Sizes
  <2> QED
    BY <1>2, <1>6, <2>2
<1> QED
  BY <1>7, <1>8, <1>9, <1>10 DEF MInv, Sizes

\* The slot that a call fills belongs to no process yet, and nobody to it.
LEMMA FilledSlot ==
  ASSUME IInv, MInv, NEW p \in Slots, Running(p), kpc[p] \in {"fork", "clone"}
  PROVE  /\ np[p] \in Slots /\ state[np[p]] = "EMBRYO" /\ ~SetUp(np[p])
         /\ np[p] # p /\ np[p] # initproc /\ kpc[np[p]] = "user"
         /\ SetUp(p) /\ p \notin cloned /\ Mapped(p)
         /\ \A q \in Slots : SetUp(q) =>
              /\ q # np[p] /\ Owner(q) # np[p]
              /\ q \in cloned => parent[q] # np[p]
<1>1. np[p] \in Slots /\ state[np[p]] = "EMBRYO"
  BY DEF IInv, SlotsDistinct, Filling
<1>2. ~SetUp(np[p]) /\ kpc[np[p]] = "user" /\ np[p] # p
  BY <1>1 DEF SetUp, MInv, Unborn, Live, Running
<1>3. np[p] # initproc
  BY <1>1 DEF IInv, InitAlive, Live
<1>4. SetUp(p) /\ p \notin cloned
  BY DEF Running, SetUp, MInv, Busy
<1>5. Mapped(p)
  BY <1>4, ThreadIs
<1>6. ASSUME NEW q \in Slots, SetUp(q)
      PROVE  q # np[p] /\ Owner(q) # np[p] /\ (q \in cloned => parent[q] # np[p])
  BY <1>1, <1>2, <1>6, ThreadIs DEF Owner
<1> QED
  BY <1>1, <1>2, <1>3, <1>4, <1>5, <1>6

\* The slot is given back.
LEMMA AllocFailsMemory ==
  ASSUME IInv, MInv, NEW p \in Slots, AllocFails(p) PROVE MInv'
<1> DEFINE n == np[p]
<1>0. TypeOK
  BY DEF IInv
<1>1. /\ Running(p) /\ kpc[p] \in {"fork", "clone"}
      /\ state' = [state EXCEPT ![n] = "UNUSED"]
      /\ kpc' = [kpc EXCEPT ![p] = "user"]
      /\ pgdir' = pgdir \/ pgdir' = [pgdir EXCEPT ![n] = None]
      /\ UNCHANGED <<parent, sz, killed, dirs, vm, panic, cloned>>
  BY DEF AllocFails, Set, memory, history
<1>2. /\ n \in Slots /\ state[n] = "EMBRYO" /\ ~SetUp(n) /\ n # p /\ kpc[n] = "user"
      /\ \A q \in Slots : SetUp(q) => q # n /\ Owner(q) # n
  BY <1>1, FilledSlot
<1> HIDE DEF n
<1>3. \A q \in Slots : /\ SetUp(q)' <=> SetUp(q)
                       /\ state'[q] \in Live <=> state[q] \in Live
                       /\ kpc'[q] = kpc[q] \/ (q = p /\ kpc'[q] = "user")
                       /\ SetUp(q) => pgdir'[q] = pgdir[q]
  BY <1>0, <1>1, <1>2 DEF TypeOK, SetUp, Live
<1>4. Undisturbed' /\ NoDangling' /\ NoDirLeak'
  BY <1>1, <1>3 DEF MInv, Undisturbed, NoDangling, NoDirLeak
<1>5. Kinship' /\ Sharing'
  BY <1>1, <1>3 DEF MInv, Kinship, Sharing, Owner
<1>6. Unborn' /\ Busy'
  BY <1>1, <1>3 DEF MInv, Unborn, Busy
<1>7. ASSUME NEW q \in Slots, SetUp(q)', ~Mapped(q)'
      PROVE  q \in cloned' /\ kpc'[parent'[q]] = "grow"
  <2>1. SetUp(q) /\ ~Mapped(q)
    BY <1>1, <1>3, <1>7 DEF Mapped
  <2>2. q \in cloned /\ kpc[parent[q]] = "grow" /\ parent[q] \in Slots
    BY <2>1, ThreadIs DEF MInv, Sizes
  <2> QED
    BY <1>1, <1>3, <2>2
<1> QED
  BY <1>4, <1>5, <1>6, <1>7 DEF MInv, Sizes

\* A free directory is one that no process has.
LEMMA FreshDir ==
  ASSUME IInv, MInv, FreeDirs # {}
  PROVE  /\ Lowest(FreeDirs) \in PgDirs /\ Lowest(FreeDirs) \notin dirs
         /\ \A q \in Slots : SetUp(q) => pgdir[q] # Lowest(FreeDirs)
<1>1. FreeDirs \subseteq Nat
  BY DEF FreeDirs, PgDirs
<1>2. Lowest(FreeDirs) \in FreeDirs
  BY <1>1, LowestIn
<1> QED
  BY <1>2, ThreadIs DEF FreeDirs

\* fork() gives its child a directory of its own with all of its pages.
LEMMA ForkMemory ==
  ASSUME IInv, MInv, NEW p \in Slots, Fork(p) PROVE MInv'
<1>0. TypeOK
  BY DEF IInv
<1>p. PICK n \in Slots : n = np[p]
  BY FilledSlot DEF Fork
<1>d. PICK d \in PgDirs : d = Lowest(FreeDirs)
  BY FreshDir DEF Fork
<1>1. /\ Running(p) /\ kpc[p] = "fork" /\ FreeDirs # {}
      /\ state' = [state EXCEPT ![n] = "RUNNABLE"]
      /\ kpc' = [kpc EXCEPT ![p] = "user"]
      /\ pgdir' = [pgdir EXCEPT ![n] = d]
      /\ sz' = [sz EXCEPT ![n] = sz[p]]
      /\ parent' = [parent EXCEPT ![n] = p]
      /\ dirs' = dirs \union {d}
      /\ vm' = [vm EXCEPT ![d] = 0 .. sz[p] - 1]
      /\ cloned' = cloned \ {n}
      /\ UNCHANGED <<killed, panic>>
  BY <1>p, <1>d DEF Fork, Set
<1>2. /\ n \in Slots /\ ~SetUp(n) /\ n # p /\ n # initproc /\ SetUp(p)
      /\ \A q \in Slots : SetUp(q) => q # n /\ Owner(q) # n
                                      /\ (q \in cloned => parent[q] # n)
  BY <1>p, <1>1, FilledSlot
<1>3. /\ d \in PgDirs /\ d \notin dirs
      /\ \A q \in Slots : SetUp(q) => pgdir[q] # d
  BY <1>d, <1>1, FreshDir
<1>4. /\ SetUp(n)' /\ pgdir'[n] = d /\ parent'[n] = p /\ sz'[n] = sz[p]
      /\ vm'[d] = 0 .. sz[p] - 1 /\ n \notin cloned'
  BY <1>0, <1>1, <1>2, <1>3 DEF TypeOK, SetUp
<1>5. \A q \in Slots \ {n} :
        /\ SetUp(q)' <=> SetUp(q)
        /\ state'[q] = state[q] /\ pgdir'[q] = pgdir[q] /\ parent'[q] = parent[q]
        /\ sz'[q] = sz[q] /\ (q \in cloned' <=> q \in cloned)
  BY <1>0, <1>1 DEF TypeOK, SetUp
<1>6. \A q \in Slots : kpc'[q] = kpc[q] \/ (q = p /\ kpc'[q] = "user" /\ kpc[q] = "fork")
  BY <1>0, <1>1 DEF TypeOK
<1>7. \A c \in PgDirs \ {d} : vm'[c] = vm[c]
  BY <1>0, <1>1 DEF TypeOK
<1>8. Undisturbed'
  BY <1>1 DEF MInv, Undisturbed
<1>9. NoDangling'
  BY <1>1, <1>4, <1>5 DEF MInv, NoDangling
<1>10. NoDirLeak'
  <2>1. ASSUME NEW c \in dirs PROVE \E q \in Slots : SetUp(q)' /\ pgdir'[q] = c
    <3>1. PICK q \in Slots : SetUp(q) /\ pgdir[q] = c
      BY DEF MInv, NoDirLeak
    <3> QED
      BY <1>2, <1>5, <3>1
  <2> QED
    BY <1>1, <1>2, <1>4, <2>1 DEF NoDirLeak
<1>11. Unborn'
  <2>1. ASSUME NEW q \in Slots
        PROVE  /\ ~SetUp(q)' => parent'[q] = None
               /\ state'[q] \notin Live => kpc'[q] = "user"
    <3>1. CASE q = n
      BY <1>0, <1>1, <1>2, <1>4, <3>1 DEF TypeOK, Live
    <3>2. CASE q # n
      BY <1>5, <1>6, <3>2 DEF MInv, Unborn
    <3> QED
      BY <3>1, <3>2
  <2> QED
    BY <2>1 DEF Unborn
<1>12. Kinship'
  <2>1. ASSUME NEW q \in Slots, SetUp(q)', q \in cloned'
        PROVE  q # initproc /\ parent'[q] \notin cloned'
    <3>1. q # n /\ SetUp(q) /\ q \in cloned
      BY <1>4, <1>5, <2>1
    <3> QED
      BY <1>1, <1>5, <3>1, ThreadIs
  <2> QED
    BY <2>1 DEF Kinship
<1>13. Sharing'
  <2>1. \A q \in Slots : SetUp(q) => Owner(q)' = Owner(q)
    BY <1>2, <1>5 DEF Owner
  <2>2. Owner(n)' = n
    BY <1>4 DEF Owner
  <2>3. \A q \in Slots : SetUp(q)' => q = n \/ SetUp(q)
    BY <1>5
  <2>4. ASSUME NEW q \in Slots, SetUp(q)
        PROVE  pgdir'[q] # pgdir'[n] /\ Owner(q)' # Owner(n)'
    BY <1>2, <1>3, <1>4, <1>5, <2>1, <2>2, <2>4
  <2>5. ASSUME NEW q \in Slots, SetUp(q), NEW r \in Slots, SetUp(r)
        PROVE  pgdir'[q] = pgdir'[r] <=> Owner(q)' = Owner(r)'
    <3>1. pgdir[q] = pgdir[r] <=> Owner(q) = Owner(r)
      BY <2>5 DEF MInv, Sharing
    <3> QED
      BY <1>2, <1>5, <2>1, <2>5, <3>1
  <2>6. ASSUME NEW q \in Slots, SetUp(q)', NEW r \in Slots, SetUp(r)'
        PROVE  pgdir'[q] = pgdir'[r] <=> Owner(q)' = Owner(r)'
    <3>1. CASE q # n /\ r # n
      BY <2>3, <2>5, <2>6, <3>1
    <3>2. CASE q = n /\ r # n
      BY <2>3, <2>4, <2>6, <3>2
    <3>3. CASE q # n /\ r = n
      BY <2>3, <2>4, <2>6, <3>3
    <3>4. CASE q = n /\ r = n
      BY <3>4
    <3> QED
      BY <3>1, <3>2, <3>3, <3>4
  <2> QED
    BY <2>6 DEF Sharing
<1>14. Busy'
  BY <1>1, <1>6 DEF MInv, Busy
<1>15. ASSUME NEW q \in Slots, SetUp(q)', ~Mapped(q)'
       PROVE  q \in cloned' /\ kpc'[parent'[q]] = "grow"
  <2>1. q # n
    BY <1>4, <1>15 DEF Mapped
  <2>2. SetUp(q) /\ pgdir[q] # d /\ pgdir[q] \in PgDirs
    BY <1>3, <1>5, <1>15, <2>1, ThreadIs
  <2>3. ~Mapped(q)
    BY <1>5, <1>7, <1>15, <2>1, <2>2 DEF Mapped
  <2>4. q \in cloned /\ kpc[parent[q]] = "grow" /\ parent[q] \in Slots
    BY <2>2, <2>3, ThreadIs DEF MInv, Sizes
  <2> QED
    BY <1>5, <1>6, <2>1, <2>4
<1> QED
  BY <1>8, <1>9, <1>10, <1>11, <1>12, <1>13, <1>14, <1>15 DEF MInv, Sizes

\* clone() makes a thread of a process, on a stack that is mapped.
LEMMA CloneMemory ==
  ASSUME IInv, MInv, NEW p \in Slots, Clone(p) PROVE MInv'
<1>0. TypeOK
  BY DEF IInv
<1>p. PICK n \in Slots : n = np[p]
  BY FilledSlot DEF Clone
<1>1. /\ Running(p) /\ kpc[p] = "clone"
      /\ kpc' = [kpc EXCEPT ![p] = "user"]
      /\ pgdir' = [pgdir EXCEPT ![n] = pgdir[p]]
      /\ sz' = [sz EXCEPT ![n] = sz[p]]
      /\ parent' = [parent EXCEPT ![n] = p]
      /\ cloned' = cloned \union {n}
      /\ UNCHANGED <<killed, panic, dirs, vm>>
  BY <1>p DEF Clone, Set, memory
<1>2. /\ n \in Slots /\ ~SetUp(n) /\ n # p /\ n # initproc
      /\ SetUp(p) /\ p \notin cloned /\ Mapped(p) /\ kpc[n] = "user"
      /\ \A q \in Slots : SetUp(q) => q # n /\ Owner(q) # n
                                      /\ (q \in cloned => parent[q] # n)
  BY <1>p, <1>1, FilledSlot
<1>3. state' = [state EXCEPT ![n] = "RUNNABLE"]
  BY <1>p, <1>2 DEF Clone, Set, Mapped
<1>4. /\ SetUp(n)' /\ pgdir'[n] = pgdir[p] /\ parent'[n] = p /\ sz'[n] = sz[p]
      /\ n \in cloned' /\ state'[n] = "RUNNABLE"
  BY <1>0, <1>1, <1>2, <1>3 DEF TypeOK, SetUp
<1>5. \A q \in Slots \ {n} :
        /\ SetUp(q)' <=> SetUp(q)
        /\ state'[q] = state[q] /\ pgdir'[q] = pgdir[q] /\ parent'[q] = parent[q]
        /\ sz'[q] = sz[q] /\ (q \in cloned' <=> q \in cloned)
  BY <1>0, <1>1, <1>3 DEF TypeOK, SetUp
<1>6. \A q \in Slots : kpc'[q] = kpc[q] \/ (q = p /\ kpc'[q] = "user" /\ kpc[q] = "clone")
  BY <1>0, <1>1 DEF TypeOK
<1>7. Undisturbed'
  BY <1>1 DEF MInv, Undisturbed
<1>8. NoDangling'
  BY <1>1, <1>2, <1>4, <1>5 DEF MInv, NoDangling
<1>9. NoDirLeak'
  BY <1>1, <1>2, <1>5 DEF MInv, NoDirLeak
<1>10. Unborn'
  <2>1. ASSUME NEW q \in Slots
        PROVE  /\ ~SetUp(q)' => parent'[q] = None
               /\ state'[q] \notin Live => kpc'[q] = "user"
    <3>1. CASE q = n
      BY <1>4, <3>1 DEF Live
    <3>2. CASE q # n
      BY <1>5, <1>6, <3>2 DEF MInv, Unborn
    <3> QED
      BY <3>1, <3>2
  <2> QED
    BY <2>1 DEF Unborn
<1>11. Kinship'
  <2>1. ASSUME NEW q \in Slots, SetUp(q)', q \in cloned'
        PROVE  q # initproc /\ parent'[q] \notin cloned'
    <3>1. CASE q = n
      BY <1>1, <1>2, <1>4, <3>1
    <3>2. CASE q # n
      BY <1>1, <1>2, <1>5, <2>1, <3>2, ThreadIs
    <3> QED
      BY <3>1, <3>2
  <2> QED
    BY <2>1 DEF Kinship
<1>12. Sharing'
  <2>1. \A q \in Slots : SetUp(q) => Owner(q)' = Owner(q) /\ pgdir'[q] = pgdir[q]
    BY <1>2, <1>5 DEF Owner
  <2>2. Owner(n)' = Owner(p) /\ pgdir'[n] = pgdir[p]
    BY <1>2, <1>4 DEF Owner
  <2>3. \A q \in Slots : SetUp(q)' => q = n \/ SetUp(q)
    BY <1>5
  <2>4. \A q, r \in Slots : SetUp(q) /\ SetUp(r) =>
          (pgdir[q] = pgdir[r] <=> Owner(q) = Owner(r))
    BY DEF MInv, Sharing
  <2>5. ASSUME NEW q \in Slots, SetUp(q)'
        PROVE  \E a \in Slots : SetUp(a) /\ pgdir'[q] = pgdir[a] /\ Owner(q)' = Owner(a)
    BY <1>2, <2>1, <2>2, <2>3, <2>5
  <2>6. ASSUME NEW q \in Slots, SetUp(q)', NEW r \in Slots, SetUp(r)'
        PROVE  pgdir'[q] = pgdir'[r] <=> Owner(q)' = Owner(r)'
    <3>1. PICK a \in Slots : SetUp(a) /\ pgdir'[q] = pgdir[a] /\ Owner(q)' = Owner(a)
      BY <2>5, <2>6
    <3>2. PICK b \in Slots : SetUp(b) /\ pgdir'[r] = pgdir[b] /\ Owner(r)' = Owner(b)
      BY <2>5, <2>6
    <3> QED
      BY <2>4, <3>1, <3>2
  <2> QED
    BY <2>6 DEF Sharing
<1>13. Busy'
  <2>1. ASSUME NEW q \in Slots, kpc'[q] \in {"fork", "clone", "grow"}
        PROVE  q \notin cloned'
    <3>1. kpc[q] = kpc'[q] /\ q # n
      BY <1>2, <1>6, <2>1
    <3> QED
      BY <1>5, <2>1, <3>1 DEF MInv, Busy
  <2> QED
    BY <2>1 DEF Busy
<1>14. ASSUME NEW q \in Slots, SetUp(q)', ~Mapped(q)'
       PROVE  q \in cloned' /\ kpc'[parent'[q]] = "grow"
  <2>1. q # n
    BY <1>1, <1>2, <1>4, <1>14 DEF Mapped
  <2>2. SetUp(q) /\ ~Mapped(q)
    BY <1>1, <1>5, <1>14, <2>1 DEF Mapped
  <2>3. q \in cloned /\ kpc[parent[q]] = "grow" /\ parent[q] \in Slots
    BY <2>2, ThreadIs DEF MInv, Sizes
  <2> QED
    BY <1>5, <1>6, <2>1, <2>3
<1> QED
  BY <1>7, <1>8, <1>9, <1>10, <1>11, <1>12, <1>13, <1>14 DEF MInv, Sizes

\* wait() finds processes, join() finds threads.
LEMMA RightKind ==
  ASSUME IInv, MInv, NEW p \in Slots, NEW call \in {"wait", "join"}, Reap(p, call),
         NEW z \in Slots, z \in Zombies(p, call)
  PROVE  /\ z \in cloned <=> call = "join"
         /\ SetUp(p) /\ SetUp(z) /\ z # p /\ parent[z] = p
         /\ call = "join" => pgdir[z] = pgdir[p]
         /\ call = "wait" => \A q \in Slots \ {z} : SetUp(q) => pgdir[q] # pgdir[z]
<1>1. state[p] = "RUNNING" /\ state[z] = "ZOMBIE" /\ parent[z] = p
  BY DEF Reap, Scans, Enters, Running, Zombies, Kids
<1>2. SetUp(p) /\ SetUp(z) /\ z # p /\ state[z] \notin Live
  BY <1>1 DEF SetUp, Live
<1>3. \A q \in Slots : SetUp(q) /\ q \in cloned => parent[q] # z
  BY <1>2, ThreadIs
<1>4. z \in cloned => pgdir[z] = pgdir[p]
  BY <1>1, <1>2, ThreadIs
<1>5. ASSUME z \notin cloned, NEW q \in Slots \ {z}, SetUp(q) PROVE pgdir[q] # pgdir[z]
  <2>1. Owner(z) = z /\ Owner(q) # z
    BY <1>3, <1>5 DEF Owner
  <2> QED
    BY <1>2, <1>5, <2>1 DEF MInv, Sharing
<1>6. CASE call = "join"
  <2>1. pgdir[z] = pgdir[p]
    BY <1>6 DEF Zombies, Kids
  <2>2. z \in cloned
    BY <1>2, <1>5, <2>1
  <2> QED
    BY <1>1, <1>2, <1>6, <2>1, <2>2
<1>7. CASE call = "wait"
  <2>1. pgdir[z] # pgdir[p]
    BY <1>7 DEF Zombies, Kids
  <2> QED
    BY <1>1, <1>2, <1>4, <1>5, <1>7, <2>1
<1> QED
  BY <1>6, <1>7

\* wait() frees a directory nobody else has, join() none.
LEMMA ReapMemory ==
  ASSUME IInv, MInv, NEW p \in Slots, NEW call \in {"wait", "join"}, Reap(p, call)
  PROVE  MInv'
<1>0. TypeOK
  BY DEF IInv
<1>1. PICK z \in Slots : z = Lowest(Zombies(p, call)) /\ z \in Zombies(p, call)
  <2>1. Zombies(p, call) # {} /\ Zombies(p, call) \subseteq Nat
    BY DEF Reap, Zombies, Kids, Slots
  <2> QED
    BY <2>1, LowestIn DEF Zombies, Kids
<1>2. /\ z \in cloned <=> call = "join"
      /\ SetUp(p) /\ SetUp(z) /\ z # p /\ parent[z] = p
      /\ call = "join" => pgdir[z] = pgdir[p]
      /\ call = "wait" => \A q \in Slots \ {z} : SetUp(q) => pgdir[q] # pgdir[z]
  BY <1>1, RightKind
<1>3. /\ state' = [state EXCEPT ![z] = "UNUSED"]
      /\ parent' = [parent EXCEPT ![z] = None]
      /\ killed' = [killed EXCEPT ![z] = FALSE]
      /\ kpc' = [kpc EXCEPT ![p] = "user"] /\ kpc[p] \in {"user", "wait", "join"}
      /\ UNCHANGED <<pgdir, sz, cloned>>
  BY <1>1 DEF Reap, Clears, Set, history, Scans, Enters
<1>4. PICK F \in SUBSET PgDirs :
        /\ F = (IF call = "wait" THEN {pgdir[z]} ELSE {})
        /\ dirs' = dirs \ F
        /\ vm' = [d \in PgDirs |-> IF d \in F THEN {} ELSE vm[d]]
        /\ panic' = (None \in F)
  <2>1. Frees(z, call) \in SUBSET PgDirs
    BY <1>2, ThreadIs DEF Frees
  <2> QED
    BY <1>1, <2>1 DEF Reap, Frees
<1>5. ~SetUp(z)' /\ parent'[z] = None /\ z # initproc /\ state[z] = "ZOMBIE"
  BY <1>0, <1>1, <1>3 DEF TypeOK, SetUp, Zombies, IInv, InitAlive, Live
<1>6. \A q \in Slots \ {z} :
        /\ SetUp(q)' <=> SetUp(q)
        /\ state'[q] = state[q] /\ parent'[q] = parent[q]
  BY <1>0, <1>3 DEF TypeOK, SetUp
<1>7. \A q \in Slots : \/ kpc'[q] = kpc[q]
                       \/ q = p /\ kpc'[q] = "user" /\ kpc[q] # "grow"
  BY <1>0, <1>3 DEF TypeOK
<1>8. \A q \in Slots \ {z} : SetUp(q) => pgdir[q] \notin F /\ pgdir[q] \in PgDirs
  BY <1>2, <1>4, ThreadIs
<1>9. Undisturbed'
  <2>1. None \notin F
    BY <1>4 DEF None, PgDirs
  <2>2. \A q \in Slots : ~killed'[q]
    BY <1>0, <1>3 DEF TypeOK, MInv, Undisturbed
  <2> QED
    BY <1>4, <2>1, <2>2 DEF Undisturbed
<1>10. NoDangling'
  BY <1>3, <1>4, <1>5, <1>6, <1>8 DEF MInv, NoDangling
<1>11. NoDirLeak'
  <2>1. ASSUME NEW d \in dirs, d \notin F PROVE \E q \in Slots : SetUp(q)' /\ pgdir'[q] = d
    <3>1. PICK q \in Slots : SetUp(q) /\ pgdir[q] = d
      BY DEF MInv, NoDirLeak
    <3>2. CASE q # z
      BY <1>3, <1>6, <3>1, <3>2
    <3>3. CASE q = z
      <4>1. pgdir[p] = d
        BY <1>2, <1>4, <2>1, <3>1, <3>3
      <4> QED
        BY <1>2, <1>3, <1>6, <4>1
    <3> QED
      BY <3>2, <3>3
  <2> QED
    BY <1>4, <2>1 DEF NoDirLeak
<1>12. Unborn'
  <2>1. ASSUME NEW q \in Slots
        PROVE  /\ ~SetUp(q)' => parent'[q] = None
               /\ state'[q] \notin Live => kpc'[q] = "user"
    <3>1. CASE q = z
      <4>1. kpc[z] = "user"
        BY <1>5 DEF MInv, Unborn, Live
      <4> QED
        BY <1>5, <1>7, <3>1, <4>1
    <3>2. CASE q # z
      BY <1>6, <1>7, <3>2 DEF MInv, Unborn
    <3> QED
      BY <3>1, <3>2
  <2> QED
    BY <2>1 DEF Unborn
<1>13. Kinship'
  BY <1>3, <1>5, <1>6 DEF MInv, Kinship
<1>14. Sharing'
  <2>1. \A q \in Slots : SetUp(q)' => q # z /\ SetUp(q) /\ Owner(q)' = Owner(q)
    BY <1>3, <1>5, <1>6 DEF Owner
  <2> QED
    BY <1>3, <2>1 DEF MInv, Sharing
<1>15. Busy'
  BY <1>3, <1>7 DEF MInv, Busy
<1>16. ASSUME NEW q \in Slots, SetUp(q)', ~Mapped(q)'
       PROVE  q \in cloned' /\ kpc'[parent'[q]] = "grow"
  <2>1. q # z /\ SetUp(q)
    BY <1>5, <1>6, <1>16
  <2>2. ~Mapped(q)
    BY <1>3, <1>4, <1>8, <1>16, <2>1 DEF Mapped
  <2>3. q \in cloned /\ kpc[parent[q]] = "grow" /\ parent[q] \in Slots
    BY <2>1, <2>2, ThreadIs DEF MInv, Sizes
  <2> QED
    BY <1>3, <1>6, <1>7, <2>1, <2>3
<1> QED
  BY <1>9, <1>10, <1>11, <1>12, <1>13, <1>14, <1>15, <1>16 DEF MInv, Sizes

\* A process that exits has joined its threads; its children go to init, which
\* shares its memory with nobody.
LEMMA ExitMemory ==
  ASSUME Disciplined, IInv, MInv, NEW p \in Slots, Exit(p) \/ ExitWithThreads(p)
  PROVE  MInv'
<1>0. TypeOK
  BY DEF IInv
<1>1. Kids(p, "join") = {} /\ kpc[p] = "user" /\ Exit(p)
  BY DEF Exit, ExitWithThreads, Exits, Disciplined, MInv, Undisturbed
<1>2. UNCHANGED <<pgdir, sz, killed, kpc, dirs, vm, panic, cloned>>
  BY <1>1 DEF Exit, memory, history
<1>3. /\ state[p] = "RUNNING" /\ state'[p] = "ZOMBIE" /\ parent' = Adopted(p)
      /\ \A q \in Slots \ {p} :
            \/ state'[q] = state[q]
            \/ state[q] = "SLEEPING" /\ state'[q] = "RUNNABLE"
  <2>1. ~Panic
    BY <1>0, <1>2 DEF Panic, MInv, Undisturbed
  <2> QED
    BY <1>0, <1>1, <2>1, ExitEffect
<1>4. \A q \in Slots : /\ SetUp(q)' <=> SetUp(q)
                       /\ state'[q] \notin Live => state[q] \notin Live \/ q = p
  BY <1>3 DEF SetUp, Live
<1>5. \A q \in Slots : parent[q] # p => parent'[q] = parent[q]
  BY <1>3 DEF Adopted
<1>6. \A q \in Slots : SetUp(q) /\ q \in cloned => parent'[q] = parent[q]
  <2>1. ASSUME NEW q \in Slots, SetUp(q), q \in cloned PROVE parent[q] # p
    <3>1. parent[q] = p => pgdir[p] = pgdir[q]
      BY <2>1, ThreadIs
    <3> QED
      BY <1>1, <3>1 DEF Kids
  <2> QED
    BY <1>5, <2>1
<1>7. Undisturbed' /\ NoDangling' /\ NoDirLeak'
  BY <1>2, <1>4 DEF MInv, Undisturbed, NoDangling, NoDirLeak
<1>8. Unborn'
  <2>1. None # p
    BY DEF None, Slots
  <2> QED
    BY <1>1, <1>2, <1>4, <1>5, <2>1 DEF MInv, Unborn
<1>9. Kinship' /\ Busy'
  BY <1>2, <1>4, <1>6 DEF MInv, Kinship, Busy
<1>10. Sharing'
  <2>1. \A q \in Slots : SetUp(q) => Owner(q)' = Owner(q)
    BY <1>2, <1>6 DEF Owner
  <2> QED
    BY <1>2, <1>4, <2>1 DEF MInv, Sharing
<1>11. Sizes'
  BY <1>2, <1>4, <1>6 DEF MInv, Sizes, Mapped
<1> QED
  BY <1>7, <1>8, <1>9, <1>10, <1>11 DEF MInv

\* A process that may grow is no thread, its pages are those below sz, and
\* whoever shares them is a thread of it.
LEMMA Grower ==
  ASSUME Disciplined, IInv, MInv, NEW p \in Slots, MayGrow(p)
  PROVE  /\ SetUp(p) /\ p \notin cloned /\ Mapped(p) /\ pgdir[p] \in PgDirs
         /\ state[p] \in Live /\ kpc[p] = "user"
         /\ \A q \in Slots \ {p} : SetUp(q) /\ pgdir[q] = pgdir[p] =>
              q \in cloned /\ parent[q] = p
<1>1. state[p] = "RUNNING" /\ kpc[p] = "user" /\ ~IsThread(p)
  BY DEF MayGrow, Enters, Running, Disciplined
<1>2. SetUp(p) /\ p \notin cloned /\ state[p] \in Live
  BY <1>1, ThreadIs DEF SetUp, Live
<1>3. ASSUME NEW q \in Slots \ {p}, SetUp(q), pgdir[q] = pgdir[p]
      PROVE  q \in cloned /\ parent[q] = p
  <2>1. Owner(q) = Owner(p)
    BY <1>2, <1>3 DEF MInv, Sharing
  <2> QED
    BY <1>2, <1>3, <2>1 DEF Owner
<1> QED
  BY <1>1, <1>2, <1>3, ThreadIs

\* growproc() maps or unmaps the last page of p, and has yet to tell p's threads.
Resizes(p, m) ==
  /\ vm' = [vm EXCEPT ![pgdir[p]] = 0 .. m - 1]
  /\ sz' = [sz EXCEPT ![p] = m]
  /\ kpc' = [kpc EXCEPT ![p] = "grow"]
  /\ UNCHANGED <<state, parent, pgdir, killed, dirs, panic, cloned>>

LEMMA ResizeMemory ==
  ASSUME Disciplined, IInv, MInv, NEW p \in Slots, MayGrow(p), NEW m \in Nat, Resizes(p, m)
  PROVE  MInv'
<1>0. TypeOK
  BY DEF IInv
<1>1. /\ SetUp(p) /\ p \notin cloned /\ pgdir[p] \in PgDirs /\ state[p] \in Live
      /\ \A q \in Slots \ {p} : SetUp(q) /\ pgdir[q] = pgdir[p] =>
           q \in cloned /\ parent[q] = p
  BY Grower
<1>2. /\ UNCHANGED <<state, parent, pgdir, killed, dirs, panic, cloned>>
      /\ \A q \in Slots : SetUp(q)' <=> SetUp(q)
  BY DEF Resizes, SetUp
<1>3. /\ kpc'[p] = "grow" /\ \A q \in Slots \ {p} : kpc'[q] = kpc[q]
      /\ sz'[p] = m /\ \A q \in Slots \ {p} : sz'[q] = sz[q]
  BY <1>0 DEF TypeOK, Resizes
<1>4. /\ vm'[pgdir[p]] = 0 .. m - 1
      /\ \A d \in PgDirs \ {pgdir[p]} : vm'[d] = vm[d]
  BY <1>0, <1>1 DEF TypeOK, Resizes
<1>5. Undisturbed' /\ NoDangling' /\ NoDirLeak'
  BY <1>2 DEF MInv, Undisturbed, NoDangling, NoDirLeak
<1>6. Kinship' /\ Sharing'
  BY <1>2 DEF MInv, Kinship, Sharing, Owner
<1>7. Unborn' /\ Busy'
  BY <1>1, <1>2, <1>3 DEF MInv, Unborn, Busy
<1>8. ASSUME NEW q \in Slots, SetUp(q)', ~Mapped(q)'
      PROVE  q \in cloned' /\ kpc'[parent'[q]] = "grow"
  <2>1. q # p /\ SetUp(q) /\ pgdir[q] \in PgDirs
    BY <1>2, <1>3, <1>4, <1>8, ThreadIs DEF Mapped
  <2>2. CASE pgdir[q] = pgdir[p]
    BY <1>1, <1>2, <1>3, <2>1, <2>2
  <2>3. CASE pgdir[q] # pgdir[p]
    <3>1. ~Mapped(q)
      BY <1>2, <1>3, <1>4, <1>8, <2>1, <2>3 DEF Mapped
    <3>2. q \in cloned /\ kpc[parent[q]] = "grow" /\ parent[q] \in Slots
      BY <2>1, <3>1, ThreadIs DEF MInv, Sizes
    <3> QED
      BY <1>2, <1>3, <3>2
  <2> QED
    BY <2>2, <2>3
<1> QED
  BY <1>5, <1>6, <1>7, <1>8 DEF MInv, Sizes

\* mappages() finds the page above sz free.
LEMMA GrowMemory ==
  ASSUME Disciplined, IInv, MInv, NEW p \in Slots, GrowProc(p) \/ ShrinkProc(p)
  PROVE  MInv'
<1>0. TypeOK /\ sz[p] \in Nat
  BY DEF IInv, TypeOK
<1>1. MayGrow(p)
  BY DEF GrowProc, ShrinkProc
<1>2. Mapped(p)
  BY <1>1, Grower
<1>3. CASE GrowProc(p)
  <2>1. sz[p] \notin vm[pgdir[p]]
    BY <1>0, <1>2 DEF Mapped
  <2>2. vm[pgdir[p]] \union {sz[p]} = 0 .. (sz[p] + 1) - 1
    BY <1>0, <1>2 DEF Mapped
  <2>3. Resizes(p, sz[p] + 1)
    BY <1>3, <2>1, <2>2 DEF GrowProc, Resizes, Set, history
  <2> QED
    BY <1>0, <1>1, <2>3, ResizeMemory
<1>4. CASE ShrinkProc(p)
  <2>1. vm[pgdir[p]] \ {sz[p] - 1} = 0 .. (sz[p] - 1) - 1 /\ sz[p] - 1 \in Nat
    BY <1>0, <1>2, <1>4 DEF Mapped, ShrinkProc
  <2>2. Resizes(p, sz[p] - 1)
    BY <1>4, <2>1 DEF ShrinkProc, Resizes, Unmapped, Set, history
  <2> QED
    BY <1>1, <2>1, <2>2, ResizeMemory
<1> QED
  BY <1>3, <1>4

\* The threads learn the new size.
LEMMA PropagateMemory ==
  ASSUME IInv, MInv, NEW p \in Slots, Propagate(p) PROVE MInv'
<1>0. TypeOK
  BY DEF IInv
<1>1. /\ sz' = Told(p) /\ kpc' = [kpc EXCEPT ![p] = "user"]
      /\ state[p] = "RUNNING" /\ kpc[p] = "grow"
      /\ UNCHANGED <<state, parent, pgdir, killed, dirs, vm, panic, cloned>>
  BY DEF Propagate, Running, Set, memory, history
<1>2. SetUp(p) /\ p \notin cloned
  BY <1>1 DEF SetUp, MInv, Busy
<1>3. Mapped(p)
  BY <1>2, ThreadIs
<1>4. \A q \in Slots : /\ SetUp(q)' <=> SetUp(q)
                       /\ kpc'[q] = kpc[q] \/ (q = p /\ kpc'[q] = "user")
  BY <1>0, <1>1 DEF TypeOK, SetUp
<1>5. Undisturbed' /\ NoDangling' /\ NoDirLeak'
  BY <1>1, <1>4 DEF MInv, Undisturbed, NoDangling, NoDirLeak
<1>6. Kinship' /\ Sharing'
  BY <1>1, <1>4 DEF MInv, Kinship, Sharing, Owner
<1>7. Unborn' /\ Busy'
  BY <1>1, <1>4 DEF MInv, Unborn, Busy
<1>8. ASSUME NEW q \in Slots, SetUp(q)', ~Mapped(q)'
      PROVE  q \in cloned' /\ kpc'[parent'[q]] = "grow"
  <2>1. SetUp(q)
    BY <1>4, <1>8
  <2>2. ~(parent[q] = p /\ pgdir[q] = pgdir[p])
    BY <1>1, <1>3, <1>8 DEF Told, Mapped
  <2>3. ~Mapped(q)
    BY <1>1, <1>8, <2>2 DEF Told, Mapped
  <2>4. q \in cloned /\ kpc[parent[q]] = "grow" /\ parent[q] \in Slots
    BY <2>1, <2>3, ThreadIs DEF MInv, Sizes
  <2>5. parent[q] # p
    BY <2>1, <2>2, <2>4, ThreadIs
  <2> QED
    BY <1>1, <1>4, <2>4, <2>5
<1> QED
  BY <1>5, <1>6, <1>7, <1>8 DEF MInv, Sizes

\* exec() of a process that is alone in its memory replaces it.
LEMMA ExecMemory ==
  ASSUME Disciplined, IInv, MInv, NEW p \in Slots, Exec(p) PROVE MInv'
<1>0. TypeOK
  BY DEF IInv
<1>1. FreeDirs # {} /\ Alone(p) /\ state[p] = "RUNNING"
  BY DEF Exec, Enters, Running, Disciplined
<1>d. PICK d \in PgDirs : d = Lowest(FreeDirs)
  BY <1>1, FreshDir
<1>2. d \notin dirs /\ \A q \in Slots : SetUp(q) => pgdir[q] # d
  BY <1>1, <1>d, FreshDir
<1>3. /\ dirs' = (dirs \union {d}) \ {pgdir[p]}
      /\ vm' = [vm EXCEPT ![d] = {0}, ![pgdir[p]] = {}]
      /\ pgdir' = [pgdir EXCEPT ![p] = d]
      /\ sz' = [sz EXCEPT ![p] = 1]
      /\ UNCHANGED <<state, parent, killed, kpc, panic, cloned>>
  BY <1>d DEF Exec, Set, history
<1>4. SetUp(p) /\ \A q \in Slots \ {p} : SetUp(q) => pgdir[q] # pgdir[p]
  BY <1>1 DEF SetUp, Alone, Alive
<1>5. pgdir[p] # d /\ pgdir[p] \in PgDirs /\ p \notin cloned
  BY <1>2, <1>4, ThreadIs
<1>6. /\ pgdir'[p] = d /\ sz'[p] = 1 /\ vm'[d] = {0}
      /\ \A q \in Slots \ {p} : pgdir'[q] = pgdir[q] /\ sz'[q] = sz[q]
      /\ \A c \in PgDirs \ {d, pgdir[p]} : vm'[c] = vm[c]
      /\ \A q \in Slots : SetUp(q)' <=> SetUp(q)
  BY <1>0, <1>3, <1>5 DEF TypeOK, SetUp
<1>7. Undisturbed' /\ Unborn' /\ Busy' /\ Kinship'
  BY <1>3, <1>6 DEF MInv, Undisturbed, Unborn, Busy, Kinship
<1>8. NoDangling'
  BY <1>2, <1>3, <1>4, <1>5, <1>6 DEF MInv, NoDangling
<1>9. NoDirLeak'
  <2>1. ASSUME NEW c \in dirs, c # pgdir[p]
        PROVE  \E q \in Slots : SetUp(q)' /\ pgdir'[q] = c
    <3>1. PICK q \in Slots : SetUp(q) /\ pgdir[q] = c
      BY DEF MInv, NoDirLeak
    <3> QED
      BY <1>6, <2>1, <3>1
  <2> QED
    BY <1>3, <1>4, <1>6, <2>1 DEF NoDirLeak
<1>10. Sharing'
  <2>1. \A q \in Slots : Owner(q)' = Owner(q)
    BY <1>3 DEF Owner
  <2>2. ASSUME NEW q \in Slots \ {p}, SetUp(q)
        PROVE  Owner(q) # Owner(p) /\ pgdir'[q] # pgdir'[p]
    BY <1>2, <1>4, <1>6, <2>2 DEF MInv, Sharing
  <2>3. ASSUME NEW q \in Slots, SetUp(q)', NEW r \in Slots, SetUp(r)'
        PROVE  pgdir'[q] = pgdir'[r] <=> Owner(q)' = Owner(r)'
    <3>1. SetUp(q) /\ SetUp(r)
      BY <1>6, <2>3
    <3>2. CASE q # p /\ r # p
      BY <1>6, <2>1, <3>1, <3>2 DEF MInv, Sharing
    <3>3. CASE q = p \/ r = p
      BY <2>1, <2>2, <3>1, <3>3
    <3> QED
      BY <3>2, <3>3
  <2> QED
    BY <2>3 DEF Sharing
<1>11. ASSUME NEW q \in Slots, SetUp(q)', ~Mapped(q)'
       PROVE  q \in cloned' /\ kpc'[parent'[q]] = "grow"
  <2>1. SetUp(q)
    BY <1>6, <1>11
  <2>2. 0 .. 1 - 1 = {0}
    OBVIOUS
  <2>3. q # p
    BY <1>6, <1>11, <2>2 DEF Mapped
  <2>4. ~Mapped(q)
    BY <1>2, <1>4, <1>6, <1>11, <2>1, <2>3, ThreadIs DEF Mapped
  <2> QED
    BY <1>3, <2>1, <2>4 DEF MInv, Sizes
<1> QED
  BY <1>7, <1>8, <1>9, <1>10, <1>11 DEF MInv, Sizes

-----------------------------------------------------------------------------
\* Every step keeps what is said of memory; copyuvm() finds all pages, and
\* nobody is killed.
LEMMA MemoryStep ==
  ASSUME Disciplined, IInv, MInv, [Next]_vars PROVE MInv'
<1>0. TypeOK
  BY DEF IInv
<1>1. ASSUME NEW p \in Slots, ForkPanics(p) PROVE FALSE
  <2>1. Mapped(p)
    BY <1>1, FilledSlot DEF ForkPanics
  <2> QED
    BY <1>1, <2>1 DEF ForkPanics, Complete, Mapped
<1>2. ASSUME NEW p \in Slots, NEW k \in 0 .. MaxPid, Kill(p, k) PROVE FALSE
  BY <1>2 DEF Kill, Enters, Disciplined
<1>3. SameMemory => MInv'
  BY MemoryFrame
<1> QED
  BY <1>0, <1>1, <1>2, <1>3, Actions, MemorySteps, MemoryTick, AllocMemory,
     AllocFailsMemory, ForkMemory, CloneMemory, ReapMemory, ExitMemory,
     GrowMemory, PropagateMemory, ExecMemory, ZenonT(60)

\* The first process has the first directory.
LEMMA MemoryInit == ASSUME Init PROVE MInv
<1>1. initproc \in Slots /\ initproc = 1 /\ 0 .. 1 - 1 = {0} /\ 1 \in PgDirs
  BY DEF initproc, Slots, PgDirs
<1>2. \A p \in Slots : SetUp(p) <=> p = initproc
  BY DEF Init, SetUp
<1>3. pgdir[initproc] = 1 /\ sz[initproc] = 1 /\ vm[1] = {0} /\ dirs = {1}
  BY <1>1 DEF Init
<1>4. Undisturbed /\ Unborn /\ Busy /\ Kinship
  BY DEF Init, Undisturbed, Unborn, Busy, Kinship
<1>5. NoDangling /\ NoDirLeak /\ Sharing
  BY <1>1, <1>2, <1>3 DEF NoDangling, NoDirLeak, Sharing
<1>6. Sizes
  BY <1>1, <1>2, <1>3 DEF Sizes, Mapped
<1> QED
  BY <1>4, <1>5, <1>6 DEF MInv

\* Where programs use threads as the library does, with any numbers of slots,
\* CPUs, directories and pages and any failures of memory: an address space is
\* freed once, by wait() and after its last user; none is lost; sizes and
\* mappings agree; the kernel does not panic.
THEOREM MemorySoundHolds ==
  ASSUME Disciplined PROVE Spec => []MemorySound
<1>1. Init => MInv
  BY MemoryInit
<1>2. IInv /\ MInv /\ [Next]_vars => MInv'
  BY MemoryStep
<1>3. IInv /\ MInv => MemorySound
  <2> SUFFICES ASSUME IInv, MInv PROVE MemorySound
    OBVIOUS
  <2>1. SizeAgrees
    BY ThreadIs DEF MInv, Sizes, Mapped, SizeAgrees
  <2> QED
    BY <2>1 DEF MInv, Undisturbed, MemorySound, NoPanic
<1> QED
  BY Invariance, <1>1, <1>2, <1>3, PTL DEF Spec

\* In the same programs wait() reaps processes and join() threads.
THEOREM ReapsItsOwnHolds ==
  ASSUME Disciplined PROVE Spec => ReapsItsOwn
<1>1. Init => MInv
  BY MemoryInit
<1>2. IInv /\ MInv /\ [Next]_vars => MInv'
  BY MemoryStep
<1>3. ASSUME IInv, MInv, NEW p \in Slots \ {initproc}, NEW call \in {"wait", "join"},
             Reap(p, call)
      PROVE  Lowest(Zombies(p, call)) \in cloned <=> call = "join"
  <2>1. Zombies(p, call) # {} /\ Zombies(p, call) \subseteq Slots
    BY <1>3 DEF Reap, Zombies, Kids
  <2>2. Lowest(Zombies(p, call)) \in Zombies(p, call)
    BY <2>1, LowestIn DEF Slots
  <2> QED
    BY <1>3, <2>1, <2>2, RightKind
<1>4. IInv /\ MInv /\ [Next]_vars =>
        [\A p \in Slots \ {initproc}, call \in {"wait", "join"} :
            Reap(p, call) =>
               (Lowest(Zombies(p, call)) \in cloned <=> call = "join")]_vars
  BY <1>3
<1> QED
  BY Invariance, <1>1, <1>2, <1>4, PTL DEF Spec, ReapsItsOwn
=============================================================================
