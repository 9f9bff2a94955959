-------------------------------- MODULE Bio --------------------------------
(***************************************************************************)
(* The buffer cache (bio.c) and the IDE driver (ide.c) of xv6, with the    *)
(* processes that read and write blocks through them and the drive.  A     *)
(* step is a stretch of code under bcache.lock or idelock, or a process's  *)
(* work on a buffer it holds.  sleep(b, lock) releases the lock in the     *)
(* same step, wakeup(b) makes every sleeper on b runnable, whichever of    *)
(* the two loops it sleeps in, and so does a kill.                         *)
(***************************************************************************)
EXTENDS Naturals, Sequences, FiniteSets

CONSTANTS
  Procs,      \* processes in the file system code
  NBUF,       \* number of buffers
  Sectors,    \* sectors of the disk
  Values,     \* contents of a sector
  Disk0,      \* what the disk holds at the start
  Blank,      \* what fresh memory holds
  Nest,       \* pairs << s, t >>: t may be read while s is held
  Nobody,     \* no process, no sector
  MaxWrites,  \* bound: calls of bwrite
  MaxErrors   \* bound: sectors the drive fails to read

ASSUME BioAssumption ==
  /\ NBUF \in Nat \ {0} /\ MaxWrites \in Nat /\ MaxErrors \in Nat
  /\ Blank \in Values /\ Disk0 \in [Sectors -> Values]
  /\ Nobody \notin Procs \cup Sectors
  /\ Nest \subseteq Sectors \X Sectors

Bufs == 1 .. NBUF

VARIABLES
  sector,   \* sector[b]: the sector buffer b is for (b->dev, b->sector)
  flags,    \* flags[b]: which of B_BUSY, B_VALID, B_DIRTY are set
  data,     \* data[b]: b->data
  place,    \* place[b]: b's place in bcache.head's list, 0 is most recent
  idequeue, \* the buffers whose requests wait, the first is being served
  disk,     \* disk[s]: what the platters hold
  drive,    \* the command the drive works at, or finished and interrupts for
  pc,       \* pc[p]: where process p is
  want,     \* want[p]: the sector p's call of bget is for
  held,     \* held[p]: the buffers p holds, the one got last at the end
  chan,     \* chan[p]: the buffer p sleeps on, or 0
  panicked, \* the argument of panic(), or ""
  writes,   \* calls of bwrite so far
  failed    \* history: sectors of which a read has failed

cache == << sector, flags, data, place >>
procs == << pc, want, held, chan >>
counts == << writes, failed >>
vars == << cache, idequeue, disk, drive, procs, panicked, counts >>

Idle == [op |-> "none", sector |-> Nobody, done |-> FALSE, ok |-> TRUE]

Init ==
  /\ sector = [b \in Bufs |-> Nobody]
  /\ flags = [b \in Bufs |-> {}]
  /\ data = [b \in Bufs |-> Blank]
  /\ place = [b \in Bufs |-> NBUF - b]
  /\ idequeue = << >> /\ drive = Idle
  /\ disk = Disk0
  /\ pc = [p \in Procs |-> "run"]
  /\ want = [p \in Procs |-> Nobody]
  /\ held = [p \in Procs |-> << >>]
  /\ chan = [p \in Procs |-> 0]
  /\ panicked = "" /\ writes = 0 /\ failed = {}

Top(p) == held[p][Len(held[p])]

\* wakeup(b), as a function of the process: where it is afterwards.
Woken(p, b) == IF chan[p] # b THEN pc[p]
               ELSE IF pc[p] = "bsleep" THEN "bget" ELSE "iwake"
wakeup(b) == /\ pc' = [p \in Procs |-> Woken(p, b)]
             /\ chan' = [p \in Procs |-> IF chan[p] = b THEN 0 ELSE chan[p]]

-----------------------------------------------------------------------------
(* bio.c                                                                    *)

\* A process calls bread, with nothing in hand or with one block that the
\* file system code keeps while it reads another.
bread(p, s) ==
  /\ pc[p] = "run"
  /\ \/ held[p] = << >>
     \/ Len(held[p]) = 1 /\ << sector[Top(p)], s >> \in Nest
  /\ pc' = [pc EXCEPT ![p] = "bget"]
  /\ want' = [want EXCEPT ![p] = s]
  /\ UNCHANGED << cache, idequeue, disk, drive, held, chan, panicked, counts >>

Cached(s) == {b \in Bufs : sector[b] = s}
Free == {b \in Bufs : "BUSY" \notin flags[b]}

\* The second loop of bget runs from the end of the list.
Oldest == CHOOSE b \in Free : \A c \in Free : place[c] <= place[b]

\* Mutant of Taken: the flags of the sector that was there before stay.
TakenStale(b) == flags[b] \cup {"BUSY"}

Taken(b) == {"BUSY"}

\* bget finds the sector's buffer free, and bread returns it if it is valid.
bgetHit(p) ==
  /\ pc[p] = "bget"
  /\ \E b \in Cached(want[p]) \cap Free :
       /\ flags' = [flags EXCEPT ![b] = @ \cup {"BUSY"}]
       /\ held' = [held EXCEPT ![p] = Append(@, b)]
       /\ pc' = [pc EXCEPT ![p] = IF "VALID" \in flags[b] THEN "run"
                                  ELSE "iderw"]
  /\ want' = [want EXCEPT ![p] = Nobody]
  /\ UNCHANGED << sector, data, place, idequeue, disk, drive, chan, panicked,
                  counts >>

\* Mutant of Asleep: the buffer is taken although it is busy.
AsleepNot(p, b) ==
  /\ held' = [held EXCEPT ![p] = Append(@, b)]
  /\ pc' = [pc EXCEPT ![p] = "run"]
  /\ UNCHANGED chan

Asleep(p, b) ==
  /\ pc' = [pc EXCEPT ![p] = "bsleep"]
  /\ chan' = [chan EXCEPT ![p] = b]
  /\ UNCHANGED held

\* bget finds it busy and sleeps until it is released; then it looks again.
bgetBusy(p) ==
  /\ pc[p] = "bget"
  /\ \E b \in Cached(want[p]) \ Free : Asleep(p, b)
  /\ UNCHANGED << cache, idequeue, disk, drive, want, panicked, counts >>

\* bget takes the least recently used free buffer for the sector.
bgetMiss(p) ==
  /\ pc[p] = "bget" /\ Cached(want[p]) = {} /\ Free # {}
  /\ sector' = [sector EXCEPT ![Oldest] = want[p]]
  /\ flags' = [flags EXCEPT ![Oldest] = Taken(Oldest)]
  /\ held' = [held EXCEPT ![p] = Append(@, Oldest)]
  /\ pc' = [pc EXCEPT ![p] = "iderw"]
  /\ want' = [want EXCEPT ![p] = Nobody]
  /\ UNCHANGED << data, place, idequeue, disk, drive, chan, panicked, counts >>

\* Every buffer is busy with another sector.
bgetPanic(p) ==
  /\ pc[p] = "bget" /\ Cached(want[p]) = {} /\ Free = {}
  /\ panicked' = "bget: no buffers"
  /\ UNCHANGED << cache, idequeue, disk, drive, procs, counts >>

\* The caller changes the data of the buffer it got last and calls bwrite.
bwrite(p, v) ==
  /\ pc[p] = "run" /\ held[p] # << >> /\ writes < MaxWrites
  /\ data' = [data EXCEPT ![Top(p)] = v]
  /\ flags' = [flags EXCEPT ![Top(p)] = @ \cup {"DIRTY"}]
  /\ pc' = [pc EXCEPT ![p] = "iderw"]
  /\ writes' = writes + 1
  /\ UNCHANGED << sector, place, idequeue, disk, drive, want, held, chan,
                  panicked, failed >>

\* To the front of the list.
Moved(b) == [c \in Bufs |-> IF c = b THEN 0
                            ELSE IF place[c] < place[b] THEN place[c] + 1
                            ELSE place[c]]

brelse(p) ==
  /\ pc[p] = "run" /\ held[p] # << >>
  /\ flags' = [flags EXCEPT ![Top(p)] = @ \ {"BUSY"}]
  /\ place' = Moved(Top(p))
  /\ held' = [held EXCEPT ![p] = SubSeq(@, 1, Len(@) - 1)]
  /\ wakeup(Top(p))
  /\ UNCHANGED << sector, data, idequeue, disk, drive, want, panicked,
                  counts >>

-----------------------------------------------------------------------------
(* ide.c                                                                    *)

\* The command of a request.  The data of a write go to the drive at once.
Command(b) ==
  IF "DIRTY" \in flags[b]
  THEN [op |-> "write", sector |-> sector[b], done |-> FALSE, ok |-> TRUE,
        data |-> data[b]]
  ELSE [op |-> "read", sector |-> sector[b], done |-> FALSE, ok |-> TRUE]

\* Mutant of idestart: a new command overwrites the one under way.
idestartAlways(b) == drive' = Command(b)

\* iderw starts the drive only if its request is the first of the queue.
idestart(b) == drive' = IF idequeue = << >> THEN Command(b) ELSE drive

\* iderw up to its first sleep.
iderw(p) ==
  /\ pc[p] = "iderw"
  /\ IF flags[Top(p)] \cap {"VALID", "DIRTY"} = {"VALID"}
     THEN /\ panicked' = "iderw: nothing to do"
          /\ UNCHANGED << idequeue, drive, pc, chan >>
     ELSE /\ idequeue' = Append(idequeue, Top(p))
          /\ idestart(Top(p))
          /\ pc' = [pc EXCEPT ![p] = "isleep"]
          /\ chan' = [chan EXCEPT ![p] = Top(p)]
          /\ UNCHANGED panicked
  /\ UNCHANGED << cache, disk, want, held, counts >>

Finished(b) == flags[b] \cap {"VALID", "DIRTY"} = {"VALID"}

\* iderw woken: it returns, or sleeps again.
iderwWoken(p) ==
  /\ pc[p] = "iwake"
  /\ IF Finished(Top(p))
     THEN pc' = [pc EXCEPT ![p] = "run"] /\ UNCHANGED chan
     ELSE /\ pc' = [pc EXCEPT ![p] = "isleep"]
          /\ chan' = [chan EXCEPT ![p] = Top(p)]
  /\ UNCHANGED << cache, idequeue, disk, drive, want, held, panicked, counts >>

\* Mutant of Restarted: the next request waits for an interrupt of its own.
RestartedNot == Idle

\* The drive gets the command of the next request in the queue.
Restarted == IF Len(idequeue) > 1 THEN Command(idequeue[2]) ELSE Idle

\* The interrupt that ends the first request of the queue.
ideintr ==
  /\ drive.done /\ idequeue # << >>
  /\ LET b == idequeue[1]
     IN /\ data' = IF "DIRTY" \notin flags[b] /\ drive.ok
                   THEN [data EXCEPT ![b] = disk[drive.sector]] ELSE data
        /\ flags' = [flags EXCEPT ![b] = (@ \cup {"VALID"}) \ {"DIRTY"}]
        /\ wakeup(b)
  /\ idequeue' = Tail(idequeue)
  /\ drive' = Restarted
  /\ failed' = IF drive.ok THEN failed ELSE failed \cup {drive.sector}
  /\ UNCHANGED << sector, place, disk, want, held, panicked, writes >>

-----------------------------------------------------------------------------
(* The drive and the rest of the kernel.                                    *)

\* The drive finishes its command.  A read may fail.
DriveDone ==
  /\ drive.op # "none" /\ ~ drive.done
  /\ \/ /\ drive' = [drive EXCEPT !.done = TRUE]
        /\ disk' = IF drive.op = "write"
                   THEN [disk EXCEPT ![drive.sector] = drive.data] ELSE disk
     \/ /\ drive.op = "read"
        /\ Cardinality(failed \cup {drive.sector}) <= MaxErrors
        /\ drive' = [drive EXCEPT !.done = TRUE, !.ok = FALSE]
        /\ UNCHANGED disk
  /\ UNCHANGED << cache, idequeue, procs, panicked, counts >>

\* kill() makes a sleeper runnable.
kill(p) ==
  /\ chan[p] # 0
  /\ pc' = [pc EXCEPT ![p] = Woken(p, chan[p])]
  /\ chan' = [chan EXCEPT ![p] = 0]
  /\ UNCHANGED << cache, idequeue, disk, drive, want, held, panicked, counts >>

Step(p) == \/ bgetHit(p) \/ bgetBusy(p) \/ bgetMiss(p) \/ bgetPanic(p)
           \/ iderw(p) \/ iderwWoken(p)

Next == /\ panicked = ""
        /\ \/ \E p \in Procs :
                \/ \E s \in Sectors : bread(p, s)
                \/ \E v \in Values : bwrite(p, v)
                \/ Step(p) \/ brelse(p) \/ kill(p)
           \/ ideintr \/ DriveDone

\* The scheduler runs every runnable process again and again, the drive
\* finishes what it started, and interrupts are delivered.
Fairness == /\ \A p \in Procs : WF_vars(Step(p))
            /\ WF_vars(ideintr) /\ WF_vars(DriveDone)

Spec == Init /\ [][Next]_vars /\ Fairness

-----------------------------------------------------------------------------
(* Properties.                                                              *)

Places == {"run", "bget", "bsleep", "iderw", "isleep", "iwake"}
Panics == {"", "bget: no buffers", "iderw: nothing to do"}

TypeOK ==
  /\ sector \in [Bufs -> Sectors \cup {Nobody}]
  /\ flags \in [Bufs -> SUBSET {"BUSY", "VALID", "DIRTY"}]
  /\ data \in [Bufs -> Values] /\ place \in [Bufs -> Nat]
  /\ idequeue \in Seq(Bufs) /\ disk \in [Sectors -> Values]
  /\ pc \in [Procs -> Places] /\ want \in [Procs -> Sectors \cup {Nobody}]
  /\ held \in [Procs -> Seq(Bufs)] /\ chan \in [Procs -> Bufs \cup {0}]
  /\ panicked \in Panics /\ writes \in 0 .. MaxWrites
  /\ failed \subseteq Sectors

Holds(p, b) == \E i \in 1 .. Len(held[p]) : held[p][i] = b

\* Looking a sector up, sleeping and looking again never gives it a second
\* buffer, and a buffer is busy exactly while one process holds it.
OneBuffer ==
  /\ TypeOK
  /\ \A b, c \in Bufs : sector[b] = sector[c] /\ sector[b] # Nobody => b = c
  /\ \A b \in Bufs : "BUSY" \in flags[b] <=> \E p \in Procs : Holds(p, b)
  /\ \A p, q \in Procs, b \in Bufs : Holds(p, b) /\ Holds(q, b) => p = q

\* Whoever sleeps has somebody who will wake it: in bget the buffer is held
\* by another process, or has been recycled by one and is held; in iderw the
\* request is in the queue and the drive works at the queue's first.  No
\* request without work gets there (the panic of iderw).
SleepersAreWoken ==
  /\ \A p \in Procs : pc[p] = "bsleep" => "BUSY" \in flags[chan[p]]
  /\ \A p \in Procs : pc[p] = "isleep" =>
       \E i \in 1 .. Len(idequeue) : idequeue[i] = chan[p]
  /\ idequeue # << >> => drive.op # "none" /\ drive.sector = sector[idequeue[1]]
  /\ \A i \in 1 .. Len(idequeue) : ~ Finished(idequeue[i])
  /\ panicked # "iderw: nothing to do"

\* Both: whoever waits for a buffer will get the one there is.
BuffersSound == OneBuffer /\ SleepersAreWoken

\* The contents of a sector, wherever its newest copy is.
Newest(s) ==
  LET C == {b \in Cached(s) : flags[b] \cap {"VALID", "DIRTY"} # {}}
  IN IF C = {} THEN disk[s] ELSE data[CHOOSE b \in C : TRUE]
HolderOf(s) ==
  LET H == {p \in Procs : \E b \in Cached(s) : Holds(p, b)}
  IN IF H = {} THEN Nobody ELSE CHOOSE p \in H : TRUE

Store == INSTANCE BlockStore
           WITH store <- [s \in Sectors |-> IF s \in failed THEN Blank
                                        ELSE Newest(s)],
                holder <- [s \in Sectors |-> HolderOf(s)]

\* The cache implements a store of blocks: a block is held by one process at
\* a time and holds what was last written to it, through eviction, reading
\* again and queueing, unless the disk failed to read it.
ImplementsBlockStore == Store!Spec

\* A read or write that was given to the driver ends, however long the queue
\* and whoever is killed.
IoEnds == \A p \in Procs :
            pc[p] \in {"iderw", "isleep", "iwake"} ~> pc[p] = "run" \/ panicked # ""
=============================================================================
