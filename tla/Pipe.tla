-------------------------------- MODULE Pipe --------------------------------
(***************************************************************************)
(* Pipes and open files of xv6: pipe.c, file.c for pipes, and the calls    *)
(* that make, copy and close descriptors (sysfile.c; fork, exit and kill   *)
(* of proc.c).  A step is a stretch of code under ftable.lock or under a   *)
(* pipe's lock.  The one place where a pipe's lock is held between two     *)
(* steps is the gap between the test of proc->killed and sleep(), which    *)
(* kill() can hit because it takes neither lock.                           *)
(***************************************************************************)
EXTENDS Naturals, Sequences, FiniteSets, FiniteSetsExt

CONSTANTS
  Procs,      \* process slots
  First,      \* the process that runs at the start
  NFILE,      \* open files of the system
  NOFILE,     \* descriptors of a process
  Pages,      \* pages kalloc() can give to pipes
  PIPESIZE,   \* bytes a pipe holds
  UINT,       \* uint counters are modulo this (2^32 in the code)
  MaxN,       \* bound: longest read or write
  Victims     \* bound: processes that are killed

ASSUME PipeAssumption ==
  /\ IsFiniteSet(Procs) /\ First \in Procs /\ Victims \subseteq Procs
  /\ 0 \notin Pages
  /\ NFILE \in Nat /\ NOFILE \in Nat /\ MaxN \in Nat
  /\ PIPESIZE \in Nat \ {0} /\ UINT \in Nat
  /\ UINT % PIPESIZE = 0 /\ UINT > PIPESIZE

Files == 1 .. NFILE
Fds == 0 .. NOFILE - 1

VARIABLES
  ofile,    \* ofile[p][d]: proc->ofile, 0 is no file
  file,     \* file[f]: ftable.file, with pipe = 0 for type FD_NONE
  pipe,     \* pipe[g]: the struct pipe in page g
  free,     \* pages that are free
  pc,       \* pc[p]: where process p is
  cur,      \* cur[p]: the pipe its call works on, or 0
  n,        \* n[p]: bytes it still has to write
  writable, \* writable[p]: ff.writable, while its call runs pipeclose
  todo,     \* todo[p]: files its call has allocated or, unless it runs
            \* exit(), has to close
  leaving,  \* leaving[p]: it runs exit()
  killed,   \* killed[p]: proc->killed
  eof,      \* history: pipes of which a read has returned 0
  unsaid    \* history: pipes a killed writer left full without a wakeup

table == << ofile, file >>
local == << cur, n, writable, todo, leaving >>
vars == << table, pipe, free, pc, local, killed, eof, unsaid >>

NoFile == [ref |-> 0, pipe |-> 0, writable |-> FALSE]
\* kfree() overwrites the page.
NoPipe == [data |-> [i \in 0 .. PIPESIZE - 1 |-> 0],
           nread |-> 0, nwrite |-> 0, readopen |-> FALSE, writeopen |-> FALSE]

Init ==
  /\ ofile = [p \in Procs |-> [d \in Fds |-> 0]]
  /\ file = [f \in Files |-> NoFile]
  /\ pipe = [g \in Pages |-> NoPipe] /\ free = Pages
  /\ pc = [p \in Procs |-> IF p = First THEN "run" ELSE "unused"]
  /\ cur = [p \in Procs |-> 0] /\ n = [p \in Procs |-> 0]
  /\ writable = [p \in Procs |-> FALSE]
  /\ todo = [p \in Procs |-> << >>] /\ leaving = [p \in Procs |-> FALSE]
  /\ killed = [p \in Procs |-> FALSE]
  /\ eof = {} /\ unsaid = {}

\* A process in user space makes a system call; trap() makes it exit if it
\* has been killed.
Calls(p) == pc[p] = "run" /\ ~ killed[p]

\* The pipe's lock is free.
Unlocked(g) == ~ \E q \in Procs : cur[q] = g /\ pc[q] \in {"rgap", "wgap"}

-----------------------------------------------------------------------------
(* file.c, and the descriptors of a process.                                *)

FreeFiles == {f \in Files : file[f].ref = 0}
FreeFds(p) == {d \in Fds : ofile[p][d] = 0}

\* The call of p, which runs exit() or not, has more files to close or is
\* over.  exit() never looks at killed again.
Ending(p, more, gone, places) ==
  /\ pc' = [places EXCEPT ![p] = IF more THEN "close"
                                 ELSE IF gone THEN "unused" ELSE "run"]
  /\ leaving' = [leaving EXCEPT ![p] = gone /\ more]
  /\ killed' = [killed EXCEPT ![p] = @ /\ ~ gone]

\* p, which does not run exit(), has the files s to close.
Close(p, s) == /\ todo' = [todo EXCEPT ![p] = s]
               /\ Ending(p, s # << >>, FALSE, pc)

sys_close(p) ==
  /\ Calls(p)
  /\ \E d \in Fds \ FreeFds(p) :
       /\ ofile' = [ofile EXCEPT ![p][d] = 0]
       /\ Close(p, << ofile[p][d] >>)
  /\ UNCHANGED << file, pipe, free, cur, n, writable, eof, unsaid >>

\* exit(), called or forced: its loop closes the descriptors in order.
exit(p) ==
  /\ pc[p] = "run"
  /\ Ending(p, FreeFds(p) # Fds, TRUE, pc)
  /\ UNCHANGED << table, pipe, free, cur, n, writable, todo, eof, unsaid >>
LowestFd(p) == Min(Fds \ FreeFds(p))

\* The file p closes next, and whether there is one after it.
Closing(p) == IF leaving[p] THEN ofile[p][LowestFd(p)] ELSE Head(todo[p])
OthersLeft(p) == IF leaving[p] THEN FreeFds(p) \cup {LowestFd(p)} # Fds
                 ELSE Tail(todo[p]) # << >>
\* Whether there is one at all.
SomeLeft(p) == IF leaving[p] THEN FreeFds(p) # Fds ELSE todo[p] # << >>

\* Mutant of Dropped: the file is closed whoever else has it open.
DroppedAlways(f) == NoFile

\* The file after a reference to it has been dropped.
Dropped(f) == IF file[f].ref > 1 THEN [file[f] EXCEPT !.ref = @ - 1]
              ELSE NoFile

\* fileclose up to the release of ftable.lock, with the assignment to ofile
\* that follows it in exit(): nobody else reads ofile.
fileclose(p) ==
  /\ pc[p] = "close"
  /\ IF leaving[p]
     THEN ofile' = [ofile EXCEPT ![p][LowestFd(p)] = 0] /\ UNCHANGED todo
     ELSE todo' = [todo EXCEPT ![p] = Tail(@)] /\ UNCHANGED ofile
  /\ LET f == Closing(p)
     IN /\ file' = [file EXCEPT ![f] = Dropped(f)]
        /\ IF Dropped(f).ref = 0 /\ file[f].pipe # 0
           THEN /\ cur' = [cur EXCEPT ![p] = file[f].pipe]
                /\ writable' = [writable EXCEPT ![p] = file[f].writable]
                /\ pc' = [pc EXCEPT ![p] = "pipeclose"]
                /\ UNCHANGED << leaving, killed >>
           ELSE /\ UNCHANGED << cur, writable >>
                /\ Ending(p, OthersLeft(p), leaving[p], pc)
  /\ UNCHANGED << pipe, free, n, eof, unsaid >>

\* fdalloc takes over the descriptor's place, then filedup counts it.
sys_dup(p) ==
  /\ Calls(p) /\ FreeFds(p) # {}
  /\ \E d \in Fds \ FreeFds(p) :
       /\ ofile' = [ofile EXCEPT ![p][Min(FreeFds(p))] = ofile[p][d]]
       /\ file' = [file EXCEPT ![ofile[p][d]].ref = @ + 1]
  /\ UNCHANGED << pipe, free, pc, local, killed, eof, unsaid >>

\* The file table after every descriptor of p has been copied.
Shared(p) == [f \in Files |-> [file[f] EXCEPT !.ref =
                @ + Cardinality({d \in Fds : ofile[p][d] = f})]]

\* fork, as far as files go.  The parent's own references keep the files
\* open while the copies are made.
fork(p, q) ==
  /\ Calls(p) /\ pc[q] = "unused"
  /\ ofile' = [ofile EXCEPT ![q] = ofile[p]]
  /\ file' = Shared(p)
  /\ pc' = [pc EXCEPT ![q] = "run"]
  /\ UNCHANGED << pipe, free, local, killed, eof, unsaid >>

-----------------------------------------------------------------------------
(* pipe.c                                                                   *)

\* The first filealloc() of pipealloc.
sys_pipe(p) ==
  /\ Calls(p) /\ FreeFiles # {}
  /\ file' = [file EXCEPT ![Min(FreeFiles)].ref = 1]
  /\ todo' = [todo EXCEPT ![p] = << Min(FreeFiles) >>]
  /\ pc' = [pc EXCEPT ![p] = "pipe1"]
  /\ UNCHANGED << ofile, pipe, free, cur, n, writable, leaving, killed, eof,
                  unsaid >>

\* The second.  If it fails the first file, which has no type, is closed.
pipealloc1(p) ==
  /\ pc[p] = "pipe1"
  /\ IF FreeFiles = {}
     THEN /\ UNCHANGED file /\ Close(p, todo[p])
     ELSE /\ file' = [file EXCEPT ![Min(FreeFiles)].ref = 1]
          /\ todo' = [todo EXCEPT ![p] = Append(@, Min(FreeFiles))]
          /\ pc' = [pc EXCEPT ![p] = "pipe2"]
          /\ UNCHANGED << leaving, killed >>
  /\ UNCHANGED << ofile, pipe, free, cur, n, writable, eof, unsaid >>

\* kalloc(), the fields, and the two fdalloc() of sys_pipe.  Pages and
\* descriptors can be short because of other files and programs.  When a
\* descriptor is missing both files are closed as any file is.
pipealloc2(p) ==
  /\ pc[p] = "pipe2"
  /\ \/ /\ UNCHANGED << ofile, file, pipe, free, eof, unsaid >>
        /\ Close(p, todo[p])
     \/ \E g \in free :
          /\ free' = free \ {g}
          /\ pipe' = [pipe EXCEPT ![g].nread = 0, ![g].nwrite = 0,
                        ![g].readopen = TRUE, ![g].writeopen = TRUE]
          /\ file' = [file EXCEPT ![todo[p][1]].pipe = g,
                        ![todo[p][2]].pipe = g, ![todo[p][2]].writable = TRUE]
          /\ eof' = eof \ {g} /\ unsaid' = unsaid \ {g}
          /\ \/ UNCHANGED ofile /\ Close(p, todo[p])
             \/ /\ Cardinality(FreeFds(p)) >= 2
                /\ LET d == Min(FreeFds(p))
                       e == Min(FreeFds(p) \ {d})
                   IN ofile' = [ofile EXCEPT ![p][d] = todo[p][1],
                                             ![p][e] = todo[p][2]]
                /\ Close(p, << >>)
  /\ UNCHANGED << cur, n, writable >>

\* wakeup(&nread) or wakeup(&nwrite) of pipe g.
Woken(g, asleep, then) ==
  [q \in Procs |-> IF cur[q] = g /\ pc[q] = asleep THEN then ELSE pc[q]]

\* The pipe s has no open end any more.
Emptied(s) == ~ s.readopen /\ ~ s.writeopen

\* Mutant of Roused: closing an end wakes nobody.
RousedNot(p) == pc

\* Who is woken when the end p closes is closed: the other side.
Roused(p) == IF writable[p] THEN Woken(cur[p], "rsleep", "read")
             ELSE Woken(cur[p], "wsleep", "write")

pipeclose(p) ==
  /\ pc[p] = "pipeclose" /\ Unlocked(cur[p])
  /\ LET s == IF writable[p] THEN [pipe[cur[p]] EXCEPT !.writeopen = FALSE]
              ELSE [pipe[cur[p]] EXCEPT !.readopen = FALSE]
     IN /\ pipe' = [pipe EXCEPT ![cur[p]] = IF Emptied(s) THEN NoPipe ELSE s]
        /\ free' = IF Emptied(s) THEN free \cup {cur[p]} ELSE free
  /\ Ending(p, SomeLeft(p), leaving[p], Roused(p))
  /\ cur' = [cur EXCEPT ![p] = 0]
  /\ writable' = [writable EXCEPT ![p] = FALSE]
  /\ UNCHANGED << table, n, todo, eof, unsaid >>

Used(g) == (pipe[g].nwrite + UINT - pipe[g].nread) % UINT

\* A process calls read or write with a descriptor for that end.
EnterPipe(p, w, place, sizes) ==
  /\ Calls(p)
  /\ \E d \in Fds \ FreeFds(p) :
       /\ file[ofile[p][d]].writable = w
       /\ cur' = [cur EXCEPT ![p] = file[ofile[p][d]].pipe]
  /\ \E k \in sizes : n' = [n EXCEPT ![p] = k]
  /\ pc' = [pc EXCEPT ![p] = place]
  /\ UNCHANGED << table, pipe, free, writable, todo, leaving, killed, eof,
                  unsaid >>
sys_read(p) == EnterPipe(p, FALSE, "read", {0})
sys_write(p) == EnterPipe(p, TRUE, "write", 1 .. MaxN)

Room(g) == PIPESIZE - Used(g)

\* The bytes a pipe carries.  No code looks at them, so it is enough that
\* the writers of a pipe number the ones they put into it one after another.
Bytes == 0 .. UINT - 1

\* Where pipewrite puts its byte and piperead finds it.
Slot(i) == i % PIPESIZE

\* The k bytes written next, and the ring with the bytes new in their slots.
NewBytes(g, k) == {(pipe[g].nwrite + i) % UINT : i \in 0 .. k - 1}
Laid(data, new) == [i \in DOMAIN data |-> IF \E b \in new : Slot(b) = i
                                          THEN CHOOSE b \in new : Slot(b) = i
                                          ELSE data[i]]

\* The pipes after k bytes have been put into g.
Filled(g, k) == [pipe EXCEPT ![g].nwrite = (@ + k) % UINT,
                             ![g].data = Laid(@, NewBytes(g, k))]

\* pipewrite, from taking the lock to the return or to the gap before sleep.
pipewrite(p) ==
  LET g == cur[p]
      k == Min({n[p], Room(g)})
      over == k = n[p]                              \* all bytes fit
      stop == ~ over /\ (~ pipe[g].readopen \/ killed[p])
  IN /\ pc[p] = "write" /\ Unlocked(g)
     /\ pipe' = Filled(g, k)
     /\ n' = [n EXCEPT ![p] = IF over \/ stop THEN 0 ELSE @ - k]
     /\ pc' = [(IF stop THEN pc ELSE Woken(g, "rsleep", "read"))
                EXCEPT ![p] = IF over \/ stop THEN "run" ELSE "wgap"]
     /\ cur' = [cur EXCEPT ![p] = IF over \/ stop THEN 0 ELSE @]
     /\ unsaid' = IF stop THEN unsaid \cup {g} ELSE unsaid
     /\ UNCHANGED << table, free, writable, todo, leaving, killed, eof >>

\* Mutant of MustWait: a reader of an empty pipe returns at once.
MustWaitNot(g) == FALSE

\* The condition of piperead's loop.
MustWait(g) == Used(g) = 0 /\ pipe[g].writeopen

\* Mutant of Freed: a read wakes nobody.
FreedNot(p) == pc

\* Who is woken after piperead has taken bytes.
Freed(p) == Woken(cur[p], "wsleep", "write")

\* piperead, likewise.  How much it may read matters only in the end.
piperead(p) ==
  LET g == cur[p]
  IN /\ pc[p] = "read" /\ Unlocked(g)
     /\ \/ /\ MustWait(g) /\ ~ killed[p]
           /\ pc' = [pc EXCEPT ![p] = "rgap"]
           /\ UNCHANGED << pipe, cur, eof >>
        \/ /\ MustWait(g) /\ killed[p]
           /\ pc' = [pc EXCEPT ![p] = "run"]
           /\ cur' = [cur EXCEPT ![p] = 0]
           /\ UNCHANGED << pipe, eof >>
        \/ /\ ~ MustWait(g)
           /\ \E m \in 1 .. MaxN : LET k == Min({m, Used(g)}) IN
                pipe' = [pipe EXCEPT ![g].nread = (@ + k) % UINT]
           /\ eof' = IF Used(g) = 0 THEN eof \cup {g} ELSE eof
           /\ pc' = [Freed(p) EXCEPT ![p] = "run"]
           /\ cur' = [cur EXCEPT ![p] = 0]
     /\ UNCHANGED << table, free, n, writable, todo, leaving, killed, unsaid >>

\* sleep(): the state changes and the pipe's lock is released.
sleep(p) ==
  /\ pc[p] \in {"rgap", "wgap"}
  /\ pc' = [pc EXCEPT ![p] = IF @ = "rgap" THEN "rsleep" ELSE "wsleep"]
  /\ UNCHANGED << table, pipe, free, local, killed, eof, unsaid >>

\* kill() of a process that reads or writes.  No other code tests the flag
\* before the process is back at trap(), so elsewhere it acts like exit().
InPipe == {"read", "rgap", "rsleep", "write", "wgap", "wsleep"}
kill(p) ==
  /\ p \in Victims /\ pc[p] \in InPipe /\ ~ killed[p]
  /\ killed' = [killed EXCEPT ![p] = TRUE]
  /\ pc' = [pc EXCEPT ![p] = IF @ = "rsleep" THEN "read"
                             ELSE IF @ = "wsleep" THEN "write" ELSE @]
  /\ UNCHANGED << table, pipe, free, local, eof, unsaid >>

\* What a process does in the kernel by itself.
Kernel(p) == \/ fileclose(p) \/ pipealloc1(p) \/ pipealloc2(p) \/ pipeclose(p)
             \/ pipewrite(p) \/ piperead(p) \/ sleep(p)

Next == \E p \in Procs :
          \/ Kernel(p) \/ sys_close(p) \/ sys_dup(p) \/ sys_pipe(p)
          \/ sys_read(p) \/ sys_write(p) \/ exit(p) \/ kill(p)
          \/ \E q \in Procs : fork(p, q)

\* Every process that can run in the kernel is run.
Spec == Init /\ [][Next]_vars /\ \A p \in Procs : WF_vars(Kernel(p))

-----------------------------------------------------------------------------
(* Properties.                                                              *)

Places == {"unused", "run", "pipe1", "pipe2", "close", "pipeclose", "read",
           "rgap", "rsleep", "write", "wgap", "wsleep"}

TypeOK ==
  /\ ofile \in [Procs -> [Fds -> Files \cup {0}]]
  /\ file \in [Files -> [ref : Nat, pipe : Pages \cup {0},
                         writable : BOOLEAN]]
  /\ pipe \in [Pages -> [data : [0 .. PIPESIZE - 1 -> Bytes],
                         nread : Bytes, nwrite : Bytes,
                         readopen : BOOLEAN, writeopen : BOOLEAN]]
  /\ free \subseteq Pages /\ pc \in [Procs -> Places]
  /\ cur \in [Procs -> Pages \cup {0}] /\ n \in [Procs -> 0 .. MaxN]
  /\ writable \in [Procs -> BOOLEAN] /\ todo \in [Procs -> Seq(Files)]
  /\ leaving \in [Procs -> BOOLEAN] /\ killed \in [Procs -> BOOLEAN]

\* Descriptors for a file, and processes whose call has it on its list.
Descriptors(f) == {h \in Procs \X Fds : ofile[h[1]][h[2]] = f}
Pending(f) == {p \in Procs : \E i \in 1 .. Len(todo[p]) : todo[p][i] = f}

\* A file is counted exactly as often as descriptors and running calls refer
\* to it, and an end of a pipe is open exactly as long as a counted file
\* stands for it or a call is about to close it; so a page is given back
\* once, and nobody reads, writes or sleeps on a page that was given back.
PipeLives ==
  /\ TypeOK
  /\ \A f \in Files : 
       file[f].ref = Cardinality(Descriptors(f)) + Cardinality(Pending(f))
  /\ \A g \in Pages : \A w \in BOOLEAN :
       (IF w THEN pipe[g].writeopen ELSE pipe[g].readopen) <=>
         Cardinality({f \in Files : file[f].pipe = g /\ file[f].writable = w})
         + Cardinality({p \in Procs : pc[p] = "pipeclose" /\ cur[p] = g
                                      /\ writable[p] = w}) = 1
  /\ \A g \in Pages : g \in free <=> ~ pipe[g].readopen /\ ~ pipe[g].writeopen
  /\ \A p \in Procs : cur[p] # 0 => cur[p] \notin free

\* A sleeping writer's pipe is full and can still be read; a sleeping
\* reader's pipe is empty and can still be written to, or a killed writer
\* filled it and left (pipe.c returns there without waking the readers).
NoLostWakeup ==
  \A p \in Procs :
    /\ pc[p] = "wsleep" => Room(cur[p]) = 0 /\ pipe[cur[p]].readopen
    /\ pc[p] = "rsleep" => \/ Used(cur[p]) = 0 /\ pipe[cur[p]].writeopen
                           \/ cur[p] \in unsaid

Waiting(g) == [i \in 1 .. Used(g) |->
                 pipe[g].data[(pipe[g].nread + i - 1) % PIPESIZE]]

Queue == [g \in Pages |-> IF g \in free THEN << >> ELSE Waiting(g)]
Ends == [g \in Pages |-> (IF pipe[g].readopen THEN {"r"} ELSE {})
                     \cup (IF pipe[g].writeopen THEN {"w"} ELSE {})]
Ended == [g \in Pages |-> g \in eof]

Abstract == INSTANCE BytePipe
  WITH Pipes <- Pages, Capacity <- PIPESIZE, Values <- Bytes,
       queue <- Queue, ends <- Ends, eof <- Ended

\* The ring buffer with its wrapping counters, its locks and its sleepers
\* implements a byte stream.
ImplementsBytePipe == Abstract!Spec

\* A process that reads from or writes to a pipe whose other end has been
\* closed comes back: with what is left, the end of the file or an error.
Abandoned(p) ==
  \/ pc[p] \in {"read", "rgap", "rsleep"} /\ ~ pipe[cur[p]].writeopen
  \/ pc[p] \in {"write", "wgap", "wsleep"} /\ ~ pipe[cur[p]].readopen
ClosedEndReleases == \A p \in Procs : Abandoned(p) ~> pc[p] = "run"
=============================================================================
