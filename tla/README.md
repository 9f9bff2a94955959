# A TLA+ model of the CS537 operating-systems projects

The repository holds the five projects of a course: programs for Linux (a
sort, a shell, an allocator, a web server, a file server) and five copies of
the xv6 teaching kernel, each with one extension. This directory models the
parts in which something concurrent, failing or order-dependent happens,
checks them with TLC on small instances and proves the most important facts
with TLAPS for every size. What the five kernels share is modelled once, from
one of the copies; `PROJECT.json` names the file and the lines of every definition.

## 1. Inventory

| Part | State | Operations | What is hard |
|---|---|---|---|
| P4 web server, request buffer (`web_server/server.c`) | array heap, its size | `enqueue`, `dequeue`, `isFull`, `isEmpty` | sift loops at the boundary of the array |
| P4 web server, threads (`server.c`, `request.c`) | lock, two conditions, buffer, FIFO counter, descriptors, CGI children | master loop, worker loop, request handling | lost wakeups, tests made before an unlock, descriptors with two owners, `exit` in a helper |
| P4 xv6 threads (`kernel/proc.c`, `vm.c`, `trap.c`, `exec.c`) | process table, page directories | `fork`, `clone`, `wait`, `join`, `exit`, `kill`, `growproc`, `exec`, `sleep`, `wakeup`, `scheduler` | shared page directories, exits against waits, kills against sleeps, sizes told late |
| P4 xv6 condition variables (`user/ulib.c`, `sysproc.c`) | lock word, tickets, sleepers | `lock_*`, `cv_wait`, `cv_signal`, `condsleep`, `condwakeup` | the gap between unlock and sleep |
| P5 file server (`linux/server.c`) | disk image: checkpoint, imap, inodes, blocks | create, unlink, write, read, stat, lookup, shutdown | kills between writes, where the next entry goes |
| P5 client library (`linux/mfs.c`, `udp.c`) | one outstanding call | `MFS_*` | loss, timeouts, answers that come late |
| xv6 buffer cache, disk driver (`bio.c`, `ide.c`) | LRU list, request queue | `bget`, `bread`, `bwrite`, `brelse`, `iderw`, `ideintr` | looking again after a sleep, one wakeup for two loops, reads that fail |
| xv6 pipes, open files (`pipe.c`, `file.c`, `sysfile.c`) | ring buffer, reference counts, descriptors | `pipe`, `read`, `write`, `dup`, `close`, `fork`, `exit`, `kill` | two ends that sleep on each other, the last close, counters that wrap |
| xv6 inodes and their system calls (`fs.c`, `sysfile.c`) | inodes on disk and in the cache, directories | `namex`, `iget`, `iput`, `dirlink`, `open`, `create`, `mkdir`, `link`, `unlink`, `chdir`, `close` | an inode removed while a path leads through it, order of locks, `..` |
| P5 checksummed files (`xv6/kernel/fs.c`) | checksums in block addresses | `readi`, `writei`, `stati` | checksums kept in memory only, calls of different sizes |
| P3 allocator `mem.c` | two lists through the headers of a region | `Mem_Init`, `Mem_Alloc`, `Mem_Free`, `coalesce` | headers that merge, the ends of the lists |
| P3 xv6 address space (`proc.c`, `vm.c`, `trap.c`, `exec.c`) | heap below, stack above | `sbrk`, page faults, `exec`, `fork` | the two meet; steps that fail halfway |
| P2 lottery scheduler (`proc.c`) | queue and tickets of each process | `scheduler`, `fork`, `yield`, `settickets` | unsigned sums; nothing raises a process to the high queue again |
| P2 shell `mysh.c` | descriptors, children | run a line | `wait(NULL)` reaps whom it finds; descriptors after a failed redirection |
| xv6 console input (`console.c`) | ring with three indices | `consoleintr`, `consoleread` | editing across the wrap, a full ring, end of file |
| xv6 spin locks, interrupts, context switches (`spinlock.c`, `proc.c`, `trap.c`) | locks, interrupt flag and `ncli`, `intena` of each CPU | `acquire`, `release`, `sched`, `yield`, `sleep`, `wakeup`, the timer | a flag of the CPU that belongs to the process; order of locks against an interrupt |
| xv6 blocks of files (`fs.c`) | bitmap, addresses in inodes and indirect blocks | `balloc`, `bfree`, `bmap`, `writei`, `itrunc` | a block freed by one process while another allocates |
| P4 xv6 `malloc` and thread stacks (`umalloc.c`) | ring of free blocks | `malloc`, `free`, `morecore`, `thread_create`, `thread_join` | joining neighbours; a stack that is not the block |
| xv6 pages of memory (`kalloc.c`, `vm.c`, `exec.c`, `proc.c`) | free list, page directories and tables, kernel stacks | `kalloc`, `kfree`, `setupkvm`, `allocuvm`, `deallocuvm`, `copyuvm`, `freevm` within `fork`, `exec`, `sbrk`, `exit`, `wait` | memory that runs out between two pages of a call, because another call took them |
| xv6 shell (`user/sh.c`, `init.c`, `cat.c`) | the tree of a line; descriptors, pipes and children of each process | `parsecmd`, `runcmd`, `fork1`, `main` | ends of pipes left open, forks that fail in the middle of a line, whose end a `wait` returns |
| xv6 `mkfs` (`tools/mkfs.c`) | inodes, next free block, bitmap | `add_dir`, `ialloc`, `iappend`, `balloc` | sizes at the boundary of a block, indirect blocks, counts that must agree |
| P1 fastsort, P1 `getsyscallinfo` | array; a counter | sort; one system call | not modelled, see section 6 |
| xv6 console output, boot, other user programs | | | device code, or programs that only use the above; see section 6 |

How they meet: web server threads share the heap under `cLock`; HeapQueue is
shown to implement PriorityQueue and WebServer uses the latter. `ulib.c`'s
condition variables sleep and wake in the kernel of Proc; CondVar models both
halves for the threads of `race.c`. The client library and the file server
exchange datagrams, and Mfs composes both with the image operations of Lfs.
Bio is the cache and the driver below it in one module, with the drive; Pipe
joins the file table, the pipes and the processes that share descriptors. Fs
uses blocks through what BlockStore promises: between `bread` and `brelse`
nobody else changes them; Blocks does so one layer below. Spinlock justifies what the
other kernel modules take for granted: that code under `ptable.lock` is one step.
Sh sees the kernel as its programs do, through what Pipe promises of pipes and
Proc of children; Pages is what lies below the directories of Proc and AddressSpace,
and Mkfs makes the disk on which Fs and Blocks begin.

## 2. Modules

| Module | Models | Uses |
|---|---|---|
| `PriorityQueue` | what the request buffer promises | |
| `HeapQueue` | the array heap, one step per loop iteration | refines PriorityQueue |
| `WebServer` | master, workers, clients, CGI children | a bounded set in the role of the queue |
| `CondVar` | `ulib.c`'s lock and condition variables, `condsleep`, `condwakeup`, `race.c` | |
| `Proc` | the process table, page directories, threads, kills, panics | |
| `Lfs` | the file server's image and its operations, as operators | |
| `Mfs` | library, server loop, UDP, kill and restart | extends Lfs |
| `BlockStore` | what `bio.c` promises | |
| `Bio` | `bio.c` and `ide.c`, processes and drive | refines BlockStore |
| `BytePipe` | what `pipe`, `read` and `write` promise | |
| `Pipe` | `pipe.c`, `file.c`, descriptors, `fork`, `exit`, `kill` | refines BytePipe |
| `Fs` | inodes, directories, path names and the calls on them | |
| `Arena` | what an allocator promises | |
| `MemAlloc` | `mem.c` | refines Arena |
| `AddressSpace` | P3's heap and growing stack | |
| `Lottery` | P2's scheduler | |
| `Checked` | P5's checksummed files | |
| `Shell` | `mysh.c` | |
| `Console` | `consoleintr`, `consoleread` | |
| `Spinlock` | spin locks, interrupts, `scheduler`, `sched`, `sleep` | |
| `UMalloc` | `umalloc.c` | |
| `Blocks` | bitmap, `bmap`, `writei`, `itrunc` | |
| `Pages` | pages of memory, from `kalloc` to `exec` | |
| `ShParse` | the parser of `sh.c`, and its language | |
| `Sh` | `runcmd`, `main` of `sh.c`, programs in pipelines | extends ShParse |
| `Mkfs` | `mkfs.c` | |
| `MC*` | instances: symmetry sets, requests, calls, trees | `MCParts` joins eleven modules, `MCUser` the last four |
| `*Proofs` | theorems | extend the module they are about; `BufferProofs` is about HeapQueue and CondVar, `KernelProofs` is about Spinlock, AddressSpace, Console, Blocks, Lottery, Shell and Checked |

**HeapQueue.** `connPool`, `size` are the fields of `struct queue`, `index` the
loop variable, `pc` says which loop runs. Cells never written hold `Dummy`.

**WebServer.** A step is what a thread does between two points at which
another can intervene: lock, unlock, wait, signal, system calls. `pc` names the
place. The `while` around each `cond_wait` is re-tested by `AfterLock`, and
returns of `cond_wait` may be spurious. Any error path that ends in `exit(0)`
clears `up`. A CGI child inherits all open descriptors (`kids`).

**CondVar.** Every statement of `cv_wait` is a step, because the thread can be
switched out between any two. Tickets of the two conditions are plain numbers
in one name space, as in `condwakeup`. `zeroed` collects the user addresses to
which `sys_condsleep` stores 0. `stmt` is the statement a thread is at.

**Proc.** A step is a stretch of code under `ptable.lock`. `kpc` says where in
the kernel a process is: half-way through `fork`/`clone` with slot `np`, in the
loop of `wait`/`join`, in `growproc` between the change of the mapping and of
the threads' `sz`, before or after the sleep of `sys_sleep`/`condsleep`. Memory
is the set of mapped pages of each directory. `Calls` selects what programs do
in an instance: the everyday uses, and separately the uses the thread library
never makes (a thread that forks, a process that leaves its threads behind, a
kill of a stale pid, an allocation that fails).

**Lfs.** All structures but the checkpoint are multiples of 64 bytes, so the
log is a sequence of 64-byte units: imap pieces, inodes, directory entries and
parts of data blocks. An operation yields its reply and the sequence of its
`write()` calls. Reads are modelled where they miss: a read past the end of the
file leaves the buffer as it was (`ImapTemp`), a failed `lseek` lets a lookup
run on behind its directory (`ScanFrom`). The server's memory is reloaded at
each operation and is no state of its own. File contents are abstract values.

**Mfs.** `reqs` and `reps` are datagrams under way, in no order. `Handle` is one
round of the server's loop; `Crash` is a kill after any number of the handler's
writes (the operating system survives, so completed writes do); `Restart` opens
the image again. `Resend` is the five-second timeout when the datagram is gone,
`ResendLate` the same while it is only slow. `made`, `unlinked` and `wrote`
remember what the library reported.

**Bio.** A step is a stretch of code under `bcache.lock` or `idelock`, or what a
process does with a buffer it holds. `sleep(b, lock)` gives up the lock in the
same step; `wakeup(b)` wakes the sleepers of `bget` and of `iderw` alike, since
both sleep on the buffer's address, and a kill wakes them too. The drive
finishes the first request of the queue at some time (`DriveDone`), then the
interrupt comes. A read that fails leaves the buffer valid with what it held.
`Nest` says which blocks a program reads while it holds another (an inode's
block and its data, the indirect block and what it names), so that the model
has the orders of acquisition the callers in `fs.c` use and no others.
BlockStore is refined with `store` as the holder's view: the buffer if the sector
is cached and valid, otherwise the disk.

**Pipe.** A step is a stretch under `ftable.lock` or a pipe's lock; the gap
between the test of `proc->killed` and `sleep()` is a place of its own (`rgap`,
`wgap`), since `kill()` takes neither lock. `nread` and `nwrite` are modulo
`UINT`, a multiple of `PIPESIZE` as 2^32 is of 512. `exit()` closes its descriptors
one after the other, each in a step of its own. BytePipe is refined with the
queue read out of the ring between the counters; a byte is a bit.

**Fs.** A step goes from one `ilock()` or use of `icache.lock` to the next. `disk` and
`mem` are the inodes on disk and in the cache, `ref` and the lock belong to the
cache; `iupdate` copies one to the other in the step that calls it. A path is
a sequence of names and `namex` one step per element. A `create` of a new file is three
steps: up to the write of the type by `ialloc`, with the directory locked; the `iget` at the end of
`ialloc` (`inum` is the number in between, which no count includes); and the rest, with the new inode
locked. `strayed` remembers that a path went through `..` to a directory
without a name. A panic stops everything.

**MemAlloc, Arena.** Addresses are numbers, `hdr` the headers in place; reading
an address without a header would be an error of the model and TLC would stop. Calls are
steps, but `coalesce` does one turn of its loop at a time (`here` is its `curr`). Arena is refined by
the chunks of `memList`.

**AddressSpace, Lottery, Checked.** One step per system call or page fault; each
is made under a lock or by the only process concerned. `Lottery` has the draw as the
code computes it, modulo 2^32 scaled to `UINT`. `Checked` distinguishes the inode
in memory from the one on disk because `writei` calls `iupdate` only when the
file grows, and lets bytes on disk go bad.

**Shell.** A step of the shell is a line up to the next `wait()` or prompt;
children end at any time. `out`, `copies` and `saved` are descriptor 1, the copies
made by `dup`, and `d` of `runCommand`. `errno` is modelled because the
command `wait` reads it.

**Console.** A step is a key, or what `consoleread` does before it returns or sleeps.
`lines` and `edit` remember what was typed, independently of the ring.

**Spinlock.** Each process, and the scheduler of each CPU, has a stack of labels:
where it is and, below, where an interrupt found it. `acquire` is `pushcli` and then
a spin; `release` with its `popcli` is one step, since the CPU is deaf until its
end. `owner` joins `lk->locked` and `lk->cpu`. Processes call `sys_sleep(1)`; the
timer of the first CPU counts ticks and wakes, that of each CPU preempts. `kept`
is the local variable of `sched()` that carries `intena` to the next CPU.

**UMalloc.** Addresses count in headers, `base` is at 0. A call is a step; `Ring` is the
list once around, from which the two loops of the code take the first block that
satisfies their condition. Sums of bytes wrap at `WORD`, and so does the product that `morecore`
gives to `sbrk`, which takes it for an int (`SbrkArg`). A `malloc` returns a block (`Returns`), fails
with its `sbrk` (`Fails`), or believes an `sbrk` that has left or shrunk the heap (`Ruins`), after
which nothing is modelled (`ruined`). `thread_create` does not test what `malloc` returned: `OnText` is
a thread whose stack is page 0. `SbrkAssumption` says that the stack's size is positive as an int.

**Blocks.** A process holds the lock of its inode for the whole call; a step is what
it does with one bitmap block or one block of data. A block is a row of words
so that data read as addresses would be noticed. `daddrs` and `dlen` are the inode on disk.

**Pages.** A step is one `kalloc()` or one `kfree()`; a call that frees several pages
has them in `todo`, and `dir` is the directory that `fork` or `exec` builds. Pages are
counted, not read: a directory is a function from places to pages, with the user's pages first, then
the page tables, then itself (`TOP`), which is the order of `freevm()`; the kernel stack has the place `KSTACK`. Only the
part below `USERTOP` and the tables of the kernel's own mapping exist; there is more than
one table, and the first is shared by user and kernel addresses, as in `mmu.h`.
`wait()` frees under `ptable.lock` and excludes the calls that need it (`Locked`).
`lost` collects what `setupkvm` forgets.

**ShParse, Sh.** `gettoken` is taken as done: a line is a sequence of tokens. The parser
is a set of recursive operators named after the functions; `Line` is the language as
sets of sequences, written without a parser. In Sh a process knows its place in
the tree of its line, and `Wired` computes from the tree which files that place should
have, while the processes get theirs by `close` and `dup`. A process's step ends
where another can see it: a fork, a pipe, a wait, a read or a write. Files and the
console have one piece of input.

**Mkfs.** A step is one `iappend` of at most a block, or one entry of the host's
directory read by `add_dir`; `work` is what add_dir has still to append before it reads on.

## 3. Runs

| Run | Instance | Shows |
|---|---|---|
| `web_safety` | 2 workers, 3 connections, 2 buffers, FIFO and SFF, clients that hang up or send half a request, files that vanish, 1 spurious wakeup | the buffer is touched under the lock and within its bounds, one owner per connection and FIFO order, no lost wakeup, no `wait` without a child |
| `web_liveness` | 2 workers, 2 connections, 1 buffer, SFNF | every accepted connection is answered and closed |
| `proc_threads` | 4 slots, 2 CPUs, 3 directories, 2 pages | address spaces freed once and last and none lost, sizes agree, no panic, `wait` and `join` reap their own kind |
| `proc_rough` | the same with uses the library does not make | slots, parents and waits stay sound |
| `proc_killed` | 3 slots, 2 CPUs, kills of any pid, forks that run out of memory | a slot is killed only by a pid it has had since it was last reaped; whoever is killed exits |
| `mfs` | 1 client, 4 calls, 1 fault; 3 imap places of 2 inodes, inodes of 2 blocks, blocks of 3 entries | entries and log sound, retries do nothing twice, acknowledged work survives, one datagram per call, calls return |
| `mfs_unlink` (violation) | no faults, 6 calls | a creation after an unlink overwrites a live entry |
| `bio` | 2 processes, 2 buffers, 3 sectors, 1 write, 1 read error | one buffer per sector and one holder, every sleeper has somebody who will wake it, refinement of BlockStore, requests to the driver end |
| `pipe` | 2 processes, 2 files, 2 descriptors each, a page, a ring of 2, counters modulo 4, one victim | references counted right and pages given back once, no lost wakeup, refinement of BytePipe, a closed end releases the other |
| `fs` | 2 processes, 5 inodes, 4 calls out of 10 | the cache agrees with its users and the disk; until `..` strays no inode freed under its user, links and entries agree, no panic but for want of inodes; calls return |
| `parts` | eleven parts, see below | `HeapSound`, refinement of PriorityQueue; `AllocSound`, refinement of Arena; `HeapStackApart`; `DrawsRight`; `ChecksExplained`; `ShellExplained`; `ConsoleSound`; `SpinSound`; `MallocSound`; `BlocksSound`; `BufferGuarded` |
| `user` | lines of up to 5 tokens and 8 longer ones, 4 process slots besides the shell's, pipes of 1; 12 pages, 3 processes; trees of up to 4 files and directories below the root | `ParsesTheLanguage`; `LinesRun`, `LineEnds`; `PagesSound`; `ImageReady` |

*Why one run for eleven parts.* They share no state with each other or with
anything else; `MCParts` chooses one of them in the initial state and the
others stay as they begin, so the run is the sum of the eleven and not their product.
`MCUser` does the same for parser, shell, pages and mkfs.

*Why the bounds are enough to be interesting.* Three connections fill two
buffers and keep one waiting; one buffer makes master and workers wait in turn.
Four slots hold init, a process, its thread and one more child, with both CPUs
in the kernel. With two inodes per imap piece and three entries per block, the
second creation starts a new piece, and a new block of the root, so
every branch of `sCreate` and `cInode` happens within four calls. Three sectors in two
buffers force eviction, two processes with nested reads fill
the cache, and a sector can be recycled for another while somebody sleeps on it.
A ring of two with calls of two bytes meets full, empty and the wrap; two
files and two descriptors make every table run out. The calls of `fs` were chosen
to meet in the same two directories, one file and the last free inode: a removal
races a path through the removed directory, two creations
race for one name, and with four calls a path through `..` of a removed directory reaches the inode
that a creation has just allocated in place of its parent. In `parts`: a heap of three levels with a node of one
child; a region in which three chunks can merge and requests that leave too
little to split; six pages in which stack and heap meet; tickets whose sum
wraps; a direct and an indirect block; three children and two copies of a
descriptor; a ring of three characters under two readers; two CPUs, both preempting, over two
processes; a user heap that grows twice, with stacks at aligned and at odd addresses; a disk of three data
blocks in two bitmap blocks, less than one file may need; a producer and two
consumers on a buffer of one, with three tickets for each condition (the theorem covers any number of both). In `user`: every sequence of
five tokens, which has blocks, pipes, lists and redirections inside each other; two lines
one after the other, the first of which may leave processes in the background,
with too few slots for both; seven pages for two children that need five each before they
grow; files and directories that end inside a block, at its end, in the indirect block
and, once, beyond it.
Each mutant listed in `PROJECT.json` is found under the bounds of its run. Where
deadlock checking is off, the system may really stop: no client comes any more,
every process sleeps, the calls are used up.

*Fairness.* `web_liveness`: weak fairness of each thread's steps (preemptive
scheduling), of each lock acquisition, and of children ending; clients that
read their answers. `proc_killed`: strong fairness of scheduling each
slot (the scan of `scheduler()` reaches every runnable slot again and again)
and of what a process does in the kernel (it may be preempted, but not each
time before its next statement), weak fairness of the timer's preemption and of
the clock tick; nothing is assumed of the programs. `mfs`: the server's loop, the restart
of a server that is down, the library's timeout and its receipt of a datagram
that has come; losses are finite because the bound is. In Mfs weak fairness of `Handle` is
written out with its enabling condition. `bio`: weak fairness of each process's
steps in the kernel, of the interrupt and of the drive finishing what it was given;
`IoEnds` is about requests the driver has, since a process in `bget` can be
overtaken without end. `pipe` and `fs`: weak fairness of each process's steps
inside a call; nobody has to make calls, and the other end of a pipe
may never read or write, so `ClosedEndReleases` speaks of closed ends only. `user`: weak fairness of
each process of the shell and of init starting another shell; nobody has to type.

## 4. Proofs

* `BufferProofs`, the heap (`HeapSoundHolds`, `QueueIsImplemented`): types and the heap order are inductive. The
  order is the loop invariant: it fails at most at `index`, and the children of
  `index` are in order with its parent. That the root is least follows from it by a
  minimal counterexample. That makes a dequeue a `Take` of PriorityQueue; that each descriptor is in
  one cell only (`Distinct`), whatever a loop has moved, makes the set of requests lose exactly
  the one returned, and the steps of the loops stutter. Assumes integer priorities,
  at least one buffer and that -1 is no descriptor, since `Accept` exits on it.
  The other buffer, of `race.c` (`BufferGuardedHolds` from `LockDisciplineHolds` and
  `BufferBoundsHold`, `TicketsAheadHolds`):
  lock discipline, the buffer's bounds (they rest on the lock
  and the re-test, on no wakeup) and the ticket order, for any number of threads.
* `WebServerProofs` (`BufferSafeHolds`, `NoLostWakeupHolds`, `ServedInOrderHolds`): `IInv` joins types,
  exclusion, the buffer bound with the
  fact that only the master fills the buffer (so its stale test stays true), no
  dequeue of an empty buffer and the wakeup conditions. The last says that
  all workers sleep over a buffered request, or the master over a free buffer,
  only while the thread that changed that is about to signal. `OInv` is for `ServedInOrder`:
  `OneOwner` is inductive as it stands; the FIFO order needs that buffered tickets are distinct
  and that the one the master is about to buffer is the greatest (`FifoInv`); the count of
  children needs that a connection with a child has been handled, so that it is
  never forked for again although `Wait` may have reaped another's child (`KidsInv`).
* `ProcProofs` (`TypeOKHolds`, `SlotsDistinctHolds`, `ParentAliveHolds`,
  `NoMissedExitHolds`, together `TableSoundHolds`): `IInv` strengthens the four table invariants with `PidsBelow`
  (pids in use are below `nextpid`), `InitAlive` and `SleepsOnSelf` (a process in
  `wait` sleeps on its own slot), for any numbers of slots, CPUs, directories,
  pages, and for every selection of calls. `KilledByOwnPidHolds`, also for every selection of calls:
  `had` collects the pids of a slot since it was last reaped, and the pid of a slot, 0 included, is always in
  it. Further, with hypotheses the statements name:
  * `MemorySoundHolds`, `ReapsItsOwnHolds`: programs use threads as the library does
    (`Disciplined`: threads neither fork, clone nor grow, are joined before their process
    exits, and nothing is killed, as a kill would end a process before its threads).
    `MInv` adds that two slots have one page directory exactly if they have one
    owner (`Sharing`), that a thread's parent is a living process and no thread
    (`Kinship`), what the calls under way keep (`Busy`), and where sizes
    agree (`Sizes`).
* `MfsProofs` (`OneDatagramHolds`): `OneDatagram`, with the types of the clients' variables, is
  inductive, for any number of clients, calls and faults and whatever the server
  does with its image: as long as no datagram outlives a timeout a client has one
  datagram under way, for its own call, and none between calls.

* `BioProofs` (`BuffersAreSound`, `StoreIsImplemented`): for any numbers of processes,
  buffers and sectors and any nesting of reads. `BuffersSound` alone is not
  inductive. `IInv` adds what each place in `bget` and `iderw` means for the buffer at
  the top of the process's stack (`PlacesRight`), that a request in the queue is of
  one process in `iderw` and unfinished (`QueueRight`), that the drive works at the
  first request with the data of its buffer (`DriveRight`), that a buffer is dirty only
  while its holder is in the driver (`DirtyHeld`) and that a clean buffer equals its
  sector (`CleanIsDisk`). The last two make the refinement of BlockStore go through: an
  eviction loses nothing and a read brings back what was written. Assumes that every sector has
  contents and that there is a buffer.
* `KernelProofs`, about seven modules that run alone:
  * `SpinlocksAreSound`: `SpInv` says for each label which locks the CPU has, what
    `ncli` is, whether interrupts are on and what `popcli` will make of `intena` (`CpuRight`), that a
    process no CPU runs waits in `swtch`, and with which `intena` it was saved
    (`TaskRight`). For any number of CPUs and processes.
  * `HeapAndStackStayApart`: the property with page alignment, for every size of a page and of a user
    space of at least two pages, every sequence of `sbrk`, faults, `exec` and `fork`.
  * `ConsoleIsSound`: the indices `r`, `w`, `e` count modulo `INDEX`, a multiple of
    `INPUT_BUF` as 2^32 is of 128; the invariant relates their differences, the ring and the
    history of what was typed.
  * `BlocksAreSound`: `BkInv` is, until `balloc` goes past the end of the disk: one process per locked
    inode (`Single`); no two places in use name one block (`Apart`); the bits set are
    those of blocks in use (`BitsRight`); a free block is zero (`FreeZero`), which makes a new
    indirect block name nothing; a file nobody works on is written and on disk (`FileRight`); and how far
    `writei`, `itrunc` and `bfree` have come (`WorkRight`): between the zeroing of a block and
    the clearing of its bit the place is still in use and nobody else reaches the block.
    For any numbers of processes, files, blocks, bits of a bitmap block and addresses in an inode.
  * `DrawsAreRight`: the invariant is `OneEach`, a process on one CPU exactly if it runs. The rest is
    about one pass of the loop: `counter` is a recursive function, so that it exists and what it
    is at every slot is shown by a slot of least number where it fails (`SumsExist`, `CounterIs`,
    `CounterBound`, `LastOne`). The first slot whose sum is beyond the ticket is in the pool, and
    the only one at which the loop stops (`OneWins`); if the sums of the pool never fall, the sum before a
    process is that of its predecessor in the pool, and its tickets are those between the two
    (`DrawsAreFair`). For any number of processes and CPUs and any modulus above the number of
    tickets one process may have.
  * `ShellIsExplained`: the invariant counts the children, those that run and those that ended unnoticed
    (`KidsRight`), says that what was copied from standard output is kept until it is restored
    (`CopiesRight`), and that `errno` is `ECHILD` only after a command wait has met the end of the
    children, which a later one finds only if `fgetpos()` succeeded in between (`ErrnoRight`).
    For any finite number of children and any number of descriptors.
  * `ChecksAreExplained`: a checksum that was not lost with the inode in memory is that of the bytes it was made
    from but for those that went bad (`SumRight`), the inode on the disk has it too unless the block was
    written since (`DiskRight`), and beyond the end of the file there is nothing (`BlankRight`). A byte
    that goes bad changes the sum and the count of bad bytes together (`FlipRight`); that the checksums of
    all blocks put together are the checksum of the file goes block by block (`OneBlockMore`, `SumsOfAll`).
    For any sizes of blocks and of inodes.
* `PipeProofs` (`PipesLive`, `NoWakeupLost`, `RingIsAByteStream`): for finitely many processes
  and any numbers of files, descriptors and pages, none of which is 0, and every `PIPESIZE` that divides the
  modulus of the counters and is smaller. `IInv` adds to the counts of references (`FilesRight`):
  the files `pipe()` has allocated and not yet installed are counted once, by nobody else
  (`ListsRight`); a process inside `piperead` or `pipewrite` has the file it
  came through open (`HasOpen` in `PlacesRight`), which is why its page is not freed under it; each end
  has at most one file or one closer (`EndsRight`), and a page is free exactly when both ends are shut
  (`PagesRight`); the ring never holds more than `PIPESIZE` (`RingsRight`). What
  `NoLostWakeup` says of sleepers is already true of a process in the gap before its
  `sleep()` (`WaitsRight`), since it holds the pipe's lock there. The refinement of BytePipe
  reads the queue out of the ring across the wrap of the counters.
* `MemAllocProofs` (`AllocHolds`, `ArenaImplemented`, `MallocIsSound`, `PagesAreSound`). P3's allocator: for every region, page, header and set of
  sizes. A list is described by a sequence without repetition whose elements are linked to
  their neighbours (`Linked`); putting before, taking out and appending give the sequence that follows
  (`ListPush`, `ListUnlink`, `PassingAppend`), and the walk of the code computes it (`ChainIs`, by a
  least place where they differ), so that the searches are right (`FirstFitIs`, `SearchIs`).
  `MemInv` says that the chunks tile the region (`Tiles`) and that the lists have what they
  should between calls. Within `coalesce()` it says how far the free list has come (`Rebuilt`): the free
  chunks passed are linked, the way forward of the last one being open, and only that
  one may end where the next chunk begins, which is so exactly if `immediate` is set. Splitting
  and joining change no block in use, which makes the refinement of Arena go through. Assumes
  a header smaller than a page and sizes greater than 0.
  P4's `malloc` (`MallocIsSound`): for any sizes of header, page, word and heap. `UmInv` says that the free blocks
  form one ring in the order of their addresses (`RingOf`: the successor of a block is the next
  free one, that of the last is `base`), that they and the blocks in use fill the heap (`Fills`) and
  that no two free ones touch (`NoneJoin`). Such a ring comes back to where a walk starts, by the
  pigeonhole principle, and passes every free block (`WalkAll`, `OnRingIs`); so `free` finds the place
  of its block (`WhereIs`) and `malloc` a block if there is one (`FoundOnRing`). Between the two joins of
  `free` the new block touches only what is before it (`JoinUpKeeps`, `JoinDownKeeps`). Assumes that a stack and
  its header are less than a word counts and positive as an int (`SbrkAssumption`). `MallocSound` is said up to
  the first step that sets `ruined`.
  The kernel's pages (`PagesAreSound`): for any memory, page size, number of tables, processes, programs and arguments
  of `sbrk`. `PgInv` says that a page is free, lost or at one spot (`Once`; a spot is a process, one of its
  three holders and a place); `Takes`, `Gives`, `Swaps` and `OnceLost` say that a `kalloc`, a `kfree`, a
  commit and a forgetful `setupkvm` keep this. It needs that a spot that a step overwrites is empty, so
  `PgInv` also says what a process and its call may hold in each phase (`Emptied`, `Built`), that
  the child of a fork or a wait is in the right state (`ChildRight`) and belongs to one call only (`Distinct`),
  and which pages are mapped when (`Sized`), from which it follows that nothing panics. Assumes what `FirstTable` says,
  that is, the layout of `mmu.h` and enough pages for the first process.

Only model-checked: all liveness (`ClosedEndReleases`, `IoEnds` and the like); what Lfs and Mfs say of the image;
and everything said of Fs, ShParse, Sh and Mkfs. Liveness is out of the prover's reach. ShParse is recursive by
nature, so neither it nor Sh can have a theorem.

## 5. What the code does otherwise than one expects

With a violation run: see the finding in `PROJECT.json`. Others, which the
properties step around by name or which an instance shows when it is changed:

* WebServer: under SFF a request for a missing file ends the whole server
  (`server.c:235`). A connection closed before its headers end keeps the thread
  that reads them for ever (`request.c:48`).
* CondVar: `cv_wait` releases the lock before `condsleep` (`ulib.c:124`), so a
  signal in between is lost and the waiter may sleep for ever, as the comment of
  `race.c` intends to show. Tickets of different conditions share numbers, so a
  signal can wake a waiter of another condition (`proc.c:554`); the ticket is read again after
  the unlock (`ulib.c:125`), so two waiters may sleep on one number.
  `sys_condsleep` stores 0 at the user address given by the ticket's number
  (`sysproc.c:132`).
* Proc: threads that outlive their process are passed to init, whose `wait()`
  frees their common page directory once for each (`proc.c:346`).
  Add `condsleep` to `proc_killed` and a killed process may sleep for ever
  (`sysproc.c:133`). A recycled slot may start killed: `kill` does not look at a slot's state, so 0
  names unused slots (`proc.c:570`), and the pid of a `fork` given back for want of memory stays
  in its slot (`proc.c:148`). The run and the theorem include both; `KilledByOwnPid` says that there is
  nothing else. Add `threadSbrk` to `proc_threads` and sizes disagree
  (`proc.c:123`); add `threadFork` and `copyuvm` may panic (`vm.c:313`); add
  `nestedClone` and `abandon` and `wait` may reap a thread (`proc.c:309`). A
  `clone` whose `copyout` fails keeps its slot for ever (`proc.c:217`).
* Mfs: with equal names in two directories a lookup that runs off the end of one
  finds the entry of the other (`server.c:433`). A reply that comes after the
  timeout is taken for the answer of the next call; this is why `AcknowledgedKept`
  speaks of behaviours without `ResendLate`. An unlink whose
  reply was lost answers -1 when sent again. `delInode` gets an address instead
  of a number (`server.c:353`), so no inode is ever freed. A kill inside
  `cImapPiece` leaves inode numbers that no directory names but that
  a program could guess; `MayUse` keeps programs from it.
* Bio: a failed read is reported to nobody; the buffer is valid and holds what
  was in its memory (`failed` remembers it).
* Pipe: a writer that finds itself killed at a full ring returns without waking
  the readers of what it wrote (`pipe.c:83`, history `unsaid`); a kill between
  the test of `killed` and the sleep is not noticed before the next wakeup.
* Fs: `..` of a removed directory whose parent has been removed too leads to an inode
  that is free or somebody else's (`strayed`). A path through it panics, "ilock: no type"
  (`fs.c:262`); or it gets the inode between the two halves of an `ialloc` (`fs.c:161`, `fs.c:163`),
  finds a type and no links, and its `iput` frees the inode under its creator, which panics
  in its turn. From then on `InodesSound` says only that the cache agrees with its users and that `iput` finds no
  inode locked that it frees. An entry made in a removed directory is lost with it
  (`lost`); `ialloc` panics when inodes run out.
* MemAlloc: `bestfit` and `worstfit` read through NULL when the free list is empty
  (`mem.c:266`); after a failed `mmap` the list's head is `MAP_FAILED`; nothing
  tests that a size is positive.
* AddressSpace: an `sbrk` that gives back all of the program unmaps it,
  returns -1 and leaves `sz`, so that a later `fork` panics; `exec` of a program
  that reaches into the stack's page panics "remap", and one that ends there leaves no gap;
  any fault of a page that is not present grows the stack; `ss` is increased even when that fails.
* Lottery: a process of the low queue may starve (nothing returns it to the high
  one); a sum of tickets that wraps to 0 is divided by.
* Checked: overwriting without growing does not reach the inode on disk, so the
  checksum is lost when the inode leaves the cache; a checksum covers the first
  min(n, BSIZE) bytes, whichever were accessed, so a read of another length
  fails; bytes gone bad before a partial overwrite are summed up as good;
  `itrunc` frees addresses with the checksum still in them.
* Shell: `wait(NULL)` for a foreground command may reap a background one;
  the command `wait` tests an `errno` an earlier call may have left; `&` as a
  word of its own stays as an empty argument, so `ls > f &` opens "" and fails; a file that
  cannot be opened, or a redirected `wait`, leaves descriptor 1 closed or redirected; the copy of
  each command that is not redirected stays open until `dup` fails, and from then on
  redirection is for good.
* UMalloc: `thread_join` frees the stack's address, which `thread_create` had rounded up to a
  page, and not the block's (`umalloc.c:106`): the two agree for the first stack of a
  fresh heap and not for the next (`ruined`). Without a thread to join it frees 0. A stack whose
  `clone` fails is never freed. Nobody tests `malloc` for 0 (`umalloc.c:95`): 0 is the address of a page,
  `clone` takes it (`proc.c:179`), and the thread's stack is page 0, which holds the program's text
  (`OnText`); `MallocSound` excepts it. A size near 2^32 wraps to a block of one header (`umalloc.c:71`).
  `sbrk` takes an int (`sysproc.c:45`): 2^31 bytes and more (`umalloc.c:56`) are a negative size, for
  which `growproc` leaves the heap or shrinks it and reports success (`proc.c:115`), and of the sizes from
  2^32 - 15 to 2^32 - 8 the product wraps to 0. `morecore` then frees a block that nobody gave it
  (`ruined`); the model ends there.
* Blocks: `balloc` looks at all bits of a bitmap block, also at those beyond the
  end of the disk (`fs.c:64`), so on a full disk it returns blocks that do not
  exist long before it panics (`outside`).
* Console: a kill between the test and the sleep is missed until the next line.
* Pages: when `setupkvm` runs out of memory it returns 0 and forgets the directory and
  the tables it had (`vm.c:146`, `lost`), so each `fork` or `exec` that fails there makes memory smaller for good.
* Sh: `a > x > y` writes to `x`, because the redirection that was read first is
  carried out last; `>>` is the same as `>` (`sh.c:391`). When a fork of the shell itself fails
  the shell ends (`sh.c:189`), and init starts another.
* Mkfs: a directory whose entries fill its last block gets the size of one block more than
  it has (`mkfs.c:191`). `nlink` of a directory leaves out the `..` of the directories in it (`mkfs.c:304`), which the
  kernel counts (`sysfile.c:243`): the first `rmdir` of one of them takes the outer one's count
  to 0, and `iput` frees a directory that its parent still names. Nothing tests that
  blocks and inodes suffice.

## 6. Not modelled

Contents of pages, headers and files; a crash of the operating system under the file server
(the code never syncs before its reply); more than one CPU cache's view of
memory; names of zero length in `sUnlink`; indices beyond 256 imap places or
4096 inodes, where the code uses variables it never set. In Fs device files. In AddressSpace faults in the kernel and
faults on present pages, which P3's handler neither resolves nor kills for. In Shell
a line of blanks only, which reads before the array, and the offsets of
standard input and output that parent and child share. `fastsort` is a
sequential filter around the C library's `qsort`; its comparison subtracts
unsigned keys and is no order when they are more than 2^31 apart.
`getsyscallinfo` is one counter without a lock, so increments of two CPUs may be
lost. Memory is sequentially consistent in Spinlock. In Sh `cd`, the end of the shell's own input and
`gets`' limit of 100 characters, past which a line is cut in two; in Pages programs of
several segments; in Mkfs errors of the host's calls, which end the tool.
The rest is device registers, start-up, tests and programs that only use the system. The four other copies of the
kernel repeat the code that is modelled; they differ from it in the parts named above.

## 7. Plan

What is left, most important first:

1. `ImageSound` and `AcknowledgedKept` of Mfs; `LinksAgree` of Fs for any tree.
2. Programs of more than one segment in AddressSpace.
