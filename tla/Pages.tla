------------------------------- MODULE Pages -------------------------------
(***************************************************************************)
(* The pages of physical memory of xv6: the free list (kalloc.c) and what  *)
(* fork, exec, sbrk, exit and wait take from it and give back, page        *)
(* directories and page tables included (vm.c, exec.c, proc.c).  A step is *)
(* one kalloc or one kfree, which kmem.lock makes atomic, so that calls of *)
(* several processes run out of memory in the middle of each other.        *)
(*                                                                         *)
(* What a page contains is left out, and so is the order of the free list: *)
(* no property names a page, so kalloc may as well return the free page    *)
(* with the least number.                                                  *)
(*                                                                         *)
(* What a call or a process holds is a function from places to pages, 0    *)
(* for none: a page directory has the user's pages at 0 .. UTOP - 1, its   *)
(* page tables above and itself at TOP, in the order of freevm().          *)
(***************************************************************************)
EXTENDS Integers, FiniteSets

CONSTANTS
  NPAGES,     \* pages between end and PHYSTOP
  PGSIZE,
  SPAN,       \* pages that one page table maps (NPTENTRIES)
  UTOP,       \* USERTOP, in pages
  KTOP,       \* the kernel maps the pages UTOP .. KTOP - 1
  NPROC,      \* slot 1 is init's
  Grows,      \* arguments of sbrk
  Images      \* sizes in memory of programs

LastTable == (KTOP - 1) \div SPAN

\* mmu.h and param.h: the first page table (4 MB) reaches beyond USERTOP
\* (640 KB), so the kernel's own mapping makes the table of the user part.
\* userinit finds the pages for init.
ASSUME FirstTable ==
  /\ NPAGES \in Nat /\ PGSIZE \in Nat \ {0} /\ SPAN \in Nat /\ UTOP \in Nat
  /\ KTOP \in Nat /\ NPROC \in Nat \ {0} /\ Grows \subseteq Int
  /\ 0 < UTOP /\ UTOP < SPAN /\ UTOP < KTOP /\ LastTable + 4 <= NPAGES
  /\ Images \subseteq Nat \ {0}

VARIABLES
  freelist,   \* freelist[v]: how often page v is on kmem.freelist
  pstate, parent, kstack, pgdir, sz,   \* fields of struct proc, by slot
  kpc,        \* where the call of p is, "user" outside a call
  np,         \* np[p]: the child in fork and in wait
  dir,        \* dir[p]: the pgdir that setupkvm, copyuvm or exec builds
  goal,       \* goal[p]: newsz of allocuvm
  at,         \* at[p]: the page the loop of allocuvm or copyuvm is at
  todo,       \* todo[p]: pages that are about to be given to kfree
  lost,       \* history: pages of a directory that setupkvm gave up
  panicked

procvars == << pstate, parent, kstack, pgdir, sz >>
pgvars == << freelist, procvars, kpc, np, dir, goal, at, todo, lost, panicked >>

Slots == 1 .. NPROC
PageNo == 1 .. NPAGES
Tables == 0 .. LastTable

\* The places of the kernel stack, of page table t and of the directory.
KSTACK == -1
Table(t) == UTOP + t
TOP == UTOP + LastTable + 1
Cells == 0 .. TOP
Place == KSTACK .. TOP

NoDir == [i \in Cells |-> 0]
NoPages == [i \in Place |-> 0]

PGROUNDUP(n) == (n + PGSIZE - 1) \div PGSIZE      \* in pages
USERTOP == UTOP * PGSIZE

\* The tables of the kernel's mapping, in the order of kmap[].
KTables == {a \div SPAN : a \in UTOP .. KTOP - 1}

\* userinit: init has its stack, its directory and one page.
FirstDir == [i \in Cells |-> IF i = 0 THEN 3 ELSE IF i = TOP THEN 2
                               ELSE IF i >= UTOP THEN 4 + i - UTOP ELSE 0]

PgInit ==
  /\ pstate = [p \in Slots |-> IF p = 1 THEN "RUN" ELSE "UNUSED"]
  /\ parent = [p \in Slots |-> 0]
  /\ kstack = [p \in Slots |-> IF p = 1 THEN 1 ELSE 0]
  /\ pgdir = [p \in Slots |-> IF p = 1 THEN FirstDir ELSE NoDir]
  /\ sz = [p \in Slots |-> IF p = 1 THEN PGSIZE ELSE 0]
  /\ freelist = [v \in PageNo |-> IF v <= LastTable + 4 THEN 0 ELSE 1]
  /\ kpc = [p \in Slots |-> "user"] /\ np = [p \in Slots |-> 0]
  /\ dir = [p \in Slots |-> NoDir] /\ goal = [p \in Slots |-> 0]
  /\ at = [p \in Slots |-> 0] /\ todo = [p \in Slots |-> NoPages]
  /\ lost = {} /\ panicked = FALSE

-----------------------------------------------------------------------------
(* kalloc and kfree.                                                        *)

Smallest(S) == CHOOSE x \in S : \A y \in S : x <= y

Free == {v \in PageNo : freelist[v] > 0}
Page == Smallest(Free)
kalloc == freelist' = [freelist EXCEPT ![Page] = @ - 1]
kfree(v) == freelist' = [freelist EXCEPT ![v] = @ + 1]

Goes(p, where) == kpc' = [kpc EXCEPT ![p] = where]

\* What deallocuvm frees from page a on, below page b, and what it leaves.
Above(d, a, b) == [i \in Place |-> IF i \in a .. b - 1 THEN d[i] ELSE 0]
Unmapped(d, a, b) == [i \in Cells |-> IF i \in a .. b - 1 THEN 0 ELSE d[i]]

\* Mutant of freevm: the page tables are forgotten.
freevmFlat(d) == [i \in Place |-> IF i \in 0 .. UTOP - 1 \/ i = TOP THEN d[i] ELSE 0]

\* freevm: user pages, page tables, directory.
freevm(d) == [i \in Place |-> IF i = KSTACK THEN 0 ELSE d[i]]

-----------------------------------------------------------------------------
(* fork.  wait() holds ptable.lock while it frees its child.                *)

Locked == \E p \in Slots : kpc[p] = "reap"

\* A process whose program is still mapped can make a call.
Calls(p) == /\ pstate[p] = "RUN" /\ kpc[p] = "user" /\ ~ panicked
            /\ pgdir[p][0] # 0

Becomes(q, s) == pstate' = [pstate EXCEPT ![q] = s]

allocproc(p) ==
  /\ Calls(p) /\ ~ Locked
  /\ \E q \in Slots :
       /\ pstate[q] = "UNUSED" /\ \A k \in 1 .. q - 1 : pstate[k] # "UNUSED"
       /\ Becomes(q, "EMBRYO") /\ np' = [np EXCEPT ![p] = q]
  /\ Goes(p, "kstack")
  /\ UNCHANGED << freelist, parent, kstack, pgdir, sz, dir, goal, at, todo, lost, panicked >>

allocKstack(p) ==
  /\ kpc[p] = "kstack" /\ ~ panicked
  /\ IF Free # {}
     THEN /\ kalloc /\ kstack' = [kstack EXCEPT ![np[p]] = Page]
          /\ Goes(p, "forkkvm") /\ UNCHANGED pstate
     ELSE /\ Becomes(np[p], "UNUSED") /\ Goes(p, "user")
          /\ UNCHANGED << freelist, kstack >>
  /\ UNCHANGED << parent, pgdir, sz, np, dir, goal, at, todo, lost, panicked >>

-----------------------------------------------------------------------------
(* setupkvm: a page for the directory, then one for each table.             *)

Missing(d) == {t \in Tables : t \in KTables /\ d[Table(t)] = 0}
Building(p) == kpc[p] \in {"forkkvm", "execkvm"} /\ ~ panicked
IsFork(p) == kpc[p] \in {"forkkvm", "copy"}

\* fork without an address space gives up the kernel stack.
GiveUpStack(p) ==
  /\ todo' = [todo EXCEPT ![p] = [NoPages EXCEPT ![KSTACK] = kstack[np[p]]]]
  /\ kstack' = [kstack EXCEPT ![np[p]] = 0]
  /\ Goes(p, "forkbad")

\* setupkvm returns 0 and forgets what it has allocated.
setupkvmFails(p) ==
  /\ Building(p) /\ Free = {}
  /\ lost' = lost \cup ({dir[p][i] : i \in Cells} \ {0})
  /\ dir' = [dir EXCEPT ![p] = NoDir]
  /\ IF IsFork(p) THEN GiveUpStack(p)
     ELSE Goes(p, "user") /\ UNCHANGED << kstack, todo >>
  /\ UNCHANGED << freelist, pstate, parent, pgdir, sz, np, goal, at, panicked >>

\* The place that the next page is for.
Lacks(d) == IF d[TOP] = 0 THEN TOP ELSE Table(Smallest(Missing(d)))

setupkvm(p) ==
  /\ Building(p) /\ Free # {} /\ kalloc
  /\ LET d == [dir[p] EXCEPT ![Lacks(dir[p])] = Page]
     IN /\ dir' = [dir EXCEPT ![p] = d]
        /\ IF Missing(d) # {} THEN UNCHANGED kpc
           ELSE Goes(p, IF IsFork(p) THEN "copy" ELSE "load")
  /\ at' = [at EXCEPT ![p] = 0]
  /\ UNCHANGED << procvars, np, goal, todo, lost, panicked >>

-----------------------------------------------------------------------------
(* copyuvm and the end of fork.                                             *)

Mapped(d, a) == [d EXCEPT ![a] = Page]
Advances(p) == at' = [at EXCEPT ![p] = @ + 1]

\* The directory that is being built is freed.
GivesUp(p, where) ==
  /\ todo' = [todo EXCEPT ![p] = freevm(dir[p])]
  /\ dir' = [dir EXCEPT ![p] = NoDir] /\ Goes(p, where)

copyuvm(p) ==
  /\ kpc[p] = "copy" /\ at[p] < PGROUNDUP(sz[p]) /\ ~ panicked
  /\ IF pgdir[p][at[p]] = 0
     THEN panicked' = TRUE /\ UNCHANGED << freelist, kpc, dir, at, todo >>
     ELSE /\ IF Free # {}
             THEN /\ kalloc /\ dir' = [dir EXCEPT ![p] = Mapped(dir[p], at[p])]
                  /\ Advances(p) /\ UNCHANGED << kpc, todo >>
             ELSE GivesUp(p, "copybad") /\ UNCHANGED << freelist, at >>
          /\ UNCHANGED panicked
  /\ UNCHANGED << procvars, np, goal, lost >>

forkEnd(p) ==
  /\ kpc[p] = "copy" /\ at[p] = PGROUNDUP(sz[p]) /\ ~ panicked
  /\ Becomes(np[p], "RUN") /\ parent' = [parent EXCEPT ![np[p]] = p]
  /\ pgdir' = [pgdir EXCEPT ![np[p]] = dir[p]] /\ sz' = [sz EXCEPT ![np[p]] = sz[p]]
  /\ dir' = [dir EXCEPT ![p] = NoDir] /\ Goes(p, "user")
  /\ UNCHANGED << freelist, kstack, np, goal, at, todo, lost, panicked >>

-----------------------------------------------------------------------------
(* sbrk: growproc.                                                          *)

sbrkUp(p, n) ==
  /\ Calls(p) /\ p # 1 /\ n > 0 /\ sz[p] + n <= USERTOP
  /\ goal' = [goal EXCEPT ![p] = sz[p] + n]
  /\ at' = [at EXCEPT ![p] = PGROUNDUP(sz[p])]
  /\ Goes(p, "grow")
  /\ UNCHANGED << freelist, procvars, np, dir, todo, lost, panicked >>

\* Mutant of Undone: the pages allocated before the failure stay mapped.
UndoneNot(d, a, b) == d

\* The directory after a failed allocuvm called deallocuvm.
Undone(d, a, b) == Unmapped(d, a, b)

\* The call frees the pages todo, and there may be none.
Frees(p, pages) ==
  /\ todo' = [todo EXCEPT ![p] = pages]
  /\ Goes(p, IF pages = NoPages THEN "user" ELSE "free")

growuvm(p) ==
  LET old == PGROUNDUP(sz[p])
      new == PGROUNDUP(goal[p])
      d == pgdir[p]
  IN /\ kpc[p] = "grow" /\ at[p] < new /\ ~ panicked
     /\ IF Free = {}
        THEN /\ Frees(p, Above(d, old, new))
             /\ pgdir' = [pgdir EXCEPT ![p] = Undone(d, old, new)]
             /\ UNCHANGED << freelist, at, panicked >>
        ELSE /\ kalloc /\ panicked' = (d[at[p]] # 0)
             /\ pgdir' = [pgdir EXCEPT ![p] = Mapped(d, at[p])]
             /\ Advances(p) /\ UNCHANGED << kpc, todo >>
     /\ UNCHANGED << pstate, parent, kstack, sz, np, dir, goal, lost >>

growEnd(p) ==
  /\ kpc[p] = "grow" /\ at[p] = PGROUNDUP(goal[p]) /\ ~ panicked
  /\ sz' = [sz EXCEPT ![p] = goal[p]] /\ Goes(p, "user")
  /\ UNCHANGED << freelist, pstate, parent, kstack, pgdir, np, dir, goal, at, todo,
                  lost, panicked >>

\* A size that would be negative is a large unsigned number and changes
\* nothing.  With the size 0 the call fails after it has unmapped all.
sbrkDown(p, n) ==
  LET to == sz[p] + n
      d == pgdir[p]
  IN /\ Calls(p) /\ p # 1 /\ n < 0 /\ to >= 0
     /\ Frees(p, Above(d, PGROUNDUP(to), PGROUNDUP(sz[p])))
     /\ pgdir' = [pgdir EXCEPT ![p] = Unmapped(d, PGROUNDUP(to), PGROUNDUP(sz[p]))]
     /\ sz' = IF to = 0 THEN sz ELSE [sz EXCEPT ![p] = to]
     /\ UNCHANGED << freelist, pstate, parent, kstack, np, dir, goal, at, lost, panicked >>

-----------------------------------------------------------------------------
(* exec of a program of n bytes, with one page of stack above it.           *)

exec(p, n) ==
  /\ Calls(p) /\ goal' = [goal EXCEPT ![p] = n] /\ Goes(p, "execkvm")
  /\ UNCHANGED << freelist, procvars, np, dir, at, todo, lost, panicked >>

Image(p) == PGROUNDUP(goal[p]) + 1

\* bad: the new directory is freed.  allocuvm finds no page or too large a
\* size, loaduvm cannot read the file, or copyout has no room for arguments.
execBad(p) ==
  /\ kpc[p] = "load" /\ ~ panicked /\ GivesUp(p, "free")
  /\ UNCHANGED << freelist, procvars, np, goal, at, lost, panicked >>

execAlloc(p) ==
  /\ kpc[p] = "load" /\ at[p] < Image(p) /\ Image(p) <= UTOP
  /\ Free # {} /\ kalloc /\ ~ panicked
  /\ dir' = [dir EXCEPT ![p] = Mapped(dir[p], at[p])] /\ Advances(p)
  /\ UNCHANGED << procvars, kpc, np, goal, todo, lost, panicked >>

execCommit(p) ==
  /\ kpc[p] = "load" /\ at[p] = Image(p) /\ ~ panicked
  /\ pgdir' = [pgdir EXCEPT ![p] = dir[p]]
  /\ sz' = [sz EXCEPT ![p] = Image(p) * PGSIZE]
  /\ todo' = [todo EXCEPT ![p] = freevm(pgdir[p])]
  /\ dir' = [dir EXCEPT ![p] = NoDir] /\ Goes(p, "free")
  /\ UNCHANGED << freelist, pstate, parent, kstack, np, goal, at, lost, panicked >>

-----------------------------------------------------------------------------
(* exit, wait, and the calls of kfree.                                      *)

\* A process that has unmapped its program faults, and exits too.
exit(p) ==
  /\ p # 1 /\ pstate[p] = "RUN" /\ kpc[p] = "user" /\ ~ Locked /\ ~ panicked
  /\ Becomes(p, "ZOMBIE")
  /\ parent' = [q \in Slots |-> IF q # p /\ parent[q] = p THEN 1 ELSE parent[q]]
  /\ UNCHANGED << freelist, kstack, pgdir, sz, kpc, np, dir, goal, at, todo, lost,
                  panicked >>

wait(p) ==
  /\ Calls(p) /\ ~ Locked
  /\ \E q \in Slots :
       /\ parent[q] = p /\ pstate[q] = "ZOMBIE"
       /\ np' = [np EXCEPT ![p] = q]
       /\ todo' = [todo EXCEPT ![p] = [freevm(pgdir[q]) EXCEPT ![KSTACK] = kstack[q]]]
       /\ kstack' = [kstack EXCEPT ![q] = 0] /\ pgdir' = [pgdir EXCEPT ![q] = NoDir]
  /\ Goes(p, "reap")
  /\ UNCHANGED << freelist, pstate, parent, sz, dir, goal, at, lost, panicked >>

\* The child's slot is free again.  Its size is that of no process until fork
\* writes it anew.
Drops(q) == /\ Becomes(q, "UNUSED") /\ parent' = [parent EXCEPT ![q] = 0]
            /\ sz' = [sz EXCEPT ![q] = 0]

Due(p) == Smallest({i \in Place : todo[p][i] # 0})
Left(p) == [todo[p] EXCEPT ![Due(p)] = 0]

\* The next kfree, and what the call does after the last one.
kfrees(p) ==
  /\ todo[p] # NoPages /\ ~ panicked /\ kfree(todo[p][Due(p)])
  /\ IF Left(p) = NoPages /\ kpc[p] = "copybad"
     THEN GiveUpStack(p) /\ UNCHANGED << pstate, parent, sz >>
     ELSE /\ todo' = [todo EXCEPT ![p] = Left(p)] /\ UNCHANGED kstack
          /\ IF Left(p) # NoPages THEN UNCHANGED << pstate, parent, sz, kpc >>
             ELSE /\ Goes(p, "user")
                  /\ IF kpc[p] = "free" THEN UNCHANGED << pstate, parent, sz >>
                     ELSE Drops(np[p])
  /\ UNCHANGED << pgdir, np, dir, goal, at, lost, panicked >>

PgNext ==
  \E p \in Slots :
    \/ allocproc(p) \/ allocKstack(p) \/ setupkvm(p) \/ setupkvmFails(p)
    \/ copyuvm(p) \/ forkEnd(p) \/ growuvm(p) \/ growEnd(p)
    \/ \E n \in Grows : sbrkUp(p, n) \/ sbrkDown(p, n)
    \/ \E n \in Images : exec(p, n)
    \/ execAlloc(p) \/ execBad(p) \/ execCommit(p)
    \/ exit(p) \/ wait(p) \/ kfrees(p)

PgSpec == PgInit /\ [][PgNext]_pgvars

-----------------------------------------------------------------------------
(* Properties.                                                              *)

\* Who holds what: a process its kernel stack and its directory, its call
\* the directory that it builds and the pages that it frees.
HeldBy == {"proc", "dir", "todo"}
Held(p, h, i) ==
  IF h = "todo" THEN todo[p][i]
  ELSE IF i = KSTACK THEN (IF h = "proc" THEN kstack[p] ELSE 0)
  ELSE IF h = "proc" THEN pgdir[p][i] ELSE dir[p][i]
Spots == Slots \X HeldBy \X Place
Occupied == {x \in Spots : Held(x[1], x[2], x[3]) # 0}

\* However calls run out of memory in the middle of each other, every page is
\* on the free list once, or belongs to one process once, or was lost by
\* setupkvm, and nothing else loses a page: the three make up the memory, and
\* there are no more of them than pages.
PagesConserved ==
  /\ Free \cup {Held(x[1], x[2], x[3]) : x \in Occupied} \cup lost = PageNo
  /\ Cardinality(Free) + Cardinality(Occupied) + Cardinality(lost) = NPAGES
  /\ \A v \in Free : freelist[v] = 1

\* A process that runs has pages for all of its size and none beyond, unless
\* it has just unmapped all of itself, so neither copyuvm nor mappages ever
\* panics: a call that failed for want of memory has undone what it had done.
MappedIsSize ==
  /\ ~ panicked
  /\ \A p \in Slots : pstate[p] = "RUN" /\ kpc[p] = "user" =>
       LET m == {a \in 0 .. UTOP - 1 : pgdir[p][a] # 0}
       IN m = {} \/ m = 0 .. PGROUNDUP(sz[p]) - 1

\* Both, for every page and every process.
PagesSound == PagesConserved /\ MappedIsSize
=============================================================================
