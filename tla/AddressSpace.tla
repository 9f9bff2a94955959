---------------------------- MODULE AddressSpace ----------------------------
(***************************************************************************)
(* The address space of a process of P3's xv6: program and heap from 0     *)
(* upwards, the stack from USERTOP downwards, a page at a time on a page   *)
(* fault.  One process is followed through sbrk, page faults, exec and     *)
(* fork, after a fork as the parent or as the child.  Addresses are in     *)
(* bytes; what the pages hold is left out, and kalloc() may fail at any    *)
(* time.                                                                   *)
(***************************************************************************)
EXTENDS Integers

CONSTANTS
  PGSIZE, USERTOP,
  Grows,      \* bound: arguments of sbrk
  Images      \* bound: sizes of programs (ph.va + ph.memsz)

ASSUME VmAssumption ==
  /\ PGSIZE \in Nat \ {0} /\ USERTOP \in Nat
  /\ USERTOP % PGSIZE = 0 /\ USERTOP >= 2 * PGSIZE
  /\ Grows \subseteq Int /\ Images \subseteq Nat

VARIABLES
  sz, ss,     \* proc->sz and proc->ss
  pages,      \* the addresses of the user pages that are present
  alive,
  vmPanic,    \* what the kernel has panicked with, or "none"
  emptied     \* history: sbrk() has removed all of the program at once

vmvars == << sz, ss, pages, alive, vmPanic, emptied >>

\* userinit
VmInit == /\ sz = PGSIZE /\ ss = 0 /\ pages = {0}
          /\ alive = TRUE /\ vmPanic = "none" /\ emptied = FALSE

\* The pages from a to b; PGROUNDUP(a) is the first.
Span(a, b) == {x \in {k * PGSIZE : k \in 0 .. USERTOP \div PGSIZE - 1} :
                 a <= x /\ x < b}

VmPanic(s) == vmPanic' = s /\ UNCHANGED << sz, ss, pages, alive, emptied >>

-----------------------------------------------------------------------------
(* allocuvm.                                                                *)

\* Mutant of TooClose: the page that keeps them apart is forgotten.
TooCloseByAPage(old) == old = USERTOP - ss - PGSIZE /\ old < sz

\* The page below the stack is refused if the heap is near.
TooClose(old) == old = USERTOP - ss - PGSIZE /\ old < sz + PGSIZE

\* allocuvm returns 0 before it has changed anything.
Refused(old, new) == TooClose(old) \/ new > USERTOP

\* mappages finds a page there.
Remaps(pgdir, old, new) == ~ Refused(old, new) /\ Span(old, new) \cap pgdir # {}

-----------------------------------------------------------------------------
(* growproc and the page fault.                                             *)

\* sbrk upwards; without memory allocuvm undoes what it has done.
grow(n) ==
  /\ n > 0 /\ sz + n <= USERTOP - ss - PGSIZE /\ ~ Refused(sz, sz + n)
  /\ IF Remaps(pages, sz, sz + n) THEN VmPanic("remap")
     ELSE /\ pages' = pages \cup Span(sz, sz + n) /\ sz' = sz + n
          /\ UNCHANGED << ss, alive, vmPanic, emptied >>

\* sbrk downwards.  Below 0 the new size wraps and nothing is done; for the
\* new size 0 the pages go, but growproc takes it for a failure of
\* deallocuvm and leaves sz alone.
shrink(n) ==
  /\ n < 0 /\ sz + n >= 0
  /\ pages' = pages \ Span(sz + n, sz)
  /\ IF sz + n = 0 THEN emptied' = TRUE /\ UNCHANGED sz
     ELSE sz' = sz + n /\ UNCHANGED emptied
  /\ UNCHANGED << ss, alive, vmPanic >>

\* The user touches a page that is not present, wherever it is: the stack
\* gets a page, or the process is killed and exits on its way out of trap().
pagefault ==
  LET old == USERTOP - ss - PGSIZE
  IN /\ Span(0, USERTOP) \ pages # {}
     /\ \/ /\ ~ Refused(old, USERTOP - ss)
           /\ IF Remaps(pages, old, USERTOP - ss) THEN VmPanic("remap")
              ELSE /\ pages' = pages \cup {old} /\ ss' = ss + PGSIZE
                   /\ UNCHANGED << sz, alive, vmPanic, emptied >>
        \/ /\ alive' = FALSE /\ pages' = {} /\ ss' = ss + PGSIZE
           /\ UNCHANGED << sz, vmPanic, emptied >>

-----------------------------------------------------------------------------
(* exec and fork.                                                           *)

\* The new directory is built while proc->sz and proc->ss are the old ones;
\* failures leave the process as it was.
exec(image) ==
  LET new == image + PGSIZE
      stack == USERTOP - PGSIZE
  IN /\ ~ Refused(0, new) /\ ~ Refused(stack, USERTOP)
     /\ IF Remaps(Span(0, new), stack, USERTOP) THEN VmPanic("remap in exec")
        ELSE /\ pages' = Span(0, new) \cup {stack}
             /\ sz' = new /\ ss' = PGSIZE /\ emptied' = FALSE
             /\ UNCHANGED << alive, vmPanic >>

Heap == Span(0, sz)
Stack == Span(USERTOP - ss, USERTOP)

\* What copyuvm maps in the child.
Copied == Heap \cup Stack

fork ==
  IF Heap \cup Stack \subseteq pages
  THEN pages' = Copied /\ UNCHANGED << sz, ss, alive, vmPanic, emptied >>
  ELSE VmPanic("copyuvm: page not present")

VmNext == /\ alive /\ vmPanic = "none"
          /\ \/ \E n \in Grows : grow(n) \/ shrink(n)
             \/ pagefault
             \/ \E image \in Images : exec(image)
             \/ fork

VmSpec == VmInit /\ [][VmNext]_vmvars

-----------------------------------------------------------------------------
(* Properties.                                                              *)

\* Heap and stack are exactly what is mapped and a page lies between them,
\* except under a program that exec has loaded up to its first stack page.
\* sbrk() and the page fault never map a page twice, and a fork misses a page
\* only after the program has given back all of itself.
HeapStackApart ==
  /\ alive /\ vmPanic = "none" =>
       /\ Stack \subseteq pages /\ pages \subseteq Heap \cup Stack
       /\ emptied \/ Heap \subseteq pages
       /\ \/ sz + PGSIZE <= USERTOP - ss
          \/ ss = PGSIZE /\ sz + PGSIZE <= USERTOP
  /\ vmPanic # "remap"
  /\ vmPanic = "copyuvm: page not present" => emptied
=============================================================================
