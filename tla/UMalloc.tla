------------------------------ MODULE UMalloc ------------------------------
(***************************************************************************)
(* The memory allocator of P4's user programs (umalloc.c): malloc, free    *)
(* and morecore over a circular list of free blocks, and thread_create and *)
(* thread_join, which take the stack of a thread from it.  It has no lock, *)
(* so one thread of a program calls it and a call is a step.               *)
(*                                                                         *)
(* Addresses count in units of a header.  base is at 0; sbrk() gives units *)
(* from BREAK on, which is the start of a page.  Reading a unit that holds *)
(* no header is an error of the model.                                     *)
(***************************************************************************)
EXTENDS Integers, FiniteSets

CONSTANTS
  UNIT,       \* sizeof(Header)
  WORD,       \* 2^32: a uint is modulo this
  NALLOC,     \* the least that morecore() asks for (4096 in the code)
  UPAGE,      \* units of a page
  BREAK, LIMIT,  \* the heap is between these, the second a bound
  Bytes,      \* bound: arguments of malloc
  MaxLive     \* bound: blocks in use

ASSUME UMallocAssumption ==
  /\ UNIT \in Nat \ {0} /\ WORD \in Nat \ {0} /\ NALLOC \in Nat \ {0}
  /\ UPAGE \in Nat \ {0} /\ BREAK \in Nat \ {0} /\ LIMIT \in Nat /\ MaxLive \in Nat
  /\ BREAK % UPAGE = 0 /\ Bytes \subseteq 0 .. WORD - 1
  /\ 2 * UPAGE * UNIT + UNIT <= WORD

\* What morecore() asks for the stack of a thread is positive as an int, so that
\* thread_create() has no case of Ruins.
ASSUME SbrkAssumption == 2 * NALLOC * UNIT < WORD /\ 2 * (2 * UPAGE + 1) * UNIT < WORD

VARIABLES
  ptr, bsize,   \* ptr[a], bsize[a]: the header at a, of blocks free or in use
  freep,       \* -1 for 0
  top,         \* the end of the heap
  live,        \* history: the blocks in use: [at, asked], at is the header
  stacks,      \* the blocks of threads: [at, stack]
  ruined       \* history: free() was given a block that is not there, or
               \* sbrk() took memory away; what follows is not modelled

umvars == << ptr, bsize, freep, top, live, stacks, ruined >>

Base == 0

UmInit == /\ ptr = [a \in {Base} |-> Base] /\ bsize = [a \in {Base} |-> 0]
          /\ freep = -1 /\ top = BREAK
          /\ live = {} /\ stacks = {} /\ ruined = FALSE

\* A heap is its headers and freep.
Heap0 == [ptr |-> ptr, bsize |-> bsize,
          freep |-> IF freep = -1 THEN Base ELSE freep]
With(f, a, v) == [x \in DOMAIN f \cup {a} |-> IF x = a THEN v ELSE f[x]]
Less(f, a) == [x \in DOMAIN f \ {a} |-> f[x]]

\* The walk along ptr in h, from a until it is back at a.
Walk(h, a) ==
  LET n == Cardinality(DOMAIN h.ptr)
      walk[k \in 0 .. n] == IF k = 0 THEN a ELSE h.ptr[walk[k - 1]]
      last == CHOOSE k \in 1 .. n : walk[k] = a /\ \A j \in 1 .. k - 1 : walk[j] # a
  IN [k \in 0 .. last |-> walk[k]]

\* The free list of h from the block after a, once around.
Ring(h, a) == LET w == Walk(h, a) IN [k \in DOMAIN w \ {0} |-> w[k]]

First(s, P) == s[CHOOSE k \in DOMAIN s : s[k] \in P /\ \A j \in DOMAIN s : j < k => s[j] \notin P]

-----------------------------------------------------------------------------
(* free(ap) for the block whose header is bp.                               *)

\* Where the search stops: bp is between p and its successor, or p is the
\* last block and bp beyond it or before the first.
Around(h, bp) ==
  {p \in DOMAIN h.ptr : \/ bp > p /\ bp < h.ptr[p]
                        \/ p >= h.ptr[p] /\ (bp > p \/ bp < h.ptr[p])}

\* Block a and the block b behind it become one; b is no header any more.
Merged(h, a, b) ==
  [h EXCEPT !.bsize = Less([h.bsize EXCEPT ![a] = h.bsize[a] + h.bsize[b]], b),
            !.ptr = Less([h.ptr EXCEPT ![a] = h.ptr[b]], b)]
Pointed(h, a, b) == [h EXCEPT !.ptr = [h.ptr EXCEPT ![a] = b]]

\* Mutant of JoinsDown: the block before is not looked at.
JoinsNotDown(h, bp, p) == Pointed(h, p, bp)

\* Join bp with the block after it, and then with the one before it.
JoinsUp(h, bp, p) == IF bp + h.bsize[bp] = h.ptr[p] THEN Merged(h, bp, h.ptr[p])
                     ELSE Pointed(h, bp, h.ptr[p])
JoinsDown(h, bp, p) == IF p + h.bsize[p] = bp THEN Merged(h, p, bp) ELSE Pointed(h, p, bp)

Freed(h, bp) ==
  LET p == First(Walk(h, h.freep), Around(h, bp))
  IN [JoinsDown(JoinsUp(h, bp, p), bp, p) EXCEPT !.freep = p]

-----------------------------------------------------------------------------
(* malloc.                                                                  *)

nunits(nbytes) == ((nbytes + UNIT - 1) % WORD) \div UNIT + 1

Larger(x, y) == IF x > y THEN x ELSE y
Asks(n) == Larger(n, NALLOC)

\* The bytes morecore() asks for: the product is a uint and sbrk()'s argument
\* an int.
Signed(b) == IF 2 * b < WORD THEN b ELSE b - WORD
SbrkArg(n) == Signed((Asks(n) * UNIT) % WORD)

\* morecore(): the new memory is freed as a block.
Extended(h, n) == [ptr |-> With(h.ptr, top, Base), bsize |-> With(h.bsize, top, Asks(n)),
                   freep |-> h.freep]
Grown(h, n) == Freed(Extended(h, n), top)

Enough(h, n) == {a \in DOMAIN h.ptr : h.bsize[a] >= n}
OnRing(h) == LET r == Ring(h, h.freep) IN {r[k] : k \in DOMAIN r}
Fit(h, n) == Enough(h, n) \cap OnRing(h)

\* The first block that is large enough, and the block before it.
FoundBlock(h, n) == First(Ring(h, h.freep), Enough(h, n))
Prev(h, p) == CHOOSE a \in OnRing(h) : h.ptr[a] = p

\* All of p, or its tail, is in use.  Nobody reads ptr of a block in use.
Whole(h, p) == [ptr |-> [h.ptr EXCEPT ![Prev(h, p)] = h.ptr[p], ![p] = Base],
                bsize |-> h.bsize, freep |-> Prev(h, p)]
Split(h, p, tail, n) ==
  [ptr |-> With(h.ptr, tail, Base),
   bsize |-> With([h.bsize EXCEPT ![p] = h.bsize[p] - n], tail, n), freep |-> Prev(h, p)]

Taken(h, n) ==
  LET p == FoundBlock(h, n)
      tail == p + h.bsize[p] - n
  IN IF h.bsize[p] = n THEN [at |-> p, heap |-> Whole(h, p)]
     ELSE [at |-> tail, heap |-> Split(h, p, tail, n)]

SetHeap(h) == ptr' = h.ptr /\ bsize' = h.bsize /\ freep' = h.freep

\* The heap that is searched, after morecore() if there is no block.
Short(n) == Fit(Heap0, n) = {}
Searched(n) == IF Short(n) THEN Grown(Heap0, n) ELSE Heap0
Block(nbytes) == Taken(Searched(nunits(nbytes)), nunits(nbytes))

\* malloc() returns Block(nbytes).at.
Returns(nbytes) ==
  LET n == nunits(nbytes)
  IN /\ Short(n) => SbrkArg(n) = Asks(n) * UNIT /\ top + Asks(n) <= LIMIT
     /\ Cardinality(live) < MaxLive
     /\ SetHeap(Block(nbytes).heap)
     /\ top' = IF Short(n) THEN top + Asks(n) ELSE top
     /\ live' = live \cup {[at |-> Block(nbytes).at, asked |-> nbytes]}
     /\ UNCHANGED ruined

\* sbrk() fails, and malloc() returns 0.
Fails(nbytes) == /\ Short(nunits(nbytes)) /\ SbrkArg(nunits(nbytes)) > 0
                 /\ SetHeap(Heap0) /\ UNCHANGED << top, live, ruined >>

\* The argument wrapped or is negative: growproc() leaves the heap as it is or
\* shrinks it, and morecore() frees a block of Asks(n) units all the same.
Ruins(nbytes) == /\ Short(nunits(nbytes))
                 /\ SbrkArg(nunits(nbytes)) # Asks(nunits(nbytes)) * UNIT
                 /\ ruined' = TRUE /\ UNCHANGED << ptr, bsize, freep, top, live >>

malloc(nbytes) == /\ Returns(nbytes) \/ Fails(nbytes) \/ Ruins(nbytes)
                  /\ UNCHANGED stacks

free(b) == /\ SetHeap(Freed(Heap0, b.at)) /\ live' = live \ {b}
           /\ UNCHANGED << top, stacks, ruined >>

-----------------------------------------------------------------------------
(* Threads.                                                                 *)

STACK == 2 * UPAGE * UNIT
PageUp(a) == ((a + UPAGE - 1) \div UPAGE) * UPAGE

\* The stack is the first page that begins in the block.  Nobody tests whether
\* malloc() returned 0: the stack is page 0 then, below base, which is mapped
\* and is the program's text.  What the thread writes there is not modelled.
OnText == [at |-> -1, stack |-> -1]

\* clone() may fail.
thread_create ==
  LET at == Block(STACK).at
  IN \/ /\ Returns(STACK)
        /\ stacks' \in {stacks, stacks \cup {[at |-> at, stack |-> PageUp(at + 1)]}}
     \/ Fails(STACK) /\ stacks' \in {stacks, stacks \cup {OnText}}

\* What is freed is the stack and not the block, or 0 when no thread is left.
thread_join ==
  \/ \E s \in stacks :
       /\ stacks' = stacks \ {s} /\ UNCHANGED top
       /\ IF s.stack = s.at + 1
          THEN /\ SetHeap(Freed(Heap0, s.at)) /\ UNCHANGED ruined
               /\ live' = {b \in live : b.at # s.at}
          ELSE ruined' = TRUE /\ UNCHANGED << ptr, bsize, freep, live >>
  \/ /\ stacks = {} /\ ruined' = TRUE
     /\ UNCHANGED << ptr, bsize, freep, top, live, stacks >>

UmNext == /\ ~ ruined
          /\ \/ \E n \in Bytes : malloc(n)
             \/ \E b \in live : b.at \notin {s.at : s \in stacks} /\ free(b)
             \/ thread_create \/ thread_join

-----------------------------------------------------------------------------
(* Properties.                                                              *)

Extent(a) == a .. a + bsize[a] - 1
FreeBlocks == OnRing(Heap0) \ {Base}
InUse == {b.at : b \in live}

\* The free blocks are on the ring in the order of their addresses, with no
\* two next to each other; they and the blocks in use are all of the heap,
\* each unit once.  A block in use is as long as was asked, unless the sum
\* in malloc wrapped around, and the stack of a thread is inside its block if
\* malloc gave it one.
MallocSound ==
  LET r == Ring(Heap0, Base)
  IN /\ \A k \in DOMAIN r : r[k] # Base => \A j \in 1 .. k - 1 :
          r[j] + bsize[r[j]] < r[k]
     /\ FreeBlocks \cup InUse = DOMAIN ptr \ {Base} /\ FreeBlocks \cap InUse = {}
     /\ UNION {Extent(a) : a \in FreeBlocks \cup InUse} = BREAK .. top - 1
     /\ \A a, b \in FreeBlocks \cup InUse : a # b => Extent(a) \cap Extent(b) = {}
     /\ \A b \in live : b.asked + UNIT <= WORD => (bsize[b.at] - 1) * UNIT >= b.asked
     /\ \A s \in stacks \ {OnText} : s.stack > s.at /\ s.stack + UPAGE <= s.at + bsize[s.at]
=============================================================================
