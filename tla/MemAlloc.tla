------------------------------ MODULE MemAlloc ------------------------------
(***************************************************************************)
(* The memory allocator of P3 (mem.c): chunks with a header before each,   *)
(* two doubly linked lists through the headers, three ways to search the   *)
(* free list, and coalesce(), which walks the region and builds the free   *)
(* list anew.  The program is sequential; a step is a call, except that    *)
(* every turn of coalesce's loop is a step.  An address is a number from 0 *)
(* on; hdr has the headers that are in place, so that reading memory which *)
(* holds no header is an error of the model.                               *)
(***************************************************************************)
EXTENDS Integers, Sequences, FiniteSets, Functions

CONSTANTS
  HDR,          \* sizeof(header)
  ALIGN,        \* requests are rounded up to this (8 in the code)
  PAGE,         \* getpagesize()
  RegionSizes,  \* bound: arguments of Mem_Init
  Sizes         \* bound: sizes asked for

ASSUME AllocAssumption ==
  /\ HDR \in Nat \ {0} /\ ALIGN \in Nat \ {0} /\ PAGE \in Nat \ {0}
  /\ HDR < PAGE /\ HDR % ALIGN = 0 /\ PAGE % ALIGN = 0
  /\ RegionSizes \subseteq Nat \ {0} /\ Sizes \subseteq Nat \ {0}

NULL == -1
MAP_FAILED == -2
Fitting == {"BESTFIT", "WORSTFIT", "FIRSTFIT"}

VARIABLES
  hdr,         \* hdr[a]: the header at address a
  freeList, memList,
  totalSize,   \* 0 until Mem_Init has succeeded
  here, prev, currSize, immediate,   \* the variables of coalesce
  mpc,          \* "idle", or "coalesce" within Mem_Free
  crashed      \* a pointer to no header has been read

loop == << here, prev, currSize, immediate >>
memvars == << hdr, freeList, memList, totalSize, loop, mpc, crashed >>

MemInit ==
  /\ hdr = << >> /\ freeList = NULL /\ memList = NULL /\ totalSize = 0
  /\ here = 0 /\ prev = NULL /\ currSize = 0 /\ immediate = FALSE
  /\ mpc = "idle" /\ crashed = FALSE

RoundUp(s, unit) == IF s % unit = 0 THEN s ELSE s + (unit - (s % unit))

Mem_Init(s) ==
  /\ mpc = "idle" /\ totalSize = 0
  /\ \/ /\ totalSize' = RoundUp(s, PAGE)
        /\ hdr' = [a \in {0} |-> [size |-> RoundUp(s, PAGE) - HDR,
                                  free |-> TRUE, next |-> NULL, prev |-> NULL]]
        /\ freeList' = 0
     \/ freeList' = MAP_FAILED /\ UNCHANGED << hdr, totalSize >>
  /\ UNCHANGED << memList, loop, mpc, crashed >>

-----------------------------------------------------------------------------
(* The lists.                                                               *)

SetNext(h, a, b) == IF a = NULL THEN h ELSE [h EXCEPT ![a].next = b]
SetPrev(h, a, b) == IF a = NULL THEN h ELSE [h EXCEPT ![a].prev = b]

\* Mutant of Unlinked: only the way forward is repaired.
UnlinkedHalf(h, c) == SetNext(h, h[c].prev, h[c].next)

\* The headers after c has been taken out of its list.
Unlinked(h, c) == SetNext(SetPrev(h, h[c].next, h[c].prev),
                          h[c].prev, h[c].next)

\* The headers after c has been put before the list that starts at head.
Pushed(h, c, head) ==
  SetPrev([h EXCEPT ![c].next = head, ![c].prev = NULL], head, c)

\* The addresses on the list from head, in order.
NextOf(h, a) == IF a \in DOMAIN h THEN h[a].next ELSE NULL
Chain(h, head) ==
  LET walk[k \in 0 .. totalSize] == IF k = 0 THEN head ELSE NextOf(h, walk[k - 1])
      last == Cardinality({k \in 0 .. totalSize - 1 : walk[k] # NULL})
  IN [k \in 1 .. last |-> walk[k - 1]]

-----------------------------------------------------------------------------
(* The searches, which run through the free list and keep the best chunk    *)
(* found so far.                                                            *)

FreeChain == Chain(hdr, freeList)
Fits(a, r) == hdr[a].size >= r

firstfit(r) ==
  LET s == FreeChain
      fits == {i \in DOMAIN s : Fits(s[i], r)}
  IN IF fits = {} THEN NULL ELSE s[CHOOSE i \in fits : \A j \in fits : i <= j]

\* bestfit and worstfit differ in the comparison only: < for sign 1, > for -1.
Turn(acc, a, r, sign) ==
  LET t == IF acc.first /\ Fits(a, r) THEN [tmp |-> a, first |-> FALSE] ELSE acc
  IN IF Fits(a, r) /\ sign * hdr[a].size < sign * hdr[t.tmp].size
     THEN [t EXCEPT !.tmp = a] ELSE t
Search(r, sign) ==
  LET s == FreeChain
      turns[k \in 0 .. Len(s)] == IF k = 0 THEN [tmp |-> freeList, first |-> TRUE]
                                  ELSE Turn(turns[k - 1], s[k], r, sign)
      found == turns[Len(s)].tmp
  IN IF found = freeList /\ ~ Fits(found, r) THEN NULL ELSE found

bestfit(r) == Search(r, 1)
worstfit(r) == Search(r, -1)

Found(policy, r) == CASE policy = "BESTFIT" -> bestfit(r)
                      [] policy = "WORSTFIT" -> worstfit(r)
                      [] OTHER -> firstfit(r)

-----------------------------------------------------------------------------
(* Mem_Alloc, Mem_Free, coalesce.                                           *)

\* The chunk is split if something is left behind another header.
Splits(c, r) == hdr[c].size - r - HDR > 0

\* bestfit and worstfit read the size of the head of an empty list.
BadHead(policy) == \/ freeList = MAP_FAILED
                   \/ freeList = NULL /\ policy # "FIRSTFIT"

\* The headers after a new one for what is left behind the first r bytes of c.
Cut(h, c, r) ==
  [a \in DOMAIN h \cup {c + r + HDR} |->
     IF a = c + r + HDR
     THEN [size |-> h[c].size - r - HDR, free |-> TRUE, next |-> NULL, prev |-> NULL]
     ELSE IF a = c THEN [h[c] EXCEPT !.size = r]
     ELSE h[a]]

MarkFree(h, c) == [h EXCEPT ![c].free = TRUE]
MarkUsed(h, c) == [h EXCEPT ![c].free = FALSE]

\* Chunk c, which a search has found, is split and put on the other list.
Take(c, r) ==
  LET rest == c + r + HDR
      h1 == IF Splits(c, r) THEN Pushed(Cut(hdr, c, r), rest, freeList) ELSE hdr
      head == IF Splits(c, r) THEN rest ELSE freeList
      h2 == Unlinked(h1, c)
  IN /\ freeList' = IF c = head THEN h2[c].next ELSE head
     /\ hdr' = MarkUsed(Pushed(h2, c, memList), c)
     /\ memList' = c

Mem_Alloc(s, policy) ==
  /\ mpc = "idle"
  /\ \/ /\ BadHead(policy)
        /\ crashed' = TRUE /\ UNCHANGED << hdr, freeList, memList >>
     \/ /\ ~ BadHead(policy)
        /\ Found(policy, RoundUp(s, ALIGN)) # NULL
        /\ Take(Found(policy, RoundUp(s, ALIGN)), RoundUp(s, ALIGN))
        /\ UNCHANGED crashed
  /\ UNCHANGED << totalSize, loop, mpc >>

\* A pointer that belongs to no chunk of memList is refused.
Mem_Free(c) ==
  /\ mpc = "idle" /\ \E i \in DOMAIN Chain(hdr, memList) :
                      c = Chain(hdr, memList)[i]
  /\ hdr' = MarkFree(Unlinked(hdr, c), c)
  /\ memList' = IF memList = c THEN hdr[c].next ELSE memList
  /\ mpc' = "coalesce"
  /\ here' = 0 /\ prev' = NULL /\ currSize' = 0 /\ immediate' = FALSE
  /\ UNCHANGED << freeList, totalSize, crashed >>

\* The header coalesce is at (curr) becomes part of the free chunk before it.
Absorbed == [a \in DOMAIN hdr \ {here} |->
               IF a = prev
               THEN [hdr[a] EXCEPT !.size = @ + hdr[here].size + HDR]
               ELSE hdr[a]]

\* Mutant of Immediate: a used chunk in between does not count.
ImmediateStays == immediate \/ hdr[here].free

\* Whether the chunk just passed was free.
Immediate == hdr[here].free

coalesce ==
  /\ mpc = "coalesce" /\ currSize < totalSize
  /\ \/ ~ hdr[here].free /\ UNCHANGED << hdr, freeList, prev >>
     \/ /\ hdr[here].free /\ prev = NULL
        /\ freeList' = here /\ prev' = here
        /\ hdr' = [hdr EXCEPT ![here].prev = NULL, ![here].next = NULL]
     \/ /\ hdr[here].free /\ prev # NULL /\ ~ immediate
        /\ hdr' = SetPrev(SetNext(hdr, prev, here), here, prev)
        /\ prev' = here /\ UNCHANGED freeList
     \/ /\ hdr[here].free /\ prev # NULL /\ immediate
        /\ hdr' = Absorbed /\ UNCHANGED << freeList, prev >>
  /\ immediate' = Immediate
  /\ currSize' = currSize + hdr[here].size + HDR
  /\ here' = here + HDR + hdr[here].size
  /\ UNCHANGED << memList, totalSize, mpc, crashed >>

coalesceEnd ==
  /\ mpc = "coalesce" /\ currSize >= totalSize
  /\ hdr' = SetNext(hdr, prev, NULL)
  /\ mpc' = "idle"
  /\ here' = 0 /\ prev' = NULL /\ currSize' = 0 /\ immediate' = FALSE
  /\ UNCHANGED << freeList, memList, totalSize, crashed >>

MemNext ==
  /\ ~ crashed
  /\ \/ \E s \in RegionSizes : Mem_Init(s)
     \/ \E s \in Sizes, policy \in Fitting : Mem_Alloc(s, policy)
     \/ \E c \in DOMAIN hdr : Mem_Free(c)
     \/ coalesce \/ coalesceEnd

MemSpec == MemInit /\ [][MemNext]_memvars

-----------------------------------------------------------------------------
(* Properties.                                                              *)

Chunks == DOMAIN hdr
After(a) == a + HDR + hdr[a].size

HeadersOK ==
  /\ Chunks \subseteq 0 .. totalSize
  /\ \A a \in Chunks : hdr[a] \in [size : Nat, free : BOOLEAN,
                                   next : Chunks \cup {NULL},
                                   prev : Chunks \cup {NULL}]
  /\ freeList \in Chunks \cup {NULL, MAP_FAILED}
  /\ memList \in Chunks \cup {NULL}

\* The list from head links the chunks in set, each once and both ways.
Lists(head, set) ==
  LET s == Chain(hdr, head)
  IN /\ {s[i] : i \in DOMAIN s} = set /\ IsInjective(s)
     /\ \A i \in DOMAIN s : hdr[s[i]].prev = IF i = 1 THEN NULL ELSE s[i - 1]

\* The chunks tile the region at every moment, also while coalesce() joins
\* them.  Between calls the free list has exactly the free chunks and the
\* list of used chunks the others, linked in both directions, and no two
\* free chunks are neighbours.
ListsSound ==
  /\ totalSize > 0 =>
       /\ 0 \in Chunks
       /\ \A a \in Chunks : After(a) \in Chunks \cup {totalSize}
       /\ \A a, b \in Chunks : a < b => After(a) <= b
  /\ mpc = "idle" => HeadersOK
  /\ totalSize > 0 /\ mpc = "idle" =>
       /\ Lists(freeList, {a \in Chunks : hdr[a].free})
       /\ Lists(memList, {a \in Chunks : ~ hdr[a].free})
       /\ \A a \in Chunks :
            hdr[a].free /\ After(a) \in Chunks => ~ hdr[After(a)].free

\* The chunks among which a search has to choose.
Able(r) == {a \in Chunks : hdr[a].free /\ hdr[a].size >= r}

\* On a list that is not empty the three searches find a chunk exactly if
\* one is large enough, and bestfit and worstfit one of extreme size.  A
\* search reads a pointer to nothing only when there is no region or not one
\* free chunk in it.
SearchesRight ==
  /\ crashed /\ totalSize > 0 => \A a \in Chunks : ~ hdr[a].free
  /\ mpc = "idle" /\ freeList \in Chunks =>
       \A s \in Sizes :
         LET r == RoundUp(s, ALIGN)
         IN IF Able(r) = {}
            THEN firstfit(r) = NULL /\ bestfit(r) = NULL /\ worstfit(r) = NULL
            ELSE /\ {firstfit(r), bestfit(r), worstfit(r)} \subseteq Able(r)
                 /\ \A a \in Able(r) : hdr[bestfit(r)].size <= hdr[a].size
                 /\ \A a \in Able(r) : hdr[worstfit(r)].size >= hdr[a].size

\* The allocator's lists and searches: see the two conjuncts.
AllocSound == ListsSound /\ SearchesRight

Used == {a \in Chunks : ~ hdr[a].free}
Blocks == INSTANCE Arena
  WITH region <- totalSize,
       live <- {[at |-> a + HDR, len |-> hdr[a].size] : a \in Used}

\* The lists and headers implement an allocator: blocks in use do not
\* overlap and stay as they are until they are freed.
ImplementsArena == Blocks!Spec
=============================================================================
