------------------------------- MODULE Blocks -------------------------------
(***************************************************************************)
(* The blocks of files in xv6 (fs.c): balloc and bfree over the bitmap,    *)
(* bmap, writei and itrunc, by processes that work on different files at   *)
(* the same time.  A process holds the lock of its inode from beginning to *)
(* end; a step is what is done between bread() and brelse() of a bitmap    *)
(* block or of a data block.  A block is a row of words, as an indirect    *)
(* block is read; offsets and lengths are in blocks.                       *)
(***************************************************************************)
EXTENDS Integers, FiniteSets

CONSTANTS
  Writers,      \* processes
  NFILES,       \* files
  SIZE,         \* blocks of the disk (sb.size); block 0 is no data block
  BPB,          \* bits of a bitmap block
  NDIRECTS, NINDIRECTS    \* NDIRECT and NINDIRECT

ASSUME BlocksAssumption ==
  /\ NFILES \in Nat /\ SIZE \in Nat \ {0} /\ BPB \in Nat \ {0}
  /\ NDIRECTS \in Nat \ {0} /\ NINDIRECTS \in Nat \ {0}

Inodes == 1 .. NFILES
Entries == 0 .. NINDIRECTS - 1
MAXFILE == NDIRECTS + NINDIRECTS
Bitmaps == 0 .. (SIZE - 1) \div BPB
BitsOf(k) == k * BPB .. k * BPB + BPB - 1
Zero == [j \in Entries |-> 0]
Written(i) == [j \in Entries |-> -i]      \* what is written to file i

VARIABLES
  bitmap,     \* the blocks whose bit is set
  words,      \* words[b]: the contents of block b
  addrs, len,     \* ip->addrs and ip->size
  daddrs, dlen,   \* the same in the inode on disk
  work,       \* work[p]: [pc, ip, at, end, k]: in writei block at of up to end
              \* is next, in itrunc place at; balloc is at bitmap block k
  bkPanic,    \* what the kernel has panicked with, or "none"
  outside     \* history: balloc has returned a block that is not on the disk

disk3 == << daddrs, dlen >>
bkvars == << bitmap, words, addrs, len, disk3, work, bkPanic, outside >>

Idle == [pc |-> "idle", ip |-> 0, at |-> 0, end |-> 0, k |-> 0]

\* mkfs has zeroed the disk; the files are empty.
BkInit ==
  /\ bitmap = {0} /\ words = [b \in 1 .. SIZE - 1 |-> Zero]
  /\ addrs = [i \in Inodes |-> [x \in 0 .. NDIRECTS |-> 0]] /\ daddrs = addrs
  /\ len = [i \in Inodes |-> 0] /\ dlen = len
  /\ work = [p \in Writers |-> Idle]
  /\ bkPanic = "none" /\ outside = FALSE

Ip(p) == work[p].ip
Doing(p, l) == work[p].pc = l
Set(p, w) == work' = [work EXCEPT ![p] = w]
Unlocked(i) == \A p \in Writers : Ip(p) # i

\* The places of a file that name blocks: direct, in the indirect block, and
\* the indirect block itself.
Indirect(i) == addrs[i][NDIRECTS]
Place(i, x) == CASE x < NDIRECTS -> addrs[i][x]
                 [] x >= NDIRECTS /\ x < MAXFILE ->
                      IF Indirect(i) = 0 THEN 0 ELSE words[Indirect(i)][x - NDIRECTS]
                 [] x = MAXFILE -> Indirect(i)

-----------------------------------------------------------------------------
(* writei: bmap, balloc where a block is missing, and the data.             *)

writeBegin(p, i, off, n) ==
  /\ Doing(p, "idle") /\ Unlocked(i) /\ off <= len[i]
  /\ LET end == IF off + n > MAXFILE THEN MAXFILE ELSE off + n
     IN /\ end > off
        /\ Set(p, [Idle EXCEPT !.pc = "write", !.ip = i, !.at = off, !.end = end])
  /\ UNCHANGED << bitmap, words, addrs, len, disk3, bkPanic, outside >>

\* bmap: is the block that is next still to be allocated?  Nobody else reads
\* or changes the inode and its indirect block.
bmapMisses(p) == Doing(p, "write") /\ Place(Ip(p), work[p].at) = 0
bmapFinds(p) == Doing(p, "write") /\ Place(Ip(p), work[p].at) # 0

\* The new block b is noted where bmap missed one: in the inode, or in the
\* indirect block, which is written.
Noted(p, b) ==
  LET i == Ip(p)
      x == work[p].at
      slot == IF x < NDIRECTS THEN x ELSE NDIRECTS
  IN IF x < NDIRECTS \/ Indirect(i) = 0
     THEN addrs' = [addrs EXCEPT ![i][slot] = b] /\ UNCHANGED words
     ELSE words' = [words EXCEPT ![Indirect(i)][x - NDIRECTS] = b] /\ UNCHANGED addrs

\* The first bit that is clear in a bitmap block, whether or not there is
\* such a block on the disk.
FirstFree(k) == LET F == BitsOf(k) \ bitmap
                IN CHOOSE b \in F : \A c \in F : b <= c

ballocTakes(p) ==
  LET b == FirstFree(work[p].k)
  IN /\ bmapMisses(p) /\ BitsOf(work[p].k) \ bitmap # {}
     /\ bitmap' = bitmap \cup {b} /\ Noted(p, b)
     /\ outside' = (b >= SIZE)
     /\ Set(p, [work[p] EXCEPT !.k = 0])
     /\ UNCHANGED << len, disk3, bkPanic >>

ballocNext(p) ==
  LET k == work[p].k
  IN /\ bmapMisses(p) /\ BitsOf(k) \subseteq bitmap
     /\ IF k + 1 \in Bitmaps
        THEN Set(p, [work[p] EXCEPT !.k = k + 1]) /\ UNCHANGED bkPanic
        ELSE bkPanic' = "out of blocks" /\ UNCHANGED work
     /\ UNCHANGED << bitmap, words, addrs, len, disk3, outside >>

\* The data, and after the last block iupdate() if the file has grown.
writeData(p) ==
  LET i == Ip(p)
      at == work[p].at + 1
      done == at = work[p].end
      grows == done /\ at > len[i]
  IN /\ bmapFinds(p)
     /\ words' = [words EXCEPT ![Place(i, work[p].at)] = Written(i)]
     /\ len' = IF grows THEN [len EXCEPT ![i] = at] ELSE len
     /\ dlen' = IF grows THEN [dlen EXCEPT ![i] = at] ELSE dlen
     /\ daddrs' = IF grows THEN [daddrs EXCEPT ![i] = addrs[i]] ELSE daddrs
     /\ Set(p, IF done THEN Idle ELSE [work[p] EXCEPT !.at = at])
     /\ UNCHANGED << bitmap, addrs, bkPanic, outside >>

-----------------------------------------------------------------------------
(* itrunc, when the last link is gone; the inode is used for a new file.    *)

itrunc(p, i) == /\ Doing(p, "idle") /\ Unlocked(i)
                /\ Set(p, [Idle EXCEPT !.pc = "trunc", !.ip = i])
                /\ UNCHANGED << bitmap, words, addrs, len, disk3, bkPanic, outside >>

\* A block that keeps what it held.
Dirty(b) == words[b]

\* bzero: what a free block holds.
Cleaned(b) == Zero

\* bfree: first the block is zeroed; k keeps its number.
bzero(p) ==
  LET b == Place(Ip(p), work[p].at)
  IN /\ Doing(p, "trunc") /\ work[p].at <= MAXFILE
     /\ IF b = 0
        THEN UNCHANGED words /\ Set(p, [work[p] EXCEPT !.at = work[p].at + 1])
        ELSE /\ words' = [words EXCEPT ![b] = Cleaned(b)]
             /\ Set(p, [work[p] EXCEPT !.pc = "bfree", !.k = b])
     /\ UNCHANGED << bitmap, addrs, len, disk3, bkPanic, outside >>

\* Then its bit is cleared, and the address in the inode.
bfree(p) ==
  LET i == Ip(p)
      x == work[p].at
      slot == IF x = MAXFILE THEN NDIRECTS ELSE x
  IN /\ Doing(p, "bfree")
     /\ bkPanic' = IF work[p].k \in bitmap THEN "none" ELSE "freeing free block"
     /\ bitmap' = bitmap \ {work[p].k}
     /\ addrs' = IF x < NDIRECTS \/ x = MAXFILE
                 THEN [addrs EXCEPT ![i][slot] = 0] ELSE addrs
     /\ Set(p, [work[p] EXCEPT !.pc = "trunc", !.at = x + 1, !.k = 0])
     /\ UNCHANGED << words, len, disk3, outside >>

truncEnd(p) ==
  LET i == Ip(p)
  IN /\ Doing(p, "trunc") /\ work[p].at > MAXFILE
     /\ len' = [len EXCEPT ![i] = 0] /\ dlen' = [dlen EXCEPT ![i] = 0]
     /\ daddrs' = [daddrs EXCEPT ![i] = addrs[i]]
     /\ Set(p, Idle)
     /\ UNCHANGED << bitmap, words, addrs, bkPanic, outside >>

BkNext ==
  /\ bkPanic = "none" /\ ~ outside
  /\ \E p \in Writers :
       \/ \E i \in Inodes : \/ \E off \in 0 .. MAXFILE - 1, n \in 1 .. MAXFILE :
                                 writeBegin(p, i, off, n)
                            \/ itrunc(p, i)
       \/ ballocTakes(p) \/ ballocNext(p) \/ writeData(p)
       \/ bzero(p) \/ bfree(p) \/ truncEnd(p)

BkSpec == BkInit /\ [][BkNext]_bkvars

-----------------------------------------------------------------------------
(* Properties.                                                              *)

\* A place of a file that is being removed, whose block is free already.
Dropped(i, x) ==
  \E p \in Writers : Ip(p) = i /\ work[p].pc \in {"trunc", "bfree"} /\ work[p].at > x
BlockAt(l) == Place(l[1], l[2])
Places == {l \in Inodes \X (0 .. MAXFILE) : BlockAt(l) # 0 /\ ~ Dropped(l[1], l[2])}

\* The bitmap has exactly the blocks that files name, each at one place, and
\* a block that is free is all zeros, as bmap expects of a new indirect
\* block.  A file that nobody works on holds what was written to it and is
\* on the disk as in memory.  No block is freed twice.  (Nothing is said
\* once balloc has gone past the end of the disk.)
BlocksSound ==
  \/ outside
  \/ /\ \A l, m \in Places : BlockAt(l) = BlockAt(m) => l = m
     /\ bitmap = {0} \cup {BlockAt(l) : l \in Places}
     /\ \A b \in DOMAIN words \ bitmap : words[b] = Zero
     /\ \A i \in Inodes : Unlocked(i) =>
          /\ \A x \in 0 .. len[i] - 1 : words[Place(i, x)] = Written(i)
          /\ daddrs[i] = addrs[i] /\ dlen[i] = len[i]
     /\ bkPanic # "freeing free block"
=============================================================================
