-------------------------------- MODULE Mkfs --------------------------------
(***************************************************************************)
(* The tool that writes the first image of xv6's file system               *)
(* (tools/mkfs.c): it walks a directory of the host and gives out inodes   *)
(* and blocks in order.  What readdir finds next is chosen at each step: a *)
(* file of some size, a directory, or the end.  An iteration of the loop   *)
(* of iappend is a step.  A block contains nothing; what has been appended *)
(* to a directory is remembered as its entries.                            *)
(***************************************************************************)
EXTENDS Naturals, Sequences, FiniteSets

CONSTANTS
  BSIZE,       \* bytes of a block
  DIRENT,      \* bytes of an entry
  IPB,         \* inodes of a block
  NDIRECT, NINDIRECT,
  NINODES,     \* ninodes
  SIZE,        \* size: blocks of the image
  FileSizes,   \* sizes of the host's files
  MaxDepth     \* bound: directories inside each other

ASSUME WholeEntries == DIRENT > 0 /\ BSIZE % DIRENT = 0

VARIABLES
  inode,       \* inode[i], for the inodes given out: see ialloc
  freeblock, usedblocks,
  bitmap,      \* the blocks that the bitmap marks as used
  open,        \* the directories that add_dir is in, the innermost last
  work,        \* calls of iappend that are to be made, [inum, n, entry]
  phase        \* "walk", "done" or "abort"

mkvars == << inode, freeblock, usedblocks, bitmap, open, work, phase >>

ROOTINO == 1
MAXFILE == NDIRECT + NINDIRECT
bitblock == NINODES \div IPB + 3
Metadata == bitblock + 1       \* usedblocks at first, with one block of bits
i2b(inum) == inum \div IPB + 2

\* An inode as ialloc writes it.  addrs are the blocks of data in order and
\* ind is the indirect block.
ialloc(type) == [type |-> type, nlink |-> 1, size |-> 0, addrs |-> << >>,
                 ind |-> 0, entries |-> << >>]
freeinode == Len(inode) + 1

Append1(inum, n, name, to) == [inum |-> inum, n |-> n, name |-> name, to |-> to]
Entry(dir, name, to) == Append1(dir, DIRENT, name, to)

\* The beginning of add_dir.
Dots(cur, parent) == << Entry(cur, ".", cur), Entry(cur, "..", parent) >>

\* mkfs, and main up to the first step of add_dir.
MkInit ==
  /\ inode = << ialloc("dir") >>
  /\ freeblock = Metadata /\ usedblocks = Metadata /\ bitmap = {}
  /\ open = << ROOTINO >> /\ work = Dots(ROOTINO, ROOTINO) /\ phase = "walk"

-----------------------------------------------------------------------------
(* iappend.                                                                 *)

Smaller(a, b) == IF a < b THEN a ELSE b

\* The block of an inode at index fbn, after those it lacks were given out:
\* the indirect block comes first.
Blocks(ip, fbn, next) ==
  LET i == IF fbn >= NDIRECT /\ ip.ind = 0 THEN 1 ELSE 0
      d == IF fbn >= Len(ip.addrs) THEN 1 ELSE 0
  IN [ip |-> [ip EXCEPT !.ind = IF i = 1 THEN next ELSE @,
                        !.addrs = IF d = 1 THEN Append(@, next + i) ELSE @],
      took |-> i + d]

\* Mutant of Taken: the indirect block is not counted as used.
TakenOne(b) == Smaller(b.took, 1)

Taken(b) == b.took

iappend ==
  /\ phase = "walk" /\ work # << >>
  /\ LET w == Head(work)
         ip == inode[w.inum]
         fbn == ip.size \div BSIZE
         b == Blocks(ip, fbn, freeblock)
         n1 == Smaller(w.n, (fbn + 1) * BSIZE - ip.size)
     IN IF fbn >= MAXFILE
        THEN phase' = "abort" /\ UNCHANGED << inode, freeblock, usedblocks, work >>
        ELSE /\ inode' = [inode EXCEPT ![w.inum] =
                  [b.ip EXCEPT !.size = ip.size + n1,
                     !.entries = IF w.name = "" THEN @ ELSE Append(@, << w.name, w.to >>)]]
             /\ freeblock' = freeblock + b.took
             /\ usedblocks' = usedblocks + Taken(b)
             /\ work' = IF n1 = w.n THEN Tail(work)
                        ELSE << [w EXCEPT !.n = @ - n1] >> \o Tail(work)
             /\ UNCHANGED phase
  /\ UNCHANGED << bitmap, open >>

-----------------------------------------------------------------------------
(* add_dir.                                                                 *)

Walks == phase = "walk" /\ work = << >> /\ open # << >>
cur == open[Len(open)]

\* The calls of iappend with what read() returns of a file of n bytes.
Contents(inum, n) ==
  [k \in 1 .. (n + BSIZE - 1) \div BSIZE |->
     Append1(inum, Smaller(BSIZE, n - (k - 1) * BSIZE), "", 0)]

\* Inode numbers and blocks have no limit in the code: the walk of a tree that
\* does not fit is left here.
Fits == freeinode < NINODES /\ freeblock + MAXFILE + 2 < SIZE

addFile(n) ==
  /\ Walks /\ Fits
  /\ inode' = Append(inode, ialloc("file"))
  /\ work' = Append(Contents(freeinode, n), Entry(cur, "file", freeinode))
  /\ UNCHANGED << freeblock, usedblocks, bitmap, open, phase >>

addSubdir ==
  /\ Walks /\ Fits /\ Len(open) < MaxDepth
  /\ inode' = Append(inode, ialloc("dir"))
  /\ open' = Append(open, freeinode) /\ work' = Dots(freeinode, cur)
  /\ UNCHANGED << freeblock, usedblocks, bitmap, phase >>

\* A directory that cannot be read is added with its two entries.
addUnreadable ==
  /\ Walks /\ Fits /\ Len(open) < MaxDepth
  /\ inode' = Append(inode, ialloc("dir"))
  /\ work' = Append(Dots(freeinode, cur), Entry(cur, "dir", freeinode))
  /\ UNCHANGED << freeblock, usedblocks, bitmap, open, phase >>

\* "fix size of inode cur_dir".
Fixed(size) == (size \div BSIZE + 1) * BSIZE

endDir ==
  /\ Walks
  /\ inode' = [inode EXCEPT ![cur].size = Fixed(@)]
  /\ open' = SubSeq(open, 1, Len(open) - 1)
  /\ work' = IF Len(open) = 1 THEN << >>
             ELSE << Entry(open[Len(open) - 1], "dir", cur) >>
  /\ UNCHANGED << freeblock, usedblocks, bitmap, phase >>

\* balloc.
balloc ==
  /\ phase = "walk" /\ open = << >> /\ phase' = "done"
  /\ bitmap' = 0 .. usedblocks - 1
  /\ UNCHANGED << inode, freeblock, usedblocks, open, work >>

MkNext == \/ iappend \/ addSubdir \/ addUnreadable \/ endDir \/ balloc
          \/ \E n \in FileSizes : addFile(n)

MkSpec == MkInit /\ [][MkNext]_mkvars

-----------------------------------------------------------------------------
(* Properties.                                                              *)

BlocksOf(i) == {inode[i].addrs[k] : k \in DOMAIN inode[i].addrs}
                 \cup ({inode[i].ind} \ {0})
CountOf(i) == Len(inode[i].addrs) + (IF inode[i].ind = 0 THEN 0 ELSE 1)
Inodes == DOMAIN inode

\* The entries that lead to i, but for "." and "..".
Entries(i) == {e \in Inodes \X (1 .. SIZE * BSIZE) :
                 /\ e[2] <= Len(inode[e[1]].entries)
                 /\ inode[e[1]].entries[e[2]][2] = i
                 /\ inode[e[1]].entries[e[2]][1] \notin {".", ".."}}

\* The image that is written is one the kernel may work on: no block is in
\* two places or in the part of superblock, inodes and bits; exactly the
\* blocks in use are marked; no inode lies in the sector of the bitmap; and
\* every size is that of the blocks there are, but for a directory whose
\* entries fill its last block, which gets a block it does not have.  nlink
\* counts the entries, but not the ".." that the kernel would count.
ImageReady ==
  phase = "done" =>
    /\ \A i, j \in Inodes : i # j => BlocksOf(i) \cap BlocksOf(j) = {}
    /\ \A i \in Inodes : Cardinality(BlocksOf(i)) = CountOf(i)
    /\ bitmap = 0 .. Metadata - 1 \cup UNION {BlocksOf(i) : i \in Inodes}
    /\ \A i \in Inodes \ {ROOTINO} : inode[i].nlink = Cardinality(Entries(i))
    /\ \A i \in Inodes :
         /\ i2b(i) < bitblock /\ \A b \in BlocksOf(i) : b >= Metadata
         /\ LET has == Len(inode[i].addrs) * BSIZE
                full == /\ inode[i].type = "dir"
                        /\ Len(inode[i].entries) * DIRENT = has
            IN /\ inode[i].size <= has + (IF full THEN BSIZE ELSE 0)
               /\ inode[i].size + BSIZE > has
               /\ Len(inode[i].entries) * DIRENT <= inode[i].size
=============================================================================
