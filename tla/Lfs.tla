-------------------------------- MODULE Lfs --------------------------------
(***************************************************************************)
(* The disk image of the P5 file server and the operations server.c makes  *)
(* on it.  Every structure of the image but the checkpoint is made of      *)
(* 64-byte units: an inode, an imap piece and a directory entry are one    *)
(* each (mfs.h) and a block is Ents of them.  The log is the sequence of   *)
(* those units behind the checkpoint, an address is an index into it (0 is *)
(* the checkpoint itself), and sizes are counted in blocks, as server.c    *)
(* always adds 4096.                                                       *)
(*                                                                         *)
(* An operation that changes the image is the sequence of its write()      *)
(* calls, so that the server can be killed between two of them.            *)
(* The server's memory (chkpt, iArr) is reloaded from the image at  *)
(* the start of every operation and is therefore a function of it.         *)
(***************************************************************************)
EXTENDS Integers, Sequences, FiniteSets, FiniteSetsExt, SequencesExt

CONSTANTS
  Pieces,      \* places of the checkpoint's imap array (256)
  PieceSize,   \* inode addresses in an imap piece (16)
  Blocks,      \* block addresses in an inode (14)
  Ents,        \* entries of a directory block (64)
  Names,       \* the names the server accepts
  Values       \* what a block of a file can be made to hold

ASSUME SizeAssumption ==
  /\ Pieces \in Nat \ {0} /\ PieceSize \in Nat \ {0}
  /\ Blocks \in Nat \ {0} /\ Ents \in Nat \ {0, 1}

Dir == 0                              \* MFS_DIRECTORY
Reg == 1                              \* MFS_REGULAR_FILE
None == -1
Root == 0
Dot == "."
DotDot == ".."
NoName == ""

(***************************************************************************)
(* The units of the log.                                                   *)
(***************************************************************************)
Hole == [kind |-> "hole"]
Piece(inodes) == [kind |-> "piece", inodeArr |-> inodes]
Inode(type, size, blks) ==
  [kind |-> "inode", type |-> type, size |-> size, blockArr |-> blks]
Entry(name, inum) == [kind |-> "ent", name |-> name, inum |-> inum]
Data(val) == [kind |-> "data", val |-> val]

NewPiece == Piece([i \in 0 .. PieceSize - 1 |-> None])
OneBlock(a) == [i \in 0 .. Blocks - 1 |-> IF i = 0 THEN a ELSE None]
NewDirBlock == [i \in 1 .. Ents |-> Entry(NoName, None)]
DirBlock(self, up) ==
  [NewDirBlock EXCEPT ![1] = Entry(Dot, self), ![2] = Entry(DotDot, up)]
DataBlock(val) == [i \in 1 .. Ents |-> Data(val)]

(***************************************************************************)
(* A write() of the server: some units at address a, or the checkpoint     *)
(* (imap and endLog together) at address 0.  A gap left behind is a hole.  *)
(***************************************************************************)
At(a, units) == [at |-> a, units |-> units, imap |-> << >>, endLog |-> 0]
Chkpt(imap, endLog) ==
  [at |-> 0, units |-> << >>, imap |-> imap, endLog |-> endLog]

Unit(log, w, i) ==
  CASE i \in w.at .. w.at + Len(w.units) - 1 -> w.units[i - w.at + 1]
    [] i < w.at \/ i >= w.at + Len(w.units) ->
         IF i <= Len(log) THEN log[i] ELSE Hole

Written(img, w) ==
  IF w.at = 0 THEN [img EXCEPT !.imap = w.imap, !.endLog = w.endLog]
  ELSE [img EXCEPT !.log =
          [i \in 1 .. Max({Len(@), w.at + Len(w.units) - 1}) |->
             Unit(@, w, i)]]

\* The image after the writes ws, in order.
AfterWrites(img, ws) == FoldLeft(Written, img, ws)

\* The image initImage writes when there is none.
NewImage ==
  LET root == Inode(Dir, 2, OneBlock(3))
  IN [imap   |-> [i \in 0 .. Pieces - 1 |-> IF i = 0 THEN 1 ELSE None],
      endLog |-> 3 + Ents,
      log    |-> << [NewPiece EXCEPT !.inodeArr[0] = 2], root >>
                   \o DirBlock(Root, Root)]

(***************************************************************************)
(* loadMem: iArr is the sequence of the addresses of all pieces that are   *)
(* not -1, so that an inode's number is its place in that sequence.  A     *)
(* read past the end of the file leaves imapTemp as the piece before it    *)
(* left it; a hole reads as zeros.                                         *)
(***************************************************************************)
ImapTemp(img) ==
  LET temp[k \in 0 .. Pieces - 1] ==
        LET a == img.imap[k]
        IN CASE a \in 1 .. Len(img.log) ->
                  IF img.log[a].kind = "piece" THEN img.log[a].inodeArr
                  ELSE [i \in 0 .. PieceSize - 1 |-> 0]
             [] a \notin 1 .. Len(img.log) /\ k > 0 -> temp[k - 1]
             [] OTHER -> NewPiece.inodeArr
  IN temp

iArr(img) ==
  LET temp == ImapTemp(img)
      piece(k) == IF img.imap[k] < 0 THEN << >>
                  ELSE [i \in 1 .. PieceSize |-> temp[k][i - 1]]
  IN SelectSeq(FlattenSeq([k \in 1 .. Pieces |-> piece(k - 1)]),
               LAMBDA a : a >= 0)

Exists(img, inum) == inum \in 0 .. Len(iArr(img)) - 1
Loc(img, inum) == iArr(img)[inum + 1]

\* What reading an inode at address a gives; where no inode was ever written
\* the type is neither of the two the server knows.
InodeAt(img, a) ==
  IF a \in 1 .. Len(img.log) /\ img.log[a].kind = "inode" THEN img.log[a]
  ELSE Inode(2, 0, [i \in 0 .. Blocks - 1 |-> None])
InodeOf(img, inum) == InodeAt(img, Loc(img, inum))

IsEntry(img, a) == a \in 1 .. Len(img.log) /\ img.log[a].kind = "ent"

(***************************************************************************)
(* sLookup.  A block address of -1 makes lseek fail, and the read goes on  *)
(* where the one before it stopped.                                        *)
(***************************************************************************)
ScanFrom(inode, a) ==
  LET pos[i \in -1 .. Blocks - 1] ==
        IF i = -1 THEN a + 1 - Ents
        ELSE IF inode.blockArr[i] # None THEN inode.blockArr[i]
        ELSE pos[i - 1] + Ents
  IN pos

sLookup(img, pinum, name) ==
  IF ~ Exists(img, pinum) \/ name \notin Names \cup {Dot, DotDot} THEN None
  ELSE LET pInode == InodeOf(img, pinum)
           pos  == ScanFrom(pInode, Loc(img, pinum))
           Hits == {i \in 0 .. Blocks * Ents - 1 :
                      LET a == pos[i \div Ents] + (i % Ents)
                      IN IsEntry(img, a) /\ img.log[a].name = name}
           first == CHOOSE i \in Hits : \A j \in Hits : i <= j
       IN IF pInode.type # Dir \/ Hits = {} THEN None
          ELSE img.log[pos[first \div Ents] + (first % Ents)].inum

(***************************************************************************)
(* cImapPiece and cInode: the new inode's number, the place of its address *)
(* in the imap, and the writes.                                            *)
(***************************************************************************)

\* Mutant of NextInum: one past the first unused place of iArr.
NextInumOffByOne(img) == Len(iArr(img)) + 1

NextInum(img) == Len(iArr(img))

\* Past the last place cInode and cImapPiece use an index they never set:
\* the model refuses the creation there.
HasRoom(img, inum) ==
  /\ inum < Pieces * PieceSize
  /\ inum % PieceSize = 0 => \E k \in 0 .. Pieces - 1 : img.imap[k] = None

\* The imap and the end of the log once cImapPiece has added its piece,
\* which cInode asks for when the number starts one.
NewImap(img, inum) ==
  IF inum % PieceSize # 0 THEN img.imap
  ELSE [img.imap EXCEPT ![Min({k \in 0 .. Pieces - 1 : img.imap[k] = None})]
          = img.endLog]
NewEnd(img, inum) ==
  IF inum % PieceSize # 0 THEN img.endLog ELSE img.endLog + 1

cImapPiece(img, inum) ==
  IF inum % PieceSize # 0 THEN << >>
  ELSE << Chkpt(NewImap(img, inum), img.endLog + 1),
          At(img.endLog, << NewPiece >>) >>

\* The end of the log behind an inode at a and its first block.
EndOfBlock(a) == a + 1 + Ents

\* The piece at address a with the inode's address in its place.
Mapped(img, a, inum, end) ==
  [IF inum % PieceSize = 0 THEN NewPiece ELSE img.log[a]
     EXCEPT !.inodeArr[inum % PieceSize] = end]

cInode(img, inum, pinum, type) ==
  LET imap == NewImap(img, inum)
      a    == imap[inum \div PieceSize]
      end  == NewEnd(img, inum)
  IN cImapPiece(img, inum)
       \o << At(a, << Mapped(img, a, inum, end) >>),
             At(end, << Inode(type, IF type = Dir THEN 2 ELSE 0,
                              OneBlock(end + 1)) >>),
             At(end + 1, IF type = Dir THEN DirBlock(inum, pinum)
                         ELSE DataBlock("junk")),
             Chkpt(imap, EndOfBlock(end)) >>

(***************************************************************************)
(* The operations.  Each gives the set of its outcomes: the number         *)
(* returned, what the reply's buffer or stat holds, and the writes.        *)
(***************************************************************************)
Outcome(ret, val, writes) == [ret |-> ret, val |-> val, writes |-> writes]
Refused == {Outcome(-1, << >>, << >>)}
Answered(ret, val) == {Outcome(ret, val, << >>)}

BlockVal(img, a) ==
  IF a \in 1 .. Len(img.log) /\ img.log[a].kind = "data"
  THEN img.log[a].val ELSE "blank"

sRead(img, inum, blk) ==
  IF blk \notin 0 .. Blocks - 1 \/ ~ Exists(img, inum) THEN Refused
  ELSE LET a == InodeOf(img, inum).blockArr[blk]
       IN IF a = None THEN Refused ELSE Answered(0, << BlockVal(img, a) >>)

sStat(img, inum) ==
  IF ~ Exists(img, inum) THEN Refused
  ELSE LET inode == InodeOf(img, inum)
       IN Answered(0, << inode.type, inode.size >>)

\* Mutant of WriteAt: every block of the file is its first one.
WriteAtFirst(img, inode, blk) == inode.blockArr[0]

\* Where block blk is written: a new one at the end of the log.
WriteAt(img, inode, blk) ==
  IF inode.blockArr[blk] = None THEN img.endLog ELSE inode.blockArr[blk]

\* The size becomes blk + 1 even when the file was longer.
sWrite(img, inum, blk, val) ==
  IF blk \notin 0 .. Blocks - 1 \/ ~ Exists(img, inum) THEN Refused
  ELSE LET loc   == Loc(img, inum)
           inode == InodeAt(img, loc)
           a     == WriteAt(img, inode, blk)
       IN IF inode.type # Reg THEN Refused
          ELSE {Outcome(0, << >>,
                  (IF inode.blockArr[blk] # None THEN << >>
                   ELSE << At(a, NewDirBlock),
                           Chkpt(img.imap, img.endLog + Ents) >>)
                  \o << At(loc, << [inode EXCEPT !.blockArr[blk] = a,
                                                 !.size = blk + 1] >>),
                        At(a, DataBlock(val)) >>)}

GoodType(type) == type \in {Dir, Reg}

\* A creation of a name that is there succeeds at once, so that it can be
\* sent again.
Already(img, pinum, name) == sLookup(img, pinum, name) >= 0

\* The writes of sCreate behind those of cInode: a new block at end when the
\* last one is full, the directory's inode, and the entry.
AddEntry(img, pinum, name, inum, end) ==
  LET loc    == Loc(img, pinum)
      pInode == InodeAt(img, loc)
      blk    == pInode.size \div Ents
      ind    == pInode.size % Ents
      a      == IF ind = 0 THEN end ELSE pInode.blockArr[blk]
  IN (IF ind # 0 THEN << >>
      ELSE << At(end, NewDirBlock),
              Chkpt(NewImap(img, inum), end + Ents) >>)
     \o << At(loc, << [pInode EXCEPT !.size = @ + 1,
                                     !.blockArr[blk] = a] >>),
           At(a + ind, << Entry(name, inum) >>) >>

sCreate(img, pinum, type, name) ==
  IF ~ GoodType(type) \/ name \notin Names \/ ~ Exists(img, pinum)
  THEN Refused
  ELSE IF Already(img, pinum, name) THEN Answered(0, << >>)
  ELSE LET pInode == InodeOf(img, pinum)
           inum   == NextInum(img)
       IN IF \/ pInode.type # Dir \/ pInode.size >= Blocks * Ents
             \/ ~ HasRoom(img, inum)
          THEN Refused
          ELSE {Outcome(0, << >>,
                  cInode(img, inum, pinum, type)
                    \o AddEntry(img, pinum, name, inum,
                                EndOfBlock(NewEnd(img, inum))))}

(***************************************************************************)
(* delInode is given the inode's address where it takes its number, reads  *)
(* an imap slot that does not exist, and so works on the units behind the  *)
(* inode, where its own first block is: it writes the first unit over the  *)
(* second, or writes nothing when the unit's first word is not positive.   *)
(* The inode stays in the imap in either case.                             *)
(***************************************************************************)
delInode(img, a) ==
  {<< >>} \cup (IF a + 2 \in 1 .. Len(img.log)
                THEN {<< At(a + 2, << img.log[a + 1] >>) >>} ELSE {})

\* The places of the entries of that name in the directory's blocks.
Hits(img, inode, name) ==
  {h \in (0 .. Blocks - 1) \X (0 .. Ents - 1) :
     LET a == inode.blockArr[h[1]] + h[2]
     IN /\ inode.blockArr[h[1]] # None
        /\ IsEntry(img, a) /\ img.log[a].name = name}

\* The directory's size becomes the number of its blocks, whatever entries
\* it still holds.
sUnlink(img, pinum, name) ==
  IF ~ Exists(img, pinum) \/ name \notin Names THEN Refused
  ELSE LET loc    == Loc(img, pinum)
           pInode == InodeAt(img, loc)
           hits   == Hits(img, pInode, name)
           first  == CHOOSE h \in hits : \A g \in hits :
                       h[1] * Ents + h[2] <= g[1] * Ents + g[2]
           a      == pInode.blockArr[first[1]] + first[2]
           del    == Loc(img, img.log[a].inum)
           last   == Max({i \in 0 .. Blocks - 1 : pInode.blockArr[i] # None})
       IN IF \/ pInode.type # Dir \/ hits = {}
             \/ InodeAt(img, del).type = Dir /\ InodeAt(img, del).size > 2
          THEN Refused
          ELSE {Outcome(0, << >>,
                  d \o << At(a, << Entry(NoName, None) >>),
                          At(loc, << [pInode EXCEPT !.size = last + 1] >>) >>)
                  : d \in delInode(img, del)}
============================================================================
