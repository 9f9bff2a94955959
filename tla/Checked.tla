------------------------------- MODULE Checked -------------------------------
(***************************************************************************)
(* A checksummed file of P5's xv6 (T_CHECKED in fs.c).  The top byte of    *)
(* the address of a block holds the exclusive or of the block's bytes: in  *)
(* the inode, which is in memory and, after iupdate(), on the disk, or in  *)
(* the indirect block, which is written at once.  The calls hold the lock  *)
(* of the inode, so each is one step.  A byte is a bit here.               *)
(***************************************************************************)
EXTENDS Integers, FiniteSets

CONSTANTS
  BSIZE, NDIRECT, NINDIRECT,
  MaxN,          \* bound: bytes read or written by one call
  MaxDamage      \* bound: bytes of the disk that go bad

ASSUME ChkAssumption ==
  /\ BSIZE \in Nat \ {0} /\ NDIRECT \in Nat /\ NINDIRECT \in Nat /\ MaxN \in Nat

Blks == 0 .. NDIRECT + NINDIRECT - 1
MAXBYTES == (NDIRECT + NINDIRECT) * BSIZE
Bits == {0, 1}

VARIABLES
  fsize,      \* ip->size
  data,      \* data[b][i]: byte i of block b
  sum,       \* sum[b]: the checksum in ip->addrs or in the indirect block
  dsum,      \* dsum[b]: the checksum of a direct block in the inode on disk
  over,      \* history: over[b]: how many bytes the last write of b summed up
  dirty,     \* history: direct blocks written since the last iupdate
  lost,      \* history: blocks whose last checksum was not kept on disk
  damage     \* history: the bytes << b, i >> gone bad since the last write

chkvars == << fsize, data, sum, dsum, over, dirty, lost, damage >>

ChkInit ==
  /\ fsize = 0 /\ data = [b \in Blks |-> [i \in 0 .. BSIZE - 1 |-> 0]]
  /\ sum = [b \in Blks |-> 0] /\ dsum = [b \in Blks |-> 0]
  /\ over = [b \in Blks |-> 0] /\ dirty = {} /\ lost = {} /\ damage = {}

Least2(m, n) == IF m < n THEN m ELSE n

\* The bytes of a block that a call for n bytes takes into the checksum,
\* whichever part of the block it reads or writes.
nbytes(n) == Least2(n, BSIZE)

\* The exclusive or of the first k bytes of a block.
Xor(block, k) == Cardinality({i \in 0 .. k - 1 : block[i] = 1}) % 2

\* The blocks the loops of readi and writei come to.
Touched(off, n) == {b \in Blks : b * BSIZE < off + n /\ off < (b + 1) * BSIZE}

\* Mutant of Recorded: the checksum is put into direct blocks only.
RecordedDirect(b, block, n) ==
  IF b < NDIRECT THEN Xor(block, nbytes(n)) ELSE sum[b]

\* The checksum that writei records for block b.
Recorded(b, block, n) == Xor(block, nbytes(n))

\* Only a write that makes the file longer calls iupdate.
writei(off, src, n) ==
  LET m == Least2(n, MAXBYTES - off)
      new(b) == [i \in 0 .. BSIZE - 1 |->
                   IF off <= b * BSIZE + i /\ b * BSIZE + i < off + m
                   THEN src[b * BSIZE + i - off] ELSE data[b][i]]
      t == Touched(off, m)
  IN /\ off <= fsize /\ m > 0
     /\ data' = [b \in Blks |-> IF b \in t THEN new(b) ELSE data[b]]
     /\ sum' = [b \in Blks |-> IF b \in t THEN Recorded(b, new(b), n)
                               ELSE sum[b]]
     /\ over' = [b \in Blks |-> IF b \in t THEN nbytes(n) ELSE over[b]]
     /\ lost' = lost \ t /\ damage' = {d \in damage : d[1] \notin t}
     /\ IF off + m > fsize
        THEN fsize' = off + m /\ dsum' = sum' /\ dirty' = {}
        ELSE /\ dirty' = dirty \cup {b \in t : b < NDIRECT}
             /\ UNCHANGED << fsize, dsum >>

\* readi answers -1 when a block's checksum is another.
ReadFails(off, n) == \E b \in Touched(off, Least2(n, fsize - off)) :
                       sum[b] # Xor(data[b], nbytes(n))

\* stati puts the checksums of the blocks together.
stati == Cardinality({b \in Blks : sum[b] = 1}) % 2

\* The last user closes the file; the next one has the inode read again.
reopen == /\ sum' = [b \in Blks |-> IF b < NDIRECT THEN dsum[b] ELSE sum[b]]
          /\ lost' = lost \cup dirty /\ dirty' = {}
          /\ UNCHANGED << fsize, data, dsum, over, damage >>

\* A byte of the disk goes bad.
corrupt(b, i) ==
  /\ b * BSIZE < fsize /\ Cardinality(damage) < MaxDamage
  /\ << b, i >> \notin damage
  /\ data' = [data EXCEPT ![b][i] = 1 - @]
  /\ damage' = damage \cup {<< b, i >>}
  /\ UNCHANGED << fsize, sum, dsum, over, dirty, lost >>

ChkNext ==
  \/ \E off \in 0 .. MAXBYTES, n \in 1 .. MaxN : \E src \in [0 .. n - 1 -> Bits] :
       writei(off, src, n)
  \/ reopen
  \/ \E b \in Blks, i \in 0 .. BSIZE - 1 : corrupt(b, i)

ChkSpec == ChkInit /\ [][ChkNext]_chkvars

-----------------------------------------------------------------------------
(* Properties.                                                              *)

\* The checksum of b was made from k bytes and not lost with the inode in
\* memory.
Current(b, k) == over[b] = k /\ b \notin lost
Bad(b, k) == Cardinality({i \in 0 .. k - 1 : << b, i >> \in damage})

\* A read does not refuse good data, and a single bad byte among those that
\* are summed up does not get through, if the blocks were written by calls
\* for as many bytes as this one (as far as one block goes) and no write that
\* did not make the file longer was forgotten.  Under the same conditions
\* the checksum of stat() is that of the bytes of the file.
ChecksExplained ==
  /\ \A off \in 0 .. fsize, n \in 1 .. MaxN :
       LET t == Touched(off, Least2(n, fsize - off))
       IN /\ ReadFails(off, n) =>
               \E b \in t : ~ Current(b, nbytes(n)) \/ Bad(b, nbytes(n)) > 0
          /\ \A b \in t : Current(b, nbytes(n)) /\ Bad(b, nbytes(n)) = 1 =>
                            ReadFails(off, n)
  /\ (\A b \in Blks : b * BSIZE < fsize => Current(b, BSIZE)) /\ damage = {} =>
       stati = Cardinality({p \in Blks \X (0 .. BSIZE - 1) :
                              data[p[1]][p[2]] = 1}) % 2
=============================================================================
