----------------------------- MODULE BioProofs -----------------------------
(***************************************************************************)
(* The buffer cache and the disk driver, for any numbers of processes,     *)
(* buffers and sectors and any nesting of reads: a sector has one buffer,  *)
(* a buffer one holder, a sleeper somebody who wakes it, and the whole     *)
(* implements the store of blocks that bio.c promises.                     *)
(***************************************************************************)
EXTENDS Bio, SequenceTheorems, WellFoundedInduction, TLAPS

-----------------------------------------------------------------------------
(* The inductive invariant.                                                 *)

Commands ==
  [op : {"none", "read"}, sector : Sectors \cup {Nobody}, done : BOOLEAN,
   ok : BOOLEAN]
  \cup [op : {"write"}, sector : Sectors \cup {Nobody}, done : BOOLEAN,
        ok : BOOLEAN, data : Values]

Types == TypeOK /\ drive \in Commands

\* A sector is cached once.
CachedOnce ==
  \A b, c \in Bufs : sector[b] = sector[c] /\ sector[b] # Nobody => b = c

\* Places in the list are below the number of buffers.
ListRight == \A b \in Bufs : place[b] < NBUF

\* Each process holds a buffer at most once.
HeldDistinct == \A p \in Procs : \A i, j \in 1 .. Len(held[p]) :
                  held[p][i] = held[p][j] => i = j

\* A buffer that is held is busy and for a sector; one process holds it, once.
HeldOnce ==
  /\ \A b \in Bufs : "BUSY" \in flags[b] <=> \E p \in Procs : Holds(p, b)
  /\ \A b \in Bufs : "BUSY" \in flags[b] => sector[b] \in Sectors
  /\ \A p, q \in Procs, b \in Bufs : Holds(p, b) /\ Holds(q, b) => p = q
  /\ HeldDistinct

InDriver == {"iderw", "isleep", "iwake"}
Queued(b) == \E i \in 1 .. Len(idequeue) : idequeue[i] = b

\* Where a process is says what it has and waits for.
PlaceRight(p) ==
  /\ pc[p] \in {"bget", "bsleep"} => want[p] \in Sectors
  /\ pc[p] \in InDriver => held[p] # << >>
  /\ pc[p] = "iderw" => ~ Finished(Top(p)) /\ ~ Queued(Top(p))
  /\ pc[p] = "bsleep" => chan[p] # 0 /\ "BUSY" \in flags[chan[p]]
  /\ pc[p] = "isleep" => chan[p] = Top(p) /\ Queued(Top(p))
  /\ pc[p] = "iwake" => Finished(Top(p)) \/ Queued(Top(p))
  /\ chan[p] # 0 => pc[p] \in {"bsleep", "isleep"}
PlacesRight == \A p \in Procs : PlaceRight(p)

\* A request in the queue is of a process in iderw, and there is one of it.
QueueRight ==
  /\ \A i \in 1 .. Len(idequeue) :
       /\ ~ Finished(idequeue[i])
       /\ \E p \in Procs : /\ pc[p] \in {"isleep", "iwake"}
                           /\ Top(p) = idequeue[i]
  /\ \A i, j \in 1 .. Len(idequeue) : idequeue[i] = idequeue[j] => i = j

\* The drive works at the first request.
DriveRight ==
  /\ idequeue = << >> => drive = Idle
  /\ idequeue # << >> =>
       /\ drive.op = (IF "DIRTY" \in flags[idequeue[1]] THEN "write" ELSE "read")
       /\ drive.sector = sector[idequeue[1]]
       /\ drive.op = "write" =>
            /\ drive.ok /\ drive.data = data[idequeue[1]]
            /\ drive.done => disk[drive.sector] = data[idequeue[1]]

\* A buffer is dirty only while its holder is in the driver.
DirtyHeld ==
  \A b \in Bufs : "DIRTY" \in flags[b] =>
    \E p \in Procs : pc[p] \in InDriver /\ Top(p) = b

\* A valid buffer that is not to be written holds what the disk holds, unless
\* a read of its sector has failed.
CleanIsDisk ==
  \A b \in Bufs : Finished(b) /\ sector[b] \in Sectors \ failed =>
    data[b] = disk[sector[b]]

NoIdleRequest == panicked # "iderw: nothing to do"

IInv == /\ Types /\ ListRight /\ CachedOnce /\ HeldOnce /\ PlacesRight /\ QueueRight
        /\ DriveRight /\ DirtyHeld /\ CleanIsDisk /\ NoIdleRequest

-----------------------------------------------------------------------------
(* Sequences.                                                               *)

\* The elements of a sequence without its last one.
LEMMA FrontSeq ==
  ASSUME NEW S, NEW s \in Seq(S), s # << >>
  PROVE  /\ SubSeq(s, 1, Len(s) - 1) \in Seq(S)
         /\ Len(SubSeq(s, 1, Len(s) - 1)) = Len(s) - 1
         /\ \A i \in 1 .. Len(s) - 1 : SubSeq(s, 1, Len(s) - 1)[i] = s[i]
  <1> DEFINE n == Len(s) - 1
  <1>1. n \in Nat /\ \A i \in 1 .. n : s[i] \in S
    OBVIOUS
  <1> HIDE DEF n
  <1>2. /\ SubSeq(s, 1, n) \in Seq(S)
        /\ Len(SubSeq(s, 1, n)) = (IF 1 <= n THEN n - 1 + 1 ELSE 0)
        /\ \A i \in 1 .. n - 1 + 1 : SubSeq(s, 1, n)[i] = s[1 + i - 1]
    BY <1>1, SubSeqProperties
  <1>3. Len(SubSeq(s, 1, n)) = n /\ \A i \in 1 .. n : SubSeq(s, 1, n)[i] = s[i]
    BY <1>1, <1>2
  <1> QED  BY <1>2, <1>3 DEF n

\* A sequence that is not empty has a first and a last element.
LEMMA EndsSeq ==
  ASSUME NEW S, NEW s \in Seq(S), s # << >>
  PROVE  Len(s) \in Nat /\ Len(s) >= 1 /\ s[1] \in S /\ s[Len(s)] \in S
  OBVIOUS

-----------------------------------------------------------------------------
(* The buffers a process holds and the queue of the driver.                 *)

\* Buffer numbers are not 0, which stands for no channel.
LEMMA NoBufZero == 0 \notin Bufs
  BY DEF Bufs

\* A process that holds something holds the buffer it got last.
LEMMA TopHeld ==
  ASSUME held \in [Procs -> Seq(Bufs)], NEW p \in Procs, held[p] # << >>
  PROVE  Top(p) \in Bufs /\ Holds(p, Top(p))
  <1>1. held[p] \in Seq(Bufs)
    OBVIOUS
  <1>2. Len(held[p]) \in 1 .. Len(held[p]) /\ held[p][Len(held[p])] \in Bufs
    BY <1>1, EndsSeq
  <1> QED  BY <1>2 DEF Top, Holds

\* Getting one more buffer.
LEMMA GetOne ==
  ASSUME held \in [Procs -> Seq(Bufs)], NEW p \in Procs, NEW b \in Bufs,
         HeldDistinct, ~ Holds(p, b),
         held' = [held EXCEPT ![p] = Append(@, b)]
  PROVE  /\ held' \in [Procs -> Seq(Bufs)] /\ HeldDistinct'
         /\ \A q \in Procs, c \in Bufs :
              Holds(q, c)' <=> Holds(q, c) \/ (q = p /\ c = b)
         /\ \A q \in Procs : q # p => /\ Top(q)' = Top(q)
                                      /\ held'[q] = held[q]
         /\ Top(p)' = b /\ held'[p] # << >>
  <1> DEFINE h == held[p]  k == Append(h, b)
  <1>0. h \in Seq(Bufs) /\ held'[p] = k /\ \A q \in Procs : q # p => held'[q] = held[q]
    OBVIOUS
  <1>1. /\ k \in Seq(Bufs) /\ k # << >> /\ Len(h) \in Nat /\ Len(k) = Len(h) + 1
        /\ \A i \in 1 .. Len(h) : k[i] = h[i]
        /\ k[Len(h) + 1] = b
    BY <1>0, AppendProperties, LenProperties
  <1>2. \A i \in 1 .. Len(h) : h[i] # b
    BY DEF Holds
  <1>3. \A i \in 1 .. Len(k) : i \in 1 .. Len(h) \/ i = Len(h) + 1
    BY <1>1
  <1> HIDE DEF k, h
  <1>4. held' \in [Procs -> Seq(Bufs)]
    BY <1>0, <1>1
  <1>5. HeldDistinct'
    <2>1. \A i, j \in 1 .. Len(k) : k[i] = k[j] => i = j
      <3>1. \A i, j \in 1 .. Len(h) : h[i] = h[j] => i = j
        BY DEF HeldDistinct, h
      <3> QED  BY <3>1, <1>1, <1>2, <1>3
    <2>2. ASSUME NEW q \in Procs, NEW i \in 1 .. Len(held'[q]),
                 NEW j \in 1 .. Len(held'[q]), held'[q][i] = held'[q][j]
          PROVE  i = j
      <3>1. CASE q = p  BY <3>1, <2>1, <2>2, <1>0
      <3>2. CASE q # p  BY <3>2, <2>2, <1>0 DEF HeldDistinct
      <3> QED  BY <3>1, <3>2
    <2> QED  BY <2>2 DEF HeldDistinct
  <1>6. ASSUME NEW q \in Procs, NEW c \in Bufs
        PROVE  Holds(q, c)' <=> Holds(q, c) \/ (q = p /\ c = b)
    <2>1. CASE q # p
      BY <2>1, <1>0 DEF Holds
    <2>2. CASE q = p
      <3>1. (\E i \in 1 .. Len(k) : k[i] = c) <=>
            (\E i \in 1 .. Len(h) : h[i] = c) \/ c = b
        <4>1. 1 .. Len(h) \subseteq 1 .. Len(k) /\ Len(h) + 1 \in 1 .. Len(k)
          BY <1>1
        <4> QED  BY <4>1, <1>1, <1>3
      <3> QED  BY <3>1, <2>2, <1>0 DEF Holds, h
    <2> QED  BY <2>1, <2>2
  <1>7. \A q \in Procs : q # p => Top(q)' = Top(q) /\ held'[q] = held[q]
    BY <1>0 DEF Top
  <1>8. Top(p)' = b /\ held'[p] # << >>
    BY <1>0, <1>1 DEF Top
  <1> QED  BY <1>4, <1>5, <1>6, <1>7, <1>8

\* Giving up the buffer that was got last.
LEMMA DropOne ==
  ASSUME held \in [Procs -> Seq(Bufs)], NEW p \in Procs, HeldDistinct,
         held[p] # << >>,
         held' = [held EXCEPT ![p] = SubSeq(@, 1, Len(@) - 1)]
  PROVE  /\ held' \in [Procs -> Seq(Bufs)] /\ HeldDistinct'
         /\ \A q \in Procs, c \in Bufs :
              Holds(q, c)' <=> Holds(q, c) /\ ~ (q = p /\ c = Top(p))
         /\ \A q \in Procs : q # p => /\ Top(q)' = Top(q)
                                      /\ held'[q] = held[q]
  <1> DEFINE h == held[p]  k == SubSeq(h, 1, Len(h) - 1)
  <1>0. h \in Seq(Bufs) /\ held'[p] = k /\ \A q \in Procs : q # p => held'[q] = held[q]
    OBVIOUS
  <1>1. /\ k \in Seq(Bufs) /\ Len(h) \in Nat \ {0} /\ Len(k) = Len(h) - 1
        /\ \A i \in 1 .. Len(h) - 1 : k[i] = h[i]
    BY <1>0, FrontSeq, EndsSeq
  <1>2. \A i \in 1 .. Len(h) : i \in 1 .. Len(k) \/ i = Len(h)
    BY <1>1
  <1>3. \A i, j \in 1 .. Len(h) : h[i] = h[j] => i = j
    BY DEF HeldDistinct
  <1>t. Top(p) = h[Len(h)]
    BY DEF Top
  <1> HIDE DEF k, h
  <1>4. held' \in [Procs -> Seq(Bufs)]
    BY <1>0, <1>1
  <1>5. HeldDistinct'
    <2>1. \A i, j \in 1 .. Len(k) : k[i] = k[j] => i = j
      BY <1>1, <1>3
    <2> QED  BY <2>1, <1>0 DEF HeldDistinct
  <1>6. ASSUME NEW q \in Procs, NEW c \in Bufs
        PROVE  Holds(q, c)' <=> Holds(q, c) /\ ~ (q = p /\ c = Top(p))
    <2>1. CASE q # p
      BY <2>1, <1>0 DEF Holds
    <2>2. CASE q = p
      <3>1. (\E i \in 1 .. Len(k) : k[i] = c) <=>
            (\E i \in 1 .. Len(h) : h[i] = c) /\ c # h[Len(h)]
        <4>1. Len(h) \in 1 .. Len(h) /\ \A i \in 1 .. Len(k) : i \in 1 .. Len(h) /\ i # Len(h)
          BY <1>1
        <4> QED  BY <4>1, <1>1, <1>2, <1>3
      <3> QED  BY <3>1, <2>2, <1>0, <1>t DEF Holds, h
    <2> QED  BY <2>1, <2>2
  <1>7. \A q \in Procs : q # p => Top(q)' = Top(q) /\ held'[q] = held[q]
    BY <1>0 DEF Top
  <1> QED  BY <1>4, <1>5, <1>6, <1>7

\* Nobody gets or gives up a buffer.
LEMMA HeldSame ==
  ASSUME UNCHANGED held
  PROVE  /\ HeldDistinct' = HeldDistinct
         /\ \A q, c : Holds(q, c)' <=> Holds(q, c)
         /\ \A q : Top(q)' = Top(q) /\ held'[q] = held[q]
  BY DEF HeldDistinct, Holds, Top

\* Finished, as membership.
LEMMA FinishedSet ==
  ASSUME NEW f
  PROVE  f \cap {"VALID", "DIRTY"} = {"VALID"} <=> "VALID" \in f /\ "DIRTY" \notin f
  OBVIOUS

\* Nothing is queued or finished.
LEMMA QueueSame ==
  ASSUME UNCHANGED << idequeue, flags >>
  PROVE  /\ \A b : Queued(b)' <=> Queued(b)
         /\ \A b : Finished(b)' <=> Finished(b)
  BY DEF Queued, Finished

\* wakeup(b) moves the sleepers on b and nobody else.
LEMMA WakeupIs ==
  ASSUME TypeOK, PlacesRight, NEW b \in Bufs, wakeup(b), NEW q \in Procs
  PROVE  \/ chan[q] # b /\ pc'[q] = pc[q] /\ chan'[q] = chan[q]
         \/ chan[q] = b /\ pc[q] = "bsleep" /\ pc'[q] = "bget" /\ chan'[q] = 0
         \/ chan[q] = b /\ pc[q] = "isleep" /\ pc'[q] = "iwake" /\ chan'[q] = 0
  BY NoBufZero DEF TypeOK, wakeup, Woken, PlacesRight, PlaceRight

\* A buffer whose request is queued is held by the process in the driver.
LEMMA QueuedIsHeld ==
  ASSUME IInv, NEW b \in Bufs, Queued(b)
  PROVE  /\ \E p \in Procs : Holds(p, b) /\ pc[p] \in {"isleep", "iwake"} /\ Top(p) = b
         /\ ~ Finished(b)
  <1>1. PICK i \in 1 .. Len(idequeue) : idequeue[i] = b
    BY DEF Queued
  <1>2. PICK p \in Procs : pc[p] \in {"isleep", "iwake"} /\ Top(p) = b
    BY <1>1 DEF IInv, QueueRight
  <1>3. held[p] # << >>
    BY <1>2 DEF IInv, PlacesRight, PlaceRight, InDriver
  <1>4. Holds(p, b)
    BY <1>2, <1>3, TopHeld DEF IInv, Types, TypeOK
  <1> QED  BY <1>1, <1>2, <1>4 DEF IInv, QueueRight

\* So is a buffer that is to be written.
LEMMA DirtyIsHeld ==
  ASSUME IInv, NEW b \in Bufs, "DIRTY" \in flags[b]
  PROVE  \E p \in Procs : Holds(p, b) /\ pc[p] \in InDriver /\ Top(p) = b
  <1>1. PICK p \in Procs : pc[p] \in InDriver /\ Top(p) = b
    BY DEF IInv, DirtyHeld
  <1>2. held[p] # << >>
    BY <1>1 DEF IInv, PlacesRight, PlaceRight
  <1> QED  BY <1>1, <1>2, TopHeld DEF IInv, Types, TypeOK

-----------------------------------------------------------------------------
(* Each action keeps the invariant.                                         *)

LEMMA InitKeeps == Init => IInv
  <1> SUFFICES ASSUME Init PROVE IInv
    OBVIOUS
  <1>0. \A b \in Bufs : NBUF - b \in Nat /\ NBUF - b < NBUF
    <2>1. NBUF \in Nat
      BY BioAssumption
    <2> QED  BY <2>1 DEF Bufs
  <1>1. TypeOK
    <2>1. place \in [Bufs -> Nat]
      BY <1>0 DEF Init
    <2>2. << >> \in Seq(Bufs)
      OBVIOUS
    <2>3. held \in [Procs -> Seq(Bufs)] /\ idequeue \in Seq(Bufs)
      BY <2>2 DEF Init
    <2>4. /\ sector \in [Bufs -> Sectors \cup {Nobody}]
          /\ flags \in [Bufs -> SUBSET {"BUSY", "VALID", "DIRTY"}]
          /\ data \in [Bufs -> Values] /\ disk \in [Sectors -> Values]
          /\ pc \in [Procs -> Places] /\ want \in [Procs -> Sectors \cup {Nobody}]
          /\ chan \in [Procs -> Bufs \cup {0}]
      BY BioAssumption DEF Init, Places
    <2>5. panicked \in Panics /\ writes \in 0 .. MaxWrites /\ failed \subseteq Sectors
      <3>1. MaxWrites \in Nat
        BY BioAssumption
      <3>2. writes = 0 /\ panicked = "" /\ failed = {}
        BY DEF Init
      <3> QED
        <4>1. writes \in 0 .. MaxWrites
          <5>1. writes = 0
            BY <3>2
          <5> QED  BY <5>1, <3>1
        <4> QED  BY <4>1, <3>2 DEF Panics
    <2> QED  BY <2>1, <2>3, <2>4, <2>5 DEF TypeOK
  <1>2. drive \in Commands /\ ListRight
    <2>1. drive \in Commands
      BY DEF Init, Commands, Idle
    <2>2. ListRight
      BY <1>0 DEF Init, ListRight
    <2> QED  BY <2>1, <2>2
  <1>3. CachedOnce /\ DirtyHeld /\ CleanIsDisk /\ NoIdleRequest
    BY FinishedSet DEF Init, CachedOnce, DirtyHeld, CleanIsDisk, NoIdleRequest, Finished
  <1>4. \A p \in Procs : held[p] = << >> /\ pc[p] = "run" /\ chan[p] = 0
    BY DEF Init
  <1>5. \A i \in 1 .. Len(<< >>) : FALSE
    OBVIOUS
  <1>6. HeldOnce
    <2>1. \A p \in Procs, b \in Bufs : ~ Holds(p, b)
      BY <1>4, <1>5 DEF Holds
    <2>2. HeldDistinct
      BY <1>4, <1>5 DEF HeldDistinct
    <2> QED  BY <2>1, <2>2 DEF Init, HeldOnce
  <1>7. PlacesRight
    BY <1>4 DEF PlacesRight, PlaceRight, InDriver
  <1>8. QueueRight /\ DriveRight
    BY <1>5 DEF Init, QueueRight, DriveRight
  <1> QED  BY <1>1, <1>2, <1>3, <1>6, <1>7, <1>8 DEF IInv, Types

LEMMA breadKeeps ==
  ASSUME IInv, NEW p \in Procs, NEW s \in Sectors, bread(p, s)
  PROVE  IInv'
  <1>u. UNCHANGED << sector, flags, data, place, idequeue, disk, drive, held, chan,
                     panicked, writes, failed >>
    BY DEF bread, cache, counts
  <1>p. /\ pc[p] = "run" /\ pc'[p] = "bget" /\ want'[p] = s
        /\ pc' \in [Procs -> Places] /\ want' \in [Procs -> Sectors \cup {Nobody}]
        /\ \A q \in Procs \ {p} : pc'[q] = pc[q] /\ want'[q] = want[q]
    BY DEF bread, IInv, Types, TypeOK, Places
  <1>1. Types' /\ ListRight' /\ CachedOnce' /\ CleanIsDisk' /\ NoIdleRequest' /\ DriveRight'
    BY <1>u, <1>p DEF IInv, Types, TypeOK, ListRight, CachedOnce, CleanIsDisk,
       NoIdleRequest, DriveRight, Finished
  <1>2. HeldOnce'
    BY <1>u, HeldSame DEF IInv, HeldOnce
  <1>3. PlacesRight'
    <2> SUFFICES ASSUME NEW q \in Procs PROVE PlaceRight(q)'
      BY DEF PlacesRight
    <2>1. PlaceRight(q)
      BY DEF IInv, PlacesRight
    <2>2. CASE q # p
      BY <2>1, <2>2, <1>u, <1>p, HeldSame, QueueSame DEF PlaceRight
    <2>3. CASE q = p
      BY <2>1, <2>3, <1>u, <1>p DEF PlaceRight, InDriver
    <2> QED  BY <2>2, <2>3
  <1>4. QueueRight' /\ DirtyHeld'
    BY <1>u, <1>p, HeldSame, QueueSame DEF IInv, QueueRight, DirtyHeld, InDriver
  <1> QED  BY <1>1, <1>2, <1>3, <1>4 DEF IInv

LEMMA bgetBusyKeeps ==
  ASSUME IInv, NEW p \in Procs, bgetBusy(p)
  PROVE  IInv'
  <1>u. UNCHANGED << sector, flags, data, place, idequeue, disk, drive, held, want,
                     panicked, writes, failed >>
    BY DEF bgetBusy, Asleep, cache, counts
  <1>p. PICK b \in Cached(want[p]) \ Free : Asleep(p, b)
    BY DEF bgetBusy
  <1>q. /\ pc[p] = "bget" /\ pc'[p] = "bsleep" /\ chan'[p] = b
        /\ pc' \in [Procs -> Places] /\ chan' \in [Procs -> Bufs \cup {0}]
        /\ \A q \in Procs \ {p} : pc'[q] = pc[q] /\ chan'[q] = chan[q]
        /\ b \in Bufs /\ "BUSY" \in flags[b]
    BY <1>p DEF bgetBusy, Asleep, IInv, Types, TypeOK, Places, Cached, Free
  <1>1. Types' /\ ListRight' /\ CachedOnce' /\ CleanIsDisk' /\ NoIdleRequest' /\ DriveRight'
    BY <1>u, <1>q DEF IInv, Types, TypeOK, ListRight, CachedOnce, CleanIsDisk,
       NoIdleRequest, DriveRight, Finished
  <1>2. HeldOnce'
    BY <1>u, HeldSame DEF IInv, HeldOnce
  <1>3. PlacesRight'
    <2> SUFFICES ASSUME NEW q \in Procs PROVE PlaceRight(q)'
      BY DEF PlacesRight
    <2>1. PlaceRight(q)
      BY DEF IInv, PlacesRight
    <2>2. CASE q # p
      BY <2>1, <2>2, <1>u, <1>q, HeldSame, QueueSame DEF PlaceRight
    <2>3. CASE q = p
      BY <2>1, <2>3, <1>u, <1>q, NoBufZero DEF PlaceRight, InDriver
    <2> QED  BY <2>2, <2>3
  <1>4. QueueRight' /\ DirtyHeld'
    BY <1>u, <1>q, HeldSame, QueueSame DEF IInv, QueueRight, DirtyHeld, InDriver
  <1> QED  BY <1>1, <1>2, <1>3, <1>4 DEF IInv

LEMMA bgetPanicKeeps ==
  ASSUME IInv, NEW p \in Procs, bgetPanic(p)
  PROVE  IInv'
  <1>u. UNCHANGED << sector, flags, data, place, idequeue, disk, drive, held, want,
                     pc, chan, writes, failed >>
    BY DEF bgetPanic, cache, counts, procs
  <1>p. panicked' = "bget: no buffers"
    BY DEF bgetPanic
  <1>1. Types' /\ ListRight' /\ CachedOnce' /\ CleanIsDisk' /\ NoIdleRequest' /\ DriveRight'
    BY <1>u, <1>p DEF IInv, Types, TypeOK, ListRight, CachedOnce, CleanIsDisk,
       NoIdleRequest, DriveRight, Finished, Panics
  <1>2. HeldOnce'
    BY <1>u, HeldSame DEF IInv, HeldOnce
  <1>3. PlacesRight'
    BY <1>u, HeldSame, QueueSame DEF IInv, PlacesRight, PlaceRight
  <1>4. QueueRight' /\ DirtyHeld'
    BY <1>u, HeldSame, QueueSame DEF IInv, QueueRight, DirtyHeld
  <1> QED  BY <1>1, <1>2, <1>3, <1>4 DEF IInv

LEMMA killKeeps ==
  ASSUME IInv, NEW p \in Procs, kill(p)
  PROVE  IInv'
  <1>u. UNCHANGED << sector, flags, data, place, idequeue, disk, drive, held, want,
                     panicked, writes, failed >>
    BY DEF kill, cache, counts
  <1>q. /\ \/ pc[p] = "bsleep" /\ pc'[p] = "bget"
           \/ pc[p] = "isleep" /\ pc'[p] = "iwake"
        /\ chan'[p] = 0
        /\ pc' \in [Procs -> Places] /\ chan' \in [Procs -> Bufs \cup {0}]
        /\ \A q \in Procs \ {p} : pc'[q] = pc[q] /\ chan'[q] = chan[q]
    <2>1. pc[p] \in {"bsleep", "isleep"}
      BY DEF kill, IInv, PlacesRight, PlaceRight
    <2>2. /\ pc' = [pc EXCEPT ![p] = Woken(p, chan[p])]
          /\ chan' = [chan EXCEPT ![p] = 0]
          /\ pc \in [Procs -> Places] /\ chan \in [Procs -> Bufs \cup {0}]
      BY DEF kill, IInv, Types, TypeOK
    <2>3. CASE pc[p] = "bsleep"
      <3>1. Woken(p, chan[p]) = "bget"
        BY <2>3 DEF Woken
      <3> QED  BY <2>2, <2>3, <3>1 DEF Places
    <2>4. CASE pc[p] = "isleep"
      <3>1. Woken(p, chan[p]) = "iwake"
        BY <2>4 DEF Woken
      <3> QED  BY <2>2, <2>4, <3>1 DEF Places
    <2> QED  BY <2>1, <2>3, <2>4
  <1>1. Types' /\ ListRight' /\ CachedOnce' /\ CleanIsDisk' /\ NoIdleRequest' /\ DriveRight'
    BY <1>u, <1>q DEF IInv, Types, TypeOK, ListRight, CachedOnce, CleanIsDisk,
       NoIdleRequest, DriveRight, Finished
  <1>2. HeldOnce'
    BY <1>u, HeldSame DEF IInv, HeldOnce
  <1>3. PlacesRight'
    <2> SUFFICES ASSUME NEW q \in Procs PROVE PlaceRight(q)'
      BY DEF PlacesRight
    <2>1. PlaceRight(q)
      BY DEF IInv, PlacesRight
    <2>2. CASE q # p
      BY <2>1, <2>2, <1>u, <1>q, HeldSame, QueueSame DEF PlaceRight
    <2>3. CASE q = p
      BY <2>1, <2>3, <1>u, <1>q, HeldSame, QueueSame DEF PlaceRight, InDriver
    <2> QED  BY <2>2, <2>3
  <1>4. QueueRight' /\ DirtyHeld'
    BY <1>u, <1>q, HeldSame, QueueSame DEF IInv, QueueRight, DirtyHeld, InDriver
  <1> QED  BY <1>1, <1>2, <1>3, <1>4 DEF IInv

LEMMA iderwWokenKeeps ==
  ASSUME IInv, NEW p \in Procs, iderwWoken(p)
  PROVE  IInv'
  <1>u. UNCHANGED << sector, flags, data, place, idequeue, disk, drive, held, want,
                     panicked, writes, failed >>
    BY DEF iderwWoken, cache, counts
  <1>t. held[p] # << >> /\ Top(p) \in Bufs /\ pc[p] = "iwake" /\ Holds(p, Top(p))
    BY TopHeld DEF iderwWoken, IInv, PlacesRight, PlaceRight, InDriver, Types, TypeOK
  <1>q. /\ \/ Finished(Top(p)) /\ pc'[p] = "run" /\ chan'[p] = chan[p]
           \/ ~ Finished(Top(p)) /\ pc'[p] = "isleep" /\ chan'[p] = Top(p)
        /\ pc' \in [Procs -> Places] /\ chan' \in [Procs -> Bufs \cup {0}]
        /\ \A q \in Procs \ {p} : pc'[q] = pc[q] /\ chan'[q] = chan[q]
    BY <1>t DEF iderwWoken, IInv, Types, TypeOK, Places
  <1>1. Types' /\ ListRight' /\ CachedOnce' /\ CleanIsDisk' /\ NoIdleRequest' /\ DriveRight'
    BY <1>u, <1>q DEF IInv, Types, TypeOK, ListRight, CachedOnce, CleanIsDisk,
       NoIdleRequest, DriveRight, Finished
  <1>2. HeldOnce'
    BY <1>u, HeldSame DEF IInv, HeldOnce
  <1>3. PlacesRight'
    <2> SUFFICES ASSUME NEW q \in Procs PROVE PlaceRight(q)'
      BY DEF PlacesRight
    <2>1. PlaceRight(q)
      BY DEF IInv, PlacesRight
    <2>2. CASE q # p
      BY <2>1, <2>2, <1>u, <1>q, HeldSame, QueueSame DEF PlaceRight
    <2>3. CASE q = p
      BY <2>1, <2>3, <1>u, <1>t, <1>q, HeldSame, QueueSame DEF PlaceRight, InDriver
    <2> QED  BY <2>2, <2>3
  <1>4. QueueRight'
    <2> SUFFICES ASSUME NEW i \in 1 .. Len(idequeue)
                 PROVE  \E q \in Procs : pc'[q] \in {"isleep", "iwake"} /\ Top(q) = idequeue[i]
      BY <1>u, HeldSame, QueueSame DEF IInv, QueueRight
    <2>1. PICK q \in Procs : pc[q] \in {"isleep", "iwake"} /\ Top(q) = idequeue[i]
      BY DEF IInv, QueueRight
    <2>2. ~ Finished(idequeue[i])
      BY DEF IInv, QueueRight
    <2> QED  BY <2>1, <2>2, <1>q
  <1>5. DirtyHeld'
    <2> SUFFICES ASSUME NEW b \in Bufs, "DIRTY" \in flags[b]
                 PROVE  \E q \in Procs : pc'[q] \in InDriver /\ Top(q) = b
      BY <1>u, HeldSame DEF DirtyHeld
    <2>1. PICK q \in Procs : pc[q] \in InDriver /\ Top(q) = b
      BY DEF IInv, DirtyHeld
    <2>2. ~ Finished(b)
      BY FinishedSet DEF Finished
    <2> QED  BY <2>1, <2>2, <1>q DEF InDriver
  <1> QED  BY <1>1, <1>2, <1>3, <1>4, <1>5 DEF IInv

\* The loop of bget finds a free buffer when there is one: the one of least
\* distance from the end of the list.
LEMMA OldestIsFree ==
  ASSUME TypeOK, ListRight, Free # {}
  PROVE  Oldest \in Free
  <1>0. NBUF \in Nat /\ \A b \in Free : b \in Bufs /\ NBUF - place[b] \in Nat /\ place[b] \in Nat
    BY BioAssumption DEF TypeOK, ListRight, Free
  <1> DEFINE T == {n \in Nat : \E b \in Free : n = NBUF - place[b]}
  <1>1. T \subseteq Nat /\ T # {}
    BY <1>0
  <1>2. PICK x \in T : \A y \in T : ~ (<< y, x >> \in OpToRel(<, Nat))
    BY <1>1, NatLessThanWellFounded, WFMin, Zenon
  <1>3. \A y \in T : ~ (y < x)
    BY <1>1, <1>2 DEF OpToRel
  <1>4. PICK b \in Free : x = NBUF - place[b]
    OBVIOUS
  <1>5. \A c \in Free : place[c] <= place[b]
    BY <1>0, <1>3, <1>4
  <1> QED  BY <1>5 DEF Oldest

\* A free buffer is nobody's: no process holds it or works on it in the
\* driver, and it is not to be written.
LEMMA FreeIsIdle ==
  ASSUME IInv, NEW b \in Free
  PROVE  /\ b \in Bufs /\ "BUSY" \notin flags[b] /\ "DIRTY" \notin flags[b]
         /\ \A q \in Procs : ~ Holds(q, b)
         /\ \A q \in Procs : pc[q] \in InDriver => Top(q) # b
         /\ \A q \in Procs : pc[q] = "bsleep" => chan[q] # b
         /\ ~ Queued(b)
  <1>1. b \in Bufs /\ "BUSY" \notin flags[b]
    BY DEF Free
  <1>2. \A q \in Procs : ~ Holds(q, b)
    BY <1>1 DEF IInv, HeldOnce
  <1>3. \A q \in Procs : pc[q] \in InDriver => Top(q) # b
    BY <1>2, TopHeld DEF IInv, PlacesRight, PlaceRight, Types, TypeOK
  <1>4. "DIRTY" \notin flags[b] /\ ~ Queued(b)
    BY <1>1, <1>2, DirtyIsHeld, QueuedIsHeld
  <1>5. \A q \in Procs : pc[q] = "bsleep" => chan[q] # b
    BY <1>1 DEF IInv, PlacesRight, PlaceRight
  <1> QED  BY <1>1, <1>2, <1>3, <1>4, <1>5

LEMMA bgetHitKeeps ==
  ASSUME IInv, NEW p \in Procs, bgetHit(p)
  PROVE  IInv'
  <1>u. UNCHANGED << sector, data, place, idequeue, disk, drive, chan, panicked,
                     writes, failed >>
    BY DEF bgetHit, counts
  <1>b. PICK b \in Cached(want[p]) \cap Free :
          /\ flags' = [flags EXCEPT ![b] = @ \cup {"BUSY"}]
          /\ held' = [held EXCEPT ![p] = Append(@, b)]
          /\ pc' = [pc EXCEPT ![p] = IF "VALID" \in flags[b] THEN "run" ELSE "iderw"]
    BY DEF bgetHit
  <1>i. /\ b \in Bufs /\ "BUSY" \notin flags[b] /\ "DIRTY" \notin flags[b]
        /\ \A q \in Procs : ~ Holds(q, b)
        /\ \A q \in Procs : pc[q] = "bsleep" => chan[q] # b
        /\ ~ Queued(b)
    BY FreeIsIdle
  <1>s. pc[p] = "bget" /\ want[p] \in Sectors /\ sector[b] = want[p]
    BY DEF bgetHit, IInv, PlacesRight, PlaceRight, Cached
  <1>h. /\ held' \in [Procs -> Seq(Bufs)] /\ HeldDistinct'
        /\ \A q \in Procs, c \in Bufs : Holds(q, c)' <=> Holds(q, c) \/ (q = p /\ c = b)
        /\ \A q \in Procs : q # p => Top(q)' = Top(q) /\ held'[q] = held[q]
        /\ Top(p)' = b /\ held'[p] # << >>
    BY <1>b, <1>i, GetOne DEF IInv, Types, TypeOK, HeldOnce
  <1>f. /\ flags' \in [Bufs -> SUBSET {"BUSY", "VALID", "DIRTY"}]
        /\ "BUSY" \in flags'[b]
        /\ \A c \in Bufs : c # b => flags'[c] = flags[c]
        /\ \A c \in Bufs : "DIRTY" \in flags'[c] <=> "DIRTY" \in flags[c]
        /\ \A c \in Bufs : "VALID" \in flags'[c] <=> "VALID" \in flags[c]
    BY <1>b, <1>i DEF IInv, Types, TypeOK
  <1>g. \A c \in Bufs : Finished(c)' <=> Finished(c)
    BY <1>f, FinishedSet DEF Finished
  <1>k. \A c : Queued(c)' <=> Queued(c)
    BY <1>u DEF Queued
  <1>p. /\ pc'[p] \in {"run", "iderw"}
        /\ pc'[p] = "iderw" => "VALID" \notin flags[b]
        /\ pc' \in [Procs -> Places]
        /\ \A q \in Procs \ {p} : pc'[q] = pc[q]
        /\ want' \in [Procs -> Sectors \cup {Nobody}]
        /\ \A q \in Procs \ {p} : want'[q] = want[q]
    BY <1>b DEF IInv, Types, TypeOK, Places, bgetHit
  <1>e. \A i \in 1 .. Len(idequeue) : idequeue[i] \in Bufs
    BY DEF IInv, Types, TypeOK
  <1>1. Types' /\ ListRight' /\ CachedOnce' /\ NoIdleRequest'
    BY <1>u, <1>p, <1>f, <1>h DEF IInv, Types, TypeOK, ListRight, CachedOnce, NoIdleRequest
  <1>2. HeldOnce'
    <2>1. \A c \in Bufs : "BUSY" \in flags'[c] <=> \E q \in Procs : Holds(q, c)'
      BY <1>f, <1>h DEF IInv, HeldOnce
    <2>2. \A c \in Bufs : "BUSY" \in flags'[c] => sector'[c] \in Sectors
      BY <1>f, <1>u, <1>s DEF IInv, HeldOnce
    <2>3. \A q, r \in Procs, c \in Bufs : Holds(q, c)' /\ Holds(r, c)' => q = r
      BY <1>h, <1>i DEF IInv, HeldOnce
    <2> QED  BY <2>1, <2>2, <2>3, <1>h DEF HeldOnce
  <1>3. PlacesRight'
    <2> SUFFICES ASSUME NEW q \in Procs PROVE PlaceRight(q)'
      BY DEF PlacesRight
    <2>1. PlaceRight(q)
      BY DEF IInv, PlacesRight
    <2>2. CASE q # p
      <3>1. pc[q] \in InDriver => Top(q) \in Bufs
        BY <2>1, TopHeld DEF IInv, Types, TypeOK, PlaceRight
      <3>2. chan[q] # 0 => chan[q] \in Bufs
        BY DEF IInv, Types, TypeOK
      <3> QED  BY <2>1, <2>2, <3>1, <3>2, <1>u, <1>p, <1>h, <1>f, <1>g, <1>k DEF PlaceRight, InDriver
    <2>3. CASE q = p
      <3>1. chan[p] = 0
        BY <2>1, <2>3, <1>s DEF PlaceRight
      <3>2. "VALID" \notin flags[b] => ~ Finished(b)
        BY FinishedSet DEF Finished
      <3>3. pc'[p] = "iderw" => ~ Finished(Top(p))' /\ ~ Queued(Top(p))'
        <4>1. Finished(Top(p))' <=> Finished(b)'
          BY <1>h DEF Finished
        <4>2. Queued(Top(p))' <=> Queued(b)'
          BY <1>h DEF Queued
        <4> QED  BY <4>1, <4>2, <3>2, <1>p, <1>i, <1>g, <1>k
      <3>4. PlaceRight(p)'
        BY <3>1, <3>3, <1>u, <1>p, <1>h DEF PlaceRight, InDriver
      <3> QED  BY <2>3, <3>4
    <2> QED  BY <2>2, <2>3
  <1>4. QueueRight'
    BY <1>u, <1>e, <1>p, <1>s, <1>h, <1>g DEF IInv, QueueRight
  <1>5. DirtyHeld'
    <2> SUFFICES ASSUME NEW c \in Bufs, "DIRTY" \in flags'[c]
                 PROVE  \E q \in Procs : pc'[q] \in InDriver /\ Top(q)' = c
      BY DEF DirtyHeld
    <2>1. PICK q \in Procs : pc[q] \in InDriver /\ Top(q) = c
      BY <1>f DEF IInv, DirtyHeld
    <2>2. q # p
      BY <2>1, <1>s DEF InDriver
    <2> QED  BY <2>1, <2>2, <1>p, <1>h
  <1>6. CleanIsDisk'
    BY <1>u, <1>g DEF IInv, CleanIsDisk
  <1>7. DriveRight'
    <2>1. idequeue # << >> => idequeue[1] \in Bufs
      BY EndsSeq DEF IInv, Types, TypeOK
    <2> QED  BY <2>1, <1>u, <1>f DEF IInv, DriveRight
  <1> QED  BY <1>1, <1>2, <1>3, <1>4, <1>5, <1>6, <1>7 DEF IInv

LEMMA bgetMissKeeps ==
  ASSUME IInv, NEW p \in Procs, bgetMiss(p)
  PROVE  IInv'
  <1>o. PICK b : b = Oldest
    OBVIOUS
  <1>u. UNCHANGED << data, place, idequeue, disk, drive, chan, panicked, writes, failed >>
    BY DEF bgetMiss, counts
  <1>b. b \in Free
    BY <1>o, OldestIsFree DEF bgetMiss, IInv, Types
  <1>a. /\ flags' = [flags EXCEPT ![b] = {"BUSY"}]
        /\ held' = [held EXCEPT ![p] = Append(@, b)]
        /\ pc' = [pc EXCEPT ![p] = "iderw"]
        /\ sector' = [sector EXCEPT ![b] = want[p]]
        /\ want' = [want EXCEPT ![p] = Nobody]
    BY <1>o DEF bgetMiss, Taken
  <1>i. /\ b \in Bufs /\ "BUSY" \notin flags[b]
        /\ \A q \in Procs : ~ Holds(q, b)
        /\ \A q \in Procs : pc[q] = "bsleep" => chan[q] # b
        /\ \A q \in Procs : pc[q] \in InDriver => Top(q) # b
        /\ ~ Queued(b)
    BY <1>b, FreeIsIdle
  <1>s. /\ pc[p] = "bget" /\ want[p] \in Sectors
        /\ \A c \in Bufs : sector[c] # want[p]
    BY DEF bgetMiss, IInv, PlacesRight, PlaceRight, Cached
  <1>h. /\ held' \in [Procs -> Seq(Bufs)] /\ HeldDistinct'
        /\ \A q \in Procs, c \in Bufs : Holds(q, c)' <=> Holds(q, c) \/ (q = p /\ c = b)
        /\ \A q \in Procs : q # p => Top(q)' = Top(q) /\ held'[q] = held[q]
        /\ Top(p)' = b /\ held'[p] # << >>
    BY <1>a, <1>i, GetOne DEF IInv, Types, TypeOK, HeldOnce
  <1>f. /\ flags' \in [Bufs -> SUBSET {"BUSY", "VALID", "DIRTY"}]
        /\ sector' \in [Bufs -> Sectors \cup {Nobody}]
        /\ flags'[b] = {"BUSY"} /\ sector'[b] = want[p]
        /\ \A c \in Bufs : c # b => flags'[c] = flags[c] /\ sector'[c] = sector[c]
    BY <1>a, <1>i, <1>s DEF IInv, Types, TypeOK
  <1>g. /\ ~ Finished(b)'
        /\ \A c \in Bufs : c # b => (Finished(c)' <=> Finished(c))
    BY <1>f, FinishedSet DEF Finished
  <1>k. \A c : Queued(c)' <=> Queued(c)
    BY <1>u DEF Queued
  <1>p. /\ pc'[p] = "iderw" /\ pc' \in [Procs -> Places]
        /\ \A q \in Procs \ {p} : pc'[q] = pc[q]
        /\ want' \in [Procs -> Sectors \cup {Nobody}]
        /\ \A q \in Procs \ {p} : want'[q] = want[q]
    BY <1>a DEF IInv, Types, TypeOK, Places
  <1>e. \A i \in 1 .. Len(idequeue) : idequeue[i] \in Bufs /\ idequeue[i] # b
    BY <1>i DEF IInv, Types, TypeOK, Queued
  <1>1. Types' /\ ListRight' /\ NoIdleRequest'
    BY <1>u, <1>p, <1>f, <1>h DEF IInv, Types, TypeOK, ListRight, NoIdleRequest
  <1>2. CachedOnce'
    BY <1>f, <1>s DEF IInv, CachedOnce
  <1>3. HeldOnce'
    <2>1. \A c \in Bufs : "BUSY" \in flags'[c] <=> \E q \in Procs : Holds(q, c)'
      BY <1>f, <1>h DEF IInv, HeldOnce
    <2>2. \A c \in Bufs : "BUSY" \in flags'[c] => sector'[c] \in Sectors
      BY <1>f, <1>u, <1>s DEF IInv, HeldOnce
    <2>3. \A q, r \in Procs, c \in Bufs : Holds(q, c)' /\ Holds(r, c)' => q = r
      BY <1>h, <1>i DEF IInv, HeldOnce
    <2> QED  BY <2>1, <2>2, <2>3, <1>h DEF HeldOnce
  <1>4. PlacesRight'
    <2> SUFFICES ASSUME NEW q \in Procs PROVE PlaceRight(q)'
      BY DEF PlacesRight
    <2>1. PlaceRight(q)
      BY DEF IInv, PlacesRight
    <2>2. CASE q # p
      <3>1. pc[q] \in InDriver => Top(q) \in Bufs /\ Top(q) # b
        BY <2>1, <1>i, TopHeld DEF IInv, Types, TypeOK, PlaceRight
      <3>2. chan[q] # 0 => chan[q] \in Bufs
        BY DEF IInv, Types, TypeOK
      <3> QED  BY <2>1, <2>2, <3>1, <3>2, <1>i, <1>u, <1>p, <1>h, <1>f, <1>g, <1>k
               DEF PlaceRight, InDriver
    <2>3. CASE q = p
      <3>1. chan[p] = 0
        BY <2>1, <2>3, <1>s DEF PlaceRight
      <3>3. ~ Finished(Top(p))' /\ ~ Queued(Top(p))'
        <4>1. Finished(Top(p))' <=> Finished(b)'
          BY <1>h DEF Finished
        <4>2. Queued(Top(p))' <=> Queued(b)'
          BY <1>h DEF Queued
        <4> QED  BY <4>1, <4>2, <1>i, <1>g, <1>k
      <3>4. PlaceRight(p)'
        BY <3>1, <3>3, <1>u, <1>p, <1>h DEF PlaceRight, InDriver
      <3> QED  BY <2>3, <3>4
    <2> QED  BY <2>2, <2>3
  <1>5. QueueRight'
    <2>1. ASSUME NEW i \in 1 .. Len(idequeue)
          PROVE  /\ ~ Finished(idequeue[i])'
                 /\ \E q \in Procs : pc'[q] \in {"isleep", "iwake"} /\ Top(q)' = idequeue[i]
      <3>1. ~ Finished(idequeue[i])'
        BY <1>u, <1>e, <1>g DEF IInv, QueueRight
      <3>2. PICK q \in Procs : pc[q] \in {"isleep", "iwake"} /\ Top(q) = idequeue[i]
        BY DEF IInv, QueueRight
      <3> QED  BY <3>1, <3>2, <1>p, <1>s, <1>h
    <2> QED  BY <2>1, <1>u DEF IInv, QueueRight
  <1>6. DirtyHeld'
    <2> SUFFICES ASSUME NEW c \in Bufs, "DIRTY" \in flags'[c]
                 PROVE  \E q \in Procs : pc'[q] \in InDriver /\ Top(q)' = c
      BY DEF DirtyHeld
    <2>1. PICK q \in Procs : pc[q] \in InDriver /\ Top(q) = c
      BY <1>f DEF IInv, DirtyHeld
    <2>2. q # p
      BY <2>1, <1>s DEF InDriver
    <2> QED  BY <2>1, <2>2, <1>p, <1>h
  <1>7. CleanIsDisk'
    BY <1>u, <1>g, <1>f DEF IInv, CleanIsDisk
  <1>8. DriveRight'
    <2>1. idequeue # << >> => idequeue[1] \in Bufs /\ idequeue[1] # b
      <3>1. idequeue # << >> => 1 \in 1 .. Len(idequeue)
        BY EndsSeq DEF IInv, Types, TypeOK
      <3> QED  BY <3>1, <1>e
    <2> QED  BY <2>1, <1>u, <1>f DEF IInv, DriveRight
  <1> QED  BY <1>1, <1>2, <1>3, <1>4, <1>5, <1>6, <1>7, <1>8 DEF IInv

\* The buffer a process got last, while it runs, is in nobody else's hands
\* and not on its way to the disk.
LEMMA RunnersOwn ==
  ASSUME IInv, NEW p \in Procs, pc[p] = "run", held[p] # << >>
  PROVE  /\ Top(p) \in Bufs /\ Holds(p, Top(p)) /\ "BUSY" \in flags[Top(p)]
         /\ \A q \in Procs : Holds(q, Top(p)) => q = p
         /\ \A q \in Procs : pc[q] \in InDriver => q # p /\ Top(q) # Top(p)
         /\ ~ Queued(Top(p)) /\ "DIRTY" \notin flags[Top(p)]
  <1>1. Top(p) \in Bufs /\ Holds(p, Top(p))
    BY TopHeld DEF IInv, Types, TypeOK
  <1>2. "BUSY" \in flags[Top(p)] /\ \A q \in Procs : Holds(q, Top(p)) => q = p
    BY <1>1 DEF IInv, HeldOnce
  <1>3. \A q \in Procs : pc[q] \in InDriver => q # p /\ Top(q) # Top(p)
    <2> SUFFICES ASSUME NEW q \in Procs, pc[q] \in InDriver
                 PROVE  q # p /\ Top(q) # Top(p)
      OBVIOUS
    <2>1. q # p
      BY DEF InDriver
    <2>2. Holds(q, Top(q))
      BY TopHeld DEF IInv, Types, TypeOK, PlacesRight, PlaceRight
    <2> QED  BY <2>1, <2>2, <1>2
  <1>4. ~ Queued(Top(p))
    <2>1. ASSUME Queued(Top(p)) PROVE FALSE
      <3>1. \E q \in Procs : pc[q] \in {"isleep", "iwake"} /\ Top(q) = Top(p)
        BY <1>1, <2>1, QueuedIsHeld
      <3> QED  BY <3>1, <1>3 DEF InDriver
    <2> QED  BY <2>1
  <1>5. "DIRTY" \notin flags[Top(p)]
    BY <1>1, <1>3, DirtyIsHeld
  <1> QED  BY <1>1, <1>2, <1>3, <1>4, <1>5

LEMMA bwriteKeeps ==
  ASSUME IInv, NEW p \in Procs, NEW v \in Values, bwrite(p, v)
  PROVE  IInv'
  <1>o. PICK b : b = Top(p)
    OBVIOUS
  <1>u. UNCHANGED << sector, place, idequeue, disk, drive, want, held, chan, panicked, failed >>
    BY DEF bwrite
  <1>a. /\ flags' = [flags EXCEPT ![b] = @ \cup {"DIRTY"}]
        /\ data' = [data EXCEPT ![b] = v]
        /\ pc' = [pc EXCEPT ![p] = "iderw"]
        /\ pc[p] = "run" /\ held[p] # << >>
        /\ writes' = writes + 1 /\ writes < MaxWrites
    BY <1>o DEF bwrite
  <1>i. /\ b \in Bufs /\ "BUSY" \in flags[b]
        /\ \A q \in Procs : pc[q] \in InDriver => Top(q) # b
        /\ ~ Queued(b)
    BY <1>o, <1>a, RunnersOwn
  <1>t. Top(p)' = b
    BY <1>o, <1>u, HeldSame
  <1>f. /\ flags' \in [Bufs -> SUBSET {"BUSY", "VALID", "DIRTY"}]
        /\ data' \in [Bufs -> Values]
        /\ "DIRTY" \in flags'[b]
        /\ \A c \in Bufs : "BUSY" \in flags'[c] <=> "BUSY" \in flags[c]
        /\ \A c \in Bufs : c # b => flags'[c] = flags[c] /\ data'[c] = data[c]
    BY <1>a, <1>i DEF IInv, Types, TypeOK
  <1>g. /\ ~ Finished(b)'
        /\ \A c \in Bufs : c # b => (Finished(c)' <=> Finished(c))
    BY <1>f, FinishedSet DEF Finished
  <1>k. \A c : Queued(c)' <=> Queued(c)
    BY <1>u DEF Queued
  <1>p. /\ pc'[p] = "iderw" /\ pc' \in [Procs -> Places]
        /\ \A q \in Procs \ {p} : pc'[q] = pc[q]
    BY <1>a DEF IInv, Types, TypeOK, Places
  <1>w. writes' \in 0 .. MaxWrites
    <2>1. writes \in 0 .. MaxWrites
      BY DEF IInv, Types, TypeOK
    <2>2. MaxWrites \in Nat
      BY BioAssumption
    <2> QED  BY <2>1, <2>2, <1>a
  <1>e. \A i \in 1 .. Len(idequeue) : idequeue[i] \in Bufs /\ idequeue[i] # b
    BY <1>i DEF IInv, Types, TypeOK, Queued
  <1>1. Types' /\ ListRight' /\ NoIdleRequest' /\ CachedOnce'
    BY <1>u, <1>p, <1>f, <1>w DEF IInv, Types, TypeOK, ListRight, NoIdleRequest, CachedOnce
  <1>3. HeldOnce'
    BY <1>u, <1>f, HeldSame DEF IInv, HeldOnce
  <1>4. PlacesRight'
    <2> SUFFICES ASSUME NEW q \in Procs PROVE PlaceRight(q)'
      BY DEF PlacesRight
    <2>1. PlaceRight(q)
      BY DEF IInv, PlacesRight
    <2>2. CASE q # p
      <3>1. pc[q] \in InDriver => Top(q) \in Bufs /\ Top(q) # b
        BY <2>1, <1>i, TopHeld DEF IInv, Types, TypeOK, PlaceRight
      <3>2. chan[q] # 0 => chan[q] \in Bufs
        BY DEF IInv, Types, TypeOK
      <3> QED  BY <2>1, <2>2, <3>1, <3>2, <1>i, <1>u, <1>p, HeldSame, <1>f, <1>g, <1>k
               DEF PlaceRight, InDriver
    <2>3. CASE q = p
      <3>1. chan[p] = 0
        BY <2>1, <2>3, <1>a DEF PlaceRight
      <3>3. ~ Finished(Top(p))' /\ ~ Queued(Top(p))'
        <4>1. Finished(Top(p))' <=> Finished(b)'
          BY <1>t DEF Finished
        <4>2. Queued(Top(p))' <=> Queued(b)'
          BY <1>t DEF Queued
        <4> QED  BY <4>1, <4>2, <1>i, <1>g, <1>k
      <3>4. PlaceRight(p)'
        BY <3>1, <3>3, <1>u, <1>p, <1>a DEF PlaceRight, InDriver
      <3> QED  BY <2>3, <3>4
    <2> QED  BY <2>2, <2>3
  <1>5. QueueRight'
    BY <1>u, <1>e, <1>p, <1>a, HeldSame, <1>g DEF IInv, QueueRight
  <1>6. DirtyHeld'
    <2> SUFFICES ASSUME NEW c \in Bufs, "DIRTY" \in flags'[c]
                 PROVE  \E q \in Procs : pc'[q] \in InDriver /\ Top(q)' = c
      BY DEF DirtyHeld
    <2>0. CASE c = b
      BY <2>0, <1>p, <1>t DEF InDriver
    <2>1. CASE c # b
      <3>1. PICK q \in Procs : pc[q] \in InDriver /\ Top(q) = c
        BY <2>1, <1>f DEF IInv, DirtyHeld
      <3>2. q # p
        BY <3>1, <1>a DEF InDriver
      <3> QED  BY <3>1, <3>2, <1>p, <1>u, HeldSame
    <2> QED  BY <2>0, <2>1
  <1>7. CleanIsDisk'
    BY <1>u, <1>g, <1>f DEF IInv, CleanIsDisk
  <1>8. DriveRight'
    <2>1. idequeue # << >> => idequeue[1] \in Bufs /\ idequeue[1] # b
      <3>1. idequeue # << >> => 1 \in 1 .. Len(idequeue)
        BY EndsSeq DEF IInv, Types, TypeOK
      <3> QED  BY <3>1, <1>e
    <2> QED  BY <2>1, <1>u, <1>f DEF IInv, DriveRight
  <1> QED  BY <1>1, <1>3, <1>4, <1>5, <1>6, <1>7, <1>8 DEF IInv

LEMMA brelseKeeps ==
  ASSUME IInv, NEW p \in Procs, brelse(p)
  PROVE  IInv'
  <1>o. PICK b : b = Top(p)
    OBVIOUS
  <1>u. UNCHANGED << sector, data, idequeue, disk, drive, want, panicked, writes, failed >>
    BY DEF brelse, counts
  <1>a. /\ flags' = [flags EXCEPT ![b] = @ \ {"BUSY"}]
        /\ place' = Moved(b)
        /\ held' = [held EXCEPT ![p] = SubSeq(@, 1, Len(@) - 1)]
        /\ pc[p] = "run" /\ held[p] # << >>
        /\ wakeup(b)
    BY <1>o DEF brelse
  <1>i. /\ b \in Bufs /\ "BUSY" \in flags[b] /\ Holds(p, b)
        /\ \A q \in Procs : Holds(q, b) => q = p
        /\ \A q \in Procs : pc[q] \in InDriver => q # p /\ Top(q) # b
        /\ ~ Queued(b)
    BY <1>o, <1>a, RunnersOwn
  <1>h. /\ held' \in [Procs -> Seq(Bufs)] /\ HeldDistinct'
        /\ \A q \in Procs, c \in Bufs : Holds(q, c)' <=> Holds(q, c) /\ ~ (q = p /\ c = b)
        /\ \A q \in Procs : q # p => Top(q)' = Top(q) /\ held'[q] = held[q]
    BY <1>o, <1>a, DropOne DEF IInv, Types, TypeOK, HeldOnce
  <1>f. /\ flags' \in [Bufs -> SUBSET {"BUSY", "VALID", "DIRTY"}]
        /\ "BUSY" \notin flags'[b]
        /\ \A c \in Bufs : c # b => flags'[c] = flags[c]
        /\ \A c \in Bufs : "DIRTY" \in flags'[c] <=> "DIRTY" \in flags[c]
        /\ \A c \in Bufs : "VALID" \in flags'[c] <=> "VALID" \in flags[c]
    BY <1>a, <1>i DEF IInv, Types, TypeOK
  <1>g. \A c \in Bufs : Finished(c)' <=> Finished(c)
    BY <1>f, FinishedSet DEF Finished
  <1>k. \A c : Queued(c)' <=> Queued(c)
    BY <1>u DEF Queued
  <1>w. \A q \in Procs :
          \/ chan[q] # b /\ pc'[q] = pc[q] /\ chan'[q] = chan[q]
          \/ chan[q] = b /\ pc[q] = "bsleep" /\ pc'[q] = "bget" /\ chan'[q] = 0
          \/ chan[q] = b /\ pc[q] = "isleep" /\ pc'[q] = "iwake" /\ chan'[q] = 0
    BY <1>a, <1>i, WakeupIs DEF IInv, Types
  <1>p. pc'[p] = "run" /\ chan'[p] = chan[p]
    BY <1>a, <1>w
  <1>y. /\ pc' \in [Procs -> Places] /\ chan' \in [Procs -> Bufs \cup {0}]
    <2>1. \A q \in Procs : pc'[q] \in Places /\ chan'[q] \in Bufs \cup {0}
      BY <1>w DEF IInv, Types, TypeOK, Places
    <2> QED  BY <2>1, <1>a DEF wakeup
  <1>m. place' \in [Bufs -> Nat] /\ ListRight'
    <2>1. NBUF \in Nat /\ NBUF > 0
      BY BioAssumption
    <2>2. \A c \in Bufs : place[c] \in Nat /\ place[c] < NBUF
      BY DEF IInv, Types, TypeOK, ListRight
    <2> QED  BY <2>1, <2>2, <1>a, <1>i DEF Moved, ListRight
  <1>e. \A i \in 1 .. Len(idequeue) : idequeue[i] \in Bufs
    BY DEF IInv, Types, TypeOK
  <1>1. Types' /\ CachedOnce' /\ NoIdleRequest'
    BY <1>u, <1>y, <1>m, <1>f, <1>h DEF IInv, Types, TypeOK, CachedOnce, NoIdleRequest
  <1>2. HeldOnce'
    <2>1. \A c \in Bufs : "BUSY" \in flags'[c] <=> \E q \in Procs : Holds(q, c)'
      <3> SUFFICES ASSUME NEW c \in Bufs
                   PROVE  "BUSY" \in flags'[c] <=> \E q \in Procs : Holds(q, c)'
        OBVIOUS
      <3>1. CASE c = b  BY <3>1, <1>f, <1>h, <1>i
      <3>2. CASE c # b  BY <3>2, <1>f, <1>h DEF IInv, HeldOnce
      <3> QED  BY <3>1, <3>2
    <2>2. \A c \in Bufs : "BUSY" \in flags'[c] => sector'[c] \in Sectors
      BY <1>f, <1>u DEF IInv, HeldOnce
    <2>3. \A q, r \in Procs, c \in Bufs : Holds(q, c)' /\ Holds(r, c)' => q = r
      BY <1>h DEF IInv, HeldOnce
    <2> QED  BY <2>1, <2>2, <2>3, <1>h DEF HeldOnce
  <1>3. PlacesRight'
    <2> SUFFICES ASSUME NEW q \in Procs PROVE PlaceRight(q)'
      BY DEF PlacesRight
    <2>1. PlaceRight(q)
      BY DEF IInv, PlacesRight
    <2>2. CASE q # p
      <3>1. pc[q] \in InDriver => Top(q) \in Bufs
        BY <2>1, TopHeld DEF IInv, Types, TypeOK, PlaceRight
      <3>2. chan[q] # 0 => chan[q] \in Bufs
        BY DEF IInv, Types, TypeOK
      <3> QED  BY <2>1, <2>2, <3>1, <3>2, <1>u, <1>w, <1>h, <1>f, <1>g, <1>k DEF PlaceRight, InDriver
    <2>3. CASE q = p
      BY <2>1, <2>3, <1>a, <1>p DEF PlaceRight, InDriver
    <2> QED  BY <2>2, <2>3
  <1>4. QueueRight'
    <2>1. ASSUME NEW i \in 1 .. Len(idequeue)
          PROVE  /\ ~ Finished(idequeue[i])'
                 /\ \E q \in Procs : pc'[q] \in {"isleep", "iwake"} /\ Top(q)' = idequeue[i]
      <3>1. ~ Finished(idequeue[i])'
        BY <1>u, <1>e, <1>g DEF IInv, QueueRight
      <3>2. PICK q \in Procs : pc[q] \in {"isleep", "iwake"} /\ Top(q) = idequeue[i]
        BY DEF IInv, QueueRight
      <3>3. q # p /\ pc'[q] \in {"isleep", "iwake"}
        BY <3>2, <1>w, <1>a
      <3> QED  BY <3>1, <3>2, <3>3, <1>h
    <2> QED  BY <2>1, <1>u DEF IInv, QueueRight
  <1>5. DirtyHeld'
    <2> SUFFICES ASSUME NEW c \in Bufs, "DIRTY" \in flags'[c]
                 PROVE  \E q \in Procs : pc'[q] \in InDriver /\ Top(q)' = c
      BY DEF DirtyHeld
    <2>1. PICK q \in Procs : pc[q] \in InDriver /\ Top(q) = c
      BY <1>f DEF IInv, DirtyHeld
    <2>2. q # p /\ pc'[q] \in InDriver
      BY <2>1, <1>a, <1>w DEF InDriver
    <2> QED  BY <2>1, <2>2, <1>h
  <1>6. CleanIsDisk'
    BY <1>u, <1>g DEF IInv, CleanIsDisk
  <1>7. DriveRight'
    <2>1. idequeue # << >> => idequeue[1] \in Bufs
      BY EndsSeq DEF IInv, Types, TypeOK
    <2> QED  BY <2>1, <1>u, <1>f DEF IInv, DriveRight
  <1> QED  BY <1>1, <1>m, <1>2, <1>3, <1>4, <1>5, <1>6, <1>7 DEF IInv

\* The command of a request.
LEMMA CommandIs ==
  ASSUME TypeOK, NEW b \in Bufs
  PROVE  /\ Command(b) \in Commands
         /\ Command(b).op = (IF "DIRTY" \in flags[b] THEN "write" ELSE "read")
         /\ Command(b).sector = sector[b] /\ Command(b).ok /\ ~ Command(b).done
         /\ "DIRTY" \in flags[b] => Command(b).data = data[b]
  <1>1. sector[b] \in Sectors \cup {Nobody} /\ data[b] \in Values
    BY DEF TypeOK
  <1>2. CASE "DIRTY" \in flags[b]
    BY <1>1, <1>2 DEF Command, Commands
  <1>3. CASE "DIRTY" \notin flags[b]
    BY <1>1, <1>3 DEF Command, Commands
  <1> QED  BY <1>2, <1>3

LEMMA iderwKeeps ==
  ASSUME IInv, NEW p \in Procs, iderw(p)
  PROVE  IInv'
  <1>o. PICK b : b = Top(p)
    OBVIOUS
  <1>t. pc[p] = "iderw" /\ PlaceRight(p) /\ held[p] # << >>
    BY DEF iderw, IInv, PlacesRight, PlaceRight, InDriver
  <1>i. b \in Bufs /\ Holds(p, b) /\ ~ Finished(b) /\ ~ Queued(b) /\ chan[p] = 0
    BY <1>o, <1>t, TopHeld DEF IInv, Types, TypeOK, PlaceRight
  <1>a. /\ idequeue' = Append(idequeue, b)
        /\ drive' = IF idequeue = << >> THEN Command(b) ELSE drive
        /\ pc' = [pc EXCEPT ![p] = "isleep"]
        /\ chan' = [chan EXCEPT ![p] = b]
        /\ UNCHANGED << sector, flags, data, place, disk, want, held, panicked, writes, failed >>
    BY <1>o, <1>i DEF iderw, Finished, idestart, cache, counts
  <1>q. /\ idequeue \in Seq(Bufs) /\ Len(idequeue) \in Nat
        /\ idequeue' \in Seq(Bufs) /\ idequeue' # << >>
        /\ Len(idequeue') = Len(idequeue) + 1
        /\ \A i \in 1 .. Len(idequeue) : idequeue'[i] = idequeue[i]
        /\ idequeue'[Len(idequeue) + 1] = b
    <2>1. idequeue \in Seq(Bufs)
      BY DEF IInv, Types, TypeOK
    <2> QED  BY <2>1, <1>a, <1>i, AppendProperties, LenProperties
  <1>r. /\ \A i \in 1 .. Len(idequeue') : i \in 1 .. Len(idequeue) \/ i = Len(idequeue) + 1
        /\ 1 .. Len(idequeue) \subseteq 1 .. Len(idequeue')
        /\ Len(idequeue) + 1 \in 1 .. Len(idequeue')
    BY <1>q
  <1>k. /\ \A c : Queued(c) => Queued(c)'
        /\ Queued(b)'
    BY <1>q, <1>r DEF Queued
  <1>l. \A c : Queued(c)' => Queued(c) \/ c = b
    BY <1>q, <1>r DEF Queued
  <1>g. \A c : Finished(c)' <=> Finished(c)
    BY <1>a DEF Finished
  <1>s. /\ HeldDistinct' = HeldDistinct
        /\ \A q, c : Holds(q, c)' <=> Holds(q, c)
        /\ \A q : Top(q)' = Top(q) /\ held'[q] = held[q]
    BY <1>a, HeldSame
  <1>p. /\ pc'[p] = "isleep" /\ pc' \in [Procs -> Places]
        /\ chan'[p] = b /\ chan' \in [Procs -> Bufs \cup {0}]
        /\ \A q \in Procs \ {p} : pc'[q] = pc[q] /\ chan'[q] = chan[q]
    BY <1>a, <1>i DEF IInv, Types, TypeOK, Places
  <1>d. /\ drive' \in Commands
        /\ idequeue = << >> => idequeue'[1] = b
        /\ idequeue # << >> => idequeue'[1] = idequeue[1]
    <2>1. idequeue = << >> => Len(idequeue) = 0
      OBVIOUS
    <2>2. idequeue # << >> => 1 \in 1 .. Len(idequeue)
      BY <1>q, EndsSeq
    <2> QED  BY <2>1, <2>2, <1>q, <1>a, <1>i, CommandIs DEF IInv, Types
  <1>1. Types' /\ ListRight' /\ CachedOnce' /\ CleanIsDisk' /\ NoIdleRequest'
    BY <1>a, <1>d, <1>p, <1>q DEF IInv, Types, TypeOK, ListRight, CachedOnce, CleanIsDisk,
       NoIdleRequest, Finished
  <1>2. HeldOnce'
    BY <1>a, HeldSame DEF IInv, HeldOnce
  <1>3. PlacesRight'
    <2> SUFFICES ASSUME NEW q \in Procs PROVE PlaceRight(q)'
      BY DEF PlacesRight
    <2>1. PlaceRight(q)
      BY DEF IInv, PlacesRight
    <2>2. CASE q # p
      <3>1. pc[q] = "iderw" => Top(q) # b
        <4>1. pc[q] = "iderw" => Holds(q, Top(q))
          BY <2>1, TopHeld DEF IInv, Types, TypeOK, PlaceRight, InDriver
        <4> QED  BY <4>1, <2>2, <1>i DEF IInv, HeldOnce
      <3>2. pc[q] = "iderw" => ~ Queued(Top(q))'
        <4>1. Queued(Top(q))' => Queued(Top(q)) \/ Top(q) = b
          BY <1>q, <1>r, <1>s DEF Queued
        <4> QED  BY <4>1, <3>1, <2>1 DEF PlaceRight
      <3>3. Queued(Top(q)) => Queued(Top(q))'
        BY <1>q, <1>r, <1>s DEF Queued
      <3>4. Finished(Top(q))' <=> Finished(Top(q))
        BY <1>a, <1>s DEF Finished
      <3> QED  BY <2>1, <2>2, <3>2, <3>3, <3>4, <1>a, <1>p, <1>s DEF PlaceRight
    <2>3. CASE q = p
      <3>1. Queued(Top(p))'
        <4>1. Queued(Top(p))' <=> Queued(b)'
          BY <1>o, <1>s DEF Queued
        <4> QED  BY <4>1, <1>k
      <3>2. PlaceRight(p)'
        BY <3>1, <1>o, <1>t, <1>a, <1>p, <1>s DEF PlaceRight, InDriver
      <3> QED  BY <3>2, <2>3
    <2> QED  BY <2>2, <2>3
  <1>4. QueueRight'
    <2>1. ASSUME NEW i \in 1 .. Len(idequeue')
          PROVE  /\ ~ Finished(idequeue'[i])
                 /\ \E q \in Procs : pc'[q] \in {"isleep", "iwake"} /\ Top(q) = idequeue'[i]
      <3>1. CASE i \in 1 .. Len(idequeue)
        <4>1. PICK q \in Procs : pc[q] \in {"isleep", "iwake"} /\ Top(q) = idequeue[i]
          BY <3>1 DEF IInv, QueueRight
        <4>2. q # p /\ pc'[q] = pc[q]
          BY <4>1, <1>t, <1>p
        <4> QED  BY <3>1, <4>1, <4>2, <1>q DEF IInv, QueueRight
      <3>2. CASE i = Len(idequeue) + 1
        BY <3>2, <1>q, <1>i, <1>o, <1>p
      <3> QED  BY <3>1, <3>2, <1>r
    <2>2. ASSUME NEW i \in 1 .. Len(idequeue'), NEW j \in 1 .. Len(idequeue'),
                 idequeue'[i] = idequeue'[j]
          PROVE  i = j
      <3>1. \A k \in 1 .. Len(idequeue) : idequeue[k] # b
        BY <1>i DEF Queued
      <3>2. \A k, m \in 1 .. Len(idequeue) : idequeue[k] = idequeue[m] => k = m
        BY DEF IInv, QueueRight
      <3> QED  BY <3>1, <3>2, <2>2, <1>q, <1>r
    <2>3. \A i : Finished(idequeue[i])' <=> Finished(idequeue'[i])
      BY <1>a DEF Finished
    <2> QED  BY <2>1, <2>2, <2>3, <1>s DEF QueueRight
  <1>5. DirtyHeld'
    BY <1>a, <1>p, <1>s DEF IInv, DirtyHeld, InDriver
  <1>6. DriveRight'
    <2>1. CASE idequeue = << >>
      <3>1. drive' = Command(b) /\ idequeue'[1] = b
        BY <2>1, <1>a, <1>d
      <3>2. /\ Command(b).op = (IF "DIRTY" \in flags[b] THEN "write" ELSE "read")
            /\ Command(b).sector = sector[b] /\ Command(b).ok /\ ~ Command(b).done
            /\ "DIRTY" \in flags[b] => Command(b).data = data[b]
        BY <1>i, CommandIs DEF IInv, Types
      <3> QED  BY <3>1, <3>2, <1>q, <1>a DEF DriveRight
    <2>2. CASE idequeue # << >>
      BY <2>2, <1>d, <1>a, <1>q DEF IInv, DriveRight
    <2> QED  BY <2>1, <2>2
  <1> QED  BY <1>1, <1>2, <1>3, <1>4, <1>5, <1>6 DEF IInv

\* The queue's first request while the drive works.
LEMMA FirstRequest ==
  ASSUME IInv, idequeue # << >>
  PROVE  /\ idequeue[1] \in Bufs /\ Queued(idequeue[1]) /\ ~ Finished(idequeue[1])
         /\ sector[idequeue[1]] \in Sectors /\ drive.sector = sector[idequeue[1]]
         /\ \A i \in 1 .. Len(idequeue) : idequeue[i] \in Bufs
         /\ 1 \in 1 .. Len(idequeue) /\ Len(idequeue) \in Nat
  <1>1. idequeue \in Seq(Bufs)
    BY DEF IInv, Types, TypeOK
  <1>2. /\ 1 \in 1 .. Len(idequeue) /\ Len(idequeue) \in Nat /\ idequeue[1] \in Bufs
        /\ \A i \in 1 .. Len(idequeue) : idequeue[i] \in Bufs
    BY <1>1, EndsSeq
  <1>3. Queued(idequeue[1])
    BY <1>2 DEF Queued
  <1>4. \E p \in Procs : Holds(p, idequeue[1])
    BY <1>2, <1>3, QueuedIsHeld
  <1>5. sector[idequeue[1]] \in Sectors
    BY <1>2, <1>4 DEF IInv, HeldOnce
  <1>6. ~ Finished(idequeue[1]) /\ drive.sector = sector[idequeue[1]]
    BY <1>2 DEF IInv, QueueRight, DriveRight
  <1> QED  BY <1>2, <1>3, <1>5, <1>6

LEMMA DriveDoneKeeps ==
  ASSUME IInv, DriveDone
  PROVE  IInv'
  <1>u. UNCHANGED << sector, flags, data, place, idequeue, pc, want, held, chan,
                     panicked, writes, failed >>
    BY DEF DriveDone, cache, procs, counts
  <1>n. idequeue # << >>
    BY DEF IInv, DriveRight, DriveDone, Idle
  <1>o. PICK b : b = idequeue[1]
    OBVIOUS
  <1>b. /\ b \in Bufs /\ ~ Finished(b) /\ sector[b] \in Sectors /\ drive.sector = sector[b]
    BY <1>n, <1>o, FirstRequest
  <1>d. /\ drive.op = (IF "DIRTY" \in flags[b] THEN "write" ELSE "read")
        /\ drive.op = "write" => drive.ok /\ drive.data = data[b]
    BY <1>n, <1>o DEF IInv, DriveRight
  <1>y. disk \in [Sectors -> Values] /\ data[b] \in Values /\ drive \in Commands
    BY <1>b DEF IInv, Types, TypeOK
  <1>a. \/ /\ drive' = [drive EXCEPT !.done = TRUE] /\ drive.op = "write"
           /\ disk' = [disk EXCEPT ![sector[b]] = data[b]]
        \/ /\ drive' = [drive EXCEPT !.done = TRUE] /\ drive.op = "read" /\ disk' = disk
        \/ /\ drive' = [drive EXCEPT !.done = TRUE, !.ok = FALSE] /\ drive.op = "read"
           /\ disk' = disk
    BY <1>b, <1>d DEF DriveDone
  <1>e. /\ drive' \in Commands /\ drive'.op = drive.op /\ drive'.sector = drive.sector
        /\ drive.op = "write" => drive'.ok /\ drive'.data = data[b]
    <2>1. CASE drive.op = "write"
      <3>1. drive' = [drive EXCEPT !.done = TRUE]
        BY <2>1, <1>a
      <3>2. drive \in [op : {"write"}, sector : Sectors \cup {Nobody}, done : BOOLEAN,
                       ok : BOOLEAN, data : Values]
        BY <2>1, <1>y DEF Commands
      <3> QED  BY <2>1, <3>1, <3>2, <1>d DEF Commands
    <2>2. CASE drive.op = "read"
      <3>1. drive \in [op : {"none", "read"}, sector : Sectors \cup {Nobody},
                       done : BOOLEAN, ok : BOOLEAN]
        BY <2>2, <1>y DEF Commands
      <3>2. \/ drive' = [drive EXCEPT !.done = TRUE]
            \/ drive' = [drive EXCEPT !.done = TRUE, !.ok = FALSE]
        BY <2>2, <1>a
      <3> QED  BY <2>2, <3>1, <3>2 DEF Commands
    <2> QED  BY <1>d, <2>1, <2>2
  <1>f. /\ disk' \in [Sectors -> Values]
        /\ drive.op = "write" => disk'[sector[b]] = data[b]
        /\ \A s \in Sectors : s # sector[b] => disk'[s] = disk[s]
    BY <1>a, <1>b, <1>y
  <1>1. Types' /\ ListRight' /\ CachedOnce' /\ NoIdleRequest'
    BY <1>u, <1>e, <1>f DEF IInv, Types, TypeOK, ListRight, CachedOnce, NoIdleRequest
  <1>2. HeldOnce'
    BY <1>u, HeldSame DEF IInv, HeldOnce
  <1>3. PlacesRight'
    BY <1>u, HeldSame, QueueSame DEF IInv, PlacesRight, PlaceRight
  <1>4. QueueRight' /\ DirtyHeld'
    BY <1>u, HeldSame, QueueSame DEF IInv, QueueRight, DirtyHeld
  <1>5. CleanIsDisk'
    <2> SUFFICES ASSUME NEW c \in Bufs, Finished(c), sector[c] \in Sectors \ failed
                 PROVE  data[c] = disk'[sector[c]]
      BY <1>u DEF CleanIsDisk, Finished
    <2>1. sector[c] # sector[b]
      <3>1. Nobody \notin Sectors
        BY BioAssumption
      <3> QED  BY <3>1, <1>b DEF IInv, CachedOnce
    <2> QED  BY <2>1, <1>f DEF IInv, CleanIsDisk
  <1>6. DriveRight'
    BY <1>n, <1>o, <1>u, <1>b, <1>d, <1>e, <1>f DEF DriveRight
  <1> QED  BY <1>1, <1>2, <1>3, <1>4, <1>5, <1>6 DEF IInv

LEMMA ideintrKeeps ==
  ASSUME IInv, ideintr
  PROVE  IInv'
  <1>o. PICK b : b = idequeue[1]
    OBVIOUS
  <1>u. UNCHANGED << sector, place, disk, want, held, panicked, writes >>
    BY DEF ideintr
  <1>a. /\ idequeue # << >> /\ drive.done
        /\ data' = IF "DIRTY" \notin flags[b] /\ drive.ok
                   THEN [data EXCEPT ![b] = disk[drive.sector]] ELSE data
        /\ flags' = [flags EXCEPT ![b] = (@ \cup {"VALID"}) \ {"DIRTY"}]
        /\ wakeup(b)
        /\ idequeue' = Tail(idequeue)
        /\ drive' = Restarted
        /\ failed' = IF drive.ok THEN failed ELSE failed \cup {drive.sector}
    BY <1>o DEF ideintr
  <1>b. /\ b \in Bufs /\ Queued(b) /\ ~ Finished(b)
        /\ sector[b] \in Sectors /\ drive.sector = sector[b]
        /\ \A i \in 1 .. Len(idequeue) : idequeue[i] \in Bufs
        /\ 1 \in 1 .. Len(idequeue) /\ Len(idequeue) \in Nat
    BY <1>o, <1>a, FirstRequest
  <1>d. /\ drive.op = (IF "DIRTY" \in flags[b] THEN "write" ELSE "read")
        /\ drive.op = "write" => disk[sector[b]] = data[b]
    BY <1>o, <1>a, <1>b DEF IInv, DriveRight
  <1>q. /\ idequeue' \in Seq(Bufs) /\ Len(idequeue') = Len(idequeue) - 1
        /\ \A i \in 1 .. Len(idequeue') : idequeue'[i] = idequeue[i + 1]
    <2>1. idequeue \in Seq(Bufs)
      BY DEF IInv, Types, TypeOK
    <2> QED  BY <2>1, <1>a, HeadTailProperties
  <1>r. \A i \in 1 .. Len(idequeue') : i + 1 \in 1 .. Len(idequeue) /\ idequeue[i + 1] # b
    <2>1. \A i \in 1 .. Len(idequeue') : i + 1 \in 1 .. Len(idequeue) /\ i + 1 # 1
      BY <1>q, <1>b
    <2>2. \A j \in 1 .. Len(idequeue) : idequeue[j] = b => j = 1
      BY <1>o, <1>b DEF IInv, QueueRight
    <2> QED  BY <2>1, <2>2
  <1>k. \A c : c # b => (Queued(c)' <=> Queued(c))
    <2> SUFFICES ASSUME NEW c, c # b PROVE Queued(c)' <=> Queued(c)
      OBVIOUS
    <2>1. Queued(c)' => Queued(c)
      BY <1>q, <1>r DEF Queued
    <2>2. ASSUME NEW j \in 1 .. Len(idequeue), idequeue[j] = c PROVE Queued(c)'
      <3>1. j # 1 /\ j - 1 \in 1 .. Len(idequeue') /\ (j - 1) + 1 = j
        BY <2>2, <1>o, <1>q, <1>b
      <3> QED  BY <2>2, <3>1, <1>q DEF Queued
    <2> QED  BY <2>1, <2>2 DEF Queued
  <1>f. /\ flags' \in [Bufs -> SUBSET {"BUSY", "VALID", "DIRTY"}]
        /\ "VALID" \in flags'[b] /\ "DIRTY" \notin flags'[b]
        /\ \A c \in Bufs : c # b => flags'[c] = flags[c]
        /\ \A c \in Bufs : "BUSY" \in flags'[c] <=> "BUSY" \in flags[c]
    BY <1>a, <1>b DEF IInv, Types, TypeOK
  <1>g. /\ Finished(b)'
        /\ \A c \in Bufs : c # b => (Finished(c)' <=> Finished(c))
    BY <1>f, <1>b, FinishedSet DEF Finished
  <1>v. /\ data' \in [Bufs -> Values]
        /\ \A c \in Bufs : c # b => data'[c] = data[c]
        /\ "DIRTY" \in flags[b] => data'[b] = data[b]
        /\ "DIRTY" \notin flags[b] /\ drive.ok => data'[b] = disk[sector[b]]
    BY <1>a, <1>b DEF IInv, Types, TypeOK
  <1>w. \A q \in Procs :
          \/ chan[q] # b /\ pc'[q] = pc[q] /\ chan'[q] = chan[q]
          \/ chan[q] = b /\ pc[q] = "bsleep" /\ pc'[q] = "bget" /\ chan'[q] = 0
          \/ chan[q] = b /\ pc[q] = "isleep" /\ pc'[q] = "iwake" /\ chan'[q] = 0
    BY <1>a, <1>b, WakeupIs DEF IInv, Types
  <1>y. /\ pc' \in [Procs -> Places] /\ chan' \in [Procs -> Bufs \cup {0}]
    <2>1. \A q \in Procs : pc'[q] \in Places /\ chan'[q] \in Bufs \cup {0}
      BY <1>w DEF IInv, Types, TypeOK, Places
    <2> QED  BY <2>1, <1>a DEF wakeup
  <1>z. failed \subseteq failed' /\ failed' \subseteq Sectors /\ (sector[b] \notin failed' => drive.ok)
    BY <1>a, <1>b DEF IInv, Types, TypeOK
  <1>s. /\ HeldDistinct' = HeldDistinct
        /\ \A q, c : Holds(q, c)' <=> Holds(q, c)
        /\ \A q : Top(q)' = Top(q) /\ held'[q] = held[q]
    BY <1>u, HeldSame
  <1>t. /\ idequeue' = << >> => drive' = Idle
        /\ idequeue' # << >> => drive' = Command(idequeue'[1]) /\ idequeue'[1] # b
                                /\ idequeue'[1] \in Bufs
    <2>1. idequeue' = << >> => Len(idequeue') = 0
      OBVIOUS
    <2>2. idequeue' # << >> => 1 \in 1 .. Len(idequeue')
      BY <1>q, EndsSeq
    <2>3. idequeue' = << >> => ~ (Len(idequeue) > 1)
      <3>1. Len(idequeue') = Len(idequeue) - 1 /\ Len(idequeue) \in Nat
        BY <1>q, <1>b
      <3>2. \A n \in Nat : n - 1 = 0 => ~ (n > 1)
        OBVIOUS
      <3> QED  BY <2>1, <3>1, <3>2
    <2>4. idequeue' # << >> => Len(idequeue) > 1 /\ idequeue'[1] = idequeue[2]
      BY <2>2, <1>q, <1>b
    <2> QED  BY <2>2, <2>3, <2>4, <1>a, <1>q, <1>r, <1>b DEF Restarted
  <1>1. Types' /\ ListRight' /\ CachedOnce' /\ NoIdleRequest'
    <2>1. drive' \in Commands
      <3>1. Idle \in Commands
        BY DEF Idle, Commands
      <3> QED  BY <3>1, <1>t, CommandIs DEF IInv, Types
    <2> QED  BY <2>1, <1>u, <1>y, <1>q, <1>f, <1>v, <1>z
             DEF IInv, Types, TypeOK, ListRight, CachedOnce, NoIdleRequest
  <1>2. HeldOnce'
    BY <1>u, <1>f, <1>s DEF IInv, HeldOnce
  <1>3. PlacesRight'
    <2> SUFFICES ASSUME NEW q \in Procs PROVE PlaceRight(q)'
      BY DEF PlacesRight
    <2>1. PlaceRight(q)
      BY DEF IInv, PlacesRight
    <2>2. PICK t : t = Top(q)
      OBVIOUS
    <2>3. pc[q] \in InDriver => t \in Bufs
      BY <2>1, <2>2, TopHeld DEF IInv, Types, TypeOK, PlaceRight
    <2>4. (Queued(Top(q))' <=> Queued(t)') /\ (Finished(Top(q))' <=> Finished(t)')
      BY <2>2, <1>s DEF Queued, Finished
    <2>5. /\ pc[q] = "iderw" => ~ Finished(t) /\ ~ Queued(t)
          /\ pc[q] = "isleep" => chan[q] = t /\ Queued(t)
          /\ pc[q] = "iwake" => Finished(t) \/ Queued(t)
      BY <2>1, <2>2 DEF PlaceRight
    <2>6. /\ pc'[q] = "iderw" => ~ Finished(t)' /\ ~ Queued(t)'
          /\ pc'[q] = "isleep" => chan'[q] = t /\ Queued(t)'
          /\ pc'[q] = "iwake" => Finished(t)' \/ Queued(t)'
      BY <2>3, <2>5, <1>b, <1>w, <1>g, <1>k DEF InDriver
    <2>7. pc'[q] = "bsleep" => chan'[q] # 0 /\ "BUSY" \in flags'[chan'[q]]
      <3>1. chan[q] # 0 => chan[q] \in Bufs
        BY DEF IInv, Types, TypeOK
      <3> QED  BY <3>1, <2>1, <1>w, <1>f DEF PlaceRight
    <2>8. /\ pc'[q] \in {"bget", "bsleep"} => want'[q] \in Sectors
          /\ pc'[q] \in InDriver => held'[q] # << >>
          /\ chan'[q] # 0 => pc'[q] \in {"bsleep", "isleep"}
      BY <2>1, <1>w, <1>u DEF PlaceRight, InDriver
    <2> QED  BY <2>2, <2>4, <2>6, <2>7, <2>8, <1>s DEF PlaceRight
  <1>4. QueueRight'
    <2>1. ASSUME NEW i \in 1 .. Len(idequeue')
          PROVE  /\ ~ Finished(idequeue[i])'
                 /\ \E q \in Procs : pc'[q] \in {"isleep", "iwake"} /\ Top(q)' = idequeue'[i]
      <3>0. PICK c : c = idequeue'[i]
        OBVIOUS
      <3>1. c = idequeue[i + 1] /\ i + 1 \in 1 .. Len(idequeue) /\ c # b /\ c \in Bufs
        BY <3>0, <1>q, <1>r, <1>b
      <3>2. ~ Finished(c)
        BY <3>1 DEF IInv, QueueRight
      <3>3. ~ Finished(c)'
        BY <3>1, <3>2, <1>g
      <3>4. PICK q \in Procs : pc[q] \in {"isleep", "iwake"} /\ Top(q) = c
        BY <3>1 DEF IInv, QueueRight
      <3>5. pc'[q] \in {"isleep", "iwake"}
        BY <3>4, <1>w
      <3>6. Finished(idequeue[i])' <=> Finished(c)'
        BY <3>0 DEF Finished
      <3> QED  BY <3>0, <3>3, <3>4, <3>5, <3>6, <1>s
    <2>2. ASSUME NEW i \in 1 .. Len(idequeue'), NEW j \in 1 .. Len(idequeue'),
                 idequeue'[i] = idequeue'[j]
          PROVE  i = j
      <3>1. i + 1 = j + 1
        BY <2>2, <1>q, <1>r DEF IInv, QueueRight
      <3>2. Len(idequeue') \in Nat
        BY <1>q, LenProperties
      <3> QED  BY <3>1, <3>2
    <2> QED  BY <2>1, <2>2 DEF QueueRight
  <1>5. DirtyHeld'
    <2> SUFFICES ASSUME NEW c \in Bufs, "DIRTY" \in flags'[c]
                 PROVE  \E q \in Procs : pc'[q] \in InDriver /\ Top(q)' = c
      BY DEF DirtyHeld
    <2>1. PICK q \in Procs : pc[q] \in InDriver /\ Top(q) = c
      BY <1>f DEF IInv, DirtyHeld
    <2>2. pc'[q] \in InDriver
      BY <2>1, <1>w DEF InDriver
    <2> QED  BY <2>1, <2>2, <1>s
  <1>6. CleanIsDisk'
    <2> SUFFICES ASSUME NEW c \in Bufs, Finished(c)', sector[c] \in Sectors \ failed'
                 PROVE  data'[c] = disk[sector[c]]
      BY <1>u DEF CleanIsDisk
    <2>1. CASE c = b
      BY <2>1, <1>d, <1>v, <1>z
    <2>2. CASE c # b
      BY <2>2, <1>g, <1>v, <1>z DEF IInv, CleanIsDisk
    <2> QED  BY <2>1, <2>2
  <1>7. DriveRight'
    <2>1. ASSUME idequeue' # << >>
          PROVE  /\ drive'.op = (IF "DIRTY" \in flags'[idequeue'[1]] THEN "write" ELSE "read")
                 /\ drive'.sector = sector'[idequeue'[1]] /\ ~ drive'.done
                 /\ drive'.op = "write" => drive'.ok /\ drive'.data = data'[idequeue'[1]]
      <3>0. PICK c : c = idequeue'[1]
        OBVIOUS
      <3>1. drive' = Command(c) /\ c \in Bufs /\ c # b
        BY <2>1, <3>0, <1>t
      <3>2. /\ Command(c).op = (IF "DIRTY" \in flags[c] THEN "write" ELSE "read")
            /\ Command(c).sector = sector[c] /\ Command(c).ok /\ ~ Command(c).done
            /\ "DIRTY" \in flags[c] => Command(c).data = data[c]
        BY <3>1, CommandIs DEF IInv, Types
      <3>3. flags'[c] = flags[c] /\ sector'[c] = sector[c] /\ data'[c] = data[c]
        BY <3>1, <1>f, <1>v, <1>u
      <3> QED  BY <3>0, <3>1, <3>2, <3>3
    <2> QED  BY <2>1, <1>t DEF DriveRight, Idle
  <1> QED  BY <1>1, <1>2, <1>3, <1>4, <1>5, <1>6, <1>7 DEF IInv

-----------------------------------------------------------------------------

\* One step of the specification.
LEMMA NextKeeps == IInv /\ [Next]_vars => IInv'
  <1> SUFFICES ASSUME IInv, [Next]_vars PROVE IInv'
    OBVIOUS
  <1>1. ASSUME NEW p \in Procs, NEW s \in Sectors, bread(p, s) PROVE IInv'
    BY <1>1, breadKeeps
  <1>2. ASSUME NEW p \in Procs, NEW v \in Values, bwrite(p, v) PROVE IInv'
    BY <1>2, bwriteKeeps
  <1>3. ASSUME NEW p \in Procs, Step(p) PROVE IInv'
    BY <1>3, bgetHitKeeps, bgetBusyKeeps, bgetMissKeeps, bgetPanicKeeps, iderwKeeps,
       iderwWokenKeeps DEF Step
  <1>4. ASSUME NEW p \in Procs, brelse(p) \/ kill(p) PROVE IInv'
    BY <1>4, brelseKeeps, killKeeps
  <1>5. CASE ideintr \/ DriveDone
    BY <1>5, ideintrKeeps, DriveDoneKeeps
  <1>6. CASE UNCHANGED vars
    <2>u. UNCHANGED << sector, flags, data, place, idequeue, disk, drive, pc, want, held,
                       chan, panicked, writes, failed >>
      BY <1>6 DEF vars, cache, procs, counts
    <2>1. Types' /\ ListRight' /\ CachedOnce' /\ CleanIsDisk' /\ NoIdleRequest' /\ DriveRight'
      BY <2>u DEF IInv, Types, TypeOK, ListRight, CachedOnce, CleanIsDisk,
         NoIdleRequest, DriveRight, Finished
    <2>2. HeldOnce'
      BY <2>u, HeldSame DEF IInv, HeldOnce
    <2>3. PlacesRight'
      BY <2>u, HeldSame, QueueSame DEF IInv, PlacesRight, PlaceRight
    <2>4. QueueRight' /\ DirtyHeld'
      BY <2>u, HeldSame, QueueSame DEF IInv, QueueRight, DirtyHeld
    <2> QED  BY <2>1, <2>2, <2>3, <2>4 DEF IInv
  <1> QED  BY <1>1, <1>2, <1>3, <1>4, <1>5, <1>6 DEF Next

\* The invariant holds in every state the cache and the driver reach.
THEOREM Invariance == Spec => []IInv
  BY InitKeeps, NextKeeps, PTL DEF Spec

\* For any numbers of processes, buffers and sectors: a sector is cached once,
\* a buffer is busy exactly while one process holds it, whoever sleeps in bget
\* or iderw sleeps on a buffer that is held or queued, the drive works at the
\* first request, and iderw never panics for a request without work.
THEOREM BuffersAreSound == Spec => []BuffersSound
  <1>1. IInv => BuffersSound
    <2> SUFFICES ASSUME IInv PROVE BuffersSound
      OBVIOUS
    <2>1. OneBuffer
      BY DEF IInv, OneBuffer, Types, CachedOnce, HeldOnce
    <2>2. SleepersAreWoken
      <3>1. idequeue # << >> => drive.op # "none" /\ drive.sector = sector[idequeue[1]]
        BY DEF IInv, DriveRight
      <3>2. \A p \in Procs : pc[p] = "isleep" =>
              \E i \in 1 .. Len(idequeue) : idequeue[i] = chan[p]
        BY DEF IInv, PlacesRight, PlaceRight, Queued
      <3>3. \A p \in Procs : pc[p] = "bsleep" => "BUSY" \in flags[chan[p]]
        BY DEF IInv, PlacesRight, PlaceRight
      <3> QED  BY <3>1, <3>2, <3>3 DEF IInv, QueueRight, NoIdleRequest, SleepersAreWoken
    <2> QED  BY <2>1, <2>2 DEF BuffersSound
  <1> QED  BY <1>1, Invariance, PTL

-----------------------------------------------------------------------------
(* The refinement: what the abstract store holds, read off the buffers.     *)

Cell(s) == IF s \in failed THEN Blank ELSE Newest(s)

\* The newest copy of a sector is the one in its buffer once that is valid or
\* to be written, else the disk's.
NewestIs ==
  /\ \A b \in Bufs : \A s \in Sectors :
       sector[b] = s /\ ("VALID" \in flags[b] \/ "DIRTY" \in flags[b]) => Newest(s) = data[b]
  /\ \A s \in Sectors :
       (\A b \in Bufs : sector[b] = s => "VALID" \notin flags[b] /\ "DIRTY" \notin flags[b])
       => Newest(s) = disk[s]

\* The holder of a sector is whoever holds its buffer.
HolderIs ==
  /\ \A p \in Procs : \A b \in Bufs : \A s \in Sectors :
       Holds(p, b) /\ sector[b] = s => HolderOf(s) = p
  /\ \A s \in Sectors :
       (\A p \in Procs : \A b \in Bufs : Holds(p, b) => sector[b] # s) => HolderOf(s) = Nobody

LEMMA ReadOff == IInv => NewestIs /\ HolderIs
  <1> SUFFICES ASSUME IInv PROVE NewestIs /\ HolderIs
    OBVIOUS
  <1>n. Nobody \notin Sectors
    BY BioAssumption
  <1>1. \A f : f \cap {"VALID", "DIRTY"} # {} <=> "VALID" \in f \/ "DIRTY" \in f
    OBVIOUS
  <1>2. ASSUME NEW b \in Bufs, sector[b] \in Sectors,
               "VALID" \in flags[b] \/ "DIRTY" \in flags[b]
        PROVE  Newest(sector[b]) = data[b]
    <2> DEFINE C == {c \in Cached(sector[b]) : flags[c] \cap {"VALID", "DIRTY"} # {}}
    <2>1. b \in C
      BY <1>1, <1>2 DEF Cached
    <2>2. \A c \in C : c = b
      BY <1>n, <1>2 DEF Cached, IInv, CachedOnce
    <2>3. (CHOOSE c \in C : TRUE) = b
      BY <2>1, <2>2
    <2> QED  BY <2>1, <2>3 DEF Newest
  <1>3. ASSUME NEW s \in Sectors,
               \A b \in Bufs : sector[b] = s => "VALID" \notin flags[b] /\ "DIRTY" \notin flags[b]
        PROVE  Newest(s) = disk[s]
    BY <1>1, <1>3 DEF Newest, Cached
  <1>4. ASSUME NEW p \in Procs, NEW b \in Bufs, sector[b] \in Sectors, Holds(p, b)
        PROVE  HolderOf(sector[b]) = p
    <2> DEFINE H == {q \in Procs : \E c \in Cached(sector[b]) : Holds(q, c)}
    <2>1. p \in H
      BY <1>4 DEF Cached
    <2>2. \A c \in Cached(sector[b]) : c = b
      BY <1>n, <1>4 DEF Cached, IInv, CachedOnce
    <2>3. \A q \in H : q = p
      BY <2>2, <1>4 DEF IInv, HeldOnce
    <2>4. (CHOOSE q \in H : TRUE) = p
      BY <2>1, <2>3
    <2> QED  BY <2>1, <2>4 DEF HolderOf
  <1>5. ASSUME NEW s \in Sectors,
               \A p \in Procs : \A b \in Bufs : Holds(p, b) => sector[b] # s
        PROVE  HolderOf(s) = Nobody
    BY <1>5 DEF HolderOf, Cached
  <1> QED  BY <1>2, <1>3, <1>4, <1>5 DEF NewestIs, HolderIs

\* A step that leaves every cell and every holder alone is a stutter.
LEMMA Stutters ==
  ASSUME UNCHANGED failed,
         \A s \in Sectors : Cell(s)' = Cell(s) /\ HolderOf(s)' = HolderOf(s)
  PROVE  UNCHANGED Store!vars
  BY DEF Store!vars, Cell

LEMMA SameStutters ==
  ASSUME UNCHANGED << sector, flags, data, disk, held, failed >>
  PROVE  UNCHANGED Store!vars
  <1>1. \A s \in Sectors : HolderOf(s)' = HolderOf(s)
    BY DEF HolderOf, Cached, Holds
  <1>2. \A s \in Sectors : Cell(s)' = Cell(s)
    BY DEF Cell, Newest, Cached
  <1> QED  BY <1>1, <1>2, Stutters

\* The steps that change the abstract store.
LEMMA Acquires ==
  ASSUME NEW p \in Procs, NEW t \in Sectors, UNCHANGED failed,
         \A s \in Sectors : Cell(s)' = Cell(s),
         HolderOf(t) = Nobody, HolderOf(t)' = p,
         \A s \in Sectors \ {t} : HolderOf(s)' = HolderOf(s)
  PROVE  Store!Next
  <1>1. Store!Acquire(p, t)
    BY DEF Store!Acquire, Cell
  <1> QED  BY <1>1 DEF Store!Next

LEMMA Releases ==
  ASSUME NEW p \in Procs, NEW t \in Sectors, UNCHANGED failed,
         \A s \in Sectors : Cell(s)' = Cell(s),
         HolderOf(t) = p, HolderOf(t)' = Nobody,
         \A s \in Sectors \ {t} : HolderOf(s)' = HolderOf(s)
  PROVE  Store!Next
  <1>1. Store!Release(p, t)
    BY DEF Store!Release, Cell
  <1> QED  BY <1>1 DEF Store!Next

LEMMA Writes ==
  ASSUME NEW p \in Procs, NEW t \in Sectors, NEW v \in Values, UNCHANGED failed,
         \A s \in Sectors : HolderOf(s)' = HolderOf(s),
         HolderOf(t) = p, Cell(t)' = IF t \in failed THEN Blank ELSE v,
         \A s \in Sectors \ {t} : Cell(s)' = Cell(s)
  PROVE  Store!Next
  <1>1. Store!Write(p, t, v)
    BY DEF Store!Write, Cell
  <1> QED  BY <1>1 DEF Store!Next

LEMMA Damages ==
  ASSUME NEW t \in Sectors, failed' = failed \cup {t},
         \A s \in Sectors : HolderOf(s)' = HolderOf(s),
         HolderOf(t) # Nobody, Cell(t)' = Blank,
         \A s \in Sectors \ {t} : Cell(s)' = Cell(s)
  PROVE  Store!Next
  <1>1. Store!Damage(t)
    BY DEF Store!Damage, Cell
  <1> QED  BY <1>1 DEF Store!Next

\* While no buffer is got, given up or put to another use, holders stay.
LEMMA HoldersStay ==
  ASSUME UNCHANGED << sector, held >>
  PROVE  \A s \in Sectors : HolderOf(s)' = HolderOf(s)
  BY DEF HolderOf, Cached, Holds

\* While only the busy flag changes, contents stay.
LEMMA CellsStay ==
  ASSUME UNCHANGED << sector, data, disk, failed >>,
         NewestIs, NewestIs',
         \A c \in Bufs : "DIRTY" \in flags'[c] <=> "DIRTY" \in flags[c],
         \A c \in Bufs : "VALID" \in flags'[c] <=> "VALID" \in flags[c]
  PROVE  \A s \in Sectors : Cell(s)' = Cell(s)
  <1> SUFFICES ASSUME NEW s \in Sectors PROVE Newest(s)' = Newest(s)
    BY DEF Cell
  <1>1. CASE \E b \in Bufs : sector[b] = s /\ ("VALID" \in flags[b] \/ "DIRTY" \in flags[b])
    BY <1>1 DEF NewestIs
  <1>2. CASE \A b \in Bufs : sector[b] = s => "VALID" \notin flags[b] /\ "DIRTY" \notin flags[b]
    <2>1. Newest(s) = disk[s]
      BY <1>2 DEF NewestIs
    <2>2. Newest(s)' = disk'[s]
      BY <1>2 DEF NewestIs
    <2> QED  BY <2>1, <2>2
  <1> QED  BY <1>1, <1>2

LEMMA bgetHitRefines ==
  ASSUME IInv, NewestIs, NewestIs', HolderIs, HolderIs', NEW p \in Procs, bgetHit(p)
  PROVE  Store!Next
  <1>u. UNCHANGED << sector, data, disk, failed >>
    BY DEF bgetHit, counts
  <1>b. PICK b \in Cached(want[p]) \cap Free :
          /\ flags' = [flags EXCEPT ![b] = @ \cup {"BUSY"}]
          /\ held' = [held EXCEPT ![p] = Append(@, b)]
    BY DEF bgetHit
  <1>i. b \in Bufs /\ \A q \in Procs : ~ Holds(q, b)
    BY FreeIsIdle
  <1>s. want[p] \in Sectors /\ sector[b] = want[p]
    BY DEF bgetHit, IInv, PlacesRight, PlaceRight, Cached
  <1>h. \A q \in Procs, c \in Bufs : Holds(q, c)' <=> Holds(q, c) \/ (q = p /\ c = b)
    BY <1>b, <1>i, GetOne DEF IInv, Types, TypeOK, HeldOnce
  <1>f. /\ \A c \in Bufs : "DIRTY" \in flags'[c] <=> "DIRTY" \in flags[c]
        /\ \A c \in Bufs : "VALID" \in flags'[c] <=> "VALID" \in flags[c]
    BY <1>b, <1>i DEF IInv, Types, TypeOK
  <1>1. \A s \in Sectors : Cell(s)' = Cell(s)
    BY <1>u, <1>f, CellsStay
  <1>2. HolderOf(want[p]) = Nobody
    <2>1. \A c \in Bufs : sector[c] = want[p] => c = b
      <3>1. Nobody \notin Sectors
        BY BioAssumption
      <3> QED  BY <3>1, <1>i, <1>s DEF IInv, CachedOnce
    <2> QED  BY <2>1, <1>i, <1>s DEF HolderIs
  <1>t. PICK t \in Sectors : t = want[p]
    BY <1>s
  <1>3. HolderOf(t)' = p
    <2>1. Holds(p, b)' /\ sector'[b] = t
      BY <1>h, <1>i, <1>s, <1>u, <1>t
    <2> QED  BY <2>1, <1>i DEF HolderIs
  <1>4. ASSUME NEW s \in Sectors \ {t} PROVE HolderOf(s)' = HolderOf(s)
    <2>1. CASE \E q \in Procs : \E c \in Bufs : Holds(q, c) /\ sector[c] = s
      <3>1. PICK q \in Procs, c \in Bufs : Holds(q, c) /\ sector[c] = s
        BY <2>1
      <3>2. Holds(q, c)' /\ sector'[c] = s
        BY <3>1, <1>h, <1>u
      <3> QED  BY <3>1, <3>2 DEF HolderIs
    <2>2. CASE \A q \in Procs : \A c \in Bufs : Holds(q, c) => sector[c] # s
      <3>1. \A q \in Procs : \A c \in Bufs : Holds(q, c)' => sector'[c] # s
        BY <2>2, <1>h, <1>u, <1>s, <1>t
      <3>2. HolderOf(s) = Nobody
        BY <2>2 DEF HolderIs
      <3>3. HolderOf(s)' = Nobody
        BY <3>1 DEF HolderIs
      <3> QED  BY <3>2, <3>3
    <2> QED  BY <2>1, <2>2
  <1>5. HolderOf(t) = Nobody
    BY <1>2, <1>t
  <1> QED  BY <1>u, <1>1, <1>5, <1>3, <1>4, Acquires

LEMMA bgetMissRefines ==
  ASSUME IInv, NewestIs, NewestIs', HolderIs, HolderIs', NEW p \in Procs, bgetMiss(p)
  PROVE  Store!Next
  <1>o. PICK b : b = Oldest
    OBVIOUS
  <1>u. UNCHANGED << data, disk, failed >>
    BY DEF bgetMiss, counts
  <1>b. b \in Free
    BY <1>o, OldestIsFree DEF bgetMiss, IInv, Types
  <1>a. /\ flags' = [flags EXCEPT ![b] = {"BUSY"}]
        /\ held' = [held EXCEPT ![p] = Append(@, b)]
        /\ sector' = [sector EXCEPT ![b] = want[p]]
    BY <1>o DEF bgetMiss, Taken
  <1>i. /\ b \in Bufs /\ "DIRTY" \notin flags[b]
        /\ \A q \in Procs : ~ Holds(q, b)
    BY <1>b, FreeIsIdle
  <1>t. PICK t \in Sectors : t = want[p]
    BY DEF bgetMiss, IInv, PlacesRight, PlaceRight
  <1>s. \A c \in Bufs : sector[c] # t
    BY <1>t DEF bgetMiss, Cached
  <1>h. \A q \in Procs, c \in Bufs : Holds(q, c)' <=> Holds(q, c) \/ (q = p /\ c = b)
    BY <1>a, <1>i, GetOne DEF IInv, Types, TypeOK, HeldOnce
  <1>f. /\ flags'[b] = {"BUSY"} /\ sector'[b] = t
        /\ \A c \in Bufs : c # b => flags'[c] = flags[c] /\ sector'[c] = sector[c]
    BY <1>a, <1>i, <1>t DEF IInv, Types, TypeOK
  <1>1. ASSUME NEW s \in Sectors PROVE Cell(s)' = Cell(s)
    <2>1. CASE s = t
      <3>1. Newest(t) = disk[t]
        BY <1>s DEF NewestIs
      <3>2. \A c \in Bufs : sector'[c] = t => "VALID" \notin flags'[c] /\ "DIRTY" \notin flags'[c]
        BY <1>s, <1>f, <1>i
      <3>3. Newest(t)' = disk'[t]
        BY <3>2 DEF NewestIs
      <3> QED  BY <2>1, <3>1, <3>3, <1>u DEF Cell
    <2>2. CASE s # t /\ sector[b] = s
      <3>1. \A c \in Bufs : sector'[c] # s
        <4>1. Nobody \notin Sectors
          BY BioAssumption
        <4>2. \A c \in Bufs : sector[c] = s => c = b
          BY <4>1, <2>2, <1>i DEF IInv, CachedOnce
        <4> QED  BY <4>2, <2>2, <1>f
      <3>2. Newest(s)' = disk'[s]
        BY <3>1 DEF NewestIs
      <3>3. CASE "VALID" \in flags[b]
        <4>1. Finished(b)
          BY <3>3, <1>i, FinishedSet DEF Finished
        <4>2. s \notin failed => data[b] = disk[s]
          BY <4>1, <2>2, <1>i DEF IInv, CleanIsDisk
        <4>3. Newest(s) = data[b]
          BY <3>3, <2>2, <1>i DEF NewestIs
        <4> QED  BY <3>2, <4>2, <4>3, <1>u DEF Cell
      <3>4. CASE "VALID" \notin flags[b]
        <4>1. \A c \in Bufs : sector[c] = s => "VALID" \notin flags[c] /\ "DIRTY" \notin flags[c]
          <5>1. Nobody \notin Sectors
            BY BioAssumption
          <5>2. \A c \in Bufs : sector[c] = s => c = b
            BY <5>1, <2>2, <1>i DEF IInv, CachedOnce
          <5> QED  BY <5>2, <3>4, <1>i
        <4>2. Newest(s) = disk[s]
          BY <4>1 DEF NewestIs
        <4> QED  BY <3>2, <4>2, <1>u DEF Cell
      <3> QED  BY <3>3, <3>4
    <2>3. CASE s # t /\ sector[b] # s
      <3>1. \A c \in Bufs : sector'[c] = s <=> sector[c] = s
        BY <2>3, <1>f
      <3>2. \A c \in Bufs : sector[c] = s => flags'[c] = flags[c]
        BY <2>3, <1>f
      <3>3. CASE \E c \in Bufs : sector[c] = s /\ ("VALID" \in flags[c] \/ "DIRTY" \in flags[c])
        <4>1. PICK c \in Bufs : sector[c] = s /\ ("VALID" \in flags[c] \/ "DIRTY" \in flags[c])
          BY <3>3
        <4>2. Newest(s) = data[c]
          BY <4>1 DEF NewestIs
        <4>3. Newest(s)' = data'[c]
          BY <4>1, <3>1, <3>2 DEF NewestIs
        <4> QED  BY <4>2, <4>3, <1>u DEF Cell
      <3>4. CASE \A c \in Bufs : sector[c] = s => "VALID" \notin flags[c] /\ "DIRTY" \notin flags[c]
        <4>1. Newest(s) = disk[s]
          BY <3>4 DEF NewestIs
        <4>2. \A c \in Bufs : sector'[c] = s => "VALID" \notin flags'[c] /\ "DIRTY" \notin flags'[c]
          BY <3>4, <3>1, <3>2
        <4>3. Newest(s)' = disk'[s]
          BY <4>2 DEF NewestIs
        <4> QED  BY <4>1, <4>3, <1>u DEF Cell
      <3> QED  BY <3>3, <3>4
    <2> QED  BY <2>1, <2>2, <2>3
  <1>2. HolderOf(t) = Nobody
    BY <1>s DEF HolderIs
  <1>3. HolderOf(t)' = p
    <2>1. Holds(p, b)' /\ sector'[b] = t
      BY <1>h, <1>i, <1>f
    <2> QED  BY <2>1, <1>i DEF HolderIs
  <1>4. ASSUME NEW s \in Sectors \ {t} PROVE HolderOf(s)' = HolderOf(s)
    <2>1. CASE \E q \in Procs : \E c \in Bufs : Holds(q, c) /\ sector[c] = s
      <3>1. PICK q \in Procs, c \in Bufs : Holds(q, c) /\ sector[c] = s
        BY <2>1
      <3>2. Holds(q, c)' /\ sector'[c] = s
        BY <3>1, <1>h, <1>f, <1>i
      <3> QED  BY <3>1, <3>2 DEF HolderIs
    <2>2. CASE \A q \in Procs : \A c \in Bufs : Holds(q, c) => sector[c] # s
      <3>1. \A q \in Procs : \A c \in Bufs : Holds(q, c)' => sector'[c] # s
        BY <2>2, <1>h, <1>f
      <3>2. HolderOf(s) = Nobody
        BY <2>2 DEF HolderIs
      <3>3. HolderOf(s)' = Nobody
        BY <3>1 DEF HolderIs
      <3> QED  BY <3>2, <3>3
    <2> QED  BY <2>1, <2>2
  <1> QED  BY <1>u, <1>1, <1>2, <1>3, <1>4, Acquires

LEMMA brelseRefines ==
  ASSUME IInv, NewestIs, NewestIs', HolderIs, HolderIs', NEW p \in Procs, brelse(p)
  PROVE  Store!Next
  <1>o. PICK b : b = Top(p)
    OBVIOUS
  <1>u. UNCHANGED << sector, data, disk, failed >>
    BY DEF brelse, counts
  <1>a. /\ flags' = [flags EXCEPT ![b] = @ \ {"BUSY"}]
        /\ held' = [held EXCEPT ![p] = SubSeq(@, 1, Len(@) - 1)]
        /\ pc[p] = "run" /\ held[p] # << >>
    BY <1>o DEF brelse
  <1>i. /\ b \in Bufs /\ "BUSY" \in flags[b] /\ Holds(p, b)
        /\ \A q \in Procs : Holds(q, b) => q = p
    BY <1>o, <1>a, RunnersOwn
  <1>h. \A q \in Procs, c \in Bufs : Holds(q, c)' <=> Holds(q, c) /\ ~ (q = p /\ c = b)
    BY <1>o, <1>a, DropOne DEF IInv, Types, TypeOK, HeldOnce
  <1>f. /\ \A c \in Bufs : "DIRTY" \in flags'[c] <=> "DIRTY" \in flags[c]
        /\ \A c \in Bufs : "VALID" \in flags'[c] <=> "VALID" \in flags[c]
    BY <1>a, <1>i DEF IInv, Types, TypeOK
  <1>1. \A s \in Sectors : Cell(s)' = Cell(s)
    BY <1>u, <1>f, CellsStay
  <1>t. PICK t \in Sectors : t = sector[b]
    BY <1>i DEF IInv, HeldOnce
  <1>c. \A c \in Bufs : sector[c] = t => c = b
    <2>1. Nobody \notin Sectors
      BY BioAssumption
    <2> QED  BY <2>1, <1>i, <1>t DEF IInv, CachedOnce
  <1>2. HolderOf(t) = p
    BY <1>i, <1>t DEF HolderIs
  <1>3. HolderOf(t)' = Nobody
    <2>1. \A q \in Procs : \A c \in Bufs : Holds(q, c)' => sector'[c] # t
      BY <1>h, <1>c, <1>i, <1>u
    <2> QED  BY <2>1 DEF HolderIs
  <1>4. ASSUME NEW s \in Sectors \ {t} PROVE HolderOf(s)' = HolderOf(s)
    <2>1. CASE \E q \in Procs : \E c \in Bufs : Holds(q, c) /\ sector[c] = s
      <3>1. PICK q \in Procs, c \in Bufs : Holds(q, c) /\ sector[c] = s
        BY <2>1
      <3>2. Holds(q, c)' /\ sector'[c] = s
        BY <3>1, <1>h, <1>u, <1>t
      <3> QED  BY <3>1, <3>2 DEF HolderIs
    <2>2. CASE \A q \in Procs : \A c \in Bufs : Holds(q, c) => sector[c] # s
      <3>1. \A q \in Procs : \A c \in Bufs : Holds(q, c)' => sector'[c] # s
        BY <2>2, <1>h, <1>u
      <3>2. HolderOf(s) = Nobody
        BY <2>2 DEF HolderIs
      <3>3. HolderOf(s)' = Nobody
        BY <3>1 DEF HolderIs
      <3> QED  BY <3>2, <3>3
    <2> QED  BY <2>1, <2>2
  <1> QED  BY <1>u, <1>1, <1>2, <1>3, <1>4, Releases

\* What happens to one buffer and its sector leaves the others' contents.
LEMMA OthersStay ==
  ASSUME UNCHANGED sector, NewestIs, NewestIs', NEW b \in Bufs, NEW t, sector[b] = t,
         \A c \in Bufs : c # b => flags'[c] = flags[c] /\ data'[c] = data[c],
         \A s \in Sectors : s # t => disk'[s] = disk[s] /\ (s \in failed' <=> s \in failed)
  PROVE  \A s \in Sectors \ {t} : Cell(s)' = Cell(s)
  <1> SUFFICES ASSUME NEW s \in Sectors, s # t PROVE Newest(s)' = Newest(s)
    BY DEF Cell
  <1>1. \A c \in Bufs : sector[c] = s => flags'[c] = flags[c] /\ data'[c] = data[c]
    OBVIOUS
  <1>2. CASE \E c \in Bufs : sector[c] = s /\ ("VALID" \in flags[c] \/ "DIRTY" \in flags[c])
    <2>1. PICK c \in Bufs : sector[c] = s /\ ("VALID" \in flags[c] \/ "DIRTY" \in flags[c])
      BY <1>2
    <2>2. Newest(s) = data[c]
      BY <2>1 DEF NewestIs
    <2>3. sector'[c] = s /\ ("VALID" \in flags'[c] \/ "DIRTY" \in flags'[c])
      BY <2>1, <1>1
    <2>4. Newest(s)' = data'[c]
      BY <2>3 DEF NewestIs
    <2> QED  BY <2>1, <2>2, <2>4, <1>1
  <1>3. CASE \A c \in Bufs : sector[c] = s => "VALID" \notin flags[c] /\ "DIRTY" \notin flags[c]
    <2>1. Newest(s) = disk[s]
      BY <1>3 DEF NewestIs
    <2>2. \A c \in Bufs : sector'[c] = s => "VALID" \notin flags'[c] /\ "DIRTY" \notin flags'[c]
      BY <1>3, <1>1
    <2>3. Newest(s)' = disk'[s]
      BY <2>2 DEF NewestIs
    <2> QED  BY <2>1, <2>3
  <1> QED  BY <1>2, <1>3

LEMMA bwriteRefines ==
  ASSUME IInv, NewestIs, NewestIs', HolderIs, HolderIs', NEW p \in Procs,
         NEW v \in Values, bwrite(p, v)
  PROVE  Store!Next
  <1>o. PICK b : b = Top(p)
    OBVIOUS
  <1>u. UNCHANGED << sector, disk, held, failed >>
    BY DEF bwrite
  <1>a. /\ flags' = [flags EXCEPT ![b] = @ \cup {"DIRTY"}]
        /\ data' = [data EXCEPT ![b] = v]
        /\ pc[p] = "run" /\ held[p] # << >>
    BY <1>o DEF bwrite
  <1>i. b \in Bufs /\ "BUSY" \in flags[b] /\ Holds(p, b)
    BY <1>o, <1>a, RunnersOwn
  <1>f. /\ "DIRTY" \in flags'[b] /\ data'[b] = v
        /\ \A c \in Bufs : c # b => flags'[c] = flags[c] /\ data'[c] = data[c]
    BY <1>a, <1>i DEF IInv, Types, TypeOK
  <1>t. PICK t \in Sectors : t = sector[b]
    BY <1>i DEF IInv, HeldOnce
  <1>1. \A s \in Sectors \ {t} : Cell(s)' = Cell(s)
    BY <1>u, <1>f, <1>i, <1>t, OthersStay
  <1>2. Cell(t)' = IF t \in failed THEN Blank ELSE v
    <2>1. Newest(t)' = v
      BY <1>f, <1>i, <1>t, <1>u DEF NewestIs
    <2> QED  BY <2>1, <1>u DEF Cell
  <1>3. HolderOf(t) = p
    BY <1>i, <1>t DEF HolderIs
  <1>4. \A s \in Sectors : HolderOf(s)' = HolderOf(s)
    BY <1>u, HoldersStay
  <1> QED  BY <1>u, <1>1, <1>2, <1>3, <1>4, Writes

LEMMA DriveDoneRefines ==
  ASSUME IInv, NewestIs, NewestIs', DriveDone
  PROVE  UNCHANGED Store!vars
  <1>u. UNCHANGED << sector, flags, data, held, failed, idequeue >>
    BY DEF DriveDone, cache, procs, counts
  <1>n. idequeue # << >>
    BY DEF IInv, DriveRight, DriveDone, Idle
  <1>o. PICK b : b = idequeue[1]
    OBVIOUS
  <1>b. b \in Bufs /\ sector[b] \in Sectors /\ drive.sector = sector[b]
    BY <1>n, <1>o, FirstRequest
  <1>t. PICK t \in Sectors : t = sector[b]
    BY <1>b
  <1>d. /\ drive.op = (IF "DIRTY" \in flags[b] THEN "write" ELSE "read")
        /\ drive.op = "write" => drive.data = data[b]
    BY <1>n, <1>o DEF IInv, DriveRight
  <1>f. /\ \A s \in Sectors : s # t => disk'[s] = disk[s]
        /\ "DIRTY" \in flags[b] \/ disk' = disk
    BY <1>b, <1>d, <1>t DEF DriveDone, IInv, Types, TypeOK
  <1>1. \A s \in Sectors \ {t} : Cell(s)' = Cell(s)
    BY <1>u, <1>f, <1>b, <1>t, OthersStay
  <1>2. Cell(t)' = Cell(t)
    <2>1. CASE "DIRTY" \in flags[b]
      <3>1. Newest(t) = data[b]
        BY <2>1, <1>b, <1>t DEF NewestIs
      <3>2. Newest(t)' = data'[b]
        BY <2>1, <1>b, <1>t, <1>u DEF NewestIs
      <3> QED  BY <3>1, <3>2, <1>u DEF Cell
    <2>2. CASE disk' = disk
      BY <2>2, <1>u DEF Cell, Newest, Cached
    <2> QED  BY <2>1, <2>2, <1>f
  <1>3. \A s \in Sectors : HolderOf(s)' = HolderOf(s)
    BY <1>u, HoldersStay
  <1>4. \A s \in Sectors : Cell(s)' = Cell(s) /\ HolderOf(s)' = HolderOf(s)
    BY <1>1, <1>2, <1>3
  <1> QED  BY <1>4, <1>u, Stutters

LEMMA ideintrRefines ==
  ASSUME IInv, NewestIs, NewestIs', HolderIs, ideintr
  PROVE  Store!Next \/ UNCHANGED Store!vars
  <1>o. PICK b : b = idequeue[1]
    OBVIOUS
  <1>u. UNCHANGED << sector, disk, held >>
    BY DEF ideintr
  <1>a. /\ idequeue # << >> /\ drive.done
        /\ data' = IF "DIRTY" \notin flags[b] /\ drive.ok
                   THEN [data EXCEPT ![b] = disk[drive.sector]] ELSE data
        /\ flags' = [flags EXCEPT ![b] = (@ \cup {"VALID"}) \ {"DIRTY"}]
        /\ failed' = IF drive.ok THEN failed ELSE failed \cup {drive.sector}
    BY <1>o DEF ideintr
  <1>b. /\ b \in Bufs /\ Queued(b) /\ ~ Finished(b)
        /\ sector[b] \in Sectors /\ drive.sector = sector[b]
    BY <1>o, <1>a, FirstRequest
  <1>t. PICK t \in Sectors : t = sector[b]
    BY <1>b
  <1>d. "DIRTY" \in flags[b] => drive.ok
    BY <1>o, <1>a, <1>b DEF IInv, DriveRight
  <1>f. /\ "VALID" \in flags'[b]
        /\ \A c \in Bufs : c # b => flags'[c] = flags[c] /\ data'[c] = data[c]
        /\ "DIRTY" \in flags[b] => data'[b] = data[b]
        /\ "DIRTY" \notin flags[b] /\ drive.ok => data'[b] = disk[t]
    BY <1>a, <1>b, <1>t DEF IInv, Types, TypeOK
  <1>1. \A s \in Sectors \ {t} : Cell(s)' = Cell(s)
    <2>1. \A s \in Sectors : s # t => disk'[s] = disk[s] /\ (s \in failed' <=> s \in failed)
      BY <1>u, <1>a, <1>b, <1>t
    <2> QED  BY <2>1, <1>u, <1>f, <1>b, <1>t, OthersStay
  <1>2. \A s \in Sectors : HolderOf(s)' = HolderOf(s)
    BY <1>u, HoldersStay
  <1>3. CASE drive.ok
    <2>1. Newest(t)' = data'[b]
      BY <1>b, <1>t, <1>u, <1>f DEF NewestIs
    <2>2. data'[b] = Newest(t)
      <3>1. CASE "DIRTY" \in flags[b]
        BY <3>1, <1>f, <1>b, <1>t DEF NewestIs
      <3>2. CASE "DIRTY" \notin flags[b]
        <4>1. "VALID" \notin flags[b]
          BY <3>2, <1>b, FinishedSet DEF Finished
        <4>2. \A c \in Bufs : sector[c] = t => c = b
          <5>1. Nobody \notin Sectors
            BY BioAssumption
          <5> QED  BY <5>1, <1>b, <1>t DEF IInv, CachedOnce
        <4>3. Newest(t) = disk[t]
          BY <4>1, <4>2, <3>2 DEF NewestIs
        <4> QED  BY <4>3, <3>2, <1>3, <1>f
      <3> QED  BY <3>1, <3>2
    <2>3. failed' = failed
      BY <1>3, <1>a
    <2>4. Cell(t)' = Cell(t)
      BY <2>1, <2>2, <2>3 DEF Cell
    <2>5. \A s \in Sectors : Cell(s)' = Cell(s) /\ HolderOf(s)' = HolderOf(s)
      BY <2>4, <1>1, <1>2
    <2> QED  BY <2>3, <2>5, Stutters
  <1>4. CASE ~ drive.ok
    <2>1. failed' = failed \cup {t}
      BY <1>4, <1>a, <1>b, <1>t
    <2>2. Cell(t)' = Blank
      BY <2>1 DEF Cell
    <2>3. HolderOf(t) # Nobody
      <3>1. PICK p \in Procs : Holds(p, b)
        BY <1>b, QueuedIsHeld
      <3>2. HolderOf(t) = p
        BY <3>1, <1>b, <1>t DEF HolderIs
      <3> QED  BY <3>2, BioAssumption
    <2> QED  BY <2>1, <2>2, <2>3, <1>1, <1>2, Damages
  <1> QED  BY <1>3, <1>4

LEMMA NextRefines ==
  ASSUME IInv, NewestIs, NewestIs', HolderIs, HolderIs', [Next]_vars
  PROVE  [Store!Next]_Store!vars
  <1>1. ASSUME NEW p \in Procs, NEW s \in Sectors, bread(p, s)
        PROVE  UNCHANGED Store!vars
    BY <1>1, SameStutters DEF bread, cache, counts
  <1>2. ASSUME NEW p \in Procs, NEW v \in Values, bwrite(p, v) PROVE Store!Next
    BY <1>2, bwriteRefines
  <1>3. ASSUME NEW p \in Procs, bgetHit(p) \/ bgetMiss(p) \/ brelse(p) PROVE Store!Next
    BY <1>3, bgetHitRefines, bgetMissRefines, brelseRefines
  <1>4. ASSUME NEW p \in Procs, bgetBusy(p) \/ bgetPanic(p) \/ iderw(p) \/ iderwWoken(p) \/ kill(p)
        PROVE  UNCHANGED Store!vars
    BY <1>4, SameStutters DEF bgetBusy, Asleep, bgetPanic, iderw, iderwWoken, kill, cache,
       counts, procs
  <1>5. CASE ideintr
    BY <1>5, ideintrRefines
  <1>6. CASE DriveDone
    BY <1>6, DriveDoneRefines
  <1>7. CASE UNCHANGED vars
    BY <1>7, SameStutters DEF vars, cache, procs, counts
  <1> QED  BY <1>1, <1>2, <1>3, <1>4, <1>5, <1>6, <1>7 DEF Next, Step

LEMMA InitRefines ==
  ASSUME Init, NewestIs, HolderIs
  PROVE  Store!Init
  <1>1. \A s \in Sectors : Newest(s) = Disk0[s]
    BY DEF Init, NewestIs
  <1>2. \A s \in Sectors : HolderOf(s) = Nobody
    <2>1. \A p \in Procs : held[p] = << >>
      BY DEF Init
    <2>2. \A i \in 1 .. Len(<< >>) : FALSE
      OBVIOUS
    <2>3. \A p \in Procs : \A b \in Bufs : ~ Holds(p, b)
      BY <2>1, <2>2 DEF Holds
    <2> QED  BY <2>3 DEF HolderIs
  <1>3. failed = {}
    BY DEF Init
  <1> QED  BY <1>1, <1>2, <1>3, BioAssumption DEF Store!Init

\* For any numbers of processes, buffers and sectors, whatever is evicted, read
\* again, queued or killed on the way: bio.c and ide.c implement a store of
\* blocks, each in one process's hands at a time and holding what was last
\* written to it, unless the disk failed to read it.
THEOREM StoreIsImplemented == Spec => ImplementsBlockStore
  <1>1. Init /\ IInv => Store!Init
    BY ReadOff, InitRefines
  <1>2. IInv /\ IInv' /\ [Next]_vars => [Store!Next]_Store!vars
    <2>1. IInv' => NewestIs' /\ HolderIs'
      BY ReadOff, PTL
    <2> QED  BY <2>1, ReadOff, NextRefines
  <1> QED  BY <1>1, <1>2, Invariance, PTL DEF Spec, ImplementsBlockStore, Store!Spec
=============================================================================
