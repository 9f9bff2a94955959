----------------------------- MODULE PipeProofs -----------------------------
(***************************************************************************)
(* Pipes and open files, for any numbers of processes, files, descriptors  *)
(* and pages and any size of the ring and of its wrapping counters.        *)
(***************************************************************************)
EXTENDS Pipe, Integers, FiniteSetTheorems, SequenceTheorems, WellFoundedInduction,
        TLAPS

-----------------------------------------------------------------------------
(* The inductive invariant.                                                 *)

Writing == {"write", "wgap", "wsleep"}
Reading == {"read", "rgap", "rsleep"}

\* A file is counted as often as it is referred to, and cleared in between.
FileRight(f) ==
  /\ file[f].ref = Cardinality(Descriptors(f)) + Cardinality(Pending(f))
  /\ file[f].ref = 0 => file[f] = NoFile

\* Only calls that make a pipe have files without one.
DescriptorRight(p, d) == ofile[p][d] # 0 => file[ofile[p][d]].pipe # 0

\* p has the file of its call open.
HasOpen(p) == \E d \in Fds : /\ ofile[p][d] # 0
                             /\ file[ofile[p][d]].pipe = cur[p]
                             /\ file[ofile[p][d]].writable = (pc[p] \in Writing)

\* A file that filealloc() has just returned.
Fresh(f) == file[f].ref = 1 /\ file[f].pipe = 0 /\ file[f].writable = FALSE

\* Where a process is says which files it has to do with.
ListRight(p) ==
  /\ Len(todo[p]) <= 2
  /\ Len(todo[p]) = 2 => todo[p][1] # todo[p][2]
  /\ pc[p] \in {"unused", "run"} \cup InPipe => todo[p] = << >>
  /\ pc[p] = "pipe1" => Len(todo[p]) = 1
  /\ pc[p] = "pipe2" => Len(todo[p]) = 2
  /\ pc[p] \in {"pipe1", "pipe2"} => \A i \in 1 .. Len(todo[p]) : Fresh(todo[p][i])
PlaceRight(p) ==
  /\ pc[p] = "unused" => \A d \in Fds : ofile[p][d] = 0
  /\ leaving[p] => pc[p] \in {"close", "pipeclose"} /\ todo[p] = << >>
  /\ pc[p] = "close" => SomeLeft(p)
  /\ pc[p] \in InPipe => HasOpen(p)
  /\ cur[p] # 0 <=> pc[p] \in InPipe \cup {"pipeclose"}

\* An end of a pipe is open as long as one file stands for it, or as one
\* process is about to close it.
IsOpen(g, w) == IF w THEN pipe[g].writeopen ELSE pipe[g].readopen
Stands(f, g, w) == file[f].pipe = g /\ file[f].writable = w
Shuts(p, g, w) == pc[p] = "pipeclose" /\ cur[p] = g /\ writable[p] = w
EndRight(g, w) ==
  /\ IsOpen(g, w) <=> \/ \E f \in Files : Stands(f, g, w)
                      \/ \E p \in Procs : Shuts(p, g, w)
  /\ \A f, h \in Files : Stands(f, g, w) /\ Stands(h, g, w) => f = h
  /\ \A p, q \in Procs : Shuts(p, g, w) /\ Shuts(q, g, w) => p = q
  /\ \A f \in Files, p \in Procs : ~ (Stands(f, g, w) /\ Shuts(p, g, w))
FreeRight(g) == g \in free <=> ~ IsOpen(g, TRUE) /\ ~ IsOpen(g, FALSE)

\* Who sleeps, or is about to, does so over a full or an empty ring.
WaitRight(p) ==
  /\ pc[p] \in {"wgap", "wsleep"} => Used(cur[p]) = PIPESIZE /\ IsOpen(cur[p], FALSE)
  /\ pc[p] = "rgap" => Used(cur[p]) = 0 /\ IsOpen(cur[p], TRUE)
  /\ pc[p] = "rsleep" => \/ Used(cur[p]) = 0 /\ IsOpen(cur[p], TRUE)
                         \/ cur[p] \in unsaid

FilesRight == \A f \in Files : FileRight(f)
DescriptorsRight == \A p \in Procs, d \in Fds : DescriptorRight(p, d)
ListsRight == \A p \in Procs : ListRight(p)
PlacesRight == \A p \in Procs : PlaceRight(p)
EndsRight == \A g \in Pages, w \in BOOLEAN : EndRight(g, w)
PagesRight == \A g \in Pages : FreeRight(g)
RingsRight == \A g \in Pages : Used(g) <= PIPESIZE
WaitsRight == \A p \in Procs : WaitRight(p)

IInv == /\ TypeOK /\ FilesRight /\ DescriptorsRight /\ ListsRight /\ PlacesRight
        /\ EndsRight /\ PagesRight /\ RingsRight /\ WaitsRight

-----------------------------------------------------------------------------
(* Counters that wrap.                                                      *)

\* Multiples keep their order.
LEMMA Times ==
  ASSUME NEW P \in Nat \ {0}, NEW i \in Int, NEW j \in Int
  PROVE  /\ i * P < j * P <=> i < j
         /\ i * P <= j * P <=> i <= j
         /\ (i + 1) * P = i * P + P
         /\ i * P \in Int
  <1>1. /\ i < j => i * P < j * P
        /\ i = j => i * P = j * P
        /\ j < i => j * P < i * P
    OBVIOUS
  <1> QED BY <1>1

\* Division with rest.
LEMMA Rest ==
  ASSUME NEW B \in Nat \ {0}, NEW x \in Int
  PROVE  x % B \in 0 .. B - 1 /\ \E q \in Int : x = q * B + (x % B)
  <1>1. x % B \in 0 .. B - 1
    OBVIOUS
  <1>2. x \div B \in Int
    OBVIOUS
  <1>3. x = B * (x \div B) + (x % B)
    OBVIOUS
  <1>4. PICK q \in Int : q = x \div B
    BY <1>2
  <1>5. x = q * B + (x % B)
    BY <1>3, <1>4
  <1> QED  BY <1>1, <1>5

\* The rest of a sum is what is left over the multiple.
LEMMA RestIs ==
  ASSUME NEW B \in Nat \ {0}, NEW q \in Int, NEW s \in 0 .. B - 1
  PROVE  (q * B + s) % B = s
  <1>1. PICK x \in Int : x = q * B + s
    BY Times
  <1>2. PICK p \in Int : x = p * B + (x % B)
    BY Rest
  <1>3. PICK t \in 0 .. B - 1 : t = x % B
    BY Rest
  <1>4. q * B \in Int /\ p * B \in Int /\ (q + 1) * B = q * B + B /\ (p + 1) * B = p * B + B
    BY Times
  <1>5. q * B < (p + 1) * B /\ p * B < (q + 1) * B
    <2>1. PICK a \in Int, b \in Int : a = q * B /\ b = p * B
      BY <1>4
    <2>2. x = a + s /\ x = b + t /\ (q + 1) * B = a + B /\ (p + 1) * B = b + B
      BY <1>1, <1>2, <1>3, <1>4, <2>1
    <2>3. a < b + B /\ b < a + B
      BY <2>2
    <2> QED  BY <2>1, <2>2, <2>3
  <1>6. q < p + 1 /\ p < q + 1
    BY <1>5, Times
  <1>7. p = q
    BY <1>6
  <1> QED  BY <1>1, <1>2, <1>3, <1>4, <1>7

\* The rest of a counter that has wrapped.
LEMMA RestShifts ==
  ASSUME NEW B \in Nat \ {0}, NEW m \in Nat, NEW x \in Int
  PROVE  (x - m * B) % B = x % B
  <1>1. PICK q \in Int : x = q * B + (x % B)
    BY Rest
  <1>2. PICK s \in 0 .. B - 1 : s = x % B
    BY Rest
  <1>3. x - m * B = (q - m) * B + s
    <2>1. PICK a \in Int, b \in Int : a = q * B /\ b = m * B
      BY Times
    <2>2. (q - m) * B = q * B - m * B
      OBVIOUS
    <2>3. x = a + s
      BY <1>1, <1>2, <2>1
    <2>4. x - b = (a - b) + s
      BY <2>3
    <2> QED  BY <2>1, <2>2, <2>4
  <1>4. q - m \in Int
    OBVIOUS
  <1> QED  BY <1>2, <1>3, <1>4, RestIs

\* Numbers less than B apart have different rests.
LEMMA RestsDiffer ==
  ASSUME NEW B \in Nat \ {0}, NEW x \in Int, NEW y \in Int, x < y, y < x + B
  PROVE  x % B # y % B
  <1>1. SUFFICES ASSUME x % B = y % B PROVE FALSE
    OBVIOUS
  <1>2. PICK p \in Int : x = p * B + (x % B)
    BY Rest
  <1>3. PICK q \in Int : y = q * B + (y % B)
    BY Rest
  <1>4. PICK s \in 0 .. B - 1 : s = x % B
    BY Rest
  <1>5. p * B < q * B /\ q * B < (p + 1) * B
    BY <1>1, <1>2, <1>3, <1>4, Times
  <1> QED  BY <1>5, Times

\* A counter below twice the modulus.
LEMMA Wraps ==
  ASSUME NEW N \in Nat \ {0}, NEW x \in 0 .. 2 * N - 1
  PROVE  x % N = IF x < N THEN x ELSE x - N
  <1>1. CASE x < N
    <2>1. x = 0 * N + x
      OBVIOUS
    <2> QED  BY <1>1, <2>1, RestIs
  <1>2. CASE ~ (x < N)
    <2>1. x = 1 * N + (x - N) /\ x - N \in 0 .. N - 1
      BY <1>2
    <2> QED  BY <1>2, <2>1, RestIs
  <1> QED  BY <1>1, <1>2

\* What the assumptions say of the sizes.
LEMMA Sizes ==
  /\ UINT \in Nat \ {0} /\ PIPESIZE \in Nat \ {0} /\ PIPESIZE < UINT /\ MaxN \in Nat
  /\ 0 \in Bytes /\ \A b \in Bytes : b \in Nat /\ b < UINT
  BY PipeAssumption DEF Bytes

\* The difference of two counters r and w, as the code computes it, and what
\* it becomes when one of them grows.
Diff(w, r) == (w + UINT - r) % UINT
LEMMA Differences ==
  ASSUME NEW w \in Bytes, NEW r \in Bytes
  PROVE  /\ Diff(w, r) \in Bytes
         /\ Diff(w, r) = IF r <= w THEN w - r ELSE w + UINT - r
         /\ Diff(0, 0) = 0
         /\ \A k \in Nat : Diff(w, r) + k < UINT => Diff((w + k) % UINT, r) = Diff(w, r) + k
         /\ \A k \in Nat : k <= Diff(w, r) => Diff(w, (r + k) % UINT) = Diff(w, r) - k
         /\ \A k \in 0 .. UINT : (w + k) % UINT \in Bytes
  <1>0. PICK N \in Nat \ {0} : N = UINT
    BY Sizes
  <1>1. \A x \in 0 .. 2 * N - 1 : x % N = IF x < N THEN x ELSE x - N
    BY Wraps
  <1>2. PICK v \in 0 .. N - 1, s \in 0 .. N - 1 : v = w /\ s = r
    BY <1>0 DEF Bytes
  <1>3. ASSUME NEW a \in 0 .. N - 1, NEW b \in 0 .. N - 1
        PROVE  Diff(a, b) = IF b <= a THEN a - b ELSE a + N - b
    <2>1. a + N - b \in 0 .. 2 * N - 1
      OBVIOUS
    <2>2. (a + N - b) % N = IF a + N - b < N THEN a + N - b ELSE a + N - b - N
      BY <1>1, <2>1
    <2>3. Diff(a, b) = (a + N - b) % N
      BY <1>0 DEF Diff
    <2> QED
      BY <2>2, <2>3
  <1>4. PICK d \in 0 .. N - 1 : d = Diff(w, r) /\ d = IF s <= v THEN v - s ELSE v + N - s
    BY <1>2, <1>3
  <1>5. Diff(0, 0) = 0
    BY <1>3
  <1>6. ASSUME NEW k \in Nat, d + k < N PROVE Diff((w + k) % UINT, r) = d + k
    <2>1. v + k \in 0 .. 2 * N - 1
      BY <1>4, <1>6
    <2>2. PICK t \in 0 .. N - 1 : /\ t = (v + k) % N
                                  /\ t = IF v + k < N THEN v + k ELSE v + k - N
      <3>1. (v + k) % N = IF v + k < N THEN v + k ELSE v + k - N
        BY <1>1, <2>1
      <3> QED
        BY <2>1, <3>1
    <2>3. Diff(t, s) = IF s <= t THEN t - s ELSE t + N - s
      BY <1>3
    <2>4. (IF s <= t THEN t - s ELSE t + N - s) = d + k
      BY <1>4, <1>6, <2>2
    <2> QED
      BY <1>0, <1>2, <2>2, <2>3, <2>4
  <1>7. ASSUME NEW k \in Nat, k <= d PROVE Diff(w, (r + k) % UINT) = d - k
    <2>1. s + k \in 0 .. 2 * N - 1
      BY <1>4, <1>7
    <2>2. PICK t \in 0 .. N - 1 : /\ t = (s + k) % N
                                  /\ t = IF s + k < N THEN s + k ELSE s + k - N
      <3>1. (s + k) % N = IF s + k < N THEN s + k ELSE s + k - N
        BY <1>1, <2>1
      <3> QED
        BY <2>1, <3>1
    <2>3. Diff(v, t) = IF t <= v THEN v - t ELSE v + N - t
      BY <1>3
    <2>4. (IF t <= v THEN v - t ELSE v + N - t) = d - k
      BY <1>4, <1>7, <2>2
    <2> QED
      BY <1>0, <1>2, <2>2, <2>3, <2>4
  <1>8. ASSUME NEW k \in 0 .. UINT PROVE (w + k) % UINT \in Bytes
    <2>1. v + k \in Int
      BY <1>0
    <2>2. (v + k) % N \in 0 .. N - 1
      BY <2>1, Rest
    <2> QED
      BY <1>0, <1>2, <2>2 DEF Bytes
  <1>9. \A k \in Nat : Diff(w, r) + k < UINT => Diff((w + k) % UINT, r) = Diff(w, r) + k
    BY <1>0, <1>4, <1>6
  <1>10. \A k \in Nat : k <= Diff(w, r) => Diff(w, (r + k) % UINT) = Diff(w, r) - k
    BY <1>4, <1>7
  <1>11. Diff(w, r) \in Bytes /\ Diff(w, r) = IF r <= w THEN w - r ELSE w + UINT - r
    BY <1>0, <1>2, <1>4 DEF Bytes
  <1> QED
    BY <1>5, <1>8, <1>9, <1>10, <1>11

-----------------------------------------------------------------------------
(* Sets of descriptors and of files.                                        *)

\* A set of numbers that is not empty has a least element.
LEMMA LeastIn ==
  ASSUME NEW S, S \subseteq Nat, S # {}
  PROVE  Min(S) \in S
  <1>1. \E i \in S : \A j \in S : i <= j
    <2>1. IsWellFoundedOn(OpToRel(<, Nat), Nat)
      BY NatLessThanWellFounded, Zenon
    <2>2. PICK i \in S : \A j \in S : ~ (<< j, i >> \in OpToRel(<, Nat))
      BY <2>1, WFMin, Zenon
    <2>3. \A j \in S : ~ (j < i)
      BY <2>2 DEF OpToRel
    <2> QED
      BY <2>3
  <1> QED
    BY <1>1 DEF Min

\* The lowest free file, free descriptor and descriptor in use, if there is
\* one.
LEMMA FreeOnes ==
  ASSUME TypeOK
  PROVE  /\ FreeFiles # {} => Min(FreeFiles) \in Files /\ file[Min(FreeFiles)].ref = 0
         /\ \A p \in Procs : FreeFds(p) # {} =>
              Min(FreeFds(p)) \in Fds /\ ofile[p][Min(FreeFds(p))] = 0
         /\ \A p \in Procs : FreeFds(p) # Fds =>
              LowestFd(p) \in Fds /\ ofile[p][LowestFd(p)] # 0
  <1>0. NFILE \in Nat /\ NOFILE \in Nat /\ Files \subseteq Nat /\ Fds \subseteq Nat
    BY PipeAssumption DEF Files, Fds
  <1>1. FreeFiles # {} => Min(FreeFiles) \in FreeFiles
    BY <1>0, LeastIn DEF FreeFiles
  <1>2. \A p \in Procs : FreeFds(p) # {} => Min(FreeFds(p)) \in FreeFds(p)
    BY <1>0, LeastIn DEF FreeFds
  <1>3. ASSUME NEW p \in Procs, FreeFds(p) # Fds
        PROVE  LowestFd(p) \in Fds \ FreeFds(p)
    <2>1. Fds \ FreeFds(p) # {}
      BY <1>3 DEF FreeFds
    <2> QED
      BY <1>0, <2>1, LeastIn DEF LowestFd
  <1> QED
    BY <1>1, <1>2, <1>3 DEF FreeFiles, FreeFds

\* 0 is no file.
LEMMA NoFileZero == 0 \notin Files
  BY PipeAssumption DEF Files

\* The references to a file are finitely many.
LEMMA Counts ==
  ASSUME NEW f
  PROVE  /\ IsFiniteSet(Descriptors(f)) /\ Cardinality(Descriptors(f)) \in Nat
         /\ IsFiniteSet(Pending(f)) /\ Cardinality(Pending(f)) \in Nat
  <1>1. IsFiniteSet(Procs) /\ IsFiniteSet(Fds)
    BY PipeAssumption, FS_Interval DEF Fds
  <1>2. IsFiniteSet(Procs \X Fds)
    BY <1>1, FS_Product
  <1>3. IsFiniteSet(Descriptors(f))
    BY <1>2, FS_Subset DEF Descriptors
  <1>4. IsFiniteSet(Pending(f))
    BY <1>1, FS_Subset DEF Pending
  <1> QED
    BY <1>3, <1>4, FS_CardinalityType

\* The members of the two sets, and the same after a step.
LEMMA Members ==
  ASSUME NEW f
  PROVE  /\ \A p \in Procs, d \in Fds : << p, d >> \in Descriptors(f) <=> ofile[p][d] = f
         /\ \A p \in Procs : p \in Pending(f) <=> \E i \in 1 .. Len(todo[p]) : todo[p][i] = f
         /\ Descriptors(f) \subseteq Procs \X Fds /\ Pending(f) \subseteq Procs
  BY DEF Descriptors, Pending

\* A file somebody refers to is counted, one two refer to twice.
LEMMA Counted ==
  ASSUME FilesRight, NEW f \in Files
  PROVE  /\ \A h \in Descriptors(f) : file[f].ref >= 1
         /\ \A p \in Pending(f) : file[f].ref >= 1
         /\ \A h \in Descriptors(f), p \in Pending(f) : file[f].ref >= 2
         /\ \A h, k \in Descriptors(f) : h # k => file[f].ref >= 2
         /\ \A p, q \in Pending(f) : p # q => file[f].ref >= 2
  <1> DEFINE D == Descriptors(f)  P == Pending(f)
  <1>0. IsFiniteSet(D) /\ Cardinality(D) \in Nat /\ IsFiniteSet(P) /\ Cardinality(P) \in Nat
    BY Counts
  <1>1. file[f].ref = Cardinality(D) + Cardinality(P)
    BY DEF FilesRight, FileRight
  <1> HIDE DEF D, P
  <1>2. ASSUME NEW S, IsFiniteSet(S), Cardinality(S) \in Nat
        PROVE  /\ \A x \in S : Cardinality(S) >= 1
               /\ \A x, y \in S : x # y => Cardinality(S) >= 2
    <2>1. ASSUME NEW x \in S PROVE Cardinality(S) >= 1
      <3>1. Cardinality(S) # 0
        BY <1>2, <2>1, FS_EmptySet
      <3> QED
        BY <3>1, <1>2
    <2>2. ASSUME NEW x \in S, NEW y \in S, x # y PROVE Cardinality(S) >= 2
      <3>1. Cardinality(S) # 1
        BY <1>2, <2>2, FS_Singleton
      <3> QED
        BY <3>1, <1>2, <2>1
    <2> QED
      BY <2>1, <2>2
  <1>3. /\ \A x \in D : Cardinality(D) >= 1
        /\ \A x, y \in D : x # y => Cardinality(D) >= 2
        /\ \A x \in P : Cardinality(P) >= 1
        /\ \A x, y \in P : x # y => Cardinality(P) >= 2
    BY <1>0, <1>2
  <1> QED
    BY <1>0, <1>1, <1>3 DEF D, P

\* One descriptor is set: what that does to the descriptors of each file.
SetsFd(p, d, v) == \A q \in Procs, e \in Fds :
                     ofile'[q][e] = IF q = p /\ e = d THEN v ELSE ofile[q][e]
LEMMA OneDescriptor ==
  ASSUME NEW p \in Procs, NEW d \in Fds, NEW v, SetsFd(p, d, v), NEW f
  PROVE  /\ v = f => Descriptors(f)' = Descriptors(f) \cup {<< p, d >>}
         /\ v # f => Descriptors(f)' = Descriptors(f) \ {<< p, d >>}
  <1>1. \A q \in Procs, e \in Fds :
          ofile'[q][e] = IF q = p /\ e = d THEN v ELSE ofile[q][e]
    BY DEF SetsFd
  <1>2. /\ Descriptors(f) \subseteq Procs \X Fds /\ Descriptors(f)' \subseteq Procs \X Fds
        /\ << p, d >> \in Procs \X Fds
    BY DEF Descriptors
  <1>3. \A q \in Procs, e \in Fds : << q, e >> \in Descriptors(f)' <=> ofile'[q][e] = f
    BY DEF Descriptors
  <1>4. \A q \in Procs, e \in Fds : << q, e >> \in Descriptors(f) <=> ofile[q][e] = f
    BY DEF Descriptors
  <1>5. \A q \in Procs, e \in Fds : << q, e >> = << p, d >> <=> q = p /\ e = d
    OBVIOUS
  <1>6. \A h \in Procs \X Fds : \E q \in Procs, e \in Fds : h = << q, e >>
    OBVIOUS
  <1>7. ASSUME v = f, NEW h \in Procs \X Fds
        PROVE  h \in Descriptors(f)' <=> h \in Descriptors(f) \cup {<< p, d >>}
    BY <1>1, <1>3, <1>4, <1>5, <1>6, <1>7
  <1>8. ASSUME v # f, NEW h \in Procs \X Fds
        PROVE  h \in Descriptors(f)' <=> h \in Descriptors(f) \ {<< p, d >>}
    BY <1>1, <1>3, <1>4, <1>5, <1>6, <1>8
  <1>9. v = f => Descriptors(f)' = Descriptors(f) \cup {<< p, d >>}
    BY <1>2, <1>7
  <1>10. v # f => Descriptors(f)' = Descriptors(f) \ {<< p, d >>}
    BY <1>2, <1>8
  <1> QED
    BY <1>9, <1>10

\* One list is set: likewise.
OnList(s, f) == \E i \in 1 .. Len(s) : s[i] = f
SetsList(p, s) == \A q \in Procs : todo'[q] = IF q = p THEN s ELSE todo[q]
LEMMA OneList ==
  ASSUME NEW p \in Procs, NEW s, SetsList(p, s), NEW f
  PROVE  /\ OnList(s, f) => Pending(f)' = Pending(f) \cup {p}
         /\ ~ OnList(s, f) => Pending(f)' = Pending(f) \ {p}
  <1>1. \A q \in Procs : todo'[q] = IF q = p THEN s ELSE todo[q]
    BY DEF SetsList
  <1>2. \A q : q \in Pending(f) <=> q \in Procs /\ OnList(todo[q], f)
    BY DEF Pending, OnList
  <1>3. \A q : q \in Pending(f)' <=> q \in Procs /\ OnList(todo'[q], f)
    BY DEF Pending, OnList
  <1> HIDE DEF OnList
  <1>4. \A q : q \in Pending(f)' <=> IF q = p THEN OnList(s, f) ELSE q \in Pending(f)
    BY <1>1, <1>2, <1>3
  <1> QED
    BY <1>4

\* What is on the short lists the calls keep.
LEMMA ListsAre ==
  ASSUME NEW S, NEW a \in S, NEW b \in S, NEW f
  PROVE  /\ OnList(<< a >>, f) <=> f = a
         /\ OnList(<< a, b >>, f) <=> f \in {a, b}
         /\ ~ OnList(<< >>, f)
         /\ << a >> \in Seq(S) /\ << a, b >> \in Seq(S)
  BY DEF OnList

\* A set of references gains x, loses x or stays.
Gains(S, T, x, k) == \/ k = 0 /\ T = S
                     \/ k = 1 /\ x \notin S /\ T = S \cup {x}
                     \/ k = -1 /\ x \in S /\ T = S \ {x}

\* The count follows the set.
LEMMA GainCounts ==
  ASSUME NEW S, NEW T, NEW x, NEW k, Gains(S, T, x, k), IsFiniteSet(S)
  PROVE  Cardinality(T) = Cardinality(S) + k /\ k \in Int
  <1>0. Cardinality(S) \in Nat
    BY FS_CardinalityType
  <1>1. CASE k = 0 /\ T = S
    BY <1>0, <1>1
  <1>2. CASE k = 1 /\ x \notin S /\ T = S \cup {x}
    BY <1>2, FS_AddElement
  <1>3. CASE k = -1 /\ x \in S /\ T = S \ {x}
    <2>1. Cardinality(T) = Cardinality(S) - 1
      BY <1>3, FS_RemoveElement
    <2> QED
      BY <1>0, <1>3, <2>1
  <1> QED
    BY <1>1, <1>2, <1>3 DEF Gains

\* A file is counted right again when its count changes as its references do.
LEMMA Recount ==
  ASSUME FilesRight, NEW f \in Files, NEW h, NEW p, NEW a, NEW b,
         Gains(Descriptors(f), Descriptors(f)', h, a),
         Gains(Pending(f), Pending(f)', p, b),
         file'[f].ref = file[f].ref + a + b,
         file'[f].ref = 0 => file'[f] = NoFile
  PROVE  FileRight(f)'
  <1>1. /\ IsFiniteSet(Descriptors(f)) /\ Cardinality(Descriptors(f)) \in Nat
        /\ IsFiniteSet(Pending(f)) /\ Cardinality(Pending(f)) \in Nat
    BY Counts
  <1>2. Cardinality(Descriptors(f)') = Cardinality(Descriptors(f)) + a /\ a \in Int
    BY <1>1, GainCounts
  <1>3. Cardinality(Pending(f)') = Cardinality(Pending(f)) + b /\ b \in Int
    BY <1>1, GainCounts
  <1>4. file[f].ref = Cardinality(Descriptors(f)) + Cardinality(Pending(f))
    BY DEF FilesRight, FileRight
  <1>5. file'[f].ref = Cardinality(Descriptors(f)') + Cardinality(Pending(f)')
    BY <1>1, <1>2, <1>3, <1>4
  <1> QED
    BY <1>5 DEF FileRight, NoFile

\* A file nothing happens to stays counted right.
LEMMA SameCount ==
  ASSUME FilesRight, NEW f \in Files, file'[f] = file[f],
         Descriptors(f)' = Descriptors(f), Pending(f)' = Pending(f)
  PROVE  FileRight(f)'
  BY DEF FilesRight, FileRight, NoFile

\* A step that leaves files, descriptors and lists alone.
LEMMA TableSame ==
  ASSUME IInv, UNCHANGED << ofile, file, todo >>
  PROVE  FilesRight' /\ DescriptorsRight'
  <1>1. \A f \in Files : Descriptors(f)' = Descriptors(f) /\ Pending(f)' = Pending(f)
    BY DEF Descriptors, Pending
  <1>2. FilesRight'
    BY <1>1, SameCount DEF FilesRight, IInv
  <1>3. DescriptorsRight'
    BY DEF IInv, DescriptorsRight, DescriptorRight
  <1> QED
    BY <1>2, <1>3

\* A step that leaves the pipes alone and puts nobody to sleep.
LEMMA QuietKeeps ==
  ASSUME IInv, UNCHANGED << pipe, free, unsaid >>,
         \A q \in Procs :
           pc'[q] \in {"wgap", "wsleep", "rgap", "rsleep"} =>
             /\ cur'[q] = cur[q]
             /\ pc'[q] \in {"wgap", "wsleep"} => pc[q] \in {"wgap", "wsleep"}
             /\ pc'[q] = "rgap" => pc[q] = "rgap"
             /\ pc'[q] = "rsleep" => pc[q] \in {"rgap", "rsleep"}
  PROVE  PagesRight' /\ RingsRight' /\ WaitsRight'
  <1>1. PagesRight'
    BY DEF IInv, PagesRight, FreeRight, IsOpen
  <1>2. RingsRight'
    BY DEF IInv, RingsRight, Used
  <1>3. ASSUME NEW q \in Procs PROVE WaitRight(q)'
    <2>1. \A g : Used(g)' = Used(g) /\ IsOpen(g, TRUE)' = IsOpen(g, TRUE)
                 /\ IsOpen(g, FALSE)' = IsOpen(g, FALSE)
      BY DEF Used, IsOpen
    <2>2. WaitRight(q)
      BY DEF IInv, WaitsRight
    <2> QED
      BY <2>1, <2>2 DEF WaitRight
  <1> QED
    BY <1>1, <1>2, <1>3 DEF WaitsRight

\* A step that opens and closes no end.
LEMMA EndsKeep ==
  ASSUME IInv,
         \A g \in Pages, w \in BOOLEAN :
           /\ IsOpen(g, w)' <=> IsOpen(g, w)
           /\ \A f \in Files : Stands(f, g, w)' <=> Stands(f, g, w)
           /\ \A p \in Procs : Shuts(p, g, w)' <=> Shuts(p, g, w)
  PROVE  EndsRight'
  <1>1. ASSUME NEW g \in Pages, NEW w \in BOOLEAN PROVE EndRight(g, w)'
    <2>1. EndRight(g, w)
      BY DEF IInv, EndsRight
    <2> QED
      BY <2>1 DEF EndRight
  <1> QED
    BY <1>1 DEF EndsRight

\* Likewise, said of the variables.
LEMMA EndsSame ==
  ASSUME IInv, UNCHANGED pipe,
         \A f \in Files : file'[f].pipe = file[f].pipe /\ file'[f].writable = file[f].writable,
         \A p \in Procs : /\ pc'[p] = "pipeclose" <=> pc[p] = "pipeclose"
                          /\ pc[p] = "pipeclose" => cur'[p] = cur[p] /\ writable'[p] = writable[p]
  PROVE  EndsRight'
  <1>1. \A g, w : IsOpen(g, w)' <=> IsOpen(g, w)
    BY DEF IsOpen
  <1>2. \A g, w : \A f \in Files : Stands(f, g, w)' <=> Stands(f, g, w)
    BY DEF Stands
  <1>3. \A g, w : \A p \in Procs : Shuts(p, g, w)' <=> Shuts(p, g, w)
    BY DEF Shuts
  <1> QED
    BY <1>1, <1>2, <1>3, EndsKeep

\* What an assignment to one descriptor, or to one list, does.
LEMMA FdSet ==
  ASSUME TypeOK, NEW p \in Procs, NEW d \in Fds, NEW v \in Files \cup {0},
         ofile' = [ofile EXCEPT ![p][d] = v]
  PROVE  /\ SetsFd(p, d, v) /\ ofile' \in [Procs -> [Fds -> Files \cup {0}]]
         /\ \A q \in Procs : q # p => ofile'[q] = ofile[q]
  BY DEF TypeOK, SetsFd

LEMMA ListSet ==
  ASSUME TypeOK, NEW p \in Procs, NEW s \in Seq(Files), todo' = [todo EXCEPT ![p] = s]
  PROVE  SetsList(p, s) /\ todo' \in [Procs -> Seq(Files)]
  BY DEF TypeOK, SetsList

FileType == [ref : Nat, pipe : Pages \cup {0}, writable : BOOLEAN]

\* What an assignment to the count of a file does.
LEMMA RefSet ==
  ASSUME TypeOK, NEW f \in Files, NEW k \in Nat, file' = [file EXCEPT ![f].ref = k]
  PROVE  /\ \A x \in Files : x # f => file'[x] = file[x]
         /\ \A x \in Files : file'[x].pipe = file[x].pipe /\ file'[x].writable = file[x].writable
         /\ file'[f].ref = k /\ file' \in [Files -> FileType]
  <1>1. file \in [Files -> FileType] /\ file[f] \in FileType
    BY DEF TypeOK, FileType
  <1>2. /\ file' = [x \in Files |-> IF x = f THEN [file[f] EXCEPT !.ref = k] ELSE file[x]]
    BY <1>1
  <1>3. PICK r \in FileType : r = [file[f] EXCEPT !.ref = k] /\ r.ref = k
                              /\ r.pipe = file[f].pipe /\ r.writable = file[f].writable
    BY <1>1 DEF FileType
  <1>4. file' = [x \in Files |-> IF x = f THEN r ELSE file[x]]
    BY <1>2, <1>3
  <1> QED
    BY <1>1, <1>3, <1>4

-----------------------------------------------------------------------------
(* The steps that leave files and pipes alone.                              *)

\* What the invariant says of one process.
LEMMA Here ==
  ASSUME IInv, NEW p \in Procs
  PROVE  /\ ListRight(p) /\ PlaceRight(p) /\ WaitRight(p)
         /\ pc[p] \in Places /\ cur[p] \in Pages \cup {0} /\ todo[p] \in Seq(Files)
         /\ n[p] \in 0 .. MaxN /\ writable[p] \in BOOLEAN /\ leaving[p] \in BOOLEAN
         /\ \A d \in Fds : ofile[p][d] \in Files \cup {0} /\ DescriptorRight(p, d)
  BY DEF IInv, ListsRight, PlacesRight, WaitsRight, DescriptorsRight, TypeOK

\* One process goes to another place; files, lists and pipes stay.
LEMMA OneMoves ==
  ASSUME IInv, NEW p \in Procs, UNCHANGED << ofile, file, todo >>,
         \A q \in Procs : q # p => /\ pc'[q] = pc[q] /\ cur'[q] = cur[q]
                                   /\ leaving'[q] = leaving[q],
         ListRight(p)', PlaceRight(p)'
  PROVE  ListsRight' /\ PlacesRight'
  <1>1. ASSUME NEW q \in Procs, q # p PROVE ListRight(q)' /\ PlaceRight(q)'
    <2>1. ListRight(q) /\ PlaceRight(q)
      BY Here
    <2>2. ListRight(q)'
      BY <1>1, <2>1 DEF ListRight, Fresh
    <2>3. HasOpen(q)' <=> HasOpen(q)
      BY <1>1 DEF HasOpen
    <2>4. SomeLeft(q)' <=> SomeLeft(q)
      BY <1>1 DEF SomeLeft, FreeFds
    <2>5. PlaceRight(q)'
      BY <1>1, <2>1, <2>3, <2>4 DEF PlaceRight
    <2> QED
      BY <2>2, <2>5
  <1> QED
    BY <1>1 DEF ListsRight, PlacesRight

\* sleep: the gap before it is closed; what was true in it stays true.
LEMMA sleepKeeps ==
  ASSUME IInv, NEW p \in Procs, sleep(p)
  PROVE  IInv'
  <1>u. UNCHANGED << ofile, file, pipe, free, cur, n, writable, todo, leaving, killed, eof,
                     unsaid >>
    BY DEF sleep, table, local
  <1>1. /\ pc[p] \in {"rgap", "wgap"}
        /\ \A q \in Procs : q # p => pc'[q] = pc[q]
        /\ pc'[p] = IF pc[p] = "rgap" THEN "rsleep" ELSE "wsleep"
        /\ pc' \in [Procs -> Places]
    BY DEF sleep, IInv, TypeOK, Places
  <1>2. TypeOK'
    BY <1>u, <1>1 DEF IInv, TypeOK
  <1>3. FilesRight' /\ DescriptorsRight'
    BY <1>u, TableSame
  <1>4. PagesRight' /\ RingsRight' /\ WaitsRight'
    BY <1>u, <1>1, QuietKeeps
  <1>5. EndsRight'
    BY <1>u, <1>1, EndsSame
  <1>6. ListRight(p) /\ PlaceRight(p)
    BY Here
  <1>7. ListRight(p)'
    BY <1>u, <1>1, <1>6 DEF ListRight, InPipe
  <1>8. HasOpen(p)' <=> HasOpen(p)
    BY <1>u, <1>1 DEF HasOpen, Writing
  <1>9. PlaceRight(p)'
    BY <1>u, <1>1, <1>6, <1>8 DEF PlaceRight, InPipe
  <1>10. ListsRight' /\ PlacesRight'
    BY <1>u, <1>1, <1>7, <1>9, OneMoves
  <1> QED
    BY <1>2, <1>3, <1>4, <1>5, <1>10 DEF IInv

\* kill: the victim goes on, or does so when it is woken.
LEMMA killKeeps ==
  ASSUME IInv, NEW p \in Procs, kill(p)
  PROVE  IInv'
  <1>u. UNCHANGED << ofile, file, pipe, free, cur, n, writable, todo, leaving, eof, unsaid >>
    BY DEF kill, table, local
  <1>1. /\ pc[p] \in InPipe
        /\ \A q \in Procs : q # p => pc'[q] = pc[q]
        /\ pc'[p] = IF pc[p] = "rsleep" THEN "read"
                    ELSE IF pc[p] = "wsleep" THEN "write" ELSE pc[p]
        /\ pc' \in [Procs -> Places]
    BY DEF kill, IInv, TypeOK, Places
  <1>2. TypeOK'
    <2>1. killed' \in [Procs -> BOOLEAN]
      BY DEF kill, IInv, TypeOK
    <2> QED
      BY <1>u, <1>1, <2>1 DEF IInv, TypeOK
  <1>3. FilesRight' /\ DescriptorsRight'
    BY <1>u, TableSame
  <1>4. PagesRight' /\ RingsRight' /\ WaitsRight'
    BY <1>u, <1>1, QuietKeeps
  <1>5. EndsRight'
    BY <1>u, <1>1, EndsSame DEF InPipe
  <1>6. ListRight(p) /\ PlaceRight(p)
    BY Here
  <1>7. ListRight(p)'
    BY <1>u, <1>1, <1>6 DEF ListRight, InPipe
  <1>8. HasOpen(p)' <=> HasOpen(p)
    BY <1>u, <1>1 DEF HasOpen, Writing
  <1>9. PlaceRight(p)'
    BY <1>u, <1>1, <1>6, <1>8 DEF PlaceRight, InPipe
  <1>10. ListsRight' /\ PlacesRight'
    BY <1>u, <1>1, <1>7, <1>9, OneMoves
  <1> QED
    BY <1>2, <1>3, <1>4, <1>5, <1>10 DEF IInv

\* read and write: the process has the file of its call open.
LEMMA enterKeeps ==
  ASSUME IInv, NEW p \in Procs, sys_read(p) \/ sys_write(p)
  PROVE  IInv'
  <1>0. MaxN \in Nat
    BY PipeAssumption
  <1>1. PICK w \in BOOLEAN, place \in {"read", "write"}, sizes \in SUBSET (0 .. MaxN) :
          /\ EnterPipe(p, w, place, sizes)
          /\ place = IF w THEN "write" ELSE "read"
    <2>1. CASE EnterPipe(p, FALSE, "read", {0})
      <3>1. {0} \in SUBSET (0 .. MaxN)
        BY <1>0
      <3> QED
        BY <2>1, <3>1, Zenon
    <2>2. CASE EnterPipe(p, TRUE, "write", 1 .. MaxN)
      <3>1. (1 .. MaxN) \in SUBSET (0 .. MaxN)
        BY <1>0
      <3> QED
        BY <2>2, <3>1, Zenon
    <2> QED
      BY <2>1, <2>2 DEF sys_read, sys_write
  <1>u. UNCHANGED << ofile, file, pipe, free, writable, todo, leaving, killed, eof, unsaid >>
    BY <1>1 DEF EnterPipe, table
  <1>2. PICK d \in Fds \ FreeFds(p) : /\ file[ofile[p][d]].writable = w
                                      /\ cur' = [cur EXCEPT ![p] = file[ofile[p][d]].pipe]
    BY <1>1 DEF EnterPipe
  <1>3. /\ pc[p] = "run" /\ pc'[p] = place /\ pc' \in [Procs -> Places]
        /\ \A q \in Procs : q # p => pc'[q] = pc[q]
    BY <1>1 DEF EnterPipe, Calls, IInv, TypeOK, Places
  <1>4. /\ ofile[p][d] \in Files /\ DescriptorRight(p, d) /\ ofile[p][d] # 0
        /\ file[ofile[p][d]].pipe \in Pages
    BY <1>2, Here, NoFileZero DEF FreeFds, DescriptorRight, IInv, TypeOK
  <1>5. /\ cur' \in [Procs -> Pages \cup {0}] /\ cur'[p] = file[ofile[p][d]].pipe
        /\ \A q \in Procs : q # p => cur'[q] = cur[q]
    BY <1>2, <1>4 DEF IInv, TypeOK
  <1>6. TypeOK'
    <2>1. n' \in [Procs -> 0 .. MaxN]
      BY <1>1 DEF EnterPipe, IInv, TypeOK
    <2> QED
      BY <1>u, <1>3, <1>5, <2>1 DEF IInv, TypeOK
  <1>7. FilesRight' /\ DescriptorsRight'
    BY <1>u, TableSame
  <1>8. PagesRight' /\ RingsRight' /\ WaitsRight'
    BY <1>u, <1>1, <1>3, <1>5, QuietKeeps
  <1>9. EndsRight'
    BY <1>u, <1>1, <1>3, <1>5, EndsSame
  <1>10. ListRight(p) /\ PlaceRight(p)
    BY Here
  <1>11. ListRight(p)'
    BY <1>u, <1>1, <1>3, <1>10 DEF ListRight, InPipe
  <1>12. HasOpen(p)'
    BY <1>u, <1>1, <1>2, <1>3, <1>4, <1>5 DEF HasOpen, Writing
  <1>13. cur'[p] # 0
    BY <1>4, <1>5, PipeAssumption
  <1>14. PlaceRight(p)'
    BY <1>u, <1>1, <1>3, <1>10, <1>12, <1>13 DEF PlaceRight, InPipe
  <1>15. ListsRight' /\ PlacesRight'
    BY <1>u, <1>3, <1>5, <1>11, <1>14, OneMoves
  <1> QED
    BY <1>6, <1>7, <1>8, <1>9, <1>15 DEF IInv

\* exit: the process closes what it has open, or is gone.
LEMMA exitKeeps ==
  ASSUME IInv, NEW p \in Procs, exit(p)
  PROVE  IInv'
  <1>u. UNCHANGED << ofile, file, pipe, free, cur, n, writable, todo, eof, unsaid >>
    BY DEF exit, table
  <1>1. /\ pc[p] = "run" /\ pc'[p] = (IF FreeFds(p) # Fds THEN "close" ELSE "unused")
        /\ leaving'[p] = (FreeFds(p) # Fds)
        /\ \A q \in Procs : q # p => pc'[q] = pc[q] /\ leaving'[q] = leaving[q]
        /\ pc' \in [Procs -> Places]
    BY DEF exit, Ending, IInv, TypeOK, Places
  <1>2. TypeOK'
    <2>1. killed' \in [Procs -> BOOLEAN] /\ leaving' \in [Procs -> BOOLEAN]
      BY DEF exit, Ending, IInv, TypeOK
    <2> QED
      BY <1>u, <1>1, <2>1 DEF IInv, TypeOK
  <1>3. FilesRight' /\ DescriptorsRight'
    BY <1>u, TableSame
  <1>4. PagesRight' /\ RingsRight' /\ WaitsRight'
    BY <1>u, <1>1, QuietKeeps
  <1>5. EndsRight'
    BY <1>u, <1>1, EndsSame
  <1>6. ListRight(p) /\ PlaceRight(p)
    BY Here
  <1>7. ListRight(p)'
    BY <1>u, <1>1, <1>6 DEF ListRight, InPipe
  <1>8. /\ FreeFds(p)' = FreeFds(p)
        /\ FreeFds(p) = Fds => \A d \in Fds : ofile'[p][d] = 0
    BY <1>u DEF FreeFds
  <1>9. PlaceRight(p)'
    <2>1. CASE FreeFds(p) = Fds
      <3>1. pc'[p] = "unused" /\ leaving'[p] = FALSE
        BY <1>1, <2>1
      <3> QED
        BY <1>u, <1>1, <1>6, <1>8, <2>1, <3>1 DEF PlaceRight, InPipe
    <2>2. CASE FreeFds(p) # Fds
      <3>1. pc'[p] = "close" /\ leaving'[p] = TRUE /\ SomeLeft(p)'
        BY <1>1, <1>8, <2>2 DEF SomeLeft
      <3> QED
        BY <1>u, <1>1, <1>6, <3>1 DEF PlaceRight, InPipe, ListRight
    <2> QED
      BY <2>1, <2>2
  <1>10. ListsRight' /\ PlacesRight'
    BY <1>u, <1>1, <1>7, <1>9, OneMoves
  <1> QED
    BY <1>2, <1>3, <1>4, <1>5, <1>10 DEF IInv

-----------------------------------------------------------------------------
(* The steps on descriptors and files.                                      *)

\* Nobody else refers to a file that has just been allocated.
LEMMA FreshAlone ==
  ASSUME IInv, NEW q \in Procs, pc[q] \in {"pipe1", "pipe2"}, NEW i \in 1 .. Len(todo[q])
  PROVE  /\ todo[q][i] \in Files /\ Fresh(todo[q][i])
         /\ Descriptors(todo[q][i]) = {} /\ Pending(todo[q][i]) = {q}
  <1> DEFINE f == todo[q][i]
  <1>1. f \in Files /\ Fresh(f) /\ q \in Pending(f)
    BY Here DEF ListRight, Pending
  <1>2. FilesRight
    BY DEF IInv
  <1>3. file[f].ref = 1
    BY <1>1 DEF Fresh
  <1>4. Descriptors(f) = {}
    BY <1>1, <1>2, <1>3, Counted
  <1>5. \A r \in Pending(f) : r = q
    BY <1>1, <1>2, <1>3, Counted
  <1>6. Pending(f) = {q}
    BY <1>1, <1>5
  <1> QED
    BY <1>1, <1>4, <1>6

\* p steps; what the other processes refer to stays what it was.
LEMMA OthersKeep ==
  ASSUME IInv, NEW p \in Procs,
         \A q \in Procs : q # p => /\ pc'[q] = pc[q] /\ cur'[q] = cur[q]
                                   /\ leaving'[q] = leaving[q] /\ todo'[q] = todo[q]
                                   /\ ofile'[q] = ofile[q],
         \A q \in Procs : q # p =>
           \A f \in Files : Fresh(f) /\ Descriptors(f) = {} /\ Pending(f) = {q} =>
             file'[f] = file[f],
         \A q \in Procs : q # p => \A d \in Fds : ofile[q][d] # 0 =>
           /\ file'[ofile[q][d]].pipe = file[ofile[q][d]].pipe
           /\ file'[ofile[q][d]].writable = file[ofile[q][d]].writable,
         ListRight(p)', PlaceRight(p)', \A d \in Fds : DescriptorRight(p, d)'
  PROVE  ListsRight' /\ PlacesRight' /\ DescriptorsRight'
  <1>1. ASSUME NEW q \in Procs, q # p
        PROVE  ListRight(q)' /\ PlaceRight(q)' /\ \A d \in Fds : DescriptorRight(q, d)'
    <2>1. ListRight(q) /\ PlaceRight(q)
      BY Here
    <2>2. pc[q] \in {"pipe1", "pipe2"} => \A i \in 1 .. Len(todo[q]) : Fresh(todo[q][i])'
      <3> SUFFICES ASSUME pc[q] \in {"pipe1", "pipe2"}, NEW i \in 1 .. Len(todo[q])
                   PROVE  Fresh(todo[q][i])'
        BY <1>1
      <3>1. file'[todo[q][i]] = file[todo[q][i]] /\ Fresh(todo[q][i])
        BY <1>1, FreshAlone
      <3>2. todo'[q][i] = todo[q][i]
        BY <1>1
      <3> QED
        BY <3>1, <3>2 DEF Fresh
    <2>3. ListRight(q)'
      <3>1. todo'[q] = todo[q] /\ pc'[q] = pc[q]
        BY <1>1
      <3>2. pc[q] \in {"pipe1", "pipe2"} => \A i \in 1 .. Len(todo'[q]) : Fresh(todo[q][i])'
        BY <2>2, <3>1
      <3> QED
        BY <2>1, <3>1, <3>2 DEF ListRight
    <2>4. HasOpen(q)' <=> HasOpen(q)
      BY <1>1 DEF HasOpen
    <2>5. SomeLeft(q)' <=> SomeLeft(q)
      BY <1>1 DEF SomeLeft, FreeFds
    <2>6. PlaceRight(q)'
      BY <1>1, <2>1, <2>4, <2>5 DEF PlaceRight
    <2>7. \A d \in Fds : DescriptorRight(q, d)'
      BY <1>1, Here DEF DescriptorRight
    <2> QED
      BY <2>3, <2>6, <2>7
  <1>2. \A q \in Procs : ListRight(q)' /\ PlaceRight(q)' /\ \A d \in Fds : DescriptorRight(q, d)'
    BY <1>1
  <1> QED
    BY <1>2 DEF ListsRight, PlacesRight, DescriptorsRight

\* close: a descriptor becomes an entry of the call's list.
LEMMA sys_closeKeeps ==
  ASSUME IInv, NEW p \in Procs, sys_close(p)
  PROVE  IInv'
  <1>u. UNCHANGED << file, pipe, free, cur, n, writable, eof, unsaid >>
    BY DEF sys_close
  <1>1. PICK d \in Fds : /\ ofile[p][d] # 0 /\ ofile' = [ofile EXCEPT ![p][d] = 0]
                         /\ Close(p, << ofile[p][d] >>)
    BY DEF sys_close, FreeFds
  <1>2. PICK f \in Files : f = ofile[p][d] /\ file[f].pipe # 0
    BY <1>1, Here DEF DescriptorRight
  <1>3. ListRight(p) /\ PlaceRight(p) /\ pc[p] = "run" /\ todo[p] = << >>
    BY Here DEF sys_close, Calls, ListRight
  <1>4. /\ << f >> \in Seq(Files) /\ << f >> # << >> /\ Len(<< f >>) = 1
        /\ todo' = [todo EXCEPT ![p] = << f >>]
        /\ pc' = [pc EXCEPT ![p] = "close"] /\ leaving' = [leaving EXCEPT ![p] = FALSE]
        /\ killed' = [killed EXCEPT ![p] = @ /\ TRUE]
    <2>1. << f >> \in Seq(Files) /\ << f >> # << >> /\ Len(<< f >>) = 1
      OBVIOUS
    <2> QED
      BY <1>1, <1>2, <2>1, Zenon DEF Close, Ending
  <1>e. /\ SetsFd(p, d, 0) /\ ofile' \in [Procs -> [Fds -> Files \cup {0}]]
        /\ \A q \in Procs : q # p => ofile'[q] = ofile[q]
        /\ SetsList(p, << f >>)
    BY <1>1, <1>4, FdSet, ListSet DEF IInv
  <1>5. TypeOK'
    <2>1. ofile' \in [Procs -> [Fds -> Files \cup {0}]]
      BY <1>e
    <2>2. /\ todo' \in [Procs -> Seq(Files)] /\ pc' \in [Procs -> Places]
          /\ leaving' \in [Procs -> BOOLEAN] /\ killed' \in [Procs -> BOOLEAN]
      BY <1>4 DEF IInv, TypeOK, Places
    <2> QED
      BY <1>u, <2>1, <2>2 DEF IInv, TypeOK
  <1>6. FilesRight'
    <2> SUFFICES ASSUME NEW x \in Files PROVE FileRight(x)'
      BY DEF FilesRight
    <2>1. x # 0 /\ TypeOK /\ FilesRight
      BY NoFileZero DEF IInv
    <2>2. Descriptors(x)' = Descriptors(x) \ {<< p, d >>}
      BY <1>e, <2>1, OneDescriptor
    <2>3. p \notin Pending(x)
      BY <1>3 DEF Pending
    <2>4. << p, d >> \in Descriptors(x) <=> x = f
      BY <1>2, Members
    <2>5. CASE x = f
      <3>0. OnList(<< f >>, x)
        BY <2>5, ListsAre
      <3>1. Pending(x)' = Pending(x) \cup {p}
        BY <1>e, <3>0, OneList
      <3>2. /\ Gains(Descriptors(x), Descriptors(x)', << p, d >>, -1)
            /\ Gains(Pending(x), Pending(x)', p, 1)
        BY <2>2, <2>3, <2>4, <2>5, <3>1 DEF Gains
      <3>3. /\ file'[x].ref = file[x].ref + (-1) + 1
            /\ file'[x].ref = 0 => file'[x] = NoFile
        BY <1>u, <2>1 DEF TypeOK, FilesRight, FileRight
      <3> QED
        BY <2>1, <3>2, <3>3, Recount
    <2>6. CASE x # f
      <3>0. ~ OnList(<< f >>, x)
        BY <2>6, ListsAre
      <3>1. Pending(x)' = Pending(x) \ {p}
        BY <1>e, <3>0, OneList
      <3> QED
        BY <1>u, <2>1, <2>2, <2>3, <2>4, <2>6, <3>1, SameCount
    <2> QED
      BY <2>5, <2>6
  <1>7. PagesRight' /\ RingsRight' /\ WaitsRight'
    BY <1>u, <1>4, QuietKeeps DEF IInv, TypeOK
  <1>8. EndsRight'
    BY <1>u, <1>3, <1>4, EndsSame DEF IInv, TypeOK
  <1>9. /\ pc'[p] = "close" /\ todo'[p] = << f >> /\ leaving'[p] = FALSE
        /\ \A e \in Fds : ofile'[p][e] = IF e = d THEN 0 ELSE ofile[p][e]
    BY <1>1, <1>4 DEF IInv, TypeOK
  <1>10. ListRight(p)'
    <2>1. Len(todo'[p]) = 1
      BY <1>4, <1>9
    <2> QED
      BY <2>1, <1>9 DEF ListRight, InPipe
  <1>11. PlaceRight(p)'
    BY <1>u, <1>3, <1>4, <1>9 DEF PlaceRight, InPipe, SomeLeft
  <1>12. \A e \in Fds : DescriptorRight(p, e)'
    BY <1>u, <1>9, Here DEF DescriptorRight
  <1>13. \A q \in Procs : q # p => /\ pc'[q] = pc[q] /\ cur'[q] = cur[q]
                                   /\ leaving'[q] = leaving[q] /\ todo'[q] = todo[q]
                                   /\ ofile'[q] = ofile[q]
    BY <1>u, <1>1, <1>4 DEF IInv, TypeOK
  <1>14. ListsRight' /\ PlacesRight' /\ DescriptorsRight'
    BY <1>u, <1>10, <1>11, <1>12, <1>13, OthersKeep
  <1> QED
    BY <1>5, <1>6, <1>7, <1>8, <1>14 DEF IInv

\* dup: one more descriptor, and the count says so.
LEMMA sys_dupKeeps ==
  ASSUME IInv, NEW p \in Procs, sys_dup(p)
  PROVE  IInv'
  <1>u. UNCHANGED << pipe, free, pc, cur, n, writable, todo, leaving, killed, eof, unsaid >>
    BY DEF sys_dup, local
  <1>0. TypeOK /\ FilesRight
    BY DEF IInv
  <1>1. PICK e \in Fds : e = Min(FreeFds(p)) /\ ofile[p][e] = 0
    BY <1>0, FreeOnes DEF sys_dup
  <1>2. PICK d \in Fds : /\ ofile[p][d] # 0 /\ ofile' = [ofile EXCEPT ![p][e] = ofile[p][d]]
                         /\ file' = [file EXCEPT ![ofile[p][d]].ref = @ + 1]
    BY <1>1 DEF sys_dup, FreeFds
  <1>3. PICK f \in Files : f = ofile[p][d] /\ file[f].pipe # 0
    BY <1>2, Here DEF DescriptorRight
  <1>4. /\ \A x \in Files : x # f => file'[x] = file[x]
        /\ \A x \in Files : file'[x].pipe = file[x].pipe /\ file'[x].writable = file[x].writable
        /\ file'[f].ref = file[f].ref + 1 /\ file' \in [Files -> FileType]
    <2>1. file' = [file EXCEPT ![f].ref = file[f].ref + 1]
      BY <1>2, <1>3
    <2>2. file[f].ref + 1 \in Nat
      BY <1>0 DEF TypeOK
    <2> QED
      BY <1>0, <2>1, <2>2, RefSet
  <1>e. /\ SetsFd(p, e, f) /\ ofile' \in [Procs -> [Fds -> Files \cup {0}]]
        /\ \A q \in Procs : q # p => ofile'[q] = ofile[q]
    BY <1>0, <1>2, <1>3, FdSet
  <1>5. TypeOK'
    <2>1. ofile' \in [Procs -> [Fds -> Files \cup {0}]]
      BY <1>e
    <2> QED
      BY <1>u, <1>0, <1>4, <2>1 DEF TypeOK, FileType
  <1>6. FilesRight'
    <2> SUFFICES ASSUME NEW x \in Files PROVE FileRight(x)'
      BY DEF FilesRight
    <2>1. x # 0 /\ file[x].ref \in Nat
      BY <1>0, NoFileZero DEF TypeOK
    <2>2. Pending(x)' = Pending(x) /\ << p, e >> \notin Descriptors(x)
      BY <1>u, <1>1, <2>1, Members DEF Pending
    <2>3. CASE x = f
      <3>1. Descriptors(x)' = Descriptors(x) \cup {<< p, e >>}
        BY <1>e, <2>3, OneDescriptor
      <3>2. /\ Gains(Descriptors(x), Descriptors(x)', << p, e >>, 1)
            /\ Gains(Pending(x), Pending(x)', p, 0)
        BY <2>2, <3>1 DEF Gains
      <3>3. file'[x].ref = file[x].ref + 1 + 0 /\ file'[x].ref # 0
        BY <1>4, <2>1, <2>3
      <3> QED
        BY <1>0, <3>2, <3>3, Recount
    <2>4. CASE x # f
      <3>1. Descriptors(x)' = Descriptors(x) \ {<< p, e >>}
        BY <1>e, <2>4, OneDescriptor
      <3> QED
        BY <1>0, <1>4, <2>2, <2>4, <3>1, SameCount
    <2> QED
      BY <2>3, <2>4
  <1>7. PagesRight' /\ RingsRight' /\ WaitsRight'
    BY <1>u, QuietKeeps
  <1>8. EndsRight'
    BY <1>u, <1>4, EndsSame
  <1>9. /\ ListRight(p) /\ PlaceRight(p) /\ pc[p] = "run" /\ todo[p] = << >>
        /\ cur[p] = 0 /\ leaving[p] = FALSE
    BY Here DEF sys_dup, Calls, ListRight, PlaceRight, InPipe
  <1>10. ListRight(p)'
    BY <1>u, <1>9 DEF ListRight
  <1>11. PlaceRight(p)'
    BY <1>u, <1>9 DEF PlaceRight, InPipe
  <1>12. \A c \in Fds : DescriptorRight(p, c)'
    <2>1. \A c \in Fds : ofile'[p][c] = IF c = e THEN f ELSE ofile[p][c]
      BY <1>0, <1>2, <1>3 DEF TypeOK
    <2>2. \A x \in Files : file'[x].pipe = file[x].pipe
      BY <1>4
    <2> QED
      BY <1>3, <2>1, <2>2, Here DEF DescriptorRight
  <1>13. \A q \in Procs : q # p => ofile'[q] = ofile[q]
    BY <1>0, <1>2 DEF TypeOK
  <1>14. \A x \in Files : Fresh(x) => file'[x] = file[x]
    BY <1>3, <1>4 DEF Fresh
  <1>15. \A q \in Procs, c \in Fds : ofile[q][c] # 0 =>
           /\ file'[ofile[q][c]].pipe = file[ofile[q][c]].pipe
           /\ file'[ofile[q][c]].writable = file[ofile[q][c]].writable
    BY <1>4, Here
  <1>16. ListsRight' /\ PlacesRight' /\ DescriptorsRight'
    BY <1>u, <1>10, <1>11, <1>12, <1>13, <1>14, <1>15, OthersKeep
  <1> QED
    BY <1>5, <1>6, <1>7, <1>8, <1>16 DEF IInv

\* filealloc() finds the file f, and p notes it on its list, which becomes s.
Allocates(p, f, s, place) ==
  /\ file[f].ref = 0 /\ file' = [file EXCEPT ![f].ref = 1]
  /\ todo' = [todo EXCEPT ![p] = s]
  /\ \A x \in Files : OnList(s, x) <=> OnList(todo[p], x) \/ x = f
  /\ pc[p] \in {"run", "pipe1"} /\ pc' = [pc EXCEPT ![p] = place]
  /\ Len(s) = (IF place = "pipe1" THEN 1 ELSE 2) /\ (Len(s) = 2 => s[1] # s[2])
  /\ \A i \in 1 .. Len(s) : s[i] # f => Fresh(s[i])
  /\ UNCHANGED << ofile, pipe, free, cur, n, writable, leaving, killed, eof, unsaid >>

\* A file from filealloc() is referred to by nobody else.
LEMMA allocKeeps ==
  ASSUME IInv, NEW p \in Procs, NEW f \in Files, NEW s \in Seq(Files),
         NEW place \in {"pipe1", "pipe2"}, Allocates(p, f, s, place)
  PROVE  IInv'
  <1> USE DEF Allocates
  <1>0. TypeOK /\ FilesRight /\ ListRight(p) /\ PlaceRight(p)
    BY Here DEF IInv
  <1>1. /\ \A x \in Files : x # f => file'[x] = file[x]
        /\ \A x \in Files : file'[x].pipe = file[x].pipe /\ file'[x].writable = file[x].writable
        /\ file'[f].ref = 1 /\ file' \in [Files -> FileType]
    BY <1>0, RefSet
  <1>2. SetsList(p, s) /\ todo' \in [Procs -> Seq(Files)]
    BY <1>0, ListSet
  <1>3. /\ pc' \in [Procs -> Places] /\ pc'[p] = place
        /\ \A q \in Procs : q # p => pc'[q] = pc[q]
    BY <1>0 DEF TypeOK, Places
  <1>4. TypeOK'
    BY <1>0, <1>1, <1>2, <1>3 DEF TypeOK, FileType
  <1>5. file[f] = NoFile /\ Fresh(f)'
    BY <1>0, <1>1 DEF FilesRight, FileRight, NoFile, Fresh
  <1>6. FilesRight'
    <2> SUFFICES ASSUME NEW x \in Files PROVE FileRight(x)'
      BY DEF FilesRight
    <2>1. Descriptors(x)' = Descriptors(x)
      BY DEF Descriptors
    <2>2. p \in Pending(x) <=> OnList(todo[p], x)
      BY DEF Pending, OnList
    <2>3. CASE x = f
      <3>1. p \notin Pending(x)
        BY <1>0, <2>3, Counted
      <3>2. OnList(s, x)
        BY <2>3
      <3>3. Pending(x)' = Pending(x) \cup {p}
        BY <1>2, <3>2, OneList
      <3>4. /\ Gains(Descriptors(x), Descriptors(x)', p, 0)
            /\ Gains(Pending(x), Pending(x)', p, 1)
        BY <2>1, <3>1, <3>3 DEF Gains
      <3>5. file'[x].ref = file[x].ref + 0 + 1 /\ file'[x].ref # 0
        BY <1>1, <2>3
      <3> QED
        BY <1>0, <3>4, <3>5, Recount
    <2>4. CASE x # f
      <3>1. OnList(s, x) <=> OnList(todo[p], x)
        BY <2>4
      <3>2. Pending(x)' = Pending(x)
        <4>1. OnList(s, x) => Pending(x)' = Pending(x) \cup {p}
          BY <1>2, OneList
        <4>2. ~ OnList(s, x) => Pending(x)' = Pending(x) \ {p}
          BY <1>2, OneList
        <4> QED
          BY <2>2, <3>1, <4>1, <4>2
      <3> QED
        BY <1>0, <1>1, <2>1, <2>4, <3>2, SameCount
    <2> QED
      BY <2>3, <2>4
  <1>7. PagesRight' /\ RingsRight' /\ WaitsRight'
    BY <1>3, QuietKeeps
  <1>8. EndsRight'
    BY <1>1, <1>3, EndsSame
  <1>9. todo'[p] = s
    BY <1>2 DEF SetsList
  <1>10. \A i \in 1 .. Len(s) : s[i] \in Files /\ Fresh(s[i])'
    BY <1>1, <1>5 DEF Fresh
  <1>11. ListRight(p)'
    <2>1. \A i \in 1 .. Len(todo'[p]) : Fresh(todo[p][i])'
      BY <1>9, <1>10 DEF Fresh
    <2> QED
      BY <1>3, <1>9, <2>1 DEF ListRight, InPipe
  <1>12. PlaceRight(p)'
    BY <1>0, <1>3, <1>9 DEF PlaceRight, InPipe
  <1>13. \A d \in Fds : DescriptorRight(p, d)'
    BY <1>1, Here DEF DescriptorRight
  <1>14. \A x \in Files : Fresh(x) => file'[x] = file[x]
    BY <1>1 DEF Fresh
  <1>15. \A q \in Procs, c \in Fds : ofile[q][c] # 0 =>
           /\ file'[ofile[q][c]].pipe = file[ofile[q][c]].pipe
           /\ file'[ofile[q][c]].writable = file[ofile[q][c]].writable
    BY <1>1, Here
  <1>16. \A q \in Procs : q # p => todo'[q] = todo[q]
    BY <1>2 DEF SetsList
  <1>17. ListsRight' /\ PlacesRight' /\ DescriptorsRight'
    BY <1>3, <1>11, <1>12, <1>13, <1>14, <1>15, <1>16, OthersKeep
  <1> QED
    BY <1>4, <1>6, <1>7, <1>8, <1>17 DEF IInv

\* pipe, its first filealloc().
LEMMA sys_pipeKeeps ==
  ASSUME IInv, NEW p \in Procs, sys_pipe(p)
  PROVE  IInv'
  <1>0. TypeOK /\ ListRight(p) /\ pc[p] = "run"
    BY Here DEF IInv, sys_pipe, Calls
  <1>1. PICK f \in Files : f = Min(FreeFiles) /\ file[f].ref = 0
    BY <1>0, FreeOnes DEF sys_pipe
  <1>2. /\ file' = [file EXCEPT ![f].ref = 1] /\ todo' = [todo EXCEPT ![p] = << f >>]
        /\ pc' = [pc EXCEPT ![p] = "pipe1"]
        /\ UNCHANGED << ofile, pipe, free, cur, n, writable, leaving, killed, eof, unsaid >>
    BY <1>1 DEF sys_pipe
  <1>3. PICK s \in Seq(Files) : s = << f >> /\ Len(s) = 1 /\ s[1] = f
    <2>1. << f >> \in Seq(Files) /\ Len(<< f >>) = 1 /\ << f >>[1] = f
      OBVIOUS
    <2> QED
      BY <2>1, Zenon
  <1>4. todo[p] = << >>
    BY <1>0 DEF ListRight
  <1>5. \A x \in Files : OnList(s, x) <=> OnList(todo[p], x) \/ x = f
    BY <1>3, <1>4 DEF OnList
  <1>6. \A i \in 1 .. Len(s) : s[i] = f
    BY <1>3
  <1>7. todo' = [todo EXCEPT ![p] = s]
    BY <1>2, <1>3
  <1>8. Allocates(p, f, s, "pipe1")
    BY <1>0, <1>1, <1>2, <1>3, <1>5, <1>6, <1>7 DEF Allocates
  <1> QED
    BY <1>8, allocKeeps

\* Only the place and the list of p are touched, and it gets on with closing.
LEMMA closeKeeps ==
  ASSUME IInv, NEW p \in Procs, pc[p] \in {"pipe1", "pipe2"}, Close(p, todo[p]),
         UNCHANGED << ofile, file, pipe, free, cur, n, writable, eof, unsaid >>
  PROVE  IInv'
  <1>0. TypeOK /\ ListRight(p) /\ PlaceRight(p) /\ todo[p] \in Seq(Files) /\ todo[p] # << >>
    BY Here DEF IInv, ListRight
  <1>1. /\ todo' = todo /\ pc' = [pc EXCEPT ![p] = "close"]
        /\ leaving' = [leaving EXCEPT ![p] = FALSE] /\ killed' = [killed EXCEPT ![p] = @ /\ TRUE]
    BY <1>0 DEF Close, Ending, TypeOK
  <1>2. /\ pc' \in [Procs -> Places] /\ leaving' \in [Procs -> BOOLEAN]
        /\ killed' \in [Procs -> BOOLEAN] /\ pc'[p] = "close" /\ leaving'[p] = FALSE
        /\ \A q \in Procs : q # p => pc'[q] = pc[q] /\ leaving'[q] = leaving[q]
    BY <1>0, <1>1 DEF TypeOK, Places
  <1>3. TypeOK'
    BY <1>0, <1>1, <1>2 DEF TypeOK
  <1>4. FilesRight' /\ DescriptorsRight'
    BY <1>1, TableSame
  <1>5. PagesRight' /\ RingsRight' /\ WaitsRight'
    BY <1>2, QuietKeeps
  <1>6. EndsRight'
    BY <1>2, EndsSame
  <1>7. ListRight(p)'
    BY <1>0, <1>1, <1>2 DEF ListRight, InPipe
  <1>8. PlaceRight(p)'
    BY <1>0, <1>1, <1>2 DEF PlaceRight, InPipe, SomeLeft
  <1>9. ListsRight' /\ PlacesRight'
    BY <1>1, <1>2, <1>7, <1>8, OneMoves
  <1> QED
    BY <1>3, <1>4, <1>5, <1>6, <1>9 DEF IInv

\* pipe, its second filealloc() or the way back.
LEMMA pipealloc1Keeps ==
  ASSUME IInv, NEW p \in Procs, pipealloc1(p)
  PROVE  IInv'
  <1>0. TypeOK /\ ListRight(p) /\ pc[p] = "pipe1" /\ todo[p] \in Seq(Files)
    BY Here DEF IInv, pipealloc1
  <1>1. CASE FreeFiles = {}
    BY <1>0, <1>1, closeKeeps DEF pipealloc1
  <1>2. CASE FreeFiles # {}
    <2>1. PICK f \in Files : f = Min(FreeFiles) /\ file[f].ref = 0
      BY <1>0, <1>2, FreeOnes
    <2>2. /\ file' = [file EXCEPT ![f].ref = 1] /\ todo' = [todo EXCEPT ![p] = Append(@, f)]
          /\ pc' = [pc EXCEPT ![p] = "pipe2"]
          /\ UNCHANGED << ofile, pipe, free, cur, n, writable, leaving, killed, eof, unsaid >>
      BY <1>2, <2>1 DEF pipealloc1
    <2>3. PICK s \in Seq(Files) : /\ s = Append(todo[p], f) /\ Len(s) = 2
                                  /\ s[1] = todo[p][1] /\ s[2] = f
      <3>1. Len(todo[p]) = 1
        BY <1>0 DEF ListRight
      <3>2. /\ Append(todo[p], f) \in Seq(Files) /\ Len(Append(todo[p], f)) = 2
            /\ Append(todo[p], f)[1] = todo[p][1] /\ Append(todo[p], f)[2] = f
        <4>1. PICK t \in Seq(Files) : t = todo[p]
          BY <1>0
        <4>2. Append(t, f) \in Seq(Files) /\ Len(Append(t, f)) = Len(t) + 1
              /\ (\A i \in 1 .. Len(t) : Append(t, f)[i] = t[i])
              /\ Append(t, f)[Len(t) + 1] = f
          BY AppendProperties
        <4> QED
          BY <3>1, <4>1, <4>2
      <3> QED
        BY <3>2, Zenon
    <2>4. Fresh(todo[p][1]) /\ Len(todo[p]) = 1
      BY <1>0 DEF ListRight
    <2>5. s[1] # f
      BY <2>1, <2>3, <2>4 DEF Fresh
    <2>6. \A x \in Files : OnList(s, x) <=> OnList(todo[p], x) \/ x = f
      BY <2>3, <2>4 DEF OnList
    <2>7. \A i \in 1 .. Len(s) : s[i] # f => Fresh(s[i])
      BY <2>3, <2>4
    <2>8. todo' = [todo EXCEPT ![p] = s]
      BY <2>2, <2>3
    <2>9. Allocates(p, f, s, "pipe2")
      BY <1>0, <2>1, <2>2, <2>3, <2>5, <2>6, <2>7, <2>8 DEF Allocates
    <2> QED
      BY <2>9, allocKeeps
  <1> QED
    BY <1>1, <1>2

\* The file a process closes next is one it refers to.
LEMMA ClosingIs ==
  ASSUME IInv, NEW p \in Procs, pc[p] = "close"
  PROVE  /\ Closing(p) \in Files /\ file[Closing(p)].ref >= 1 /\ todo[p] \in Seq(Files)
         /\ leaving[p] => /\ LowestFd(p) \in Fds /\ Closing(p) = ofile[p][LowestFd(p)]
                          /\ todo[p] = << >>
         /\ ~ leaving[p] => todo[p] # << >> /\ Closing(p) = todo[p][1] /\ Len(todo[p]) \in {1, 2}
  <1>1. TypeOK /\ FilesRight /\ PlaceRight(p) /\ ListRight(p) /\ todo[p] \in Seq(Files)
    BY Here DEF IInv
  <1>2. CASE leaving[p]
    <2>1. FreeFds(p) # Fds /\ todo[p] = << >>
      BY <1>1, <1>2 DEF PlaceRight, SomeLeft
    <2>2. PICK d \in Fds : d = LowestFd(p) /\ ofile[p][d] # 0 /\ ofile[p][d] \in Files
      BY <1>1, <2>1, FreeOnes, Here
    <2>3. PICK f \in Files : f = ofile[p][d] /\ f = Closing(p)
      BY <1>2, <2>2 DEF Closing
    <2>4. << p, d >> \in Descriptors(f)
      BY <2>3, Members
    <2>5. file[f].ref >= 1
      BY <1>1, <2>4, Counted
    <2> QED
      BY <1>1, <1>2, <2>1, <2>2, <2>3, <2>5
  <1>3. CASE ~ leaving[p]
    <2>1. todo[p] # << >>
      BY <1>1, <1>3 DEF PlaceRight, SomeLeft
    <2>2. Len(todo[p]) \in {1, 2}
      <3>1. PICK s \in Seq(Files) : s = todo[p]
        BY <1>1
      <3>2. Len(s) \in Nat /\ Len(s) # 0
        BY <2>1, <3>1, EmptySeq
      <3>3. Len(s) <= 2
        BY <1>1, <3>1 DEF ListRight
      <3>4. PICK k \in Nat : k = Len(s)
        BY <3>2
      <3>5. k = 1 \/ k = 2
        BY <3>2, <3>3, <3>4
      <3> QED
        BY <3>1, <3>4, <3>5
    <2>3. PICK f \in Files : f = todo[p][1] /\ f = Closing(p)
      BY <1>1, <1>3, <2>1 DEF Closing
    <2>4. p \in Pending(f)
      <3>1. 1 \in 1 .. Len(todo[p]) /\ todo[p][1] = f
        <4>1. CASE Len(todo[p]) = 1
          BY <2>3, <4>1
        <4>2. CASE Len(todo[p]) = 2
          BY <2>3, <4>2
        <4> QED
          BY <2>2, <4>1, <4>2
      <3> QED
        BY <3>1 DEF Pending
    <2>5. file[f].ref >= 1
      BY <1>1, <2>4, Counted
    <2> QED
      BY <1>1, <1>3, <2>1, <2>2, <2>3, <2>5
  <1> QED
    BY <1>2, <1>3

\* The file table after a reference has been dropped.
LEMMA DroppedIs ==
  ASSUME TypeOK, NEW f \in Files, file[f].ref >= 1, file' = [file EXCEPT ![f] = Dropped(f)]
  PROVE  /\ \A x \in Files : x # f => file'[x] = file[x]
         /\ file' \in [Files -> FileType] /\ file'[f].ref = file[f].ref - 1
         /\ file[f].ref > 1 => /\ file'[f].pipe = file[f].pipe
                               /\ file'[f].writable = file[f].writable
         /\ file[f].ref <= 1 => file'[f] = NoFile /\ file'[f].pipe = 0
         /\ file'[f].ref = Dropped(f).ref
  <1>1. file \in [Files -> FileType] /\ file[f] \in FileType
    BY DEF TypeOK, FileType
  <1>2. CASE file[f].ref > 1
    <2>1. PICK r \in FileType : r = [file[f] EXCEPT !.ref = file[f].ref - 1] /\ r = Dropped(f)
                                /\ r.ref = file[f].ref - 1 /\ r.pipe = file[f].pipe
                                /\ r.writable = file[f].writable
      BY <1>1, <1>2 DEF FileType, Dropped
    <2> QED
      BY <1>1, <1>2, <2>1 DEF FileType
  <1>3. CASE ~ (file[f].ref > 1)
    <2>1. PICK r \in FileType : r = NoFile /\ r = Dropped(f) /\ r.ref = 0 /\ r.pipe = 0
      <3>1. NoFile \in FileType /\ NoFile.ref = 0 /\ NoFile.pipe = 0
        BY DEF FileType, NoFile
      <3>2. NoFile = Dropped(f)
        BY <1>3 DEF Dropped
      <3> QED
        BY <3>1, <3>2, Zenon
    <2>2. file[f].ref = 1
      BY <1>1, <1>3 DEF FileType
    <2> QED
      BY <1>1, <1>3, <2>1, <2>2
  <1> QED
    BY <1>2, <1>3

\* What closing one does to lists and descriptors.
Unheld(p, f) ==
  /\ ofile' \in [Procs -> [Fds -> Files \cup {0}]] /\ todo' \in [Procs -> Seq(Files)]
  /\ \A q \in Procs : q # p => ofile'[q] = ofile[q] /\ todo'[q] = todo[q]
  /\ \A c \in Fds : ofile'[p][c] # 0 => ofile'[p][c] = ofile[p][c]
  /\ \A q \in Procs, c \in Fds : ofile'[q][c] = f => file[f].ref >= 2
  /\ \A q \in Procs : q # p /\ q \in Pending(f) => file[f].ref >= 2

\* The list without its first file.
LEMMA ListShrinks ==
  ASSUME NEW S, NEW s \in Seq(S), Len(s) \in {1, 2}, Len(s) = 2 => s[1] # s[2], NEW x \in S
  PROVE  /\ OnList(Tail(s), x) <=> OnList(s, x) /\ x # s[1]
         /\ OnList(s, s[1]) /\ Tail(s) \in Seq(S) /\ Len(Tail(s)) = Len(s) - 1
  <1>1. s # << >>
    OBVIOUS
  <1>2. /\ Tail(s) \in Seq(S) /\ Len(Tail(s)) = Len(s) - 1
        /\ \A i \in 1 .. Len(s) - 1 : Tail(s)[i] = s[i + 1]
    BY <1>1, HeadTailProperties
  <1>3. CASE Len(s) = 1
    BY <1>2, <1>3 DEF OnList
  <1>4. CASE Len(s) = 2
    <2>1. Len(Tail(s)) = 1 /\ Tail(s)[1] = s[2]
      BY <1>2, <1>4
    <2>2. OnList(Tail(s), x) <=> x = s[2]
      BY <2>1 DEF OnList
    <2>3. OnList(s, x) <=> x = s[1] \/ x = s[2]
      BY <1>4 DEF OnList
    <2>4. OnList(s, s[1])
      BY <1>4 DEF OnList
    <2> QED
      BY <1>2, <1>4, <2>2, <2>3, <2>4
  <1> QED
    BY <1>3, <1>4

\* fileclose: one reference less, and the count says so.
LEMMA CloseRefs ==
  ASSUME IInv, NEW p \in Procs, fileclose(p), NEW f \in Files, f = Closing(p)
  PROVE  Unheld(p, f) /\ FilesRight'
  <1>0. TypeOK /\ FilesRight /\ pc[p] = "close" /\ ListRight(p)
    BY Here DEF IInv, fileclose
  <1>1. file[f].ref >= 1 /\ file' = [file EXCEPT ![f] = Dropped(f)]
    BY <1>0, ClosingIs DEF fileclose
  <1>2. /\ \A x \in Files : x # f => file'[x] = file[x]
        /\ file'[f].ref = file[f].ref - 1 /\ (file[f].ref <= 1 => file'[f] = NoFile)
    BY <1>0, <1>1, DroppedIs
  <1>3. file[f].ref \in Nat
    BY <1>0 DEF TypeOK
  <1>4. CASE leaving[p]
    <2>1. PICK d \in Fds : d = LowestFd(p) /\ f = ofile[p][d]
      BY <1>0, <1>4, ClosingIs
    <2>2. ofile' = [ofile EXCEPT ![p][d] = 0] /\ UNCHANGED todo
      BY <1>4, <2>1 DEF fileclose
    <2>3. /\ SetsFd(p, d, 0) /\ ofile' \in [Procs -> [Fds -> Files \cup {0}]]
          /\ \A q \in Procs : q # p => ofile'[q] = ofile[q]
      BY <1>0, <2>2, FdSet
    <2>4. << p, d >> \in Descriptors(f)
      BY <2>1, Members
    <2>5. ASSUME NEW x \in Files PROVE FileRight(x)'
      <3>1. Descriptors(x)' = Descriptors(x) \ {<< p, d >>}
        BY <2>3, NoFileZero, OneDescriptor
      <3>2. Pending(x)' = Pending(x)
        BY <2>2 DEF Pending
      <3>3. CASE x = f
        <4>1. /\ Gains(Descriptors(x), Descriptors(x)', << p, d >>, -1)
              /\ Gains(Pending(x), Pending(x)', p, 0)
          BY <2>4, <3>1, <3>2, <3>3 DEF Gains
        <4>2. /\ file'[x].ref = file[x].ref + (-1) + 0
              /\ file'[x].ref = 0 => file'[x] = NoFile
          BY <1>1, <1>2, <1>3, <3>3
        <4> QED
          BY <1>0, <4>1, <4>2, Recount
      <3>4. CASE x # f
        <4>1. << p, d >> \notin Descriptors(x)
          BY <2>1, <3>4, Members
        <4> QED
          BY <1>0, <1>2, <3>1, <3>2, <3>4, <4>1, SameCount
      <3> QED
        BY <3>3, <3>4
    <2>6. ASSUME NEW q \in Procs, NEW c \in Fds, ofile'[q][c] = f PROVE file[f].ref >= 2
      <3>1. << q, c >> # << p, d >> /\ ofile[q][c] = f
        BY <2>3, <2>6, NoFileZero DEF SetsFd
      <3>2. << q, c >> \in Descriptors(f)
        BY <3>1, Members
      <3> QED
        BY <1>0, <2>4, <3>1, <3>2, Counted
    <2>7. ASSUME NEW q \in Procs, q \in Pending(f) PROVE file[f].ref >= 2
      BY <1>0, <2>4, <2>7, Counted
    <2>8. todo' \in [Procs -> Seq(Files)] /\ \A q \in Procs : todo'[q] = todo[q]
      BY <1>0, <2>2 DEF TypeOK
    <2>9. \A c \in Fds : ofile'[p][c] # 0 => ofile'[p][c] = ofile[p][c]
      BY <2>3 DEF SetsFd
    <2>10. Unheld(p, f)
      BY <2>3, <2>6, <2>7, <2>8, <2>9 DEF Unheld
    <2> QED
      BY <2>5, <2>10 DEF FilesRight
  <1>5. CASE ~ leaving[p]
    <2>1. /\ todo[p] # << >> /\ f = todo[p][1] /\ Len(todo[p]) \in {1, 2}
          /\ todo[p] \in Seq(Files) /\ (Len(todo[p]) = 2 => todo[p][1] # todo[p][2])
      BY <1>0, <1>5, ClosingIs DEF ListRight
    <2>2. todo' = [todo EXCEPT ![p] = Tail(todo[p])] /\ UNCHANGED ofile
      BY <1>5 DEF fileclose
    <2>3. PICK s \in Seq(Files) : s = todo[p]
      BY <2>1
    <2>4. /\ \A x \in Files : OnList(Tail(s), x) <=> OnList(s, x) /\ x # f
          /\ OnList(s, f) /\ Tail(s) \in Seq(Files)
      BY <2>1, <2>3, ListShrinks
    <2>5. SetsList(p, Tail(s)) /\ todo' \in [Procs -> Seq(Files)]
      BY <1>0, <2>2, <2>3, <2>4, ListSet
    <2>6. \A x : p \in Pending(x) <=> OnList(s, x)
      BY <2>3 DEF Pending, OnList
    <2>7. ASSUME NEW x \in Files PROVE FileRight(x)'
      <3>1. Descriptors(x)' = Descriptors(x)
        BY <2>2 DEF Descriptors
      <3>2. OnList(Tail(s), x) => Pending(x)' = Pending(x) \cup {p}
        BY <2>5, OneList
      <3>3. ~ OnList(Tail(s), x) => Pending(x)' = Pending(x) \ {p}
        BY <2>5, OneList
      <3>4. CASE x = f
        <4>1. Pending(x)' = Pending(x) \ {p} /\ p \in Pending(x)
          BY <2>4, <2>6, <3>3, <3>4
        <4>2. /\ Gains(Descriptors(x), Descriptors(x)', p, 0)
              /\ Gains(Pending(x), Pending(x)', p, -1)
          BY <3>1, <4>1 DEF Gains
        <4>3. /\ file'[x].ref = file[x].ref + 0 + (-1)
              /\ file'[x].ref = 0 => file'[x] = NoFile
          BY <1>1, <1>2, <1>3, <3>4
        <4> QED
          BY <1>0, <4>2, <4>3, Recount
      <3>5. CASE x # f
        <4>1. Pending(x)' = Pending(x)
          BY <2>4, <2>6, <3>2, <3>3, <3>5
        <4> QED
          BY <1>0, <1>2, <3>1, <3>5, <4>1, SameCount
      <3> QED
        BY <3>4, <3>5
    <2>8. p \in Pending(f)
      BY <2>4, <2>6
    <2>9. ASSUME NEW q \in Procs, NEW c \in Fds, ofile'[q][c] = f PROVE file[f].ref >= 2
      <3>1. << q, c >> \in Descriptors(f)
        BY <2>2, <2>9, Members
      <3> QED
        BY <1>0, <2>8, <3>1, Counted
    <2>10. ASSUME NEW q \in Procs, q # p, q \in Pending(f) PROVE file[f].ref >= 2
      BY <1>0, <2>8, <2>10, Counted
    <2>11. \A q \in Procs : q # p => todo'[q] = todo[q]
      BY <2>5 DEF SetsList
    <2>12. ofile' \in [Procs -> [Fds -> Files \cup {0}]]
      BY <1>0, <2>2 DEF TypeOK
    <2>13. Unheld(p, f)
      BY <2>2, <2>5, <2>9, <2>10, <2>11, <2>12 DEF Unheld
    <2> QED
      BY <2>7, <2>13 DEF FilesRight
  <1> QED
    BY <1>4, <1>5

\* The last file for an end of a pipe is gone, and p is going to close the end.
LEMMA EndPasses ==
  ASSUME IInv, NEW p \in Procs, NEW f \in Files, NEW g \in Pages, NEW w \in BOOLEAN,
         UNCHANGED pipe, pc[p] # "pipeclose", pc'[p] = "pipeclose",
         file[f].pipe = g, file[f].writable = w, file'[f].pipe = 0,
         cur'[p] = g, writable'[p] = w,
         \A x \in Files : x # f => file'[x] = file[x],
         \A q \in Procs : q # p => /\ pc'[q] = pc[q] /\ cur'[q] = cur[q]
                                   /\ writable'[q] = writable[q]
  PROVE  EndsRight'
  <1> SUFFICES ASSUME NEW a \in Pages, NEW v \in BOOLEAN PROVE EndRight(a, v)'
    BY DEF EndsRight
  <1>1. EndRight(a, v)
    BY DEF IInv, EndsRight
  <1>2. IsOpen(a, v)' <=> IsOpen(a, v)
    BY DEF IsOpen
  <1>3. /\ \A x \in Files : x # f => (Stands(x, a, v)' <=> Stands(x, a, v))
        /\ Stands(f, a, v) <=> a = g /\ v = w
        /\ ~ Stands(f, a, v)'
    BY PipeAssumption DEF Stands
  <1>4. /\ \A q \in Procs : q # p => (Shuts(q, a, v)' <=> Shuts(q, a, v))
        /\ Shuts(p, a, v)' <=> a = g /\ v = w
        /\ ~ Shuts(p, a, v)
    BY DEF Shuts
  <1> QED
    BY <1>1, <1>2, <1>3, <1>4 DEF EndRight

\* fileclose: if the count was 1, the process now answers for the end.
LEMMA filecloseKeeps ==
  ASSUME IInv, NEW p \in Procs, fileclose(p)
  PROVE  IInv'
  <1>0. TypeOK /\ FilesRight /\ pc[p] = "close" /\ ListRight(p) /\ PlaceRight(p)
    BY Here DEF IInv, fileclose
  <1>u. UNCHANGED << pipe, free, n, eof, unsaid >>
    BY DEF fileclose
  <1>1. PICK f \in Files : f = Closing(p) /\ file[f].ref >= 1
    BY <1>0, ClosingIs
  <1>2. Unheld(p, f) /\ FilesRight'
    BY <1>1, CloseRefs
  <1>3. file' = [file EXCEPT ![f] = Dropped(f)]
    BY <1>1 DEF fileclose
  <1>4. /\ \A x \in Files : x # f => file'[x] = file[x]
        /\ file' \in [Files -> FileType] /\ file'[f].ref = file[f].ref - 1
        /\ file[f].ref > 1 => /\ file'[f].pipe = file[f].pipe
                              /\ file'[f].writable = file[f].writable
        /\ file[f].ref <= 1 => file'[f] = NoFile /\ file'[f].pipe = 0
        /\ file'[f].ref = Dropped(f).ref
    BY <1>0, <1>1, <1>3, DroppedIs
  <1>5. /\ file[f].ref \in Nat /\ file[f].pipe \in Pages \cup {0} /\ file[f].writable \in BOOLEAN
    BY <1>0 DEF TypeOK
  <1> DEFINE last == Dropped(f).ref = 0 /\ file[f].pipe # 0
  <1>6. last <=> file[f].ref = 1 /\ file[f].pipe \in Pages
    BY <1>1, <1>4, <1>5, PipeAssumption
  <1>7. last => /\ cur' = [cur EXCEPT ![p] = file[f].pipe]
                /\ writable' = [writable EXCEPT ![p] = file[f].writable]
                /\ pc' = [pc EXCEPT ![p] = "pipeclose"]
                /\ UNCHANGED << leaving, killed >>
    BY <1>1 DEF fileclose
  <1>8. ~ last => UNCHANGED << cur, writable >> /\ Ending(p, OthersLeft(p), leaving[p], pc)
    BY <1>1 DEF fileclose
  <1> HIDE DEF last
  <1>9. /\ pc' \in [Procs -> Places] /\ cur' \in [Procs -> Pages \cup {0}]
        /\ writable' \in [Procs -> BOOLEAN] /\ leaving' \in [Procs -> BOOLEAN]
        /\ killed' \in [Procs -> BOOLEAN]
        /\ \A q \in Procs : q # p => /\ pc'[q] = pc[q] /\ cur'[q] = cur[q]
                                     /\ writable'[q] = writable[q] /\ leaving'[q] = leaving[q]
    <2>1. CASE last
      BY <1>0, <1>5, <1>7, <2>1 DEF TypeOK, Places
    <2>2. CASE ~ last
      BY <1>0, <1>8, <2>2 DEF TypeOK, Places, Ending
    <2> QED
      BY <2>1, <2>2
  <1>10. TypeOK'
    BY <1>u, <1>0, <1>2, <1>4, <1>9 DEF TypeOK, Unheld, FileType
  <1>11. pc'[p] \in {"pipeclose", "close", "unused", "run"}
    BY <1>0, <1>7, <1>8 DEF TypeOK, Ending
  <1>12. PagesRight' /\ RingsRight' /\ WaitsRight'
    BY <1>u, <1>9, <1>11, QuietKeeps
  <1>13. EndsRight'
    <2>1. CASE last
      <3>1. /\ pc'[p] = "pipeclose" /\ cur'[p] = file[f].pipe /\ writable'[p] = file[f].writable
            /\ file'[f].pipe = 0 /\ file[f].pipe \in Pages
        BY <1>0, <1>4, <1>6, <1>7, <2>1 DEF TypeOK
      <3>2. PICK g \in Pages, w \in BOOLEAN : g = file[f].pipe /\ w = file[f].writable
        BY <1>5, <3>1
      <3> QED
        BY <1>u, <1>0, <1>4, <1>9, <3>1, <3>2, EndPasses
    <2>2. CASE ~ last
      <3>1. \A g \in Pages, w \in BOOLEAN : Stands(f, g, w)' <=> Stands(f, g, w)
        <4>1. CASE file[f].ref > 1
          BY <1>4, <4>1 DEF Stands
        <4>2. CASE ~ (file[f].ref > 1)
          <5>1. file[f].pipe = 0 /\ file'[f].pipe = 0
            BY <1>1, <1>4, <1>5, <1>6, <2>2, <4>2
          <5> QED
            BY <5>1, PipeAssumption DEF Stands
        <4> QED
          BY <4>1, <4>2
      <3>2. \A x \in Files : x # f => \A g, w : Stands(x, g, w)' <=> Stands(x, g, w)
        BY <1>4 DEF Stands
      <3>3. \A q \in Procs : \A g, w : Shuts(q, g, w)' <=> Shuts(q, g, w)
        <4>1. pc'[p] # "pipeclose"
          BY <1>0, <1>8, <2>2 DEF TypeOK, Ending
        <4> QED
          BY <1>0, <1>9, <4>1 DEF Shuts
      <3>4. \A g, w : IsOpen(g, w)' <=> IsOpen(g, w)
        BY <1>u DEF IsOpen
      <3> QED
        BY <3>1, <3>2, <3>3, <3>4, EndsKeep
    <2> QED
      BY <2>1, <2>2
  <1>14. ListRight(p)' /\ PlaceRight(p)'
    <2>1. CASE leaving[p]
      <3>1. PICK d \in Fds : d = LowestFd(p) /\ todo[p] = << >>
        BY <1>0, <2>1, ClosingIs
      <3>2. ofile' = [ofile EXCEPT ![p][d] = 0] /\ UNCHANGED todo
        BY <2>1, <3>1 DEF fileclose
      <3>3. SetsFd(p, d, 0)
        BY <1>0, <3>2, FdSet
      <3>4. FreeFds(p)' = FreeFds(p) \cup {d}
        BY <3>3 DEF SetsFd, FreeFds
      <3>5. todo'[p] = << >> /\ Len(todo'[p]) = 0
        BY <3>1, <3>2
      <3>6. ListRight(p)'
        BY <1>11, <3>5 DEF ListRight, InPipe
      <3>7. CASE last
        <4>1. pc'[p] = "pipeclose" /\ cur'[p] # 0
          BY <1>0, <1>6, <1>7, <3>7, PipeAssumption DEF TypeOK
        <4> QED
          BY <3>5, <3>6, <4>1 DEF PlaceRight, InPipe
      <3>8. CASE ~ last
        <4>1. cur'[p] = 0
          BY <1>0, <1>8, <3>8 DEF PlaceRight, InPipe
        <4>2. CASE FreeFds(p) \cup {d} # Fds
          <5>1. OthersLeft(p)
            BY <2>1, <3>1, <4>2 DEF OthersLeft
          <5>2. pc'[p] = "close" /\ leaving'[p] = TRUE
            BY <1>0, <1>8, <2>1, <3>8, <5>1 DEF Ending, TypeOK
          <5>3. SomeLeft(p)'
            BY <3>4, <4>2, <5>2 DEF SomeLeft
          <5> QED
            BY <3>5, <3>6, <4>1, <5>2, <5>3 DEF PlaceRight, InPipe
        <4>3. CASE FreeFds(p) \cup {d} = Fds
          <5>1. ~ OthersLeft(p)
            BY <2>1, <3>1, <4>3 DEF OthersLeft
          <5>2. pc'[p] = "unused" /\ leaving'[p] = FALSE
            BY <1>0, <1>8, <2>1, <3>8, <5>1 DEF Ending, TypeOK
          <5>3. \A e \in Fds : ofile'[p][e] = 0
            BY <3>4, <4>3 DEF FreeFds
          <5> QED
            BY <3>5, <3>6, <4>1, <5>2, <5>3 DEF PlaceRight, InPipe
        <4> QED
          BY <4>2, <4>3
      <3> QED
        BY <3>7, <3>8
    <2>2. CASE ~ leaving[p]
      <3>1. /\ todo[p] # << >> /\ Len(todo[p]) \in {1, 2} /\ todo[p] \in Seq(Files)
            /\ (Len(todo[p]) = 2 => todo[p][1] # todo[p][2])
        BY <1>0, <2>2, ClosingIs DEF ListRight
      <3>2. todo' = [todo EXCEPT ![p] = Tail(todo[p])]
        BY <2>2 DEF fileclose
      <3>3. PICK s \in Seq(Files) : s = todo[p]
        BY <3>1
      <3>4. PICK t \in Seq(Files) : t = Tail(s) /\ (Len(t) = 0 \/ Len(t) = 1)
        <4>1. PICK x \in Files : TRUE
          OBVIOUS
        <4>2. Tail(s) \in Seq(Files) /\ Len(Tail(s)) = Len(s) - 1
          BY <3>1, <3>3, <4>1, ListShrinks
        <4>3. Len(Tail(s)) = 0 \/ Len(Tail(s)) = 1
          BY <3>1, <3>3, <4>2
        <4> QED
          BY <4>2, <4>3, Zenon
      <3>5. todo'[p] = t /\ (t = << >> <=> Len(t) = 0) /\ Len(t) <= 2 /\ Len(t) # 2
        <4>1. todo'[p] = t
          BY <1>0, <3>2, <3>3, <3>4 DEF TypeOK
        <4>2. t = << >> <=> Len(t) = 0
          BY <3>4, EmptySeq
        <4>3. \A k : k = 0 \/ k = 1 => k <= 2 /\ k # 2
          OBVIOUS
        <4>4. Len(t) <= 2 /\ Len(t) # 2
          BY <3>4, <4>3
        <4> QED
          BY <4>1, <4>2, <4>4
      <3>6. CASE last
        <4>1. pc'[p] = "pipeclose" /\ cur'[p] # 0 /\ leaving'[p] = leaving[p]
          BY <1>0, <1>6, <1>7, <3>6, PipeAssumption DEF TypeOK
        <4> QED
          BY <2>2, <3>5, <4>1 DEF PlaceRight, ListRight, InPipe
      <3>7. CASE ~ last
        <4>1. cur'[p] = 0
          BY <1>0, <1>8, <3>7 DEF PlaceRight, InPipe
        <4>2. OthersLeft(p) <=> t # << >>
          BY <2>2, <3>3, <3>4 DEF OthersLeft
        <4>3. CASE t # << >>
          <5>1. pc'[p] = "close" /\ leaving'[p] = FALSE
            BY <1>0, <1>8, <2>2, <3>7, <4>2, <4>3 DEF Ending, TypeOK
          <5>2. SomeLeft(p)'
            BY <3>5, <4>3, <5>1 DEF SomeLeft
          <5> QED
            BY <3>5, <4>1, <5>1, <5>2 DEF PlaceRight, ListRight, InPipe
        <4>4. CASE t = << >>
          <5>1. pc'[p] = "run" /\ leaving'[p] = FALSE
            BY <1>0, <1>8, <2>2, <3>7, <4>2, <4>4 DEF Ending, TypeOK
          <5> QED
            BY <3>5, <4>1, <4>4, <5>1 DEF PlaceRight, ListRight, InPipe
        <4> QED
          BY <4>3, <4>4
      <3> QED
        BY <3>6, <3>7
    <2> QED
      BY <2>1, <2>2
  <1>15. \A q \in Procs, c \in Fds : ofile'[q][c] # 0 =>
           /\ file'[ofile'[q][c]].pipe = file[ofile'[q][c]].pipe
           /\ file'[ofile'[q][c]].writable = file[ofile'[q][c]].writable
    <2> SUFFICES ASSUME NEW q \in Procs, NEW c \in Fds, ofile'[q][c] # 0
                 PROVE  /\ file'[ofile'[q][c]].pipe = file[ofile'[q][c]].pipe
                        /\ file'[ofile'[q][c]].writable = file[ofile'[q][c]].writable
      OBVIOUS
    <2>1. PICK x \in Files : x = ofile'[q][c]
      BY <1>2 DEF Unheld
    <2>2. CASE x = f
      <3>1. file[f].ref >= 2
        BY <1>2, <2>1, <2>2 DEF Unheld
      <3>2. file[f].ref > 1
        BY <1>5, <3>1
      <3> QED
        BY <1>4, <2>1, <2>2, <3>2
    <2>3. CASE x # f
      BY <1>4, <2>1, <2>3
    <2> QED
      BY <2>2, <2>3
  <1>16. \A c \in Fds : DescriptorRight(p, c)'
    <2> SUFFICES ASSUME NEW c \in Fds, ofile'[p][c] # 0
                 PROVE  file'[ofile'[p][c]].pipe # 0
      BY DEF DescriptorRight
    <2>1. ofile'[p][c] = ofile[p][c] /\ DescriptorRight(p, c)
      BY <1>2, Here DEF Unheld
    <2> QED
      BY <1>15, <2>1 DEF DescriptorRight
  <1>17. \A q \in Procs : q # p => ofile'[q] = ofile[q] /\ todo'[q] = todo[q]
    BY <1>2 DEF Unheld
  <1>18. \A q \in Procs : q # p => \A x \in Files : Fresh(x) /\ Pending(x) = {q} => x # f
    BY <1>2 DEF Unheld, Fresh
  <1>19. \A q \in Procs : q # p =>
           \A x \in Files : Fresh(x) /\ Descriptors(x) = {} /\ Pending(x) = {q} =>
             file'[x] = file[x]
    BY <1>4, <1>18
  <1>20. \A q \in Procs : q # p => \A d \in Fds : ofile[q][d] # 0 =>
           /\ file'[ofile[q][d]].pipe = file[ofile[q][d]].pipe
           /\ file'[ofile[q][d]].writable = file[ofile[q][d]].writable
    BY <1>15, <1>17
  <1>21. ListsRight' /\ PlacesRight' /\ DescriptorsRight'
    BY <1>9, <1>14, <1>16, <1>17, <1>19, <1>20, OthersKeep
  <1> QED
    BY <1>2, <1>10, <1>12, <1>13, <1>21 DEF IInv

\* fork: every descriptor of the parent counts once more.
LEMMA forkKeeps ==
  ASSUME IInv, NEW p \in Procs, NEW q \in Procs, fork(p, q)
  PROVE  IInv'
  <1>0. TypeOK /\ FilesRight /\ pc[p] = "run" /\ pc[q] = "unused" /\ p # q
    BY DEF IInv, fork, Calls
  <1>u. UNCHANGED << pipe, free, cur, n, writable, todo, leaving, killed, eof, unsaid >>
    BY DEF fork, local
  <1>1. /\ ListRight(q) /\ PlaceRight(q) /\ todo[q] = << >> /\ leaving[q] = FALSE
        /\ cur[q] = 0 /\ \A d \in Fds : ofile[q][d] = 0
    BY <1>0, Here DEF ListRight, PlaceRight, InPipe
  <1>2. /\ ofile' = [ofile EXCEPT ![q] = ofile[p]] /\ file' = Shared(p)
        /\ pc' = [pc EXCEPT ![q] = "run"]
    BY DEF fork
  <1>3. /\ ofile' \in [Procs -> [Fds -> Files \cup {0}]] /\ ofile'[q] = ofile[p]
        /\ \A r \in Procs : r # q => ofile'[r] = ofile[r]
    BY <1>0, <1>2 DEF TypeOK
  <1>4. /\ pc' \in [Procs -> Places] /\ pc'[q] = "run"
        /\ \A r \in Procs : r # q => pc'[r] = pc[r]
    BY <1>0, <1>2 DEF TypeOK, Places
  <1> DEFINE E(x) == {d \in Fds : ofile[p][d] = x}
  <1>5. \A x : IsFiniteSet(E(x)) /\ Cardinality(E(x)) \in Nat
    <2>1. IsFiniteSet(Fds)
      BY PipeAssumption, FS_Interval DEF Fds
    <2> QED
      BY <2>1, FS_Subset, FS_CardinalityType
  <1>6. ASSUME NEW x \in Files
        PROVE  /\ file'[x] \in FileType
               /\ file'[x].ref = file[x].ref + Cardinality(E(x)) /\ file[x].ref \in Nat
               /\ file'[x].pipe = file[x].pipe /\ file'[x].writable = file[x].writable
               /\ Cardinality(E(x)) = 0 => file'[x] = file[x]
    <2>1. PICK k \in Nat : k = Cardinality(E(x))
      BY <1>5
    <2>2. PICK r \in FileType : r = file[x]
      BY <1>0 DEF TypeOK, FileType
    <2>3. file'[x] = [r EXCEPT !.ref = r.ref + k]
      BY <1>2, <2>1, <2>2 DEF Shared
    <2> HIDE DEF E
    <2> QED
      BY <2>1, <2>2, <2>3 DEF FileType
  <1>7. file' \in [Files -> FileType]
    <2>1. \A x \in Files : file'[x] \in FileType
      BY <1>6
    <2>2. file' = [x \in Files |-> file'[x]]
      BY <1>2 DEF Shared
    <2> QED
      BY <2>1, <2>2
  <1>8. TypeOK'
    BY <1>u, <1>0, <1>3, <1>4, <1>7 DEF TypeOK, FileType
  <1>9. ASSUME NEW x \in Files PROVE FileRight(x)'
    <2>1. Pending(x)' = Pending(x)
      BY <1>u DEF Pending
    <2>2. Descriptors(x)' = Descriptors(x) \cup ({q} \X E(x))
      <3>1. \A r \in Procs, d \in Fds :
              << r, d >> \in Descriptors(x)' <=> << r, d >> \in Descriptors(x) \cup ({q} \X E(x))
        <4> SUFFICES ASSUME NEW r \in Procs, NEW d \in Fds
                     PROVE  << r, d >> \in Descriptors(x)' <=>
                              << r, d >> \in Descriptors(x) \cup ({q} \X E(x))
          OBVIOUS
        <4>1. << r, d >> \in Descriptors(x)' <=> ofile'[r][d] = x
          BY DEF Descriptors
        <4>2. << r, d >> \in Descriptors(x) <=> ofile[r][d] = x
          BY DEF Descriptors
        <4>3. << r, d >> \in {q} \X E(x) <=> r = q /\ ofile[p][d] = x
          OBVIOUS
        <4> QED
          BY <1>1, <1>3, <4>1, <4>2, <4>3, NoFileZero
      <3>2. /\ Descriptors(x)' \subseteq Procs \X Fds /\ Descriptors(x) \subseteq Procs \X Fds
            /\ {q} \X E(x) \subseteq Procs \X Fds
        BY DEF Descriptors
      <3> QED
        BY <3>1, <3>2
    <2>3. Descriptors(x) \cap ({q} \X E(x)) = {}
      BY <1>1, NoFileZero DEF Descriptors
    <2>4. IsFiniteSet({q}) /\ Cardinality({q}) = 1
      BY FS_Singleton
    <2>5. PICK k \in Nat : k = Cardinality(E(x)) /\ IsFiniteSet(E(x))
      BY <1>5
    <2>6. IsFiniteSet({q} \X E(x)) /\ Cardinality({q} \X E(x)) = k
      <3>1. IsFiniteSet({q} \X E(x)) /\ Cardinality({q} \X E(x)) = Cardinality({q}) * Cardinality(E(x))
        BY <2>4, <2>5, FS_Product
      <3> QED
        BY <2>4, <2>5, <3>1
    <2>7. IsFiniteSet(Descriptors(x)) /\ Cardinality(Descriptors(x)) \in Nat
          /\ Cardinality(Pending(x)) \in Nat
      BY Counts
    <2>8. Cardinality(Descriptors(x)') = Cardinality(Descriptors(x)) + k
      <3> DEFINE S == Descriptors(x)  T == {q} \X E(x)
      <3>1. Cardinality(S \cup T) = Cardinality(S) + Cardinality(T) - Cardinality(S \cap T)
        BY <2>6, <2>7, FS_Union
      <3>2. Cardinality(S \cap T) = 0
        BY <2>3, FS_EmptySet
      <3> QED
        BY <2>2, <2>6, <2>7, <3>1, <3>2
    <2>9. file[x].ref = Cardinality(Descriptors(x)) + Cardinality(Pending(x))
      BY <1>0 DEF FilesRight, FileRight
    <2>10. file'[x].ref = Cardinality(Descriptors(x)') + Cardinality(Pending(x)')
      BY <1>6, <2>1, <2>5, <2>7, <2>8, <2>9
    <2>11. file'[x].ref = 0 => file'[x] = NoFile
      <3>1. file'[x].ref = 0 => file[x].ref = 0 /\ k = 0
        BY <1>6, <2>5
      <3> QED
        BY <1>0, <1>6, <2>5, <3>1 DEF FilesRight, FileRight
    <2> QED
      BY <2>10, <2>11 DEF FileRight, NoFile
  <1>10. PagesRight' /\ RingsRight' /\ WaitsRight'
    BY <1>u, <1>4, QuietKeeps
  <1>11. EndsRight'
    BY <1>u, <1>0, <1>4, <1>6, EndsSame
  <1>12. ListRight(q)' /\ PlaceRight(q)'
    BY <1>u, <1>1, <1>4 DEF ListRight, PlaceRight, InPipe
  <1>13. \A d \in Fds : DescriptorRight(q, d)'
    <2>1. \A d \in Fds : ofile'[q][d] = ofile[p][d] /\ ofile[p][d] \in Files \cup {0}
                         /\ DescriptorRight(p, d)
      BY <1>3, Here
    <2> QED
      BY <1>6, <2>1 DEF DescriptorRight
  <1>14. \A x \in Files : Descriptors(x) = {} => file'[x] = file[x]
    <2> SUFFICES ASSUME NEW x \in Files, Descriptors(x) = {} PROVE file'[x] = file[x]
      OBVIOUS
    <2>1. \A d \in Fds : ofile[p][d] # x
      BY Members
    <2>2. E(x) = {}
      BY <2>1
    <2>3. Cardinality(E(x)) = 0
      BY <2>2, FS_EmptySet
    <2> QED
      BY <1>6, <2>3
  <1>15. \A r \in Procs, c \in Fds : ofile[r][c] # 0 =>
           /\ file'[ofile[r][c]].pipe = file[ofile[r][c]].pipe
           /\ file'[ofile[r][c]].writable = file[ofile[r][c]].writable
    <2> SUFFICES ASSUME NEW r \in Procs, NEW c \in Fds, ofile[r][c] # 0
                 PROVE  /\ file'[ofile[r][c]].pipe = file[ofile[r][c]].pipe
                        /\ file'[ofile[r][c]].writable = file[ofile[r][c]].writable
      OBVIOUS
    <2>1. ofile[r][c] \in Files
      BY Here
    <2> QED
      BY <1>6, <2>1
  <1>16. ListsRight' /\ PlacesRight' /\ DescriptorsRight'
    BY <1>u, <1>3, <1>4, <1>12, <1>13, <1>14, <1>15, OthersKeep
  <1> QED
    BY <1>8, <1>9, <1>10, <1>11, <1>16 DEF IInv, FilesRight

-----------------------------------------------------------------------------
(* The steps on pipes.                                                      *)

\* Nobody works on a pipe that has been given back.
LEMMA CurInUse ==
  ASSUME IInv, NEW p \in Procs, cur[p] # 0
  PROVE  /\ cur[p] \in Pages /\ cur[p] \notin free
         /\ pc[p] \in Writing => IsOpen(cur[p], TRUE)
         /\ pc[p] \in Reading => IsOpen(cur[p], FALSE)
         /\ pc[p] = "pipeclose" => IsOpen(cur[p], writable[p])
  <1>1. PlaceRight(p) /\ cur[p] \in Pages /\ writable[p] \in BOOLEAN /\ pc[p] \in Places
    BY Here
  <1>2. pc[p] \in InPipe \cup {"pipeclose"}
    BY <1>1 DEF PlaceRight
  <1>3. FreeRight(cur[p]) /\ EndRight(cur[p], TRUE) /\ EndRight(cur[p], FALSE)
    BY <1>1 DEF IInv, PagesRight, EndsRight
  <1>4. CASE pc[p] = "pipeclose"
    <2>1. Shuts(p, cur[p], writable[p])
      BY <1>4 DEF Shuts
    <2>2. CASE writable[p] = TRUE
      BY <1>1, <1>3, <1>4, <2>1, <2>2 DEF EndRight, FreeRight, Writing, Reading
    <2>3. CASE writable[p] = FALSE
      BY <1>1, <1>3, <1>4, <2>1, <2>3 DEF EndRight, FreeRight, Writing, Reading
    <2> QED
      BY <1>1, <2>2, <2>3
  <1>5. CASE pc[p] \in InPipe
    <2>1. PICK d \in Fds : /\ ofile[p][d] # 0 /\ file[ofile[p][d]].pipe = cur[p]
                           /\ file[ofile[p][d]].writable = (pc[p] \in Writing)
      BY <1>1, <1>5 DEF PlaceRight, HasOpen
    <2>2. PICK f \in Files : f = ofile[p][d]
      BY <2>1, Here
    <2>3. CASE pc[p] \in Writing
      <3>1. Stands(f, cur[p], TRUE)
        BY <2>1, <2>2, <2>3 DEF Stands
      <3> QED
        BY <1>1, <1>3, <2>3, <3>1 DEF EndRight, FreeRight, Writing, Reading
    <2>4. CASE pc[p] \notin Writing
      <3>0. (pc[p] \in Writing) = FALSE
        BY <2>4
      <3>1. Stands(f, cur[p], FALSE)
        BY <2>1, <2>2, <3>0 DEF Stands
      <3> QED
        BY <1>1, <1>3, <1>5, <2>4, <3>1 DEF EndRight, FreeRight, Writing, Reading, InPipe
    <2> QED
      BY <2>3, <2>4
  <1> QED
    BY <1>2, <1>4, <1>5

Rings == [0 .. PIPESIZE - 1 -> Bytes]
PipeType == [data : Rings, nread : Bytes, nwrite : Bytes,
             readopen : BOOLEAN, writeopen : BOOLEAN]

\* kalloc() gave page g, and pipealloc() fills it in.
Makes(g) == /\ g \in free /\ free' = free \ {g} /\ unsaid' = unsaid \ {g}
            /\ pipe' = [pipe EXCEPT ![g].nread = 0, ![g].nwrite = 0,
                          ![g].readopen = TRUE, ![g].writeopen = TRUE]
LEMMA PipeMade ==
  ASSUME IInv, NEW g \in Pages, Makes(g)
  PROVE  /\ pipe' \in [Pages -> PipeType]
         /\ pipe'[g].nread = 0 /\ pipe'[g].nwrite = 0
         /\ pipe'[g].readopen = TRUE /\ pipe'[g].writeopen = TRUE
         /\ \A a \in Pages : a # g => pipe'[a] = pipe[a]
  <1>1. pipe \in [Pages -> PipeType] /\ pipe[g] \in PipeType
    BY DEF IInv, TypeOK, PipeType, Rings
  <1>2. PICK r \in PipeType : r = pipe[g]
    BY <1>1
  <1>3. PICK s : s = [r EXCEPT !.nread = 0, !.nwrite = 0, !.readopen = TRUE, !.writeopen = TRUE]
    OBVIOUS
  <1>4. /\ s \in PipeType /\ s.nread = 0 /\ s.nwrite = 0
        /\ s.readopen = TRUE /\ s.writeopen = TRUE
    BY <1>3, Sizes DEF PipeType
  <1>5. pipe' = [a \in Pages |-> IF a = g THEN s ELSE pipe[a]]
    BY <1>1, <1>2, <1>3 DEF Makes
  <1>6. pipe'[g] = s /\ \A a \in Pages : a # g => pipe'[a] = pipe[a]
    BY <1>5
  <1>7. pipe' \in [Pages -> PipeType]
    BY <1>1, <1>4, <1>5
  <1> QED
    BY <1>4, <1>6, <1>7

\* The bytes in use as the difference of the counters.
LEMMA UsedIs ==
  ASSUME TypeOK, NEW g \in Pages
  PROVE  /\ pipe[g].nwrite \in Bytes /\ pipe[g].nread \in Bytes
         /\ Used(g) = Diff(pipe[g].nwrite, pipe[g].nread) /\ Used(g) \in Nat
  <1>1. pipe[g].nwrite \in Bytes /\ pipe[g].nread \in Bytes
    BY DEF TypeOK
  <1>2. Used(g) = Diff(pipe[g].nwrite, pipe[g].nread)
    BY DEF Used, Diff
  <1> QED
    BY <1>1, <1>2, Differences, Sizes

\* The two files of a new pipe are given their types.
GetTypes(f, h, g) ==
  file' = [file EXCEPT ![f].pipe = g, ![h].pipe = g, ![h].writable = TRUE]
LEMMA FilesTyped ==
  ASSUME TypeOK, NEW f \in Files, NEW h \in Files, f # h, NEW g \in Pages, GetTypes(f, h, g)
  PROVE  /\ file' \in [Files -> FileType]
         /\ \A x \in Files \ {f, h} : file'[x] = file[x]
         /\ file'[f].ref = file[f].ref /\ file'[f].pipe = g
         /\ file'[f].writable = file[f].writable
         /\ file'[h].ref = file[h].ref /\ file'[h].pipe = g /\ file'[h].writable = TRUE
  <1>1. file \in [Files -> FileType] /\ file[f] \in FileType /\ file[h] \in FileType
    BY DEF TypeOK, FileType
  <1>2. PICK r \in FileType, s \in FileType : r = file[f] /\ s = file[h]
    BY <1>1
  <1>3. PICK a, b : a = [r EXCEPT !.pipe = g] /\ b = [s EXCEPT !.pipe = g, !.writable = TRUE]
    OBVIOUS
  <1>4. /\ a \in FileType /\ a.ref = r.ref /\ a.pipe = g /\ a.writable = r.writable
        /\ b \in FileType /\ b.ref = s.ref /\ b.pipe = g /\ b.writable = TRUE
    BY <1>3 DEF FileType
  <1>5. file' = [x \in Files |-> IF x = f THEN a ELSE IF x = h THEN b ELSE file[x]]
    BY <1>1, <1>2, <1>3 DEF GetTypes
  <1>6. /\ file'[f] = a /\ file'[h] = b /\ \A x \in Files \ {f, h} : file'[x] = file[x]
    BY <1>5
  <1>7. file' \in [Files -> FileType]
    BY <1>1, <1>4, <1>5
  <1> QED
    BY <1>2, <1>4, <1>6, <1>7

\* Two descriptors are free.
LEMMA TwoFds ==
  ASSUME TypeOK, NEW p \in Procs, Cardinality(FreeFds(p)) >= 2
  PROVE  \E d, e \in Fds : /\ d = Min(FreeFds(p)) /\ e = Min(FreeFds(p) \ {d})
                           /\ d # e /\ ofile[p][d] = 0 /\ ofile[p][e] = 0
  <1>1. IsFiniteSet(Fds) /\ Fds \subseteq Nat
    BY PipeAssumption, FS_Interval DEF Fds
  <1>2. IsFiniteSet(FreeFds(p)) /\ FreeFds(p) \subseteq Nat /\ FreeFds(p) \subseteq Fds
    BY <1>1, FS_Subset DEF FreeFds
  <1>3. FreeFds(p) # {} /\ \A d : FreeFds(p) # {d}
    <2>1. FreeFds(p) # {}
      <3>1. Cardinality({}) = 0
        BY FS_EmptySet
      <3> QED
        BY <3>1
    <2>2. ASSUME NEW d, FreeFds(p) = {d} PROVE FALSE
      <3>1. Cardinality({d}) = 1
        BY FS_Singleton
      <3> QED
        BY <2>2, <3>1
    <2> QED
      BY <2>1, <2>2
  <1>4. PICK d \in FreeFds(p) : d = Min(FreeFds(p))
    BY <1>2, <1>3, LeastIn
  <1>5. FreeFds(p) \ {d} # {} /\ FreeFds(p) \ {d} \subseteq Nat
    BY <1>2, <1>3
  <1>6. PICK e \in FreeFds(p) \ {d} : e = Min(FreeFds(p) \ {d})
    BY <1>5, LeastIn
  <1> QED
    BY <1>2, <1>4, <1>6 DEF FreeFds

\* The steps of pipealloc2 that get a page: what they do besides the files'
\* references, for the files f and h and the page g.
LEMMA madeKeeps ==
  ASSUME IInv, NEW p \in Procs, NEW f \in Files, NEW h \in Files, NEW g \in Pages,
         pc[p] = "pipe2", f # h, Fresh(f), Fresh(h),
         Makes(g), GetTypes(f, h, g), UNCHANGED << cur, n, writable >>,
         pc'[p] \in {"run", "close"}, \A q \in Procs : q # p => pc'[q] = pc[q]
  PROVE  EndsRight' /\ PagesRight' /\ RingsRight' /\ WaitsRight'
  <1>0. /\ TypeOK /\ FreeRight(g) /\ EndRight(g, TRUE) /\ EndRight(g, FALSE)
        /\ g \in free /\ free' = free \ {g} /\ unsaid' = unsaid \ {g}
    BY DEF IInv, PagesRight, EndsRight, Makes
  <1>1. /\ pipe' \in [Pages -> PipeType]
        /\ pipe'[g].nread = 0 /\ pipe'[g].nwrite = 0
        /\ pipe'[g].readopen = TRUE /\ pipe'[g].writeopen = TRUE
        /\ \A a \in Pages : a # g => pipe'[a] = pipe[a]
    BY PipeMade
  <1>2. Fresh(f) /\ Fresh(h)
    OBVIOUS
  <1>3. /\ file' \in [Files -> FileType]
        /\ \A x \in Files \ {f, h} : file'[x] = file[x]
        /\ file'[f].pipe = g /\ file'[f].writable = FALSE
        /\ file'[h].pipe = g /\ file'[h].writable = TRUE
    <2>1. /\ file' \in [Files -> FileType]
          /\ \A x \in Files \ {f, h} : file'[x] = file[x]
          /\ file'[f].pipe = g /\ file'[f].writable = file[f].writable
          /\ file'[h].pipe = g /\ file'[h].writable = TRUE
      BY <1>0, FilesTyped
    <2>2. file[f].writable = FALSE
      BY <1>2 DEF Fresh
    <2> QED
      BY <2>1, <2>2
  <1>4. /\ \A a \in Pages : a # g => \A v : IsOpen(a, v)' = IsOpen(a, v)
        /\ IsOpen(g, TRUE)' /\ IsOpen(g, FALSE)'
    BY <1>1 DEF IsOpen
  <1>5. PagesRight'
    <2> SUFFICES ASSUME NEW a \in Pages PROVE FreeRight(a)'
      BY DEF PagesRight
    <2>1. FreeRight(a)
      BY DEF IInv, PagesRight
    <2> QED
      BY <1>0, <1>4, <2>1 DEF FreeRight
  <1>6. \A a \in Pages : a # g => Used(a)' = Used(a)
    BY <1>1 DEF Used
  <1>7. Used(g)' = 0
    <2>1. Used(g)' = Diff(0, 0)
      BY <1>1 DEF Used, Diff
    <2> QED
      BY <2>1, Sizes, Differences
  <1>8. RingsRight'
    <2>1. 0 <= PIPESIZE
      BY Sizes
    <2> QED
      BY <1>6, <1>7, <2>1 DEF IInv, RingsRight
  <1>9. WaitsRight'
    <2> SUFFICES ASSUME NEW q \in Procs PROVE WaitRight(q)'
      BY DEF WaitsRight
    <2>1. WaitRight(q) /\ PlaceRight(q)
      BY Here
    <2>2. CASE pc'[q] \in {"wgap", "wsleep", "rgap", "rsleep"}
      <3>1. q # p /\ pc'[q] = pc[q] /\ cur'[q] = cur[q] /\ cur[q] # 0
        BY <2>1, <2>2 DEF PlaceRight, InPipe
      <3>2. cur[q] \in Pages /\ cur[q] # g
        BY <1>0, <3>1, CurInUse
      <3>3. PICK a \in Pages : a = cur[q] /\ a # g
        BY <3>2
      <3>4. Used(a)' = Used(a) /\ IsOpen(a, TRUE)' = IsOpen(a, TRUE)
            /\ IsOpen(a, FALSE)' = IsOpen(a, FALSE) /\ (a \in unsaid' <=> a \in unsaid)
        BY <1>0, <1>4, <1>6, <3>3
      <3>5. Used(cur[q])' = Used(a)' /\ IsOpen(cur[q], TRUE)' = IsOpen(a, TRUE)'
            /\ IsOpen(cur[q], FALSE)' = IsOpen(a, FALSE)'
        BY <3>1, <3>3 DEF Used, IsOpen
      <3> QED
        BY <2>1, <3>1, <3>3, <3>4, <3>5 DEF WaitRight
    <2>3. CASE pc'[q] \notin {"wgap", "wsleep", "rgap", "rsleep"}
      BY <2>3 DEF WaitRight
    <2> QED
      BY <2>2, <2>3
  <1>10. \A q \in Procs : \A a, v : Shuts(q, a, v)' <=> Shuts(q, a, v)
    BY DEF Shuts
  <1>11. EndsRight'
    <2> SUFFICES ASSUME NEW a \in Pages, NEW v \in BOOLEAN PROVE EndRight(a, v)'
      BY DEF EndsRight
    <2>1. EndRight(a, v)
      BY DEF IInv, EndsRight
    <2>2. CASE a # g
      <3>1. \A x \in Files : Stands(x, a, v)' <=> Stands(x, a, v)
        <4>1. ~ Stands(f, a, v) /\ ~ Stands(h, a, v) /\ ~ Stands(f, a, v)' /\ ~ Stands(h, a, v)'
          <5>1. file[f].pipe # a /\ file[h].pipe # a
            BY <1>2, PipeAssumption DEF Fresh
          <5>2. file'[f].pipe # a /\ file'[h].pipe # a
            BY <1>3, <2>2
          <5> QED
            BY <5>1, <5>2 DEF Stands
        <4>2. \A x \in Files \ {f, h} : Stands(x, a, v)' <=> Stands(x, a, v)
          BY <1>3 DEF Stands
        <4> QED
          BY <4>1, <4>2
      <3> QED
        BY <1>4, <1>10, <2>1, <2>2, <3>1 DEF EndRight
    <2>3. CASE a = g
      <3>1. ~ IsOpen(g, v)
        BY <1>0, <2>3 DEF FreeRight
      <3>2. \A x \in Files : ~ Stands(x, g, v)
        BY <2>1, <2>3, <3>1 DEF EndRight
      <3>3. \A q \in Procs : ~ Shuts(q, g, v)
        BY <2>1, <2>3, <3>1 DEF EndRight
      <3>4. \A x \in Files \ {f, h} : ~ Stands(x, g, v)'
        BY <1>3, <3>2 DEF Stands
      <3>5. /\ Stands(f, g, v)' <=> v = FALSE
            /\ Stands(h, g, v)' <=> v = TRUE
        BY <1>3 DEF Stands
      <3>6. IsOpen(g, v)'
        BY <1>4
      <3> QED
        BY <1>10, <2>3, <3>3, <3>4, <3>5, <3>6 DEF EndRight
    <2> QED
      BY <2>2, <2>3
  <1> QED
    BY <1>5, <1>8, <1>9, <1>11

\* pipe, from kalloc() on: both ends become open at once, or all is undone.
LEMMA pipealloc2Keeps ==
  ASSUME IInv, NEW p \in Procs, pipealloc2(p)
  PROVE  IInv'
  <1>0. /\ TypeOK /\ FilesRight /\ ListRight(p) /\ PlaceRight(p) /\ pc[p] = "pipe2"
        /\ todo[p] \in Seq(Files) /\ Len(todo[p]) = 2 /\ UNCHANGED << cur, n, writable >>
    BY Here DEF IInv, pipealloc2, ListRight
  <1>1. PICK f \in Files, h \in Files : f = todo[p][1] /\ h = todo[p][2] /\ f # h
    <2>1. todo[p][1] \in Files /\ todo[p][2] \in Files /\ todo[p][1] # todo[p][2]
      BY <1>0 DEF ListRight
    <2> QED
      BY <2>1, Zenon
  <1>n. todo[p] # << >> /\ f # h
    <2>1. Len(<< >>) = 0
      OBVIOUS
    <2> QED
      BY <1>0, <1>1, <2>1
  <1>2. CASE UNCHANGED << ofile, file, pipe, free, eof, unsaid >> /\ Close(p, todo[p])
    BY <1>0, <1>2, closeKeeps
  <1>3. ASSUME NEW g \in free, Makes(g), GetTypes(todo[p][1], todo[p][2], g),
               eof' = eof \ {g},
               \/ UNCHANGED ofile /\ Close(p, todo[p])
               \/ /\ Cardinality(FreeFds(p)) >= 2
                  /\ LET d == Min(FreeFds(p))
                         e == Min(FreeFds(p) \ {d})
                     IN ofile' = [ofile EXCEPT ![p][d] = todo[p][1],
                                               ![p][e] = todo[p][2]]
                  /\ Close(p, << >>)
        PROVE  IInv'
    <2>0. g \in Pages /\ free' = free \ {g}
      BY <1>0, <1>3 DEF TypeOK, Makes
    <2>1. GetTypes(f, h, g)
      BY <1>1, <1>3
    <2>2. /\ file' \in [Files -> FileType]
          /\ \A x \in Files \ {f, h} : file'[x] = file[x]
          /\ file'[f].ref = file[f].ref /\ file'[f].pipe = g
          /\ file'[h].ref = file[h].ref /\ file'[h].pipe = g
      <3>1. TypeOK /\ f # h /\ g \in Pages
        BY <1>0, <1>1, <2>0
      <3> QED
        BY <2>1, <3>1, FilesTyped, Zenon
    <2>3. /\ Fresh(f) /\ Descriptors(f) = {} /\ Pending(f) = {p}
          /\ Fresh(h) /\ Descriptors(h) = {} /\ Pending(h) = {p}
      <3>1. 1 \in 1 .. Len(todo[p]) /\ 2 \in 1 .. Len(todo[p])
        BY <1>0
      <3> QED
        BY <1>0, <1>1, <3>1, FreshAlone
    <2>4. pipe' \in [Pages -> PipeType]
      BY <1>3, <2>0, PipeMade
    <2>5. /\ file[f].ref = 1 /\ file[h].ref = 1 /\ file'[f].ref = 1 /\ file'[h].ref = 1
          /\ g # 0
      BY <2>0, <2>2, <2>3, PipeAssumption DEF Fresh
    \* What both ends of the call have in common.
    <2>6. ASSUME pc' \in [Procs -> Places], leaving' \in [Procs -> BOOLEAN],
                 killed' \in [Procs -> BOOLEAN], todo' \in [Procs -> Seq(Files)],
                 ofile' \in [Procs -> [Fds -> Files \cup {0}]],
                 pc'[p] \in {"run", "close"},
                 \A q \in Procs : q # p => /\ pc'[q] = pc[q] /\ leaving'[q] = leaving[q]
                                           /\ todo'[q] = todo[q] /\ ofile'[q] = ofile[q],
                 FileRight(f)', FileRight(h)',
                 \A x \in Files \ {f, h} : Descriptors(x)' = Descriptors(x)
                                           /\ Pending(x)' = Pending(x),
                 ListRight(p)', PlaceRight(p)', \A d \in Fds : DescriptorRight(p, d)'
          PROVE  IInv'
      <3>1. TypeOK'
        BY <1>0, <2>0, <2>2, <2>4, <2>6 DEF TypeOK, FileType, PipeType, Rings
      <3>2. FilesRight'
        <4>1. \A x \in Files \ {f, h} : FileRight(x)'
          BY <1>0, <2>2, <2>6, SameCount
        <4> QED
          BY <2>6, <4>1 DEF FilesRight
      <3>3. EndsRight' /\ PagesRight' /\ RingsRight' /\ WaitsRight'
        BY <1>0, <1>n, <1>3, <2>0, <2>1, <2>3, <2>6, madeKeeps
      <3>4. \A q \in Procs : q # p =>
              \A x \in Files : Fresh(x) /\ Descriptors(x) = {} /\ Pending(x) = {q} =>
                file'[x] = file[x]
        BY <2>2, <2>3
      <3>5. ASSUME NEW q \in Procs, NEW d \in Fds, ofile[q][d] # 0
            PROVE  /\ file'[ofile[q][d]].pipe = file[ofile[q][d]].pipe
                   /\ file'[ofile[q][d]].writable = file[ofile[q][d]].writable
        <4>1. PICK x \in Files : x = ofile[q][d]
          BY <3>5, Here
        <4>2. x \notin {f, h}
          BY <2>3, <4>1, Members
        <4> QED
          BY <2>2, <4>1, <4>2
      <3>6. ListsRight' /\ PlacesRight' /\ DescriptorsRight'
        BY <1>0, <2>6, <3>4, <3>5, OthersKeep
      <3> QED
        BY <3>1, <3>2, <3>3, <3>6 DEF IInv
    <2>7. CASE UNCHANGED ofile /\ Close(p, todo[p])
      <3>1. /\ todo' = todo /\ pc' = [pc EXCEPT ![p] = "close"]
            /\ leaving' = [leaving EXCEPT ![p] = FALSE]
            /\ killed' = [killed EXCEPT ![p] = @ /\ TRUE]
        <4>1. todo[p] # << >>
          BY <1>n
        <4>2. todo' = [todo EXCEPT ![p] = todo[p]]
          BY <2>7 DEF Close
        <4>3. todo' = todo
          BY <1>0, <4>2 DEF TypeOK
        <4> QED
          BY <2>7, <4>1, <4>3 DEF Close, Ending
      <3>2. /\ pc' \in [Procs -> Places] /\ leaving' \in [Procs -> BOOLEAN]
            /\ killed' \in [Procs -> BOOLEAN] /\ pc'[p] = "close" /\ leaving'[p] = FALSE
            /\ \A q \in Procs : q # p => pc'[q] = pc[q] /\ leaving'[q] = leaving[q]
        BY <1>0, <3>1 DEF TypeOK, Places
      <3>3. \A x : Descriptors(x)' = Descriptors(x) /\ Pending(x)' = Pending(x)
        BY <2>7, <3>1 DEF Descriptors, Pending
      <3>4. ASSUME NEW x \in {f, h} PROVE FileRight(x)'
        <4>1. /\ file'[x].ref = file[x].ref /\ file'[x].ref # 0
              /\ file[x].ref = Cardinality(Descriptors(x)) + Cardinality(Pending(x))
          BY <1>0, <2>5 DEF FilesRight, FileRight
        <4> QED
          BY <3>3, <4>1 DEF FileRight
      <3>5. ListRight(p)'
        BY <1>0, <3>1, <3>2 DEF ListRight, InPipe
      <3>6. PlaceRight(p)'
        <4>1. todo'[p] # << >> /\ cur'[p] = cur[p]
          BY <1>0, <1>n, <3>1
        <4> QED
          BY <1>0, <3>2, <4>1 DEF PlaceRight, InPipe, SomeLeft
      <3>7. ASSUME NEW d \in Fds, ofile[p][d] # 0 PROVE file'[ofile[p][d]].pipe # 0
        <4>1. PICK x \in Files : x = ofile[p][d] /\ file[x].pipe # 0
          BY <3>7, Here DEF DescriptorRight
        <4>2. x \notin {f, h}
          BY <2>3, <4>1, Members
        <4> QED
          BY <2>2, <4>1, <4>2
      <3>8. \A d \in Fds : DescriptorRight(p, d)'
        BY <2>7, <3>7 DEF DescriptorRight
      <3>9. ofile' \in [Procs -> [Fds -> Files \cup {0}]] /\ todo' \in [Procs -> Seq(Files)]
        BY <1>0, <2>7, <3>1 DEF TypeOK
      <3> QED
        BY <2>6, <2>7, <3>1, <3>2, <3>3, <3>4, <3>5, <3>6, <3>8, <3>9
    <2>8. CASE /\ Cardinality(FreeFds(p)) >= 2
               /\ LET d == Min(FreeFds(p))
                      e == Min(FreeFds(p) \ {d})
                  IN ofile' = [ofile EXCEPT ![p][d] = todo[p][1],
                                            ![p][e] = todo[p][2]]
               /\ Close(p, << >>)
      <3>1. PICK d \in Fds, e \in Fds : /\ d = Min(FreeFds(p)) /\ e = Min(FreeFds(p) \ {d})
                                        /\ d # e /\ ofile[p][d] = 0 /\ ofile[p][e] = 0
        BY <1>0, <2>8, TwoFds
      <3>n. d # e /\ ofile[p][d] = 0 /\ ofile[p][e] = 0
        BY <3>1
      <3>2. ofile' = [ofile EXCEPT ![p][d] = f, ![p][e] = h]
        BY <1>1, <2>8, <3>1
      <3>3. /\ todo' = [todo EXCEPT ![p] = << >>] /\ pc' = [pc EXCEPT ![p] = "run"]
            /\ leaving' = [leaving EXCEPT ![p] = FALSE]
            /\ killed' = [killed EXCEPT ![p] = @ /\ TRUE]
        BY <2>8 DEF Close, Ending
      <3>4. /\ pc' \in [Procs -> Places] /\ leaving' \in [Procs -> BOOLEAN]
            /\ killed' \in [Procs -> BOOLEAN] /\ pc'[p] = "run" /\ leaving'[p] = FALSE
            /\ \A q \in Procs : q # p => pc'[q] = pc[q] /\ leaving'[q] = leaving[q]
        BY <1>0, <3>3 DEF TypeOK, Places
      <3>5. /\ \A q \in Procs, c \in Fds :
                 ofile'[q][c] = IF q = p /\ c = d THEN f
                                ELSE IF q = p /\ c = e THEN h ELSE ofile[q][c]
            /\ \A q \in Procs : q # p => ofile'[q] = ofile[q]
            /\ ofile' \in [Procs -> [Fds -> Files \cup {0}]]
        BY <1>0, <3>1, <3>2 DEF TypeOK
      <3>6. /\ SetsList(p, << >>) /\ todo' \in [Procs -> Seq(Files)] /\ todo'[p] = << >>
            /\ \A q \in Procs : q # p => todo'[q] = todo[q]
        BY <1>0, <3>3 DEF TypeOK, SetsList
      <3>7. ASSUME NEW x \in Files PROVE Pending(x)' = Pending(x) \ {p}
        BY <3>6, OneList DEF OnList
      <3>8. ASSUME NEW x \in Files \ {f, h} PROVE Pending(x)' = Pending(x)
        <4>1. p \notin Pending(x)
          BY <1>0, <1>1 DEF Pending
        <4> QED
          BY <3>7, <4>1
      <3>9. ASSUME NEW x \in Files, NEW q \in Procs, NEW c \in Fds
            PROVE  << q, c >> \in Descriptors(x)' <=>
                     \/ q = p /\ c = d /\ x = f
                     \/ q = p /\ c = e /\ x = h
                     \/ << q, c >> \in Descriptors(x)
        <4>1. << q, c >> \in Descriptors(x)' <=> ofile'[q][c] = x
          BY DEF Descriptors
        <4>2. << q, c >> \in Descriptors(x) <=> ofile[q][c] = x
          BY DEF Descriptors
        <4>3. CASE q = p /\ c = d
          BY <3>n, <3>5, <4>1, <4>2, <4>3, NoFileZero
        <4>4. CASE q = p /\ c = e
          BY <3>n, <3>5, <4>1, <4>2, <4>4, NoFileZero
        <4>5. CASE ~ (q = p /\ c = d) /\ ~ (q = p /\ c = e)
          BY <3>5, <4>1, <4>2, <4>5
        <4> QED
          BY <4>3, <4>4, <4>5
      <3>10. \A x : Descriptors(x)' \subseteq Procs \X Fds /\ Descriptors(x) \subseteq Procs \X Fds
        BY DEF Descriptors
      <3>11. \A x \in Files \ {f, h} : Descriptors(x)' = Descriptors(x)
        <4> SUFFICES ASSUME NEW x \in Files \ {f, h} PROVE Descriptors(x)' = Descriptors(x)
          OBVIOUS
        <4>1. \A q \in Procs, c \in Fds :
                << q, c >> \in Descriptors(x)' <=> << q, c >> \in Descriptors(x)
          BY <3>9
        <4> QED
          BY <3>10, <4>1
      <3>12. Descriptors(f)' = {<< p, d >>} /\ Descriptors(h)' = {<< p, e >>}
        <4>1. \A q \in Procs, c \in Fds : << q, c >> \in Descriptors(f)' <=> q = p /\ c = d
          <5>1. \A q \in Procs, c \in Fds : << q, c >> \notin Descriptors(f)
            BY <2>3
          <5> QED
            BY <1>n, <3>9, <5>1
        <4>2. \A q \in Procs, c \in Fds : << q, c >> \in Descriptors(h)' <=> q = p /\ c = e
          <5>1. \A q \in Procs, c \in Fds : << q, c >> \notin Descriptors(h)
            BY <2>3
          <5> QED
            BY <1>n, <3>9, <5>1
        <4> QED
          BY <3>10, <4>1, <4>2
      <3>13. FileRight(f)'
        <4>1. /\ Gains(Descriptors(f), Descriptors(f)', << p, d >>, 1)
              /\ Gains(Pending(f), Pending(f)', p, -1)
          BY <2>3, <3>7, <3>12 DEF Gains
        <4>2. file'[f].ref = file[f].ref + 1 + (-1) /\ file'[f].ref # 0
          BY <2>5
        <4> QED
          BY <1>0, <4>1, <4>2, Recount
      <3>14. FileRight(h)'
        <4>1. /\ Gains(Descriptors(h), Descriptors(h)', << p, e >>, 1)
              /\ Gains(Pending(h), Pending(h)', p, -1)
          BY <2>3, <3>7, <3>12 DEF Gains
        <4>2. file'[h].ref = file[h].ref + 1 + (-1) /\ file'[h].ref # 0
          BY <2>5
        <4> QED
          BY <1>0, <4>1, <4>2, Recount
      <3>15. ListRight(p)'
        <4>1. Len(todo'[p]) = 0
          BY <3>6
        <4> QED
          BY <3>4, <3>6, <4>1 DEF ListRight, InPipe
      <3>16. PlaceRight(p)'
        BY <1>0, <3>4 DEF PlaceRight, InPipe
      <3>17. ASSUME NEW c \in Fds, ofile'[p][c] # 0 PROVE file'[ofile'[p][c]].pipe # 0
        <4>1. CASE c \in {d, e}
          BY <2>2, <2>5, <3>5, <4>1
        <4>2. CASE c \notin {d, e}
          <5>1. ofile'[p][c] = ofile[p][c]
            BY <3>5, <4>2
          <5>2. PICK x \in Files : x = ofile[p][c] /\ file[x].pipe # 0
            BY <3>17, <5>1, Here DEF DescriptorRight
          <5>3. x \notin {f, h}
            BY <2>3, <5>2, Members
          <5> QED
            BY <2>2, <5>1, <5>2, <5>3
        <4> QED
          BY <4>1, <4>2
      <3>18. \A c \in Fds : DescriptorRight(p, c)'
        BY <3>17 DEF DescriptorRight
      <3> QED
        BY <2>6, <3>4, <3>5, <3>6, <3>8, <3>11, <3>13, <3>14, <3>15, <3>16, <3>18
    <2> QED
      BY <1>3, <2>7, <2>8
  <1> QED
    BY <1>2, <1>3 DEF pipealloc2, Makes, GetTypes

\* q stays where it is, or a wakeup() makes it go on.
Woke(q) == \/ pc'[q] = pc[q]
           \/ pc[q] = "rsleep" /\ pc'[q] = "read"
           \/ pc[q] = "wsleep" /\ pc'[q] = "write"

\* p goes to another place and wakes some; files and lists stay.
LEMMA WakesKeep ==
  ASSUME IInv, NEW p \in Procs, UNCHANGED << ofile, file, todo >>,
         \A q \in Procs : q # p => Woke(q) /\ cur'[q] = cur[q] /\ leaving'[q] = leaving[q],
         ListRight(p)', PlaceRight(p)'
  PROVE  ListsRight' /\ PlacesRight'
  <1>1. ASSUME NEW q \in Procs, q # p PROVE ListRight(q)' /\ PlaceRight(q)'
    <2>1. ListRight(q) /\ PlaceRight(q) /\ Woke(q)
      BY <1>1, Here
    <2>2. ListRight(q)'
      BY <1>1, <2>1 DEF ListRight, Fresh, Woke, InPipe
    <2>3. HasOpen(q)' <=> HasOpen(q)
      <3>1. (pc'[q] \in Writing) = (pc[q] \in Writing)
        BY <2>1 DEF Woke, Writing
      <3> QED
        BY <1>1, <3>1 DEF HasOpen
    <2>4. SomeLeft(q)' <=> SomeLeft(q)
      BY <1>1 DEF SomeLeft, FreeFds
    <2>5. PlaceRight(q)'
      BY <1>1, <2>1, <2>3, <2>4 DEF PlaceRight, Woke, InPipe
    <2> QED
      BY <2>2, <2>5
  <1> QED
    BY <1>1 DEF ListsRight, PlacesRight

\* Who waits for a pipe that is left alone goes on waiting.
LEMMA ElsewhereWaits ==
  ASSUME IInv, NEW q \in Procs, NEW g, Woke(q), cur'[q] = cur[q], cur[q] # g,
         \A a \in Pages : a # g => pipe'[a] = pipe[a], unsaid \subseteq unsaid'
  PROVE  WaitRight(q)'
  <1>1. WaitRight(q) /\ PlaceRight(q)
    BY Here
  <1>2. CASE pc'[q] \in {"wgap", "wsleep", "rgap", "rsleep"}
    <2>1. pc'[q] = pc[q] /\ cur[q] # 0
      BY <1>1, <1>2 DEF Woke, PlaceRight, InPipe
    <2>2. PICK a \in Pages : a = cur[q]
      BY <2>1, CurInUse
    <2>3. /\ Used(cur[q])' = Used(cur[q])
          /\ IsOpen(cur[q], TRUE)' = IsOpen(cur[q], TRUE)
          /\ IsOpen(cur[q], FALSE)' = IsOpen(cur[q], FALSE)
      BY <2>2 DEF Used, IsOpen
    <2> QED
      BY <1>1, <2>1, <2>3 DEF WaitRight
  <1>3. CASE pc'[q] \notin {"wgap", "wsleep", "rgap", "rsleep"}
    BY <1>3 DEF WaitRight
  <1> QED
    BY <1>2, <1>3

\* The end p closes, and what becomes of the pipe.
ShutEnd(g, w) ==
  LET s == IF w THEN [pipe[g] EXCEPT !.writeopen = FALSE]
           ELSE [pipe[g] EXCEPT !.readopen = FALSE]
  IN /\ pipe' = [pipe EXCEPT ![g] = IF Emptied(s) THEN NoPipe ELSE s]
     /\ free' = IF Emptied(s) THEN free \cup {g} ELSE free

\* What pipeclose makes of the pipe and its page.
LEMMA EndShut ==
  ASSUME TypeOK, NEW g \in Pages, NEW w \in BOOLEAN, ShutEnd(g, w)
  PROVE  /\ pipe' \in [Pages -> PipeType]
         /\ \A a \in Pages : a # g => pipe'[a] = pipe[a]
         /\ ~ IsOpen(g, w)' /\ (IsOpen(g, ~ w)' <=> IsOpen(g, ~ w))
         /\ IsOpen(g, ~ w) => Used(g)' = Used(g) /\ free' = free
         /\ ~ IsOpen(g, ~ w) => Used(g)' = 0 /\ free' = free \cup {g}
         /\ IsOpen(g, ~ w) => /\ pipe'[g].data = pipe[g].data
                              /\ pipe'[g].nread = pipe[g].nread
  <1>1. pipe \in [Pages -> PipeType] /\ pipe[g] \in PipeType
    BY DEF TypeOK, PipeType, Rings
  <1>2. PICK r \in PipeType : r = pipe[g]
    BY <1>1
  <1>3. PICK s : s = IF w THEN [r EXCEPT !.writeopen = FALSE] ELSE [r EXCEPT !.readopen = FALSE]
    OBVIOUS
  <1>4. /\ s \in PipeType /\ s.nread = r.nread /\ s.nwrite = r.nwrite /\ s.data = r.data
        /\ w => ~ s.writeopen /\ (s.readopen <=> r.readopen)
        /\ ~ w => ~ s.readopen /\ (s.writeopen <=> r.writeopen)
    <2>1. CASE w
      BY <1>3, <2>1 DEF PipeType
    <2>2. CASE ~ w
      BY <1>3, <2>2 DEF PipeType
    <2> QED
      BY <2>1, <2>2
  <1>5. Emptied(s) <=> ~ IsOpen(g, ~ w)
    BY <1>2, <1>4 DEF Emptied, IsOpen
  <1>6. /\ pipe' = [pipe EXCEPT ![g] = IF Emptied(s) THEN NoPipe ELSE s]
        /\ free' = IF Emptied(s) THEN free \cup {g} ELSE free
    BY <1>2, <1>3 DEF ShutEnd
  <1>7. \A a \in Pages : a # g => pipe'[a] = pipe[a]
    BY <1>1, <1>6
  <1>8. CASE Emptied(s)
    <2>1. PICK z : z = NoPipe
      OBVIOUS
    <2>2. /\ z \in PipeType /\ z.nread = 0 /\ z.nwrite = 0
          /\ z.readopen = FALSE /\ z.writeopen = FALSE
      <3>1. [i \in 0 .. PIPESIZE - 1 |-> 0] \in Rings
        BY Sizes DEF Rings
      <3> QED
        BY <2>1, <3>1, Sizes DEF NoPipe, PipeType
    <2>3. pipe'[g] = z /\ pipe' \in [Pages -> PipeType]
      BY <1>1, <1>6, <1>8, <2>1, <2>2
    <2>4. Used(g)' = 0
      <3>1. Used(g)' = Diff(0, 0)
        BY <2>2, <2>3 DEF Used, Diff
      <3> QED
        BY <3>1, Sizes, Differences
    <2>5. ~ IsOpen(g, TRUE)' /\ ~ IsOpen(g, FALSE)'
      BY <2>2, <2>3 DEF IsOpen
    <2>6. ~ IsOpen(g, w)' /\ ~ IsOpen(g, ~ w)'
      BY <2>2, <2>3 DEF IsOpen
    <2> QED
      BY <1>5, <1>6, <1>7, <1>8, <2>3, <2>4, <2>6
  <1>9. CASE ~ Emptied(s)
    <2>3. pipe'[g] = s /\ pipe' \in [Pages -> PipeType]
      BY <1>1, <1>4, <1>6, <1>9
    <2>4. Used(g)' = Used(g)
      BY <1>2, <1>4, <2>3 DEF Used
    <2>6. ~ IsOpen(g, w)' /\ (IsOpen(g, ~ w)' <=> IsOpen(g, ~ w))
      BY <1>2, <1>4, <2>3 DEF IsOpen
    <2> QED
      BY <1>2, <1>4, <1>5, <1>6, <1>7, <1>9, <2>3, <2>4, <2>6
  <1> QED
    BY <1>8, <1>9

\* pipeclose: the end is shut, its page perhaps free, and whoever waited for
\* it awake.
LEMMA pipecloseKeeps ==
  ASSUME IInv, NEW p \in Procs, pipeclose(p)
  PROVE  IInv'
  <1>0. /\ TypeOK /\ ListRight(p) /\ PlaceRight(p) /\ pc[p] = "pipeclose" /\ cur[p] # 0
        /\ UNCHANGED << ofile, file, n, todo, eof, unsaid >>
    BY Here DEF IInv, pipeclose, PlaceRight, table
  <1>1. PICK g \in Pages, w \in BOOLEAN : g = cur[p] /\ w = writable[p] /\ g \notin free
    <2>1. cur[p] \in Pages /\ cur[p] \notin free /\ writable[p] \in BOOLEAN
      BY <1>0, CurInUse, Here
    <2> QED
      BY <2>1, Zenon
  <1>2. Unlocked(g) /\ ShutEnd(g, w)
    BY <1>1 DEF pipeclose, ShutEnd
  <1>3. /\ pipe' \in [Pages -> PipeType]
        /\ \A a \in Pages : a # g => pipe'[a] = pipe[a]
        /\ ~ IsOpen(g, w)' /\ (IsOpen(g, ~ w)' <=> IsOpen(g, ~ w))
        /\ IsOpen(g, ~ w) => Used(g)' = Used(g) /\ free' = free
        /\ ~ IsOpen(g, ~ w) => Used(g)' = 0 /\ free' = free \cup {g}
    BY <1>0, <1>2, EndShut
  <1>4. /\ cur' = [cur EXCEPT ![p] = 0] /\ writable' = [writable EXCEPT ![p] = FALSE]
        /\ Ending(p, SomeLeft(p), leaving[p], Roused(p))
    BY DEF pipeclose
  <1>5. /\ cur' \in [Procs -> Pages \cup {0}] /\ cur'[p] = 0
        /\ \A q \in Procs : q # p => cur'[q] = cur[q]
        /\ writable' \in [Procs -> BOOLEAN]
        /\ \A q \in Procs : q # p => writable'[q] = writable[q]
    BY <1>0, <1>4 DEF TypeOK
  <1>6. Roused(p) = [q \in Procs |->
          IF w THEN (IF cur[q] = g /\ pc[q] = "rsleep" THEN "read" ELSE pc[q])
          ELSE (IF cur[q] = g /\ pc[q] = "wsleep" THEN "write" ELSE pc[q])]
    BY <1>1 DEF Roused, Woken
  <1>7. /\ \A q \in Procs : q # p =>
             pc'[q] = IF w THEN (IF cur[q] = g /\ pc[q] = "rsleep" THEN "read" ELSE pc[q])
                      ELSE (IF cur[q] = g /\ pc[q] = "wsleep" THEN "write" ELSE pc[q])
        /\ pc'[p] = (IF SomeLeft(p) THEN "close" ELSE IF leaving[p] THEN "unused" ELSE "run")
        /\ pc' \in [Procs -> Places]
    BY <1>0, <1>4, <1>6 DEF Ending, TypeOK, Places
  <1>8. /\ leaving' \in [Procs -> BOOLEAN] /\ killed' \in [Procs -> BOOLEAN]
        /\ leaving'[p] = (leaving[p] /\ SomeLeft(p))
        /\ \A q \in Procs : q # p => leaving'[q] = leaving[q]
    BY <1>0, <1>4 DEF Ending, TypeOK
  <1>9. TypeOK'
    <2>1. free' \subseteq Pages
      BY <1>0, <1>3 DEF TypeOK
    <2> QED
      BY <1>0, <1>3, <1>5, <1>7, <1>8, <2>1 DEF TypeOK, PipeType, Rings
  <1>10. FilesRight' /\ DescriptorsRight'
    BY <1>0, TableSame
  <1>11. \A q \in Procs : q # p => Woke(q)
    BY <1>7 DEF Woke
  <1>12. ListRight(p)' /\ PlaceRight(p)'
    <2>1. CASE SomeLeft(p)
      <3>1. pc'[p] = "close" /\ (leaving'[p] <=> leaving[p])
        BY <1>7, <1>8, <2>1
      <3>2. SomeLeft(p)'
        BY <1>0, <2>1, <3>1 DEF SomeLeft, FreeFds
      <3> QED
        BY <1>0, <1>5, <3>1, <3>2 DEF ListRight, PlaceRight, InPipe
    <2>2. CASE ~ SomeLeft(p)
      <3>1. todo[p] = << >> /\ ~ leaving'[p]
        BY <1>0, <1>8, <2>2 DEF SomeLeft, PlaceRight
      <3>2. /\ leaving[p] => pc'[p] = "unused" /\ \A d \in Fds : ofile[p][d] = 0
            /\ ~ leaving[p] => pc'[p] = "run"
        BY <1>7, <2>2 DEF SomeLeft, FreeFds
      <3> QED
        BY <1>0, <1>5, <3>1, <3>2 DEF ListRight, PlaceRight, InPipe
    <2> QED
      BY <2>1, <2>2
  <1>13. ListsRight' /\ PlacesRight'
    BY <1>0, <1>5, <1>8, <1>11, <1>12, WakesKeep
  <1>14. PagesRight'
    <2> SUFFICES ASSUME NEW a \in Pages PROVE FreeRight(a)'
      BY DEF PagesRight
    <2>1. FreeRight(a)
      BY DEF IInv, PagesRight
    <2>2. CASE a # g
      <3>1. a \in free' <=> a \in free
        BY <1>3, <2>2
      <3>2. (IsOpen(a, TRUE)' <=> IsOpen(a, TRUE)) /\ (IsOpen(a, FALSE)' <=> IsOpen(a, FALSE))
        BY <1>3, <2>2 DEF IsOpen
      <3> QED
        BY <2>1, <3>1, <3>2 DEF FreeRight
    <2>3. CASE a = g
      <3>1. g \in free' <=> ~ IsOpen(g, ~ w)'
        BY <1>1, <1>3
      <3>2. CASE w = TRUE
        <4>1. ~ IsOpen(g, TRUE)' /\ (g \in free' <=> ~ IsOpen(g, FALSE)')
          BY <1>3, <3>1, <3>2 DEF IsOpen
        <4> QED
          BY <2>3, <4>1 DEF FreeRight
      <3>3. CASE w = FALSE
        <4>1. ~ IsOpen(g, FALSE)' /\ (g \in free' <=> ~ IsOpen(g, TRUE)')
          BY <1>3, <3>1, <3>3 DEF IsOpen
        <4> QED
          BY <2>3, <4>1 DEF FreeRight
      <3> QED
        BY <3>2, <3>3
    <2> QED
      BY <2>2, <2>3
  <1>15. RingsRight'
    <2>1. \A a \in Pages : a # g => Used(a)' = Used(a)
      BY <1>3 DEF Used
    <2>2. Used(g)' = Used(g) \/ Used(g)' = 0
      BY <1>3
    <2>3. 0 <= PIPESIZE
      BY Sizes
    <2> QED
      BY <2>1, <2>2, <2>3 DEF IInv, RingsRight
  <1>16. WaitsRight'
    <2> SUFFICES ASSUME NEW q \in Procs PROVE WaitRight(q)'
      BY DEF WaitsRight
    <2>1. CASE q = p
      <3>1. pc'[p] \in {"close", "unused", "run"}
        BY <1>7
      <3> QED
        BY <2>1, <3>1 DEF WaitRight
    <2>2. CASE q # p /\ cur[q] # g
      BY <1>0, <1>3, <1>5, <1>11, <2>2, ElsewhereWaits
    <2>3. CASE q # p /\ cur[q] = g
      <3>1. WaitRight(q) /\ pc[q] \notin {"rgap", "wgap"} /\ cur'[q] = g
        BY <1>2, <1>5, <2>3, Here DEF Unlocked
      <3>2. CASE w = TRUE
        <4>1. pc'[q] \notin {"rgap", "wgap", "rsleep"} /\ (pc'[q] = "wsleep" => pc[q] = "wsleep")
          BY <1>7, <2>3, <3>1, <3>2
        <4>2. pc[q] = "wsleep" => Used(g) = PIPESIZE /\ IsOpen(g, FALSE)
          BY <2>3, <3>1 DEF WaitRight
        <4>3. IsOpen(g, FALSE) => Used(g)' = Used(g) /\ IsOpen(g, FALSE)'
          BY <1>3, <3>2 DEF IsOpen
        <4>4. Used(cur[q])' = Used(g)' /\ IsOpen(cur[q], FALSE)' = IsOpen(g, FALSE)'
          BY <3>1 DEF Used, IsOpen
        <4> QED
          BY <4>1, <4>2, <4>3, <4>4 DEF WaitRight
      <3>3. CASE w = FALSE
        <4>1. pc'[q] \notin {"rgap", "wgap", "wsleep"} /\ (pc'[q] = "rsleep" => pc[q] = "rsleep")
          BY <1>7, <2>3, <3>1, <3>3
        <4>2. pc[q] = "rsleep" => \/ Used(g) = 0 /\ IsOpen(g, TRUE)
                                  \/ g \in unsaid
          BY <2>3, <3>1 DEF WaitRight
        <4>3. IsOpen(g, TRUE) => Used(g)' = Used(g) /\ IsOpen(g, TRUE)'
          BY <1>3, <3>3 DEF IsOpen
        <4>4. Used(cur[q])' = Used(g)' /\ IsOpen(cur[q], TRUE)' = IsOpen(g, TRUE)'
          BY <3>1 DEF Used, IsOpen
        <4> QED
          BY <1>0, <3>1, <4>1, <4>2, <4>3, <4>4 DEF WaitRight
      <3> QED
        BY <3>2, <3>3
    <2> QED
      BY <2>1, <2>2, <2>3
  <1>17. EndsRight'
    <2> SUFFICES ASSUME NEW a \in Pages, NEW v \in BOOLEAN PROVE EndRight(a, v)'
      BY DEF EndsRight
    <2>1. EndRight(a, v)
      BY DEF IInv, EndsRight
    <2>2. \A x \in Files : Stands(x, a, v)' <=> Stands(x, a, v)
      BY <1>0 DEF Stands
    <2>3. ~ Shuts(p, a, v)' /\ (Shuts(p, a, v) <=> a = g /\ v = w)
      BY <1>0, <1>1, <1>7 DEF Shuts
    <2>4. \A q \in Procs : q # p => (Shuts(q, a, v)' <=> Shuts(q, a, v))
      BY <1>5, <1>7 DEF Shuts
    <2>5. CASE a = g /\ v = w
      <3>1. ~ IsOpen(a, v)'
        BY <1>3, <2>5
      <3>2. Shuts(p, a, v)
        BY <2>3, <2>5
      <3> QED
        BY <2>1, <2>2, <2>3, <2>4, <3>1, <3>2 DEF EndRight
    <2>6. CASE ~ (a = g /\ v = w)
      <3>1. IsOpen(a, v)' <=> IsOpen(a, v)
        <4>1. CASE a # g
          BY <1>3, <4>1 DEF IsOpen
        <4>2. CASE a = g
          <5>1. v = ~ w
            BY <2>6, <4>2
          <5> QED
            BY <1>3, <4>2, <5>1
        <4> QED
          BY <4>1, <4>2
      <3> QED
        BY <2>1, <2>2, <2>3, <2>4, <2>6, <3>1 DEF EndRight
    <2> QED
      BY <2>5, <2>6
  <1> QED
    BY <1>9, <1>10, <1>13, <1>14, <1>15, <1>16, <1>17 DEF IInv

\* The smaller of two numbers.
LEMMA Smaller ==
  ASSUME NEW a \in Nat, NEW b \in Nat
  PROVE  /\ Min({a, b}) \in Nat /\ Min({a, b}) <= a /\ Min({a, b}) <= b
         /\ Min({a, b}) = a \/ Min({a, b}) = b
  <1>1. Min({a, b}) \in {a, b} /\ \A x \in {a, b} : Min({a, b}) <= x
    <2>1. \E i \in {a, b} : \A j \in {a, b} : i <= j
      OBVIOUS
    <2> QED
      BY <2>1 DEF Min
  <1> QED
    BY <1>1

\* A step on one ring: which the ends of the pipe survive.
LEMMA RingsKeep ==
  ASSUME IInv, NEW p \in Procs, NEW g \in Pages,
         UNCHANGED << ofile, file, todo, free, leaving, writable >>,
         \A a \in Pages : a # g => pipe'[a] = pipe[a],
         pipe'[g].readopen = pipe[g].readopen, pipe'[g].writeopen = pipe[g].writeopen,
         Used(g)' <= PIPESIZE, pc[p] # "pipeclose", pc'[p] # "pipeclose",
         \A q \in Procs : q # p => Woke(q) /\ cur'[q] = cur[q],
         ListRight(p)', PlaceRight(p)'
  PROVE  /\ FilesRight' /\ DescriptorsRight' /\ ListsRight' /\ PlacesRight'
         /\ EndsRight' /\ PagesRight' /\ RingsRight'
  <1>1. FilesRight' /\ DescriptorsRight'
    BY TableSame
  <1>2. ListsRight' /\ PlacesRight'
    BY WakesKeep
  <1>3. \A a \in Pages : \A w : IsOpen(a, w)' = IsOpen(a, w)
    BY DEF IsOpen
  <1>4. EndsRight'
    <2>1. \A f \in Files : \A a, w : Stands(f, a, w)' <=> Stands(f, a, w)
      BY DEF Stands
    <2>2. \A q \in Procs : \A a, w : Shuts(q, a, w)' <=> Shuts(q, a, w)
      BY DEF Shuts, Woke
    <2> QED
      BY <1>3, <2>1, <2>2, EndsKeep
  <1>5. PagesRight'
    BY <1>3 DEF IInv, PagesRight, FreeRight
  <1>6. RingsRight'
    <2>1. \A a \in Pages : a # g => Used(a)' = Used(a)
      BY DEF Used
    <2> QED
      BY <2>1 DEF IInv, RingsRight
  <1> QED
    BY <1>1, <1>2, <1>4, <1>5, <1>6

\* pipewrite's loop has put k bytes into the pipe.
LEMMA PipeFilled ==
  ASSUME TypeOK, NEW g \in Pages, NEW k \in Nat, Used(g) + k <= PIPESIZE, pipe' = Filled(g, k)
  PROVE  /\ pipe' \in [Pages -> PipeType]
         /\ \A a \in Pages : a # g => pipe'[a] = pipe[a]
         /\ pipe'[g].readopen = pipe[g].readopen /\ pipe'[g].writeopen = pipe[g].writeopen
         /\ pipe'[g].nread = pipe[g].nread
         /\ pipe'[g].data = Laid(pipe[g].data, NewBytes(g, k))
         /\ Used(g)' = Used(g) + k
  <1>1. pipe \in [Pages -> PipeType] /\ pipe[g] \in PipeType
    BY DEF TypeOK, PipeType, Rings
  <1>2. PICK r \in PipeType : r = pipe[g]
    BY <1>1
  <1>3. r.nread \in Bytes /\ r.nwrite \in Bytes /\ r.data \in Rings
    BY DEF PipeType
  <1>4. k < UINT /\ Used(g) \in Nat /\ Used(g) = Diff(r.nwrite, r.nread) /\ Used(g) + k < UINT
    <2>1. Used(g) \in Nat /\ Used(g) = Diff(r.nwrite, r.nread)
      BY <1>2, UsedIs
    <2> QED
      BY <2>1, Sizes
  <1>5. \A j \in 0 .. UINT : (r.nwrite + j) % UINT \in Bytes
    BY <1>3, Differences
  <1>6. NewBytes(g, k) \subseteq Bytes
    <2>1. 0 .. k - 1 \subseteq 0 .. UINT
      BY <1>4, Sizes
    <2> QED
      BY <1>2, <1>5, <2>1 DEF NewBytes
  <1>7. PICK dat \in Rings : dat = Laid(r.data, NewBytes(g, k))
    <2>1. DOMAIN r.data = 0 .. PIPESIZE - 1
      BY <1>3 DEF Rings
    <2>2. \A i : (\E b \in NewBytes(g, k) : Slot(b) = i) =>
                 (CHOOSE b \in NewBytes(g, k) : Slot(b) = i) \in Bytes
      BY <1>6
    <2>3. \A i \in 0 .. PIPESIZE - 1 : r.data[i] \in Bytes
      BY <1>3 DEF Rings
    <2>4. Laid(r.data, NewBytes(g, k)) \in Rings
      BY <2>1, <2>2, <2>3 DEF Rings, Laid
    <2> QED
      BY <2>4, Zenon
  <1>8. PICK m \in Bytes : m = (r.nwrite + k) % UINT
    <2>1. k \in 0 .. UINT
      BY <1>4, Sizes
    <2>2. (r.nwrite + k) % UINT \in Bytes
      BY <1>5, <2>1
    <2> QED
      BY <2>2, Zenon
  <1>9. PICK s : s = [r EXCEPT !.nwrite = m, !.data = dat]
    OBVIOUS
  <1>10. /\ s \in PipeType /\ s.nread = r.nread /\ s.nwrite = m /\ s.data = dat
         /\ s.readopen = r.readopen /\ s.writeopen = r.writeopen
    BY <1>7, <1>9 DEF PipeType
  <1>11. pipe' = [a \in Pages |-> IF a = g THEN s ELSE pipe[a]]
    BY <1>1, <1>2, <1>7, <1>8, <1>9 DEF Filled
  <1>12. pipe'[g] = s /\ \A a \in Pages : a # g => pipe'[a] = pipe[a]
    BY <1>11
  <1>13. pipe' \in [Pages -> PipeType]
    BY <1>1, <1>10, <1>11
  <1>14. Used(g)' = Used(g) + k
    <2>1. Used(g)' = Diff(m, r.nread)
      BY <1>10, <1>12 DEF Used, Diff
    <2>2. Diff(m, r.nread) = Diff(r.nwrite, r.nread) + k
      <3>1. \A j \in Nat : Diff(r.nwrite, r.nread) + j < UINT =>
              Diff((r.nwrite + j) % UINT, r.nread) = Diff(r.nwrite, r.nread) + j
        BY <1>3, Differences
      <3> QED
        BY <1>4, <1>8, <3>1
    <2> QED
      BY <1>4, <2>1, <2>2
  <1> QED
    BY <1>2, <1>7, <1>10, <1>12, <1>13, <1>14

\* piperead has taken k bytes out of the pipe.
Takes(g, k) == pipe' = [pipe EXCEPT ![g].nread = (pipe[g].nread + k) % UINT]
LEMMA PipeDrained ==
  ASSUME TypeOK, NEW g \in Pages, NEW k \in Nat, k <= Used(g), Takes(g, k)
  PROVE  /\ pipe' \in [Pages -> PipeType]
         /\ \A a \in Pages : a # g => pipe'[a] = pipe[a]
         /\ pipe'[g].readopen = pipe[g].readopen /\ pipe'[g].writeopen = pipe[g].writeopen
         /\ pipe'[g].nread = (pipe[g].nread + k) % UINT /\ pipe'[g].data = pipe[g].data
         /\ Used(g)' = Used(g) - k
  <1>1. pipe \in [Pages -> PipeType] /\ pipe[g] \in PipeType
    BY DEF TypeOK, PipeType, Rings
  <1>2. PICK r \in PipeType : r = pipe[g]
    BY <1>1
  <1>3. r.nread \in Bytes /\ r.nwrite \in Bytes
    BY DEF PipeType
  <1>4. Used(g) \in Bytes /\ Used(g) = Diff(r.nwrite, r.nread) /\ k \in 0 .. UINT
    <2>1. Used(g) \in Bytes /\ Used(g) = Diff(r.nwrite, r.nread)
      BY <1>2, <1>3, UsedIs, Differences
    <2> QED
      BY <2>1, Sizes
  <1>5. PICK m \in Bytes : m = (r.nread + k) % UINT
    BY <1>3, <1>4, Differences
  <1>6. PICK s : s = [r EXCEPT !.nread = m]
    OBVIOUS
  <1>7. /\ s \in PipeType /\ s.nread = m /\ s.nwrite = r.nwrite /\ s.data = r.data
        /\ s.readopen = r.readopen /\ s.writeopen = r.writeopen
    BY <1>6 DEF PipeType
  <1>8. pipe' = [a \in Pages |-> IF a = g THEN s ELSE pipe[a]]
    BY <1>1, <1>2, <1>5, <1>6 DEF Takes
  <1>9. pipe'[g] = s /\ \A a \in Pages : a # g => pipe'[a] = pipe[a]
    BY <1>8
  <1>10. pipe' \in [Pages -> PipeType]
    BY <1>1, <1>7, <1>8
  <1>11. Used(g)' = Used(g) - k
    <2>1. Used(g)' = Diff(r.nwrite, m)
      BY <1>7, <1>9 DEF Used, Diff
    <2>2. Diff(r.nwrite, m) = Diff(r.nwrite, r.nread) - k
      <3>1. \A j \in Nat : j <= Diff(r.nwrite, r.nread) =>
              Diff(r.nwrite, (r.nread + j) % UINT) = Diff(r.nwrite, r.nread) - j
        BY <1>3, Differences
      <3> QED
        BY <1>4, <1>5, <3>1
    <2> QED
      BY <1>4, <2>1, <2>2
  <1> QED
    BY <1>2, <1>5, <1>7, <1>9, <1>10, <1>11

\* pipewrite: it goes to sleep only over a ring it has filled.
LEMMA pipewriteKeeps ==
  ASSUME IInv, NEW p \in Procs, pipewrite(p)
  PROVE  IInv'
  <1>0. /\ TypeOK /\ ListRight(p) /\ PlaceRight(p) /\ pc[p] = "write" /\ cur[p] # 0
        /\ UNCHANGED << ofile, file, free, writable, todo, leaving, killed, eof >>
        /\ ~ leaving[p] /\ todo[p] = << >> /\ HasOpen(p) /\ n[p] \in 0 .. MaxN
    BY Here DEF IInv, pipewrite, PlaceRight, ListRight, InPipe, table
  <1>1. PICK g \in Pages : g = cur[p] /\ Unlocked(g)
    BY <1>0, CurInUse DEF pipewrite
  <1>2. Used(g) \in Nat /\ Used(g) <= PIPESIZE /\ Room(g) \in Nat /\ Room(g) = PIPESIZE - Used(g)
    <2>1. Used(g) \in Nat /\ Used(g) <= PIPESIZE
      BY <1>0, UsedIs DEF IInv, RingsRight
    <2> QED
      BY <2>1, Sizes DEF Room
  <1>3. n[p] \in Nat /\ n[p] <= MaxN /\ MaxN \in Nat
    BY <1>0, Sizes
  <1>4. PICK k \in Nat : /\ k = Min({n[p], Room(g)}) /\ k <= n[p] /\ k <= Room(g)
                         /\ (k = n[p] \/ k = Room(g))
    BY <1>2, <1>3, Smaller
  <1> DEFINE over == k = n[p]
             stop == ~ over /\ (~ pipe[g].readopen \/ killed[p])
  <1>5. /\ pipe' = Filled(g, k)
        /\ n' = [n EXCEPT ![p] = IF over \/ stop THEN 0 ELSE @ - k]
        /\ pc' = [(IF stop THEN pc ELSE Woken(g, "rsleep", "read"))
                   EXCEPT ![p] = IF over \/ stop THEN "run" ELSE "wgap"]
        /\ cur' = [cur EXCEPT ![p] = IF over \/ stop THEN 0 ELSE @]
        /\ unsaid' = IF stop THEN unsaid \cup {g} ELSE unsaid
    BY <1>1, <1>4 DEF pipewrite
  <1>6. /\ pipe' \in [Pages -> PipeType]
        /\ \A a \in Pages : a # g => pipe'[a] = pipe[a]
        /\ pipe'[g].readopen = pipe[g].readopen /\ pipe'[g].writeopen = pipe[g].writeopen
        /\ Used(g)' = Used(g) + k
    <2>1. Used(g) + k <= PIPESIZE
      BY <1>2, <1>4, Sizes
    <2> QED
      BY <1>0, <1>5, <2>1, PipeFilled
  <1>s. stop => ~ over
    OBVIOUS
  <1>w. ~ over /\ ~ stop => k = Room(g) /\ pipe[g].readopen
    BY <1>4
  <1> HIDE DEF over, stop
  <1>7. /\ n' \in [Procs -> 0 .. MaxN]
        /\ cur' \in [Procs -> Pages \cup {0}] /\ cur'[p] = (IF over \/ stop THEN 0 ELSE cur[p])
        /\ \A q \in Procs : q # p => cur'[q] = cur[q]
    <2>1. n[p] - k \in 0 .. MaxN /\ 0 \in 0 .. MaxN
      BY <1>3, <1>4
    <2>2. n' \in [Procs -> 0 .. MaxN]
      BY <1>0, <1>5, <2>1 DEF TypeOK
    <2> QED
      BY <1>0, <1>5, <2>2 DEF TypeOK
  <1>8. /\ pc' \in [Procs -> Places]
        /\ pc'[p] = (IF over \/ stop THEN "run" ELSE "wgap")
        /\ \A q \in Procs : q # p =>
             pc'[q] = IF ~ stop /\ cur[q] = g /\ pc[q] = "rsleep" THEN "read" ELSE pc[q]
    <2>1. CASE stop
      BY <1>0, <1>5, <2>1 DEF TypeOK, Places
    <2>2. CASE ~ stop
      <3>1. Woken(g, "rsleep", "read") =
              [q \in Procs |-> IF cur[q] = g /\ pc[q] = "rsleep" THEN "read" ELSE pc[q]]
        BY DEF Woken
      <3> QED
        BY <1>0, <1>5, <2>2, <3>1 DEF TypeOK, Places
    <2> QED
      BY <2>1, <2>2
  <1>9. TypeOK'
    BY <1>0, <1>6, <1>7, <1>8 DEF TypeOK, PipeType, Rings
  <1>10. \A q \in Procs : q # p => Woke(q)
    BY <1>8 DEF Woke
  <1>11. ListRight(p)' /\ PlaceRight(p)'
    <2>1. CASE over \/ stop
      <3>1. pc'[p] = "run" /\ cur'[p] = 0
        BY <1>7, <1>8, <2>1
      <3> QED
        BY <1>0, <3>1 DEF ListRight, PlaceRight, InPipe
    <2>2. CASE ~ (over \/ stop)
      <3>1. pc'[p] = "wgap" /\ cur'[p] = cur[p]
        BY <1>7, <1>8, <2>2
      <3>2. HasOpen(p)'
        BY <1>0, <3>1 DEF HasOpen, Writing
      <3> QED
        BY <1>0, <3>1, <3>2 DEF ListRight, PlaceRight, InPipe
    <2> QED
      BY <2>1, <2>2
  <1>12. /\ FilesRight' /\ DescriptorsRight' /\ ListsRight' /\ PlacesRight'
         /\ EndsRight' /\ PagesRight' /\ RingsRight'
    <2>1. Used(g)' <= PIPESIZE
      BY <1>2, <1>4, <1>6, Sizes
    <2>2. pc[p] # "pipeclose" /\ pc'[p] # "pipeclose"
      BY <1>0, <1>8
    <2> QED
      BY <1>0, <1>6, <1>7, <1>10, <1>11, <2>1, <2>2, RingsKeep
  <1>13. WaitsRight'
    <2> SUFFICES ASSUME NEW q \in Procs PROVE WaitRight(q)'
      BY DEF WaitsRight
    <2>0. \A a : cur'[q] = a => /\ Used(cur[q])' = Used(a)'
                                /\ IsOpen(cur[q], TRUE)' = IsOpen(a, TRUE)'
                                /\ IsOpen(cur[q], FALSE)' = IsOpen(a, FALSE)'
      BY DEF Used, IsOpen
    <2>1. CASE q = p
      <3>1. CASE over \/ stop
        BY <1>8, <2>1, <3>1 DEF WaitRight
      <3>2. CASE ~ (over \/ stop)
        <4>1. pc'[q] = "wgap" /\ cur'[q] = g
          BY <1>1, <1>7, <1>8, <2>1, <3>2
        <4>2. Used(g)' = PIPESIZE
          BY <1>2, <1>6, <1>w, <3>2, Sizes
        <4>3. IsOpen(g, FALSE)'
          BY <1>6, <1>w, <3>2 DEF IsOpen
        <4> QED
          BY <2>0, <4>1, <4>2, <4>3 DEF WaitRight
      <3> QED
        BY <3>1, <3>2
    <2>2. CASE q # p /\ cur[q] # g
      <3>1. unsaid \subseteq unsaid'
        BY <1>5
      <3> QED
        BY <1>6, <1>7, <1>10, <2>2, <3>1, ElsewhereWaits
    <2>3. CASE q # p /\ cur[q] = g
      <3>1. WaitRight(q) /\ pc[q] \notin {"rgap", "wgap"} /\ cur'[q] = g
        BY <1>1, <1>7, <2>3, Here DEF Unlocked
      <3>2. /\ pc'[q] \notin {"rgap", "wgap"} /\ (pc'[q] = "wsleep" => pc[q] = "wsleep")
            /\ pc'[q] = "rsleep" => stop
        BY <1>8, <2>3, <3>1
      <3>3. stop => g \in unsaid'
        BY <1>5
      <3>4. pc[q] = "wsleep" => Used(g)' = PIPESIZE /\ IsOpen(g, FALSE)'
        <4>1. SUFFICES ASSUME pc[q] = "wsleep" PROVE Used(g)' = PIPESIZE /\ IsOpen(g, FALSE)'
          OBVIOUS
        <4>2. Used(g) = PIPESIZE /\ IsOpen(g, FALSE)
          BY <2>3, <3>1, <4>1 DEF WaitRight
        <4>3. Used(g)' = PIPESIZE
          BY <1>2, <1>4, <1>6, <4>2, Sizes
        <4>4. IsOpen(g, FALSE)'
          BY <1>6, <4>2 DEF IsOpen
        <4> QED
          BY <4>3, <4>4
      <3> QED
        BY <2>0, <3>1, <3>2, <3>3, <3>4 DEF WaitRight
    <2> QED
      BY <2>1, <2>2, <2>3
  <1> QED
    BY <1>9, <1>12, <1>13 DEF IInv

\* piperead: it goes to sleep only over an empty ring with a writer.
LEMMA pipereadKeeps ==
  ASSUME IInv, NEW p \in Procs, piperead(p)
  PROVE  IInv'
  <1>0. /\ TypeOK /\ ListRight(p) /\ PlaceRight(p) /\ pc[p] = "read" /\ cur[p] # 0
        /\ UNCHANGED << ofile, file, free, n, writable, todo, leaving, killed, unsaid >>
        /\ ~ leaving[p] /\ todo[p] = << >> /\ HasOpen(p)
    BY Here DEF IInv, piperead, PlaceRight, ListRight, InPipe, table
  <1>1. PICK g \in Pages : g = cur[p] /\ Unlocked(g)
    BY <1>0, CurInUse DEF piperead
  <1>2. Used(g) \in Nat /\ Used(g) <= PIPESIZE
    BY <1>0, UsedIs DEF IInv, RingsRight
  <1>3. PICK k \in Nat : /\ k <= Used(g) /\ Used(g)' = Used(g) - k
                         /\ \A a \in Pages : a # g => pipe'[a] = pipe[a]
                         /\ pipe'[g].readopen = pipe[g].readopen
                         /\ pipe'[g].writeopen = pipe[g].writeopen
                         /\ pipe' \in [Pages -> PipeType]
                         /\ MustWait(g) => k = 0
    <2>1. CASE MustWait(g)
      <3>1. pipe' = pipe
        BY <1>1, <2>1 DEF piperead
      <3>2. Used(g)' = Used(g) /\ 0 <= Used(g) /\ Used(g) = Used(g) - 0
        BY <1>2, <3>1 DEF Used
      <3>3. pipe' \in [Pages -> PipeType]
        BY <1>0, <3>1 DEF TypeOK, PipeType, Rings
      <3>4. Used(g)' = Used(g) - 0 /\ 0 \in Nat
        BY <3>2
      <3> QED
        BY <3>1, <3>2, <3>3, <3>4, Zenon
    <2>2. CASE ~ MustWait(g)
      <3>1. PICK m \in 1 .. MaxN :
              pipe' = [pipe EXCEPT ![g].nread = (@ + Min({m, Used(g)})) % UINT]
        BY <1>1, <2>2 DEF piperead
      <3>2. PICK k \in Nat : k = Min({m, Used(g)}) /\ k <= Used(g)
        BY <1>2, Smaller, Sizes
      <3>3. Takes(g, k)
        BY <3>1, <3>2 DEF Takes
      <3>4. /\ pipe' \in [Pages -> PipeType]
            /\ \A a \in Pages : a # g => pipe'[a] = pipe[a]
            /\ pipe'[g].readopen = pipe[g].readopen /\ pipe'[g].writeopen = pipe[g].writeopen
            /\ Used(g)' = Used(g) - k
        BY <1>0, <3>2, <3>3, PipeDrained
      <3> QED
        BY <2>2, <3>2, <3>4, Zenon
    <2> QED
      BY <2>1, <2>2
  <1>4. /\ pc' \in [Procs -> Places] /\ cur' \in [Procs -> Pages \cup {0}]
        /\ \/ pc'[p] = "rgap" /\ cur'[p] = cur[p] /\ MustWait(g)
           \/ pc'[p] = "run" /\ cur'[p] = 0
        /\ \A q \in Procs : q # p =>
             /\ cur'[q] = cur[q] /\ Woke(q)
             /\ ~ MustWait(g) /\ cur[q] = g => pc'[q] # "wsleep"
    <2>1. CASE MustWait(g)
      BY <1>0, <1>1, <2>1 DEF piperead, TypeOK, Places, Woke
    <2>2. CASE ~ MustWait(g)
      <3>1. Freed(p) = [q \in Procs |->
              IF cur[q] = g /\ pc[q] = "wsleep" THEN "write" ELSE pc[q]]
        BY <1>1 DEF Freed, Woken
      <3>2. pc' = [Freed(p) EXCEPT ![p] = "run"] /\ cur' = [cur EXCEPT ![p] = 0]
        BY <1>1, <2>2 DEF piperead
      <3>3. \A q \in Procs : q # p =>
              pc'[q] = IF cur[q] = g /\ pc[q] = "wsleep" THEN "write" ELSE pc[q]
        BY <3>1, <3>2
      <3>4. pc'[p] = "run" /\ pc' \in [Procs -> Places]
        BY <1>0, <3>1, <3>2 DEF TypeOK, Places
      <3>5. cur'[p] = 0 /\ cur' \in [Procs -> Pages \cup {0}]
            /\ \A q \in Procs : q # p => cur'[q] = cur[q]
        BY <1>0, <3>2 DEF TypeOK
      <3> QED
        BY <3>3, <3>4, <3>5 DEF Woke
    <2> QED
      BY <2>1, <2>2
  <1>5. TypeOK'
    BY <1>0, <1>3, <1>4 DEF TypeOK, PipeType, Rings
  <1>6. ListRight(p)' /\ PlaceRight(p)'
    <2>1. CASE pc'[p] = "run" /\ cur'[p] = 0
      BY <1>0, <2>1 DEF ListRight, PlaceRight, InPipe
    <2>2. CASE pc'[p] = "rgap" /\ cur'[p] = cur[p]
      <3>1. (pc'[p] \in Writing) = (pc[p] \in Writing)
        BY <1>0, <2>2 DEF Writing
      <3>2. HasOpen(p)'
        BY <1>0, <2>2, <3>1 DEF HasOpen
      <3> QED
        BY <1>0, <2>2, <3>2 DEF ListRight, PlaceRight, InPipe
    <2> QED
      BY <1>4, <2>1, <2>2
  <1>7. /\ FilesRight' /\ DescriptorsRight' /\ ListsRight' /\ PlacesRight'
        /\ EndsRight' /\ PagesRight' /\ RingsRight'
    <2>1. Used(g)' <= PIPESIZE
      BY <1>2, <1>3, Sizes
    <2>2. pc[p] # "pipeclose" /\ pc'[p] # "pipeclose"
      BY <1>0, <1>4
    <2> QED
      BY <1>0, <1>3, <1>4, <1>6, <2>1, <2>2, RingsKeep
  <1>8. WaitsRight'
    <2> SUFFICES ASSUME NEW q \in Procs PROVE WaitRight(q)'
      BY DEF WaitsRight
    <2>0. \A a : cur'[q] = a => /\ Used(cur[q])' = Used(a)'
                                /\ IsOpen(cur[q], TRUE)' = IsOpen(a, TRUE)'
                                /\ IsOpen(cur[q], FALSE)' = IsOpen(a, FALSE)'
      BY DEF Used, IsOpen
    <2>e. IsOpen(g, TRUE)' = IsOpen(g, TRUE) /\ IsOpen(g, FALSE)' = IsOpen(g, FALSE)
      BY <1>3 DEF IsOpen
    <2>1. CASE q = p
      <3>1. CASE pc'[p] = "run"
        BY <2>1, <3>1 DEF WaitRight
      <3>2. CASE pc'[p] = "rgap" /\ cur'[p] = cur[p] /\ MustWait(g)
        <4>1. Used(g)' = 0
          BY <1>3, <3>2 DEF MustWait
        <4>2. IsOpen(g, TRUE)'
          BY <2>e, <3>2 DEF MustWait, IsOpen
        <4>3. cur'[q] = g
          BY <1>1, <2>1, <3>2
        <4> QED
          BY <2>0, <2>1, <3>2, <4>1, <4>2, <4>3 DEF WaitRight
      <3> QED
        BY <1>4, <3>1, <3>2
    <2>2. CASE q # p /\ cur[q] # g
      BY <1>0, <1>3, <1>4, <2>2, ElsewhereWaits
    <2>3. CASE q # p /\ cur[q] = g
      <3>1. /\ WaitRight(q) /\ pc[q] \notin {"rgap", "wgap"} /\ cur'[q] = g /\ Woke(q)
            /\ ~ MustWait(g) => pc'[q] # "wsleep"
        BY <1>1, <1>4, <2>3, Here DEF Unlocked
      <3>2. /\ pc'[q] \notin {"rgap", "wgap"} /\ (pc'[q] = "wsleep" => pc[q] = "wsleep")
            /\ pc'[q] = "rsleep" => pc[q] = "rsleep"
        BY <3>1 DEF Woke
      <3>3. pc'[q] = "wsleep" => Used(g)' = PIPESIZE /\ IsOpen(g, FALSE)'
        <4>1. SUFFICES ASSUME pc'[q] = "wsleep" PROVE FALSE
          OBVIOUS
        <4>2. Used(g) = PIPESIZE
          BY <2>3, <3>1, <3>2, <4>1 DEF WaitRight
        <4>3. Used(g) = 0
          BY <3>1, <4>1 DEF MustWait
        <4> QED
          BY <4>2, <4>3, Sizes
      <3>4. pc'[q] = "rsleep" => \/ Used(g)' = 0 /\ IsOpen(g, TRUE)'
                                 \/ g \in unsaid'
        <4>1. pc'[q] = "rsleep" => \/ Used(g) = 0 /\ IsOpen(g, TRUE)
                                   \/ g \in unsaid
          BY <2>3, <3>1, <3>2 DEF WaitRight
        <4>2. Used(g) = 0 => Used(g)' = 0
          BY <1>2, <1>3
        <4> QED
          BY <1>0, <2>e, <4>1, <4>2
      <3> QED
        BY <2>0, <3>1, <3>2, <3>3, <3>4 DEF WaitRight
    <2> QED
      BY <2>1, <2>2, <2>3
  <1> QED
    BY <1>5, <1>7, <1>8 DEF IInv

-----------------------------------------------------------------------------
(* The theorems.                                                            *)

\* The invariant holds at the start.
LEMMA InitKeeps == Init => IInv
  <1> SUFFICES ASSUME Init PROVE IInv
    OBVIOUS
  <1> USE DEF Init
  <1>1. TypeOK
    <2>1. pipe \in [Pages -> PipeType]
      <3>1. [i \in 0 .. PIPESIZE - 1 |-> 0] \in Rings
        BY Sizes DEF Rings
      <3>2. NoPipe \in PipeType
        BY <3>1, Sizes DEF NoPipe, PipeType
      <3> QED
        BY <3>2
    <2>2. file \in [Files -> FileType]
      BY DEF NoFile, FileType
    <2>3. /\ todo \in [Procs -> Seq(Files)] /\ n \in [Procs -> 0 .. MaxN]
          /\ ofile \in [Procs -> [Fds -> Files \cup {0}]]
      BY Sizes
    <2>4. pc \in [Procs -> Places]
      BY DEF Places
    <2> QED
      BY <2>1, <2>2, <2>3, <2>4 DEF TypeOK, PipeType, FileType, Rings
  <1>2. FilesRight
    <2> SUFFICES ASSUME NEW f \in Files PROVE FileRight(f)
      BY DEF FilesRight
    <2>1. Descriptors(f) = {}
      <3>1. \A p \in Procs, d \in Fds : ofile[p][d] # f
        BY NoFileZero
      <3> QED
        BY <3>1 DEF Descriptors
    <2>2. Pending(f) = {}
      <3>1. \A p \in Procs : Len(todo[p]) = 0
        OBVIOUS
      <3> QED
        BY <3>1 DEF Pending
    <2>3. Cardinality({}) = 0
      BY FS_EmptySet
    <2> QED
      BY <2>1, <2>2, <2>3 DEF FileRight, NoFile
  <1>3. DescriptorsRight
    BY DEF DescriptorsRight, DescriptorRight
  <1>4. ListsRight
    <2> SUFFICES ASSUME NEW p \in Procs PROVE ListRight(p)
      BY DEF ListsRight
    <2>1. todo[p] = << >> /\ Len(todo[p]) = 0 /\ pc[p] \in {"run", "unused"}
      OBVIOUS
    <2> QED
      BY <2>1 DEF ListRight
  <1>5. PlacesRight
    <2> SUFFICES ASSUME NEW p \in Procs PROVE PlaceRight(p)
      BY DEF PlacesRight
    <2>1. /\ pc[p] \in {"run", "unused"} /\ cur[p] = 0 /\ ~ leaving[p]
          /\ \A d \in Fds : ofile[p][d] = 0
      OBVIOUS
    <2> QED
      BY <2>1 DEF PlaceRight, InPipe
  <1>6. \A g \in Pages : ~ IsOpen(g, TRUE) /\ ~ IsOpen(g, FALSE)
    BY DEF IsOpen, NoPipe
  <1>7. EndsRight
    <2> SUFFICES ASSUME NEW g \in Pages, NEW w \in BOOLEAN PROVE EndRight(g, w)
      BY DEF EndsRight
    <2>1. \A f \in Files : ~ Stands(f, g, w)
      BY PipeAssumption DEF Stands, NoFile
    <2>2. \A p \in Procs : ~ Shuts(p, g, w)
      BY DEF Shuts
    <2>3. ~ IsOpen(g, w)
      BY <1>6
    <2> QED
      BY <2>1, <2>2, <2>3 DEF EndRight
  <1>8. PagesRight
    BY <1>6 DEF PagesRight, FreeRight
  <1>9. RingsRight
    <2> SUFFICES ASSUME NEW g \in Pages PROVE Used(g) <= PIPESIZE
      BY DEF RingsRight
    <2>1. Used(g) = Diff(0, 0)
      BY DEF Used, Diff, NoPipe
    <2>2. Used(g) = 0
      BY <2>1, Sizes, Differences
    <2> QED
      BY <2>2, Sizes
  <1>10. WaitsRight
    BY DEF WaitsRight, WaitRight
  <1> QED
    BY <1>1, <1>2, <1>3, <1>4, <1>5, <1>7, <1>8, <1>9, <1>10 DEF IInv

\* Every step keeps the invariant.
LEMMA NextKeeps == IInv /\ [Next]_vars => IInv'
  <1> SUFFICES ASSUME IInv, [Next]_vars PROVE IInv'
    OBVIOUS
  <1>1. ASSUME NEW p \in Procs, Kernel(p) PROVE IInv'
    BY <1>1, filecloseKeeps, pipealloc1Keeps, pipealloc2Keeps, pipecloseKeeps,
       pipewriteKeeps, pipereadKeeps, sleepKeeps DEF Kernel
  <1>2. ASSUME NEW p \in Procs, sys_close(p) \/ sys_dup(p) \/ sys_pipe(p) PROVE IInv'
    BY <1>2, sys_closeKeeps, sys_dupKeeps, sys_pipeKeeps
  <1>3. ASSUME NEW p \in Procs, sys_read(p) \/ sys_write(p) \/ exit(p) \/ kill(p) PROVE IInv'
    BY <1>3, enterKeeps, exitKeeps, killKeeps
  <1>4. ASSUME NEW p \in Procs, NEW q \in Procs, fork(p, q) PROVE IInv'
    BY <1>4, forkKeeps
  <1>5. CASE UNCHANGED vars
    <2>u. UNCHANGED << ofile, file, pipe, free, pc, cur, n, writable, todo, leaving, killed,
                       eof, unsaid >>
      BY <1>5 DEF vars, table, local
    <2>1. TypeOK'
      BY <2>u DEF IInv, TypeOK
    <2>2. FilesRight' /\ DescriptorsRight'
      BY <2>u, TableSame
    <2>3. PagesRight' /\ RingsRight' /\ WaitsRight'
      BY <2>u, QuietKeeps
    <2>4. EndsRight'
      BY <2>u, EndsSame
    <2>5. ListsRight' /\ PlacesRight'
      BY <2>u DEF IInv, ListsRight, PlacesRight, ListRight, PlaceRight, HasOpen, SomeLeft,
                  FreeFds, Fresh
    <2> QED
      BY <2>1, <2>2, <2>3, <2>4, <2>5 DEF IInv
  <1> QED
    BY <1>1, <1>2, <1>3, <1>4, <1>5 DEF Next

\* What has at most one element has none or one.
LEMMA AtMostOne ==
  ASSUME NEW S, \A x, y \in S : x = y
  PROVE  Cardinality(S) = IF S = {} THEN 0 ELSE 1
  <1>1. CASE S = {}
    BY <1>1, FS_EmptySet
  <1>2. CASE S # {}
    <2>1. PICK x : S = {x}
      BY <1>2
    <2> QED
      BY <1>2, <2>1, FS_Singleton
  <1> QED
    BY <1>1, <1>2

\* The invariant implies that references and pages are right.
LEMMA RightLives == IInv => PipeLives
  <1> SUFFICES ASSUME IInv PROVE PipeLives
    OBVIOUS
  <1>1. \A f \in Files : file[f].ref = Cardinality(Descriptors(f)) + Cardinality(Pending(f))
    BY DEF IInv, FilesRight, FileRight
  <1>2. ASSUME NEW g \in Pages, NEW w \in BOOLEAN
        PROVE  (IF w THEN pipe[g].writeopen ELSE pipe[g].readopen) <=>
                 Cardinality({f \in Files : file[f].pipe = g /\ file[f].writable = w})
                 + Cardinality({p \in Procs : pc[p] = "pipeclose" /\ cur[p] = g
                                              /\ writable[p] = w}) = 1
    <2> DEFINE S == {f \in Files : file[f].pipe = g /\ file[f].writable = w}
               T == {p \in Procs : pc[p] = "pipeclose" /\ cur[p] = g /\ writable[p] = w}
    <2>1. EndRight(g, w)
      BY DEF IInv, EndsRight
    <2>2. /\ IsOpen(g, w) <=> S # {} \/ T # {}
          /\ \A x, y \in S : x = y
          /\ \A x, y \in T : x = y
          /\ S = {} \/ T = {}
      BY <2>1 DEF EndRight, Stands, Shuts
    <2> HIDE DEF S, T
    <2>3. /\ Cardinality(S) = IF S = {} THEN 0 ELSE 1
          /\ Cardinality(T) = IF T = {} THEN 0 ELSE 1
      BY <2>2, AtMostOne
    <2>4. IsOpen(g, w) <=> Cardinality(S) + Cardinality(T) = 1
      BY <2>2, <2>3
    <2> QED
      BY <2>4 DEF IsOpen, S, T
  <1>3. \A g \in Pages : g \in free <=> ~ pipe[g].readopen /\ ~ pipe[g].writeopen
    BY DEF IInv, PagesRight, FreeRight, IsOpen
  <1>4. \A p \in Procs : cur[p] # 0 => cur[p] \notin free
    BY CurInUse
  <1> QED
    BY <1>1, <1>2, <1>3, <1>4 DEF PipeLives, IInv

\* The invariant implies that nobody sleeps over work.
LEMMA RightWakes == IInv => NoLostWakeup
  <1> SUFFICES ASSUME IInv, NEW p \in Procs
               PROVE  /\ pc[p] = "wsleep" => Room(cur[p]) = 0 /\ pipe[cur[p]].readopen
                      /\ pc[p] = "rsleep" => \/ Used(cur[p]) = 0 /\ pipe[cur[p]].writeopen
                                             \/ cur[p] \in unsaid
    BY DEF NoLostWakeup
  <1>1. WaitRight(p)
    BY Here
  <1>2. Used(cur[p]) = PIPESIZE => Room(cur[p]) = 0
    BY Sizes DEF Room
  <1> QED
    BY <1>1, <1>2 DEF WaitRight, IsOpen

\* The inductive invariant, for every system of processes, files and pages.
THEOREM Invariance == Spec => []IInv
  BY InitKeeps, NextKeeps, PTL DEF Spec

\* In a system with any number of processes, files and pages, every file is
\* counted as often as descriptors and running calls refer to it, an end of a
\* pipe is open exactly while one file stands for it or one call is about to
\* close it, and nobody works on a page that has been given back, whatever
\* pipe, dup, fork, close, exit, read, write and kill do to each other.
THEOREM PipesLive == Spec => []PipeLives
  <1>1. Spec => []IInv
    BY Invariance
  <1> QED
    BY <1>1, RightLives, PTL

\* For every size of the ring and of its counters, a process sleeps in
\* pipewrite only over a full ring with a reader, and in piperead only over an
\* empty ring with a writer, or over one a killed writer left without a word.
THEOREM NoWakeupLost == Spec => []NoLostWakeup
  <1>1. Spec => []IInv
    BY Invariance
  <1> QED
    BY <1>1, RightWakes, PTL

-----------------------------------------------------------------------------
(* The ring is a queue.                                                     *)

\* The slot of a counter that has wrapped.
LEMMA SlotWraps ==
  ASSUME NEW x \in Int, NEW y \in Int, y = x \/ y = x - UINT
  PROVE  y % PIPESIZE = x % PIPESIZE
  <1>1. PICK P \in Nat \ {0} : P = PIPESIZE
    BY Sizes
  <1>2. PICK m \in Nat : UINT = m * P
    <2>1. UINT \in Int /\ UINT % P = 0 /\ UINT > 0
      BY <1>1, Sizes, PipeAssumption
    <2>2. PICK m \in Int : UINT = m * P + (UINT % P)
      BY <2>1, Rest
    <2>3. m * P \in Int /\ (m < 0 => m * P < 0 * P)
      BY Times
    <2>4. UINT = m * P /\ m \in Nat
      BY <2>1, <2>2, <2>3
    <2> QED
      BY <2>4
  <1>3. CASE y = x
    BY <1>3
  <1>4. CASE y = x - UINT
    <2>1. y = x - m * P
      BY <1>2, <1>4
    <2>2. (x - m * P) % P = x % P
      BY RestShifts
    <2> QED
      BY <1>1, <2>1, <2>2
  <1> QED
    BY <1>3, <1>4

\* The next k bytes of the pipe r.
Row(r, k) == [i \in 1 .. k |-> r.data[(r.nread + i - 1) % PIPESIZE]]

\* Functions on 1 .. k are sequences.
LEMMA FunSeq ==
  ASSUME NEW S, NEW k \in Nat, NEW s \in [1 .. k -> S]
  PROVE  s \in Seq(S) /\ Len(s) = k
  OBVIOUS

\* The row is a sequence of bytes.
LEMMA RowIs ==
  ASSUME NEW r \in PipeType, NEW k \in Nat
  PROVE  /\ Row(r, k) \in Seq(Bytes) /\ Len(Row(r, k)) = k
         /\ \A i \in 1 .. k : Row(r, k)[i] = r.data[(r.nread + i - 1) % PIPESIZE]
         /\ \A x \in Int : r.data[x % PIPESIZE] \in Bytes
  <1>1. r.data \in Rings /\ r.nread \in Nat
    BY Sizes DEF PipeType
  <1>2. \A x \in Int : x % PIPESIZE \in 0 .. PIPESIZE - 1
    BY Rest, Sizes
  <1>3. \A x \in Int : r.data[x % PIPESIZE] \in Bytes
    BY <1>1, <1>2 DEF Rings
  <1>4. \A i \in 1 .. k : r.nread + i - 1 \in Int
    BY <1>1
  <1>5. Row(r, k) \in [1 .. k -> Bytes]
    BY <1>3, <1>4 DEF Row
  <1>6. Row(r, k) \in Seq(Bytes) /\ Len(Row(r, k)) = k
    BY <1>5, FunSeq
  <1> QED
    BY <1>3, <1>6 DEF Row

\* Taking k of u bytes.
LEMMA RowShifts ==
  ASSUME NEW r \in PipeType, NEW s \in PipeType, NEW u \in Nat, NEW k \in Nat, k <= u, u < UINT,
         s.data = r.data, s.nread = (r.nread + k) % UINT
  PROVE  Row(s, u - k) = SubSeq(Row(r, u), k + 1, u)
  <1>0. u - k \in Nat /\ r.nread \in Nat /\ r.nread < UINT /\ s.nread \in Nat /\ UINT \in Nat \ {0}
    BY Sizes DEF PipeType
  <1>1. /\ Row(s, u - k) \in Seq(Bytes) /\ Len(Row(s, u - k)) = u - k
        /\ \A i \in 1 .. u - k : Row(s, u - k)[i] = s.data[(s.nread + i - 1) % PIPESIZE]
    BY <1>0, RowIs
  <1>2. /\ Row(r, u) \in Seq(Bytes) /\ Len(Row(r, u)) = u
        /\ \A i \in 1 .. u : Row(r, u)[i] = r.data[(r.nread + i - 1) % PIPESIZE]
    BY RowIs
  <1>3. PICK t : t = SubSeq(Row(r, u), k + 1, u)
    OBVIOUS
  <1>4. /\ t \in Seq(Bytes) /\ Len(t) = u - k
        /\ \A i \in 1 .. u - k : t[i] = Row(r, u)[k + i]
    <2>1. k + 1 \in Int /\ u \in Int /\ \A i \in k + 1 .. u : Row(r, u)[i] \in Bytes
      BY <1>2, ElementOfSeq
    <2>2. /\ SubSeq(Row(r, u), k + 1, u) \in Seq(Bytes)
          /\ Len(SubSeq(Row(r, u), k + 1, u)) = IF k + 1 <= u THEN u - (k + 1) + 1 ELSE 0
          /\ \A i \in 1 .. u - (k + 1) + 1 :
               SubSeq(Row(r, u), k + 1, u)[i] = Row(r, u)[(k + 1) + i - 1]
      BY <2>1, SubSeqProperties
    <2>3. u - (k + 1) + 1 = u - k /\ (~ (k + 1 <= u) => u - k = 0)
      OBVIOUS
    <2>4. \A i \in 1 .. u - k : (k + 1) + i - 1 = k + i
      OBVIOUS
    <2>5. t \in Seq(Bytes) /\ Len(t) = u - k
      BY <1>3, <2>2, <2>3
    <2>6. \A i \in 1 .. u - k : t[i] = Row(r, u)[k + i]
      BY <1>3, <2>2, <2>3, <2>4
    <2> QED
      BY <2>5, <2>6
  <1>5. ASSUME NEW i \in 1 .. u - k PROVE Row(s, u - k)[i] = t[i]
    <2>1. k + i \in 1 .. u
      OBVIOUS
    <2>2. t[i] = r.data[(r.nread + (k + i) - 1) % PIPESIZE]
      BY <1>2, <1>4, <2>1
    <2>3. PICK x \in Int, y \in Int : /\ x = r.nread + (k + i) - 1 /\ y = s.nread + i - 1
                                      /\ (y = x \/ y = x - UINT)
      <3>1. s.nread = IF r.nread + k < UINT THEN r.nread + k ELSE r.nread + k - UINT
        <4>1. PICK a \in 0 .. 2 * UINT - 1 : a = r.nread + k
          BY <1>0
        <4>2. a % UINT = IF a < UINT THEN a ELSE a - UINT
          BY <1>0, Wraps
        <4>3. s.nread = a % UINT
          BY <4>1, Zenon
        <4> QED
          BY <1>0, <4>1, <4>2, <4>3
      <3>2. s.nread = r.nread + k \/ s.nread = r.nread + k - UINT
        BY <3>1
      <3> QED
        BY <1>0, <3>2
    <2>4. y % PIPESIZE = x % PIPESIZE
      BY <2>3, SlotWraps
    <2> QED
      BY <1>1, <2>2, <2>3, <2>4
  <1>6. Row(s, u - k) = t
    BY <1>1, <1>4, <1>5, SeqEqual
  <1> QED
    BY <1>3, <1>6

\* Adding k bytes to u.
Adds(r, s, u, k, new) ==
  /\ u + k <= PIPESIZE /\ u = Diff(r.nwrite, r.nread) /\ s.nread = r.nread
  /\ new = {(r.nwrite + i) % UINT : i \in 0 .. k - 1}
  /\ s.data = Laid(r.data, new)
LEMMA RowGrows ==
  ASSUME NEW r \in PipeType, NEW s \in PipeType, NEW u \in Nat, NEW k \in Nat, NEW new,
         Adds(r, s, u, k, new)
  PROVE  \E t \in [1 .. k -> Bytes] : Row(s, u + k) = Row(r, u) \o t
  <1>a. /\ u + k <= PIPESIZE /\ u = Diff(r.nwrite, r.nread) /\ s.nread = r.nread
        /\ new = {(r.nwrite + i) % UINT : i \in 0 .. k - 1}
        /\ s.data = Laid(r.data, new)
    BY DEF Adds
  <1>0. /\ u + k \in Nat /\ r.nread \in Nat /\ r.nread < UINT /\ UINT \in Nat \ {0}
        /\ r.nwrite \in Nat /\ r.nwrite < UINT /\ PIPESIZE \in Nat \ {0} /\ PIPESIZE < UINT
        /\ r.nread \in Bytes /\ r.nwrite \in Bytes
    BY Sizes DEF PipeType
  <1>1. /\ Row(s, u + k) \in Seq(Bytes) /\ Len(Row(s, u + k)) = u + k
        /\ \A i \in 1 .. u + k : Row(s, u + k)[i] = s.data[(r.nread + i - 1) % PIPESIZE]
    <2>1. /\ Row(s, u + k) \in Seq(Bytes) /\ Len(Row(s, u + k)) = u + k
          /\ \A i \in 1 .. u + k : Row(s, u + k)[i] = s.data[(s.nread + i - 1) % PIPESIZE]
      BY <1>0, RowIs, Zenon
    <2> QED
      BY <1>a, <2>1
  <1>2. /\ Row(r, u) \in Seq(Bytes) /\ Len(Row(r, u)) = u
        /\ \A i \in 1 .. u : Row(r, u)[i] = r.data[(r.nread + i - 1) % PIPESIZE]
    BY RowIs
  <1>3. r.nwrite = r.nread + u \/ r.nwrite = r.nread + u - UINT
    <2>1. u = IF r.nread <= r.nwrite THEN r.nwrite - r.nread ELSE r.nwrite + UINT - r.nread
      BY <1>0, <1>a, Differences
    <2> QED
      BY <1>0, <2>1
  \* The slots of the new bytes are none of those that are in use.
  <1>4. ASSUME NEW i \in 1 .. u, NEW j \in 0 .. k - 1
        PROVE  Slot((r.nwrite + j) % UINT) # (r.nread + i - 1) % PIPESIZE
    <2>1. PICK x \in Int, y \in Int : x = r.nread + i - 1 /\ y = r.nread + u + j
      BY <1>0
    <2>2. x < y /\ y < x + PIPESIZE
      BY <1>0, <1>a, <2>1
    <2>3. x % PIPESIZE # y % PIPESIZE
      BY <1>0, <2>2, RestsDiffer
    <2>4. PICK z \in Int : z = r.nwrite + j /\ (z = y \/ z = y - UINT) /\ z \in 0 .. 2 * UINT - 1
      BY <1>0, <1>a, <1>3, <2>1
    <2>5. PICK v \in Int : v = z % UINT /\ (v = z \/ v = z - UINT)
      <3>1. z % UINT = IF z < UINT THEN z ELSE z - UINT
        BY <1>0, <2>4, Wraps
      <3> QED
        BY <1>0, <3>1
    <2>6. z % PIPESIZE = y % PIPESIZE
      BY <2>4, SlotWraps
    <2>7. v % PIPESIZE = z % PIPESIZE
      BY <2>5, SlotWraps
    <2>8. Slot((r.nwrite + j) % UINT) = v % PIPESIZE
      BY <2>4, <2>5 DEF Slot
    <2> QED
      BY <2>1, <2>3, <2>6, <2>7, <2>8
  <1>5. ASSUME NEW i \in 1 .. u
        PROVE  s.data[(r.nread + i - 1) % PIPESIZE] = r.data[(r.nread + i - 1) % PIPESIZE]
    <2>0. PICK y \in Int : y = r.nread + i - 1
      BY <1>0
    <2>1. PICK x \in 0 .. PIPESIZE - 1 : x = (r.nread + i - 1) % PIPESIZE
      BY <1>0, <2>0, Rest
    <2>2. ~ \E b \in new : Slot(b) = x
      BY <1>a, <1>4, <2>1
    <2>3. DOMAIN r.data = 0 .. PIPESIZE - 1
      BY DEF PipeType, Rings
    <2>4. Laid(r.data, new)[x] = r.data[x]
      BY <2>2, <2>3 DEF Laid
    <2> QED
      BY <1>a, <2>1, <2>4
  <1>6. PICK t : t = [j \in 1 .. k |-> s.data[(r.nread + (u + j) - 1) % PIPESIZE]]
    OBVIOUS
  <1>7. t \in [1 .. k -> Bytes] /\ t \in Seq(Bytes) /\ Len(t) = k
    <2>1. \A x \in Int : s.data[x % PIPESIZE] \in Bytes
      BY RowIs
    <2>2. t \in [1 .. k -> Bytes]
      <3>1. \A j \in 1 .. k : r.nread + (u + j) - 1 \in Int
        BY <1>0
      <3> QED
        BY <1>6, <2>1, <3>1
    <2> QED
      BY <2>2, FunSeq
  <1>8. PICK c : c = Row(r, u) \o t
    OBVIOUS
  <1>9. /\ c \in Seq(Bytes) /\ Len(c) = u + k
        /\ \A i \in 1 .. u + k : c[i] = IF i <= u THEN Row(r, u)[i] ELSE t[i - u]
    <2>1. PICK a \in Seq(Bytes) : a = Row(r, u) /\ Len(a) = u
      BY <1>2
    <2>2. /\ a \o t \in Seq(Bytes) /\ Len(a \o t) = Len(a) + Len(t)
          /\ \A i \in 1 .. Len(a) + Len(t) :
               (a \o t)[i] = IF i <= Len(a) THEN a[i] ELSE t[i - Len(a)]
      BY <1>7, ConcatProperties, Zenon
    <2> QED
      BY <1>7, <1>8, <2>1, <2>2
  <1>10. ASSUME NEW i \in 1 .. u + k PROVE Row(s, u + k)[i] = c[i]
    <2>1. CASE i <= u
      <3>1. i \in 1 .. u
        BY <2>1
      <3>2. c[i] = r.data[(r.nread + i - 1) % PIPESIZE]
        BY <1>2, <1>9, <2>1, <3>1
      <3> QED
        BY <1>1, <1>5, <3>1, <3>2
    <2>2. CASE ~ (i <= u)
      <3>1. i - u \in 1 .. k /\ u + (i - u) = i
        BY <2>2
      <3>2. c[i] = t[i - u]
        BY <1>9, <2>2
      <3>3. t[i - u] = s.data[(r.nread + i - 1) % PIPESIZE]
        BY <1>6, <3>1
      <3> QED
        BY <1>1, <3>2, <3>3
    <2> QED
      BY <2>1, <2>2
  <1>11. Row(s, u + k) = c
    BY <1>1, <1>9, <1>10, SeqEqual
  <1> QED
    BY <1>7, <1>8, <1>11

\* The bytes that wait are the row of all bytes in use.
LEMMA WaitingIs ==
  ASSUME NEW g
  PROVE  Waiting(g) = Row(pipe[g], Used(g)) /\ Waiting(g)' = Row(pipe'[g], Used(g)')
  BY DEF Waiting, Row

\* A step on one pipe.
LEMMA OneQueue ==
  ASSUME NEW g \in Pages,
         \A a \in Pages : a # g => pipe'[a] = pipe[a] /\ (a \in free' <=> a \in free)
  PROVE  /\ \A x : Queue'[g] = x => Queue' = [Queue EXCEPT ![g] = x]
         /\ \A x : Ends'[g] = x => Ends' = [Ends EXCEPT ![g] = x]
  <1>1. \A a \in Pages : a # g => Waiting(a)' = Waiting(a)
    BY DEF Waiting, Used
  <1>2. \A a \in Pages : a # g => Queue'[a] = Queue[a] /\ Ends'[a] = Ends[a]
    BY <1>1 DEF Queue, Ends
  <1>3. /\ Queue = [a \in Pages |-> Queue[a]] /\ Queue' = [a \in Pages |-> Queue'[a]]
        /\ Ends = [a \in Pages |-> Ends[a]] /\ Ends' = [a \in Pages |-> Ends'[a]]
    BY DEF Queue, Ends
  <1> QED
    BY <1>2, <1>3

\* The abstract queue and ends of a pipe.
LEMMA QueueIs ==
  ASSUME NEW g \in Pages
  PROVE  /\ Queue[g] = IF g \in free THEN << >> ELSE Row(pipe[g], Used(g))
         /\ Queue'[g] = IF g \in free' THEN << >> ELSE Row(pipe'[g], Used(g)')
         /\ "r" \in Ends[g] <=> IsOpen(g, FALSE)
         /\ "w" \in Ends[g] <=> IsOpen(g, TRUE)
         /\ Ends[g] \subseteq {"r", "w"} /\ Ends'[g] \subseteq {"r", "w"}
         /\ "r" \in Ends'[g] <=> IsOpen(g, FALSE)'
         /\ "w" \in Ends'[g] <=> IsOpen(g, TRUE)'
  BY WaitingIs DEF Queue, Ends, IsOpen

\* The abstract end of file of one pipe is set or cleared.
LEMMA EndedIs ==
  ASSUME NEW g \in Pages, NEW b \in BOOLEAN,
         \A a \in Pages : a \in eof' <=> IF a = g THEN b ELSE a \in eof
  PROVE  Ended' = [Ended EXCEPT ![g] = b]
  <1>1. [Ended EXCEPT ![g] = b] = [a \in Pages |-> IF a = g THEN b ELSE a \in eof]
    BY DEF Ended
  <1>2. \A a \in Pages : (a \in eof') = (IF a = g THEN b ELSE a \in eof)
    OBVIOUS
  <1>3. [a \in Pages |-> a \in eof'] = [a \in Pages |-> IF a = g THEN b ELSE a \in eof]
    BY <1>2
  <1> QED
    BY <1>1, <1>3 DEF Ended

\* A step that leaves pipes, pages and the ends of files alone.
LEMMA NothingMoves ==
  ASSUME UNCHANGED << pipe, free, eof >>
  PROVE  UNCHANGED Abstract!vars
  BY DEF Abstract!vars, Queue, Ends, Ended, Waiting, Used

\* A pipe that is made is opened.
LEMMA pipealloc2Refines ==
  ASSUME IInv, NEW p \in Procs, pipealloc2(p)
  PROVE  Abstract!Next \/ UNCHANGED Abstract!vars
  <1>1. CASE UNCHANGED << pipe, free, eof >>
    BY <1>1, NothingMoves
  <1>2. ASSUME NEW g \in free, Makes(g), eof' = eof \ {g} PROVE Abstract!Next
    <2>0. g \in Pages /\ free' = free \ {g}
      BY <1>2 DEF IInv, TypeOK, Makes
    <2>1. /\ pipe' \in [Pages -> PipeType] /\ pipe'[g].nread = 0 /\ pipe'[g].nwrite = 0
          /\ pipe'[g].readopen = TRUE /\ pipe'[g].writeopen = TRUE
          /\ \A a \in Pages : a # g => pipe'[a] = pipe[a]
      BY <1>2, <2>0, PipeMade
    <2>2. Ends[g] = {}
      <3>1. ~ IsOpen(g, TRUE) /\ ~ IsOpen(g, FALSE)
        BY <1>2, <2>0 DEF IInv, PagesRight, FreeRight
      <3> QED
        BY <2>0, <3>1, QueueIs
    <2>3. Ends'[g] = {"r", "w"}
      BY <2>0, <2>1 DEF Ends
    <2>4. Queue'[g] = << >>
      <3>1. Used(g)' = Diff(0, 0)
        BY <2>1 DEF Used, Diff
      <3>2. Used(g)' = 0
        BY <3>1, Sizes, Differences
      <3>3. pipe'[g] \in PipeType
        BY <2>0, <2>1
      <3>4. Row(pipe'[g], 0) \in Seq(Bytes) /\ Len(Row(pipe'[g], 0)) = 0
        BY <3>3, RowIs
      <3>5. Row(pipe'[g], 0) = << >>
        BY <3>4, EmptySeq
      <3> QED
        BY <2>0, <3>2, <3>5, QueueIs
    <2>5. Ended' = [Ended EXCEPT ![g] = FALSE]
      <3>1. \A a \in Pages : a \in eof' <=> IF a = g THEN FALSE ELSE a \in eof
        BY <1>2
      <3> QED
        BY <2>0, <3>1, EndedIs
    <2>6. /\ Queue' = [Queue EXCEPT ![g] = << >>]
          /\ Ends' = [Ends EXCEPT ![g] = {"r", "w"}]
      BY <2>0, <2>1, <2>3, <2>4, OneQueue
    <2>7. Abstract!Open(g)
      BY <2>2, <2>5, <2>6 DEF Abstract!Open
    <2> QED
      BY <2>0, <2>7 DEF Abstract!Next
  <1> QED
    BY <1>1, <1>2 DEF pipealloc2, Makes

\* An end that is shut is closed.
LEMMA pipecloseRefines ==
  ASSUME IInv, NEW p \in Procs, pipeclose(p)
  PROVE  Abstract!Next
  <1>0. TypeOK /\ pc[p] = "pipeclose" /\ cur[p] # 0 /\ UNCHANGED eof /\ writable[p] \in BOOLEAN
    BY Here DEF IInv, pipeclose, PlaceRight
  <1>1. PICK g \in Pages, w \in BOOLEAN :
          g = cur[p] /\ w = writable[p] /\ g \notin free /\ IsOpen(g, w)
    <2>1. cur[p] \in Pages /\ cur[p] \notin free /\ IsOpen(cur[p], writable[p])
      BY <1>0, CurInUse
    <2> QED
      BY <1>0, <2>1, Zenon
  <1>2. ShutEnd(g, w)
    BY <1>1 DEF pipeclose, ShutEnd
  <1>3. /\ \A a \in Pages : a # g => pipe'[a] = pipe[a]
        /\ ~ IsOpen(g, w)' /\ (IsOpen(g, ~ w)' <=> IsOpen(g, ~ w))
        /\ IsOpen(g, ~ w) => Used(g)' = Used(g) /\ free' = free
        /\ ~ IsOpen(g, ~ w) => free' = free \cup {g}
        /\ IsOpen(g, ~ w) => /\ pipe'[g].data = pipe[g].data
                             /\ pipe'[g].nread = pipe[g].nread
    BY <1>0, <1>2, EndShut
  <1>4. PICK e \in {"r", "w"}, o \in {"r", "w"} :
          /\ e # o /\ (e \in Ends[g] <=> IsOpen(g, w)) /\ (o \in Ends[g] <=> IsOpen(g, ~ w))
          /\ (e \in Ends'[g] <=> IsOpen(g, w)') /\ (o \in Ends'[g] <=> IsOpen(g, ~ w)')
    <2>1. CASE w = TRUE
      <3>1. /\ "w" # "r" /\ ("w" \in Ends[g] <=> IsOpen(g, w)) /\ ("r" \in Ends[g] <=> IsOpen(g, ~ w))
            /\ ("w" \in Ends'[g] <=> IsOpen(g, w)') /\ ("r" \in Ends'[g] <=> IsOpen(g, ~ w)')
        BY <2>1 DEF Ends, IsOpen
      <3> QED
        BY <3>1
    <2>2. CASE w = FALSE
      <3>1. /\ "w" # "r" /\ ("r" \in Ends[g] <=> IsOpen(g, w)) /\ ("w" \in Ends[g] <=> IsOpen(g, ~ w))
            /\ ("r" \in Ends'[g] <=> IsOpen(g, w)') /\ ("w" \in Ends'[g] <=> IsOpen(g, ~ w)')
        BY <2>2 DEF Ends, IsOpen
      <3> QED
        BY <3>1
    <2> QED
      BY <2>1, <2>2
  <1>5. e \in Ends[g] /\ Ends'[g] = Ends[g] \ {e} /\ (Ends[g] = {e} <=> ~ IsOpen(g, ~ w))
    <2>1. Ends[g] \subseteq {"r", "w"} /\ Ends'[g] \subseteq {"r", "w"}
      BY DEF Ends
    <2> QED
      BY <1>1, <1>3, <1>4, <2>1
  <1>6. \A a \in Pages : a # g => pipe'[a] = pipe[a] /\ (a \in free' <=> a \in free)
    BY <1>3
  <1>7. Ends' = [Ends EXCEPT ![g] = Ends[g] \ {e}]
    BY <1>5, <1>6, OneQueue
  <1>8. Queue' = IF Ends[g] = {e} THEN [Queue EXCEPT ![g] = << >>] ELSE Queue
    <2>1. CASE IsOpen(g, ~ w)
      <3>1. Row(pipe'[g], Used(g)') = Row(pipe[g], Used(g))
        BY <1>3, <2>1 DEF Row
      <3>2. Queue'[g] = Queue[g]
        BY <1>3, <2>1, <3>1, QueueIs
      <3>3. Queue' = [Queue EXCEPT ![g] = Queue[g]]
        BY <1>6, <3>2, OneQueue
      <3>4. Queue' = Queue
        BY <3>3 DEF Queue
      <3> QED
        BY <1>5, <2>1, <3>4
    <2>2. CASE ~ IsOpen(g, ~ w)
      <3>1. Queue'[g] = << >>
        BY <1>3, <2>2, QueueIs
      <3>2. Queue' = [Queue EXCEPT ![g] = << >>]
        BY <1>6, <3>1, OneQueue
      <3> QED
        BY <1>5, <2>2, <3>2
    <2> QED
      BY <2>1, <2>2
  <1>9. Ended' = Ended
    BY <1>0 DEF Ended
  <1>10. Abstract!Close(g, e)
    BY <1>5, <1>7, <1>8, <1>9 DEF Abstract!Close
  <1> QED
    BY <1>5, <1>10 DEF Abstract!Next

\* Bytes put into the ring are written, if any fit.
LEMMA pipewriteRefines ==
  ASSUME IInv, NEW p \in Procs, pipewrite(p)
  PROVE  Abstract!Next \/ UNCHANGED Abstract!vars
  <1>0. /\ TypeOK /\ pc[p] = "write" /\ cur[p] # 0 /\ UNCHANGED << free, eof >>
        /\ n[p] \in Nat
    BY Here, Sizes DEF IInv, pipewrite, PlaceRight, InPipe
  <1>1. PICK g \in Pages : g = cur[p] /\ g \notin free /\ IsOpen(g, TRUE)
    BY <1>0, CurInUse DEF Writing
  <1>2. Used(g) \in Nat /\ Used(g) <= PIPESIZE /\ Room(g) \in Nat /\ Room(g) = PIPESIZE - Used(g)
    <2>1. Used(g) \in Nat /\ Used(g) <= PIPESIZE
      BY <1>0, UsedIs DEF IInv, RingsRight
    <2> QED
      BY <2>1, Sizes DEF Room
  <1>3. PICK k \in Nat : k = Min({n[p], Room(g)}) /\ k <= Room(g)
    BY <1>0, <1>2, Smaller
  <1>4. pipe' = Filled(g, k)
    BY <1>1, <1>3 DEF pipewrite
  <1>5. PICK u \in Nat : u = Used(g) /\ u + k <= PIPESIZE
    BY <1>2, <1>3, Sizes
  <1>6. /\ pipe' \in [Pages -> PipeType]
        /\ \A a \in Pages : a # g => pipe'[a] = pipe[a]
        /\ pipe'[g].readopen = pipe[g].readopen /\ pipe'[g].writeopen = pipe[g].writeopen
        /\ pipe'[g].nread = pipe[g].nread
        /\ pipe'[g].data = Laid(pipe[g].data, NewBytes(g, k))
        /\ Used(g)' = u + k
    BY <1>0, <1>4, <1>5, PipeFilled
  <1>7. PICK r \in PipeType, s \in PipeType : r = pipe[g] /\ s = pipe'[g]
    BY <1>0, <1>6 DEF TypeOK, PipeType, Rings
  <1>8. PICK t \in [1 .. k -> Bytes] : Row(s, u + k) = Row(r, u) \o t
    <2>1. u = Diff(r.nwrite, r.nread)
      BY <1>0, <1>5, <1>7, UsedIs
    <2>2. PICK new : new = NewBytes(g, k) /\ new = {(r.nwrite + i) % UINT : i \in 0 .. k - 1}
      BY <1>7 DEF NewBytes
    <2>3. s.data = Laid(r.data, new) /\ s.nread = r.nread
      BY <1>6, <1>7, <2>2
    <2> QED
      <3>1. Adds(r, s, u, k, new)
        BY <1>5, <2>1, <2>2, <2>3 DEF Adds
      <3> QED
        BY <3>1, RowGrows
  <1>9. Queue[g] = Row(r, u) /\ Queue'[g] = Row(s, u + k) /\ Len(Queue[g]) = u
    <2>1. Queue[g] = Row(pipe[g], Used(g)) /\ Queue'[g] = Row(pipe'[g], Used(g)')
      BY <1>0, <1>1, QueueIs
    <2>2. Len(Row(r, u)) = u
      BY RowIs
    <2> QED
      BY <1>5, <1>6, <1>7, <2>1, <2>2
  <1>10. Queue' = [Queue EXCEPT ![g] = Queue[g] \o t]
    BY <1>0, <1>6, <1>8, <1>9, OneQueue
  <1>11. Ends' = Ends /\ Ended' = Ended
    BY <1>0, <1>6 DEF Ends, Ended
  <1>12. CASE k = 0
    <2>1. Queue[g] \in Seq(Bytes) /\ t \in Seq(Bytes) /\ Len(t) = 0
      BY <1>9, <1>12, RowIs, FunSeq
    <2>2. t = << >>
      BY <2>1, EmptySeq
    <2>3. Queue[g] \o t = Queue[g]
      BY <2>1, <2>2, ConcatEmptySeq
    <2>4. Queue' = Queue
      BY <1>10, <2>3 DEF Queue
    <2> QED
      BY <1>11, <2>4 DEF Abstract!vars
  <1>13. CASE k # 0
    <2>1. k \in 1 .. PIPESIZE - Len(Queue[g])
      BY <1>2, <1>3, <1>5, <1>9, <1>13, Sizes
    <2>2. "w" \in Ends[g]
      BY <1>1, QueueIs
    <2>3. Abstract!Write(g)
      BY <1>10, <1>11, <2>1, <2>2 DEF Abstract!Write
    <2> QED
      BY <2>3 DEF Abstract!Next
  <1> QED
    BY <1>12, <1>13

\* Bytes taken out of it are read; none from an empty one without a writer is
\* its end.
LEMMA pipereadRefines ==
  ASSUME IInv, NEW p \in Procs, piperead(p)
  PROVE  Abstract!Next \/ UNCHANGED Abstract!vars
  <1>0. TypeOK /\ pc[p] = "read" /\ cur[p] # 0 /\ UNCHANGED free
    BY Here DEF IInv, piperead, PlaceRight, InPipe
  <1>1. PICK g \in Pages : g = cur[p] /\ g \notin free /\ IsOpen(g, FALSE)
    BY <1>0, CurInUse DEF Reading
  <1>2. CASE MustWait(g)
    <2>1. UNCHANGED << pipe, free, eof >>
      BY <1>0, <1>1, <1>2 DEF piperead
    <2> QED
      BY <2>1, NothingMoves
  <1>3. CASE ~ MustWait(g)
    <2>1. PICK u \in Nat : u = Used(g) /\ u < UINT
      <3>1. Used(g) \in Nat /\ Used(g) <= PIPESIZE
        BY <1>0, UsedIs DEF IInv, RingsRight
      <3> QED
        BY <3>1, Sizes
    <2>2. PICK m \in 1 .. MaxN :
            pipe' = [pipe EXCEPT ![g].nread = (@ + Min({m, Used(g)})) % UINT]
      BY <1>1, <1>3 DEF piperead
    <2>3. PICK k \in Nat : k = Min({m, Used(g)}) /\ k <= u /\ (k = m \/ k = u)
      BY <2>1, Smaller, Sizes
    <2>4. Takes(g, k) /\ k <= Used(g)
      BY <2>1, <2>2, <2>3 DEF Takes
    <2>5. /\ pipe' \in [Pages -> PipeType]
          /\ \A a \in Pages : a # g => pipe'[a] = pipe[a]
          /\ pipe'[g].readopen = pipe[g].readopen /\ pipe'[g].writeopen = pipe[g].writeopen
          /\ pipe'[g].nread = (pipe[g].nread + k) % UINT /\ pipe'[g].data = pipe[g].data
          /\ Used(g)' = u - k
      BY <1>0, <2>1, <2>4, PipeDrained
    <2>6. PICK r \in PipeType, s \in PipeType : r = pipe[g] /\ s = pipe'[g]
      BY <1>0, <2>5 DEF TypeOK, PipeType, Rings
    <2>7. Row(s, u - k) = SubSeq(Row(r, u), k + 1, u)
      <3>1. s.data = r.data /\ s.nread = (r.nread + k) % UINT
        BY <2>5, <2>6
      <3> QED
        BY <2>1, <2>3, <3>1, RowShifts, ZenonT(60)
    <2>8. /\ Queue[g] = Row(r, u) /\ Queue'[g] = Row(s, u - k)
          /\ Len(Queue[g]) = u /\ Queue[g] \in Seq(Bytes)
      <3>1. Queue[g] = Row(pipe[g], Used(g)) /\ Queue'[g] = Row(pipe'[g], Used(g)')
        BY <1>0, <1>1, QueueIs
      <3>2. Len(Row(r, u)) = u /\ Row(r, u) \in Seq(Bytes)
        BY RowIs
      <3> QED
        BY <2>1, <2>5, <2>6, <3>1, <3>2
    <2>9. Queue' = [Queue EXCEPT ![g] = SubSeq(Queue[g], k + 1, Len(Queue[g]))]
      BY <1>0, <2>5, <2>7, <2>8, OneQueue
    <2>10. Ends' = Ends
      BY <2>5 DEF Ends
    <2>11. eof' = IF Used(g) = 0 THEN eof \cup {g} ELSE eof
      BY <1>1, <1>3 DEF piperead
    <2>12. CASE u = 0
      <3>1. Queue[g] = << >>
        BY <2>8, <2>12, EmptySeq
      <3>2. Queue' = Queue
        <4>1. k = 0
          BY <2>3, <2>12
        <4>2. SubSeq(Queue[g], k + 1, Len(Queue[g])) = << >>
          BY <2>8, <2>12, <4>1, SubSeqEmpty
        <4> QED
          BY <2>9, <3>1, <4>2 DEF Queue
      <3>3. Ends[g] = {"r"}
        <4>1. ~ IsOpen(g, TRUE)
          <5>1. Used(g) = 0
            BY <2>1, <2>12
          <5> QED
            BY <1>3, <5>1 DEF MustWait, IsOpen
        <4>2. "r" \in Ends[g] /\ "w" \notin Ends[g] /\ Ends[g] \subseteq {"r", "w"}
          BY <1>1, <4>1, QueueIs
        <4> QED
          BY <4>2
      <3>4. Ended' = [Ended EXCEPT ![g] = TRUE]
        <4>1. \A a \in Pages : a \in eof' <=> IF a = g THEN TRUE ELSE a \in eof
          BY <2>1, <2>11, <2>12
        <4> QED
          BY <4>1, EndedIs
      <3>5. Abstract!ReadEnd(g)
        BY <2>10, <3>1, <3>2, <3>3, <3>4 DEF Abstract!ReadEnd
      <3> QED
        BY <3>5 DEF Abstract!Next
    <2>13. CASE u # 0
      <3>1. k \in 1 .. Len(Queue[g])
        BY <2>1, <2>3, <2>8, <2>13, Sizes
      <3>2. "r" \in Ends[g]
        BY <1>1, QueueIs
      <3>3. Ended' = Ended
        BY <2>1, <2>11, <2>13 DEF Ended
      <3>4. Abstract!Read(g)
        BY <2>9, <2>10, <3>1, <3>2, <3>3 DEF Abstract!Read
      <3> QED
        BY <3>4 DEF Abstract!Next
    <2> QED
      BY <2>12, <2>13
  <1> QED
    BY <1>2, <1>3

\* Pages that are no pipes are closed pipes.
LEMMA InitRefines == Init => Abstract!Init
  <1> SUFFICES ASSUME Init PROVE Abstract!Init
    OBVIOUS
  <1>1. Queue = [g \in Pages |-> << >>]
    BY DEF Init, Queue
  <1>2. Ends = [g \in Pages |-> {}]
    BY DEF Init, Ends, NoPipe
  <1>3. Ended = [g \in Pages |-> FALSE]
    <2>1. \A g \in Pages : (g \in eof) = FALSE
      BY DEF Init
    <2> QED
      BY <2>1 DEF Ended
  <1> QED
    BY <1>1, <1>2, <1>3 DEF Abstract!Init

\* Every step is a step of BytePipe or moves nothing it sees.
LEMMA NextRefines == IInv /\ [Next]_vars => [Abstract!Next]_Abstract!vars
  <1> SUFFICES ASSUME IInv, [Next]_vars PROVE Abstract!Next \/ UNCHANGED Abstract!vars
    OBVIOUS
  <1>1. ASSUME NEW p \in Procs, Kernel(p) PROVE Abstract!Next \/ UNCHANGED Abstract!vars
    <2>1. CASE fileclose(p) \/ pipealloc1(p) \/ sleep(p)
      <3>1. UNCHANGED << pipe, free, eof >>
        BY <2>1 DEF fileclose, pipealloc1, sleep
      <3> QED
        BY <3>1, NothingMoves
    <2> QED
      BY <1>1, <2>1, pipealloc2Refines, pipecloseRefines, pipewriteRefines, pipereadRefines
         DEF Kernel
  <1>2. ASSUME NEW p \in Procs,
               \/ sys_close(p) \/ sys_dup(p) \/ sys_pipe(p) \/ sys_read(p) \/ sys_write(p)
               \/ exit(p) \/ kill(p) \/ \E q \in Procs : fork(p, q)
        PROVE  UNCHANGED Abstract!vars
    <2>1. UNCHANGED << pipe, free, eof >>
      BY <1>2 DEF sys_close, sys_dup, sys_pipe, sys_read, sys_write, EnterPipe, exit, kill, fork
    <2> QED
      BY <2>1, NothingMoves
  <1>3. CASE UNCHANGED vars
    <2>1. UNCHANGED << pipe, free, eof >>
      BY <1>3 DEF vars
    <2> QED
      BY <2>1, NothingMoves
  <1> QED
    BY <1>1, <1>2, <1>3 DEF Next

\* The pipe of pipe.c, a ring of PIPESIZE bytes with counters that wrap, locks
\* and sleepers, implements BytePipe for every size of the ring: bytes come
\* out in the order they went in, and the end of the file is reported only
\* when no end for writing is open and every byte has been read.
THEOREM RingIsAByteStream == Spec => ImplementsBytePipe
  <1>1. Spec => []IInv
    BY Invariance
  <1> QED
    BY <1>1, InitRefines, NextRefines, PTL DEF Spec, ImplementsBytePipe, Abstract!Spec
=============================================================================
