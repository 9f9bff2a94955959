--------------------------------- MODULE Fs ---------------------------------
(***************************************************************************)
(* Inodes, directories and path names of xv6 (fs.c) and the system calls   *)
(* on them (sysfile.c), with processes that call them at the same time.    *)
(* A step goes from one ilock() or one use of icache.lock to the next: an  *)
(* inode that is locked and unlocked by one step is locked by nobody       *)
(* between steps.  The contents of files are left out, those of a          *)
(* directory are its entries; an inode has at most one slot in the cache   *)
(* (iget scans it under icache.lock), so slots are named by inode numbers. *)
(***************************************************************************)
EXTENDS Integers, Sequences, FiniteSets

CONSTANTS
  Procs,      \* processes
  NInodes,    \* inodes on the disk, 1 is the root
  Names,      \* names of entries other than . and ..
  Calls,      \* the calls the processes make: [kind, path, new], where
              \* path and new (of link) are [abs, elems]
  Tree,       \* Tree[i]: the inodes at the start, FreeInode or in use
  Cwd,        \* Cwd[p]: the current directories at the start
  MaxCalls    \* bound: calls made

Inums == 1 .. NInodes
Root == 1

NoEntries == [n \in Names |-> 0]
FreeInode == [type |-> "none", nlink |-> 0, entries |-> NoEntries, up |-> 0]

Inode == [type : {"none", "dir", "file"}, nlink : Int,
          entries : [Names -> Inums \cup {0}], up : Inums \cup {0}]

\* The names of the inode i on the disk d, the directories in it, and the links
\* it has when nothing is under way.
Entries(d, i) == {e \in Inums \X Names : d[e[1]].entries[e[2]] = i}
Subdirs(d, i) == {n \in Names : /\ d[i].entries[n] # 0
                                /\ d[d[i].entries[n]].type = "dir"}
LinkCount(d, i) == Cardinality(Entries(d, i)) + Cardinality(Subdirs(d, i))
                   + (IF i = Root THEN 1 ELSE 0)

\* Entries are in directories and lead to inodes in use; a directory is in the
\* one its ".." names.
EntriesAgree(d) ==
  \A i \in Inums, n \in Names : d[i].entries[n] # 0 =>
    LET e == d[i].entries[n]
    IN /\ d[i].type = "dir" /\ d[e].type # "none" /\ e # Root
       /\ d[e].type = "dir" => d[e].up = i

\* A disk as the calls leave it when nothing is under way and mkfs has put only
\* files in the root.
IsTree(d) ==
  /\ d \in [Inums -> Inode] /\ EntriesAgree(d) /\ d[Root].type = "dir"
  /\ \A i \in Inums : IF d[i].type = "none" THEN d[i] = FreeInode
                      ELSE /\ d[i].nlink = LinkCount(d, i)
                           /\ i # Root => Entries(d, i) # {}
                           /\ d[i].type = "dir" => d[i].up # 0

Kinds == {"open", "chdir", "link", "unlink", "create", "mkdir"}
Paths == [abs : BOOLEAN, elems : Seq(Names \cup {".", ".."})]

ASSUME FsAssumption ==
  /\ NInodes \in Nat \ {0} /\ MaxCalls \in Nat
  /\ IsFiniteSet(Procs) /\ IsFiniteSet(Names) /\ {".", ".."} \cap Names = {}
  /\ Calls \subseteq [kind : Kinds, path : Paths, new : Paths]
  /\ IsTree(Tree)
  /\ Cwd \in [Procs -> {i \in Inums : Tree[i].type = "dir"}]

VARIABLES
  disk,     \* disk[i]: the inode on disk: type, nlink, entries, up is ".."
  mem,      \* mem[i]: its copy in icache
  cwd, fd,  \* cwd[p] and fd[p]: the inodes p's process and its open file hold
  pc,       \* pc[p]: where p is
  call,     \* call[p]: the call it makes: kind, path, new
  rest,     \* rest[p]: what namex() has still to look up
  ip,       \* ip[p]: the inode namex() is at or has returned
  other,    \* other[p]: the second inode of unlink, create and link
  inum,     \* inum[p]: the inode ialloc() has allocated and not yet got
  todo,     \* todo[p]: inodes for which it has to call iput()
  then,     \* then[p]: where it goes on after that
  lost,     \* history: an entry was made in a directory without a name
  strayed,  \* history: ".." led to an inode without a name
  panicked, calls

local == << pc, call, rest, ip, other, inum, todo, then >>
history == << lost, strayed >>
vars == << disk, mem, cwd, fd, local, history, panicked, calls >>

Uncached == [ref |-> 0, busy |-> FALSE, valid |-> FALSE, type |-> "none",
             nlink |-> 0]
NoCall == [kind |-> "none"]

Init ==
  /\ disk = Tree
  /\ mem = [i \in Inums |-> [Uncached EXCEPT !.ref =
                                Cardinality({p \in Procs : Cwd[p] = i})]]
  /\ cwd = Cwd /\ fd = [p \in Procs |-> 0]
  /\ pc = [p \in Procs |-> "user"] /\ call = [p \in Procs |-> NoCall]
  /\ rest = [p \in Procs |-> << >>]
  /\ ip = [p \in Procs |-> 0] /\ other = [p \in Procs |-> 0]
  /\ inum = [p \in Procs |-> 0]
  /\ todo = [p \in Procs |-> << >>] /\ then = [p \in Procs |-> "user"]
  /\ lost = FALSE /\ strayed = FALSE /\ panicked = "" /\ calls = 0

-----------------------------------------------------------------------------
(* The inode cache.                                                         *)

\* iget and idup.
Got(m, i) == [m EXCEPT ![i].ref = @ + 1]

\* ilock reads the inode from the disk if the copy is not valid.
Read(m, i) == IF m[i].valid THEN m
              ELSE [m EXCEPT ![i].valid = TRUE, ![i].type = disk[i].type,
                             ![i].nlink = disk[i].nlink]

\* Mutant of iunlock: the inode stays locked.
iunlockNot(m, i) == m

iunlock(m, i) == [m EXCEPT ![i].busy = FALSE]

\* ilock finds an inode that is not allocated.
NoType(i) == ~ mem[i].valid /\ disk[i].type = "none"

\* The inode ilock is called with: the second one of a call is locked last.
Locking(p) == IF pc[p] \in {"unlink2", "create2", "unlinked"} THEN other[p]
              ELSE ip[p]

Locks(p, place) == /\ pc[p] = place /\ ~ mem[Locking(p)].busy
                   /\ ~ NoType(Locking(p))

Panic(s) == /\ panicked' = s
            /\ UNCHANGED << disk, mem, cwd, fd, local, history, calls >>

NoTypePanic(p) ==
  /\ \/ pc[p] \in {"open", "chdir", "link", "link2", "unlinked", "unlink",
                   "unlink2", "create", "mkdir", "created", "create2"}
     \/ pc[p] = "namex" /\ rest[p] # << >>
  /\ ~ mem[Locking(p)].busy /\ NoType(Locking(p))
  /\ Panic("ilock: no type")

\* n links in the inode i, of the disk (iupdate) or of the cache.
Links(d, i, n) == [d EXCEPT ![i].nlink = n]

\* The entry n of the directory d.
Entered(d, n, i) == [disk EXCEPT ![d].entries[n] = i]

\* p goes on at place after it has put back the inodes in s.
Puts(p, s, place) ==
  /\ todo' = [todo EXCEPT ![p] = s]
  /\ pc' = [pc EXCEPT ![p] = IF s = << >> THEN place ELSE "iput"]
  /\ then' = [then EXCEPT ![p] = IF s = << >> THEN "user" ELSE place]

\* The call returns after that.
Returns(p, s) ==
  /\ Puts(p, s, "user")
  /\ call' = [call EXCEPT ![p] = NoCall]
  /\ rest' = [rest EXCEPT ![p] = << >>]
  /\ ip' = [ip EXCEPT ![p] = 0] /\ other' = [other EXCEPT ![p] = 0]

\* The second path of link() is being looked up.
Linked(p) == call[p].kind = "link" /\ other[p] # 0

\* namex() has failed; link() has to take a link back.
Fails(p) == IF Linked(p)
            THEN /\ Puts(p, << ip[p] >>, "unlinked")
                 /\ ip' = [ip EXCEPT ![p] = 0]
                 /\ UNCHANGED << call, rest, other >>
            ELSE Returns(p, << ip[p] >>)

\* Mutant of Unused: another process may still have the inode.
UnusedEarly(i) == mem[i].valid /\ mem[i].nlink = 0

\* iput frees the inode when its last user lets go of it.
Unused(i) == mem[i].ref = 1 /\ mem[i].valid /\ mem[i].nlink = 0

Dropped(i) == IF mem[i].ref = 1 THEN Uncached
              ELSE [mem[i] EXCEPT !.ref = @ - 1]

iput(p) ==
  /\ pc[p] = "iput"
  /\ LET i == Head(todo[p])
     IN IF Unused(i)
        THEN /\ IF mem[i].busy THEN panicked' = "iput busy"
                ELSE UNCHANGED panicked
             /\ mem' = [mem EXCEPT ![i].busy = TRUE]
             /\ pc' = [pc EXCEPT ![p] = "itrunc"]
             /\ UNCHANGED << todo, then >>
        ELSE /\ mem' = [mem EXCEPT ![i] = Dropped(i)]
             /\ Puts(p, Tail(todo[p]), then[p])
             /\ UNCHANGED panicked
  /\ UNCHANGED << disk, cwd, fd, call, rest, ip, other, history, inum, calls >>

\* itrunc, and the type that makes the inode free for ialloc.
itrunc(p) ==
  /\ pc[p] = "itrunc"
  /\ disk' = [disk EXCEPT ![Head(todo[p])] = FreeInode]
  /\ pc' = [pc EXCEPT ![p] = "iput2"]
  /\ UNCHANGED << mem, cwd, fd, call, rest, ip, other, todo, then, history,
                  panicked, inum, calls >>

\* The end of iput: the flags are cleared, whoever got the inode meanwhile
\* reads it again.
iput2(p) ==
  /\ pc[p] = "iput2"
  /\ LET i == Head(todo[p])
     IN mem' = [mem EXCEPT ![i] =
                  IF mem[i].ref = 1 THEN Uncached
                  ELSE [Uncached EXCEPT !.ref = mem[i].ref - 1]]
  /\ Puts(p, Tail(todo[p]), then[p])
  /\ UNCHANGED << disk, cwd, fd, call, rest, ip, other, history, panicked,
                  inum, calls >>

-----------------------------------------------------------------------------
(* Path names.                                                              *)

\* The calls that look for the directory of a name.
Parent(p) == \/ call[p].kind \in {"create", "mkdir", "unlink"}
             \/ Linked(p)

\* Where a call goes on with the inode of its path.
Place(p) == IF Linked(p) THEN "link2"
            ELSE call[p].kind

\* namex starts at the root or at the current directory.
Begin(p, path) == IF path.abs THEN Root ELSE cwd[p]

dirlookup(d, n) == CASE n = "." -> d
                     [] n = ".." -> disk[d].up
                     [] OTHER -> disk[d].entries[n]

\* A system call, up to the beginning of namex().
Call(p) ==
  /\ pc[p] = "user" /\ calls < MaxCalls
  /\ \E c \in Calls :
       /\ c.kind \in {"create", "open"} => fd[p] = 0
       /\ call' = [call EXCEPT ![p] = c]
       /\ rest' = [rest EXCEPT ![p] = c.path.elems]
       /\ ip' = [ip EXCEPT ![p] = Begin(p, c.path)]
       /\ mem' = Got(mem, Begin(p, c.path))
  /\ pc' = [pc EXCEPT ![p] = "namex"]
  /\ other' = [other EXCEPT ![p] = 0]
  /\ calls' = calls + 1
  /\ UNCHANGED << disk, cwd, fd, todo, then, history, inum, panicked >>

\* ".." leads to an inode without a name: the parent of a directory that has
\* been removed may be free again.
Strays(n, i) == strayed' = (strayed \/ (n = ".." /\ disk[i].nlink = 0))

\* One turn of the loop of namex.
namex(p) ==
  LET i == ip[p]
      n == Head(rest[p])
      next == dirlookup(i, n)
      isdir == Read(mem, i)[i].type = "dir"
      last == Parent(p) /\ Len(rest[p]) = 1
  IN /\ Locks(p, "namex") /\ rest[p] # << >>
     /\ \/ /\ isdir /\ last
           /\ mem' = Read(mem, i)
           /\ pc' = [pc EXCEPT ![p] = Place(p)]
           /\ UNCHANGED << call, rest, ip, other, todo, then, strayed >>
        \/ /\ isdir /\ ~ last /\ next # 0
           /\ mem' = Got(Read(mem, i), next)
           /\ ip' = [ip EXCEPT ![p] = next]
           /\ rest' = [rest EXCEPT ![p] = Tail(@)]
           /\ Strays(n, next)
           /\ Puts(p, << i >>, "namex")
           /\ UNCHANGED << call, other >>
        \/ /\ isdir => ~ last /\ next = 0
           /\ mem' = Read(mem, i)
           /\ Fails(p)
           /\ UNCHANGED strayed
     /\ UNCHANGED << disk, cwd, fd, lost, panicked, inum, calls >>

\* The path is used up.
namexEnd(p) ==
  /\ pc[p] = "namex" /\ rest[p] = << >>
  /\ IF Parent(p)
     THEN Fails(p)
     ELSE Puts(p, << >>, Place(p)) /\ UNCHANGED << call, rest, ip, other >>
  /\ UNCHANGED << disk, mem, cwd, fd, history, panicked, inum, calls >>

-----------------------------------------------------------------------------
(* The calls that find a file.                                              *)

\* sys_open without O_CREATE.  It fails for want of a file or descriptor, or
\* when a directory is to be written.
open(p) ==
  /\ Locks(p, "open")
  /\ mem' = Read(mem, ip[p])
  /\ \/ fd' = [fd EXCEPT ![p] = ip[p]] /\ Returns(p, << >>)
     \/ UNCHANGED fd /\ Returns(p, << ip[p] >>)
  /\ UNCHANGED << disk, cwd, history, panicked, inum, calls >>

\* fileclose of the last descriptor.
close(p) ==
  /\ pc[p] = "user" /\ fd[p] # 0 /\ calls < MaxCalls
  /\ Puts(p, << fd[p] >>, "user")
  /\ fd' = [fd EXCEPT ![p] = 0]
  /\ calls' = calls + 1
  /\ UNCHANGED << disk, mem, cwd, call, rest, ip, other, history, inum, panicked >>

chdir(p) ==
  /\ Locks(p, "chdir")
  /\ mem' = Read(mem, ip[p])
  /\ IF mem'[ip[p]].type = "dir"
     THEN Returns(p, << cwd[p] >>) /\ cwd' = [cwd EXCEPT ![p] = ip[p]]
     ELSE Returns(p, << ip[p] >>) /\ UNCHANGED cwd
  /\ UNCHANGED << disk, fd, history, panicked, inum, calls >>

-----------------------------------------------------------------------------
(* link.                                                                    *)

\* The file has one more link before there is an entry for it.
link(p) ==
  LET i == ip[p]
      m == Read(mem, i)
  IN /\ Locks(p, "link")
     /\ IF m[i].type = "dir"
        THEN /\ mem' = m /\ Returns(p, << i >>) /\ UNCHANGED disk
        ELSE /\ mem' = Got(Links(m, i, m[i].nlink + 1),
                           Begin(p, call[p].new))
             /\ disk' = Links(disk, i, m[i].nlink + 1)
             /\ other' = [other EXCEPT ![p] = i]
             /\ ip' = [ip EXCEPT ![p] = Begin(p, call[p].new)]
             /\ rest' = [rest EXCEPT ![p] = call[p].new.elems]
             /\ Puts(p, << >>, "namex") /\ UNCHANGED call
     /\ UNCHANGED << cwd, fd, history, panicked, inum, calls >>

\* The last element of the path that is being looked up.
Name(p) == rest[p][1]

\* dirlink refuses a name that is there, . and .. included.
link2(p) ==
  /\ Locks(p, "link2")
  /\ mem' = Read(mem, ip[p])
  /\ IF dirlookup(ip[p], Name(p)) = 0
     THEN /\ disk' = Entered(ip[p], Name(p), other[p])
          /\ lost' = (lost \/ mem'[ip[p]].nlink = 0)
          /\ Returns(p, << ip[p], other[p] >>)
     ELSE Fails(p) /\ UNCHANGED << disk, lost >>
  /\ UNCHANGED << cwd, fd, strayed, panicked, inum, calls >>

\* Mutant of LinkTaken: the failed call leaves the link counted.
LinkTakenNot(n) == n

LinkTaken(n) == n - 1

\* sys_link after bad:.
linkbad(p) ==
  LET i == other[p]
      m == Read(mem, i)
  IN /\ Locks(p, "unlinked")
     /\ mem' = Links(m, i, LinkTaken(m[i].nlink))
     /\ disk' = Links(disk, i, LinkTaken(m[i].nlink))
     /\ Returns(p, << i >>)
     /\ UNCHANGED << cwd, fd, history, panicked, inum, calls >>

-----------------------------------------------------------------------------
(* unlink: the directory stays locked while the file is waited for.         *)

unlink(p) ==
  LET d == ip[p]
      i == dirlookup(d, Name(p))
  IN /\ Locks(p, "unlink")
     /\ IF Name(p) \in {".", ".."} \/ i = 0
        THEN /\ mem' = Read(mem, d) /\ Returns(p, << d >>)
        ELSE /\ mem' = Got([Read(mem, d) EXCEPT ![d].busy = TRUE], i)
             /\ other' = [other EXCEPT ![p] = i]
             /\ Puts(p, << >>, "unlink2")
             /\ UNCHANGED << call, rest, ip >>
     /\ UNCHANGED << disk, cwd, fd, history, panicked, inum, calls >>

isdirempty(i) == disk[i].entries = NoEntries

MayRemove(i) == Read(mem, i)[i].type = "dir" => isdirempty(i)

unlink2(p) ==
  LET d == ip[p]
      i == other[p]
      m == iunlock(Read(mem, i), d)
      isdir == m[i].type = "dir"
      dlink == m[d].nlink - (IF isdir THEN 1 ELSE 0)
      ilink == m[i].nlink - 1
  IN /\ Locks(p, "unlink2")
     /\ IF m[i].nlink < 1 THEN Panic("unlink: nlink < 1")
        ELSE /\ IF MayRemove(i)
                THEN /\ mem' = Links(Links(m, d, dlink), i, ilink)
                     /\ disk' = Links(Links(Entered(d, Name(p), 0), d, dlink),
                                     i, ilink)
                ELSE mem' = m /\ UNCHANGED disk
             /\ Returns(p, IF MayRemove(i) THEN << d, i >> ELSE << i, d >>)
             /\ UNCHANGED << cwd, fd, history, panicked, inum, calls >>

-----------------------------------------------------------------------------
(* create, for sys_open with O_CREATE and for sys_mkdir.                    *)

Wanted(p) == IF call[p].kind = "mkdir" THEN "dir" ELSE "file"
FreeInums == {i \in Inums : disk[i].type = "none"}
ialloc == CHOOSE i \in FreeInums : \A j \in FreeInums : i <= j

\* The name is there: the inode is used if it has the right type.  If not,
\* ialloc() allocates an inode on the disk; the directory stays locked.
create(p) ==
  LET d == ip[p]
      i == dirlookup(d, Name(p))
  IN /\ \/ Locks(p, "create") \/ Locks(p, "mkdir")
     /\ \/ /\ i # 0
           /\ mem' = Got(Read(mem, d), i)
           /\ ip' = [ip EXCEPT ![p] = i]
           /\ Strays(Name(p), i)
           /\ Puts(p, << d >>, "created")
           /\ UNCHANGED << disk, inum, panicked >>
        \/ /\ i = 0 /\ FreeInums = {}
           /\ panicked' = "ialloc: no inodes"
           /\ UNCHANGED << disk, mem, ip, inum, strayed, pc, todo, then >>
        \/ /\ i = 0 /\ FreeInums # {}
           /\ disk' = [disk EXCEPT ![ialloc] =
                         [FreeInode EXCEPT !.type = Wanted(p)]]
           /\ mem' = [Read(mem, d) EXCEPT ![d].busy = TRUE]
           /\ inum' = [inum EXCEPT ![p] = ialloc]
           /\ Puts(p, << >>, "create1")
           /\ UNCHANGED << ip, strayed, panicked >>
     /\ UNCHANGED << cwd, fd, call, rest, other, lost, calls >>

\* The end of ialloc().
iget(p) ==
  /\ pc[p] = "create1"
  /\ mem' = Got(mem, inum[p])
  /\ other' = [other EXCEPT ![p] = inum[p]]
  /\ inum' = [inum EXCEPT ![p] = 0]
  /\ Puts(p, << >>, "create2")
  /\ UNCHANGED << disk, cwd, fd, call, rest, ip, history, panicked, calls >>

\* The new inode is opened by the call, or put back by mkdir and by a call
\* that finds no descriptor.
Opened(p, i, puts) ==
  \/ /\ call[p].kind = "create"
     /\ fd' = [fd EXCEPT ![p] = i] /\ Returns(p, puts)
  \/ UNCHANGED fd /\ Returns(p, Append(puts, i))

created(p) ==
  LET i == ip[p]
  IN /\ Locks(p, "created")
     /\ mem' = Read(mem, i)
     /\ IF mem'[i].type = "file" /\ call[p].kind = "create"
        THEN Opened(p, i, << >>)
        ELSE UNCHANGED fd /\ Returns(p, << i >>)
     /\ UNCHANGED << disk, cwd, history, panicked, inum, calls >>

\* What the new inode adds to the links of its directory.
NewLinks(p) == IF Wanted(p) = "dir" THEN 1 ELSE 0

create2(p) ==
  LET d == ip[p]
      i == other[p]
      dlink == mem[d].nlink + NewLinks(p)
  IN /\ Locks(p, "create2")
     /\ mem' = Links(Links(iunlock(Read(mem, i), d), i, 1), d, dlink)
     /\ disk' = [Links(Links(Entered(d, Name(p), i), i, 1), d, dlink)
                   EXCEPT ![i].up = IF Wanted(p) = "dir" THEN d ELSE 0]
     /\ lost' = (lost \/ mem[d].nlink = 0)
     /\ Opened(p, i, << d >>)
     /\ UNCHANGED << cwd, strayed, panicked, inum, calls >>

-----------------------------------------------------------------------------
Step(p) == \/ iput(p) \/ itrunc(p) \/ iput2(p) \/ namex(p) \/ namexEnd(p)
           \/ NoTypePanic(p) \/ open(p) \/ chdir(p)
           \/ link(p) \/ link2(p) \/ linkbad(p) \/ unlink(p) \/ unlink2(p)
           \/ create(p) \/ iget(p) \/ created(p) \/ create2(p)

Next == /\ panicked = ""
        /\ \E p \in Procs : Call(p) \/ close(p) \/ Step(p)

\* Every process that can run is run; the calls are finite in number, so a
\* lock cannot be taken by others for ever.
Spec == Init /\ [][Next]_vars /\ \A p \in Procs : WF_vars(Step(p))

-----------------------------------------------------------------------------
(* Properties.                                                              *)

TypeOK ==
  /\ disk \in [Inums -> Inode]
  /\ mem \in [Inums -> [ref : Nat, busy : BOOLEAN, valid : BOOLEAN, nlink : Int,
                       type : {"none", "dir", "file"}]]
  /\ cwd \in [Procs -> Inums] /\ fd \in [Procs -> Inums \cup {0}]
  /\ ip \in [Procs -> Inums \cup {0}] /\ other \in [Procs -> Inums \cup {0}]
  /\ inum \in [Procs -> Inums \cup {0}]
  /\ todo \in [Procs -> Seq(Inums)]

\* The inodes p has: each of these counts in the cache.
Has(p) == [cwd |-> cwd[p], fd |-> fd[p], ip |-> ip[p], other |-> other[p],
           todo |-> IF Len(todo[p]) = 0 THEN 0 ELSE todo[p][1],
           next |-> IF Len(todo[p]) < 2 THEN 0 ELSE todo[p][2]]
Spots == {"cwd", "fd", "ip", "other", "todo", "next"}
Holding(i) == {h \in Procs \X Spots : Has(h[1])[h[2]] = i}

\* The inode p has locked and not unlocked by the step that locked it.
Locked(p) == CASE pc[p] \in {"unlink2", "create1", "create2"} -> ip[p]
               [] pc[p] \in {"itrunc", "iput2"} -> todo[p][1]
               [] OTHER -> 0

\* An inode is locked by at most one process.  Its count in the cache is the
\* number of those who have it, and a valid copy agrees with the disk.
CacheAgrees ==
  /\ TypeOK
  /\ \A p, q \in Procs : p # q => Locked(p) = 0 \/ Locked(p) # Locked(q)
  /\ \A i \in Inums :
       /\ mem[i].busy <=> \E p \in Procs : Locked(p) = i
       /\ mem[i].ref = Cardinality(Holding(i))
       /\ mem[i].valid /\ ~ mem[i].busy =>
            mem[i].type = disk[i].type /\ mem[i].nlink = disk[i].nlink

\* No file is freed under a process that has it, and the directory a call has
\* found is one still when the call locks it.
HeldStays ==
  \A p \in Procs :
    /\ \A i \in {cwd[p], fd[p], ip[p], other[p], inum[p]} \ {0} : disk[i].type # "none"
    /\ pc[p] \in {"link2", "unlink", "unlink2", "create", "mkdir", "create1",
                "create2"} => disk[ip[p]].type = "dir"

Linking(i) == {p \in Procs : call[p].kind = "link" /\ other[p] = i}
New(i) == \E p \in Procs : inum[p] = i \/ (pc[p] = "create2" /\ other[p] = i)

\* An inode has the links its names and the directories in it count, and one
\* for each link() that has not made its entry; it has more once an entry has
\* been made in a directory that has been removed and is still somebody's own.
LinksAgree ==
  /\ EntriesAgree(disk)
  /\ \A i \in Inums : disk[i].type # "none" /\ ~ New(i) =>
       LET links == LinkCount(disk, i) + Cardinality(Linking(i))
       IN disk[i].nlink >= links /\ (~ lost => disk[i].nlink = links)

\* Inodes in use stay, and their links are the entries that lead to them; the
\* calls panic for want of a free inode only.  This is so until ".." leads to an
\* inode without a name; iput() finds no inode it frees locked even then.
InodesSound ==
  /\ CacheAgrees /\ panicked # "iput busy"
  /\ ~ strayed => HeldStays /\ LinksAgree
                  /\ panicked \in {"", "ialloc: no inodes"}

\* Every call returns: a directory is locked before what is in it, never the
\* other way round, so no two calls wait for each other.
CallsReturn == \A p \in Procs : pc[p] # "user" ~> pc[p] = "user" \/ panicked # ""
=============================================================================
