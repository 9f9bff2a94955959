-------------------------------- MODULE Mfs --------------------------------
(***************************************************************************)
(* The distributed file service of P5/linux: clients that call the library *)
(* of mfs.c, the server of server.c over the image of Lfs, and UDP between *)
(* them.  A library call sends its request, waits five seconds for ANY     *)
(* datagram, and sends again; the server handles one request at a time.    *)
(* Datagrams are lost, reordered, and may be under way for longer than the *)
(* five seconds; the server can be killed between two writes of a handler  *)
(* and is then started again on the same image.                            *)
(***************************************************************************)
EXTENDS Lfs

CONSTANTS
  Clients,     \* programs that use the library, one call at a time
  Calls,       \* the calls they may make
  MaxDepth,    \* bound: how deep the calls nest directories
  MaxCalls,    \* bound: calls made in all
  MaxFaults    \* bound: datagrams lost, times the server is killed, and
               \* timeouts while a datagram is still under way, together

VARIABLES
  img,      \* the disk image
  up,       \* the server is in its loop
  pc,       \* pc[c]: "idle", or "wait" inside a library call
  call,     \* call[c]: the call c is in
  reqs,     \* datagrams under way to the server
  reps,     \* datagrams under way to a client
  calls,    \* calls made so far
  faults,   \* faults so far
  lates,    \* those of them that were a timeout with a datagram under way
  made,     \* history: creations the library reported done
  unlinked, \* history: the names an unlink was asked for
  wrote     \* history: what each block of a file may hold

net == << reqs, reps >>
bounds == << calls, faults, lates >>
history == << made, unlinked, wrote >>
vars == << img, up, pc, call, net, bounds, history >>

(***************************************************************************)
(* The library's calls.  MFS_Init sends nothing.                           *)
(***************************************************************************)
Call(op, inum, name, type, blk, val) ==
  [op |-> op, inum |-> inum, name |-> name, type |-> type,
   blk |-> blk, val |-> val]
MFS_Lookup(pinum, name) == Call("LOOKUP", pinum, name, None, None, "nothing")
MFS_Stat(inum) == Call("STAT", inum, NoName, None, None, "nothing")
MFS_Write(inum, val, blk) == Call("WRITE", inum, NoName, None, blk, val)
MFS_Read(inum, blk) == Call("READ", inum, NoName, None, blk, "nothing")
MFS_Creat(pinum, type, name) ==
  Call("CREAT", pinum, name, type, None, "nothing")
MFS_Unlink(pinum, name) == Call("UNLINK", pinum, name, None, None, "nothing")
MFS_Shutdown == Call("SHUTDOWN", None, NoName, None, None, "nothing")

NoCall == Call("none", None, NoName, None, None, "nothing")

\* handle(): the outcomes of a request.
Outcomes(k) ==
  CASE k.op = "LOOKUP" -> Answered(sLookup(img, k.inum, k.name), << >>)
    [] k.op = "STAT"   -> sStat(img, k.inum)
    [] k.op = "WRITE"  -> sWrite(img, k.inum, k.blk, k.val)
    [] k.op = "READ"   -> sRead(img, k.inum, k.blk)
    [] k.op = "CREAT"  -> sCreate(img, k.inum, k.type, k.name)
    [] k.op = "UNLINK" -> sUnlink(img, k.inum, k.name)
    [] OTHER           -> Answered(0, << >>)

(***************************************************************************)
(* What the directories reach.                                             *)
(***************************************************************************)
EntriesOf(inum) ==
  LET inode == InodeOf(img, inum)
      places == {inode.blockArr[i] + j : i \in {b \in 0 .. Blocks - 1 :
               inode.blockArr[b] # None}, j \in 0 .. Ents - 1}
  IN IF inode.type = Dir THEN {a \in places : IsEntry(img, a)} ELSE {}
InUse(inum) == {a \in EntriesOf(inum) : img.log[a].inum # None}

\* The inodes the entries reach from the root.
Linked ==
  LET reach[n \in 0 .. MaxDepth] ==
        IF n = 0 THEN {Root}
        ELSE LET S == reach[n - 1]
             IN S \cup {img.log[a].inum : a \in UNION {InUse(d) :
                           d \in {e \in S : Exists(img, e)}}}
  IN reach[MaxDepth]

(***************************************************************************)
(* A program names inodes that a lookup can have shown it, or no inode at  *)
(* all: never the number of an inode that no directory names.              *)
(***************************************************************************)
MayUse(inum) == Exists(img, inum) => inum \in Linked

-----------------------------------------------------------------------------
Init ==
  /\ img = NewImage /\ up = TRUE
  /\ pc = [c \in Clients |-> "idle"]
  /\ call = [c \in Clients |-> NoCall]
  /\ reqs = {} /\ reps = {}
  /\ calls = 0 /\ faults = 0 /\ lates = 0
  /\ made = {} /\ unlinked = {} /\ wrote = << >>

Block(k) == << k.inum, k.blk >>
Held(b) == IF b \in DOMAIN wrote THEN wrote[b] ELSE {"junk", "blank"}
SetHeld(b, s) ==
  wrote' = [x \in DOMAIN wrote \cup {b} |-> IF x = b THEN s ELSE wrote[x]]

Request(c, k, n, late) == [from |-> c, call |-> k, id |-> n, late |-> late]

\* A library call sends its first datagram.
Send(c, k) ==
  /\ pc[c] = "idle" /\ calls < MaxCalls
  /\ k.op = "SHUTDOWN" \/ MayUse(k.inum)
  /\ pc' = [pc EXCEPT ![c] = "wait"]
  /\ call' = [call EXCEPT ![c] = k]
  /\ calls' = calls + 1
  /\ reqs' = reqs \cup {Request(c, k, calls, 0)}
  /\ unlinked' = IF k.op = "UNLINK" THEN unlinked \cup {<< k.inum, k.name >>}
                 ELSE unlinked
  /\ IF k.op = "WRITE" THEN SetHeld(Block(k), Held(Block(k)) \cup {k.val})
     ELSE UNCHANGED wrote
  /\ UNCHANGED << img, up, reps, faults, lates, made >>

Mine(c, S) == {m \in S : m.from = c}
Quiet(c) == Mine(c, reqs \cup reps) = {}

\* Mutant of Retries: MFS_Stat waits without a timeout too.
RetriesNotStat(k) == k.op \notin {"SHUTDOWN", "STAT"}

\* Every call but MFS_Shutdown has a timeout.
Retries(k) == k.op # "SHUTDOWN"

Faulty == faults < MaxFaults /\ faults' = faults + 1

\* select() returns 0 after five seconds: the request is sent again.
Resend(c) ==
  /\ pc[c] = "wait" /\ Retries(call[c]) /\ Quiet(c)
  /\ reqs' = reqs \cup {Request(c, call[c], calls, lates)}
  /\ UNCHANGED << img, up, pc, call, reps, bounds, history >>

\* The same while the request or its reply is still under way.
ResendLate(c) ==
  /\ pc[c] = "wait" /\ Retries(call[c]) /\ ~ Quiet(c)
  /\ Faulty /\ lates' = lates + 1
  /\ reqs' = reqs \cup {Request(c, call[c], calls, lates + 1)}
  /\ UNCHANGED << img, up, pc, call, reps, calls, history >>

\* Mutant of Taken: the reply is left in the socket.
TakenNot(r) == reps

Taken(r) == reps \ {r}

\* The call takes the first datagram that comes, whatever it answers.
Receive(c) ==
  /\ pc[c] = "wait"
  /\ \E r \in Mine(c, reps) :
       LET k == call[c]
           Alone == \A d \in Clients \ {c} : pc[d] = "wait" =>
                      ~ (call[d].op = "WRITE" /\ Block(call[d]) = Block(k))
       IN /\ reps' = Taken(r)
          /\ made' = IF k.op = "CREAT" /\ r.ret = 0
                     THEN made \cup {<< k.inum, k.name, k.type >>} ELSE made
          /\ IF k.op = "WRITE" /\ r.ret = 0 /\ Alone
             THEN SetHeld(Block(k), {k.val}) ELSE UNCHANGED wrote
  /\ pc' = [pc EXCEPT ![c] = "idle"]
  /\ call' = [call EXCEPT ![c] = NoCall]
  /\ UNCHANGED << img, up, reqs, bounds, unlinked >>

-----------------------------------------------------------------------------
\* One round of the server's loop.  A shutdown answers first and exits.
Handle ==
  /\ up
  /\ \E m \in reqs : \E o \in Outcomes(m.call) :
       /\ img' = AfterWrites(img, o.writes)
       /\ reps' = reps \cup {[from |-> m.from, id |-> m.id, late |-> m.late,
                              ret |-> o.ret, val |-> o.val]}
       /\ up' = (m.call.op # "SHUTDOWN")
       /\ reqs' = IF up' THEN reqs \ {m} ELSE {}
  /\ UNCHANGED << pc, call, bounds, history >>

\* The server is killed in a handler, after some or all of its writes and
\* before its reply; what waited in its socket is gone.
Crash ==
  /\ up /\ Faulty
  /\ \E m \in reqs : \E o \in Outcomes(m.call) :
       \E i \in 0 .. Len(o.writes) :
         img' = AfterWrites(img, SubSeq(o.writes, 1, i))
  /\ up' = FALSE /\ reqs' = {}
  /\ UNCHANGED << pc, call, reps, calls, lates, history >>

\* main() again, on the image that is there.
Restart ==
  /\ ~ up /\ up' = TRUE
  /\ UNCHANGED << img, pc, call, net, bounds, history >>

\* A datagram to a port nobody has open.
Bounce ==
  /\ ~ up
  /\ \E m \in reqs : reqs' = reqs \ {m}
  /\ UNCHANGED << img, up, pc, call, reps, bounds, history >>

Lose ==
  /\ Faulty
  /\ \/ \E m \in reqs : reqs' = reqs \ {m} /\ reps' = reps
     \/ \E r \in reps : reps' = reps \ {r} /\ reqs' = reqs
  /\ UNCHANGED << img, up, pc, call, calls, lates, history >>

Next == \/ \E c \in Clients :
             \/ \E k \in Calls : Send(c, k)
             \/ Resend(c) \/ ResendLate(c) \/ Receive(c)
        \/ Handle \/ Crash \/ Restart \/ Bounce \/ Lose

\* Weak fairness of Handle, written with its enabling condition (handle()
\* answers every request) because ENABLED is costly to evaluate here.
HandleFair == \/ []<>~(up /\ reqs # {})
              \/ []<><<Handle>>_vars

Fairness == /\ HandleFair /\ WF_vars(Restart)
            /\ \A c \in Clients : WF_vars(Resend(c)) /\ WF_vars(Receive(c))

Spec == Init /\ [][Next]_vars /\ Fairness

-----------------------------------------------------------------------------
(* Properties.                                                              *)

Slots == {Hole}
  \cup [kind : {"piece"}, inodeArr : [0 .. PieceSize - 1 -> Int]]
  \cup [kind : {"inode"}, type : {Dir, Reg}, size : Nat,
        blockArr : [0 .. Blocks - 1 -> Int]]
  \cup [kind : {"ent"}, name : Names \cup {NoName, Dot, DotDot}, inum : Int]
  \cup [kind : {"data"}, val : Values \cup {"junk"}]

\* The types of the variables; a size never exceeds what an inode can map,
\* so that sCreate's block index stays within blockArr.
TypeOK ==
  /\ img.imap \in [0 .. Pieces - 1 -> Int] /\ img.endLog \in Nat
  /\ \A a \in 1 .. Len(img.log) : img.log[a] \in Slots
  /\ \A a \in 1 .. Len(img.log) : img.log[a].kind = "inode" =>
       img.log[a].size \in 0 .. Blocks * Ents
  /\ up \in BOOLEAN
  /\ pc \in [Clients -> {"idle", "wait"}]
  /\ call \in [Clients -> Calls \cup {NoCall}]
  /\ \A c \in Clients : pc[c] = "idle" <=> call[c] = NoCall
  /\ \A m \in reqs : m.from \in Clients /\ m.call \in Calls
  /\ \A r \in reps : r.from \in Clients /\ r.ret \in Int
  /\ calls \in 0 .. MaxCalls /\ faults \in 0 .. MaxFaults
  /\ lates \in 0 .. faults
  /\ unlinked \subseteq Int \X Names
  /\ \A b \in DOMAIN wrote : wrote[b] \subseteq Values \cup {"junk", "blank"}

\* Whatever was retried, answered late or cut off by a kill, every entry in
\* use of a directory that can be reached names an inode that was written,
\* of one of the two types, and the first entry of such a directory names
\* the directory itself.
EntriesValid ==
  \A d \in Linked :
    /\ Exists(img, d) /\ InodeOf(img, d).type \in {Dir, Reg}
    /\ InodeOf(img, d).type = Dir =>
         LET a == InodeOf(img, d).blockArr[0]
         IN IsEntry(img, a) /\ img.log[a] = Entry(Dot, d)

\* The units an inode stands for: itself and its blocks.
Units(inum) ==
  LET at == Loc(img, inum)
  IN {at} \cup {InodeAt(img, at).blockArr[b] + j :
                  b \in {i \in 0 .. Blocks - 1 :
                           InodeAt(img, at).blockArr[i] # None},
                  j \in 0 .. Ents - 1}
PieceUnits == {img.imap[k] : k \in 0 .. Pieces - 1} \ {None}

\* Nothing that is in use shares a place of the log: the inodes that can be
\* reached, their blocks and the imap pieces are disjoint and lie below the
\* end that the checkpoint records, so that the next append hits none.
LogSound ==
  /\ \A d \in Linked : /\ Units(d) \subseteq 1 .. img.endLog - 1
                       /\ Units(d) \cap PieceUnits = {}
  /\ \A d, e \in Linked : d # e => Units(d) \cap Units(e) = {}
  /\ \A k, l \in 0 .. Pieces - 1 :
       k # l /\ img.imap[k] # None => img.imap[k] # img.imap[l]

\* A creation that is retried, duplicated or cut off by a kill and retried
\* never leaves two entries of one name in a directory.
OneEntryPerName ==
  \A d \in Linked : \A a, b \in InUse(d) :
    img.log[a].name = img.log[b].name => a = b

\* The image is sound whenever the server can be killed: its types, and the
\* three conjuncts above.
ImageSound == TypeOK /\ EntriesValid /\ LogSound /\ OneEntryPerName

\* A file or directory whose creation the library reported is found by every
\* later lookup with the type it was given, across losses, kills and
\* restarts, as long as nothing was unlinked from its directory and no
\* datagram outlived a timeout.
CreatedIsFound ==
  lates = 0 => \A m \in made :
    ~ (\E u \in unlinked : u[1] = m[1]) =>
      LET i == sLookup(img, m[1], m[2])
      IN i >= 0 /\ Exists(img, i) /\ InodeOf(img, i).type = m[3]

\* A block whose write was acknowledged holds that value, or one that was
\* sent after it: neither a kill in the middle of a later write nor another
\* operation on the log damages it (as long as its file can be reached).
ReadsBack ==
  lates = 0 => \A b \in DOMAIN wrote :
    b[1] \in Linked /\ wrote[b] \subseteq Values =>
      \E o \in sRead(img, b[1], b[2]) : o.ret = 0 /\ o.val[1] \in wrote[b]

\* What the library has acknowledged is kept: the two above.
AcknowledgedKept == CreatedIsFound /\ ReadsBack

\* As long as no datagram outlived a timeout, a call has at most one datagram
\* under way, a request for that very call or a reply, and none is left when
\* the call returns: the next call cannot take an answer that is not its own,
\* although datagrams carry no number.
OneDatagram ==
  lates = 0 => \A c \in Clients :
    /\ pc[c] = "idle" => Quiet(c)
    /\ \A m, n \in Mine(c, reqs) : m = n
    /\ \A m, n \in Mine(c, reps) : m = n
    /\ \A m \in Mine(c, reqs) : m.call = call[c] /\ Mine(c, reps) = {}

\* A library call returns: the request is sent again until some answer
\* comes, whatever was lost and however often the server was killed.  It
\* excludes MFS_Shutdown, which waits without a timeout.
CallReturns ==
  \A c \in Clients : pc[c] = "wait" /\ call[c].op # "SHUTDOWN"
                       ~> pc[c] = "idle"

\* runtests.log: "creat a file and check with lookup".  A file that was
\* created and never unlinked is found, whatever else is unlinked from its
\* directory.
StaysFound ==
  lates = 0 => \A m \in made :
    << m[1], m[2] >> \notin unlinked => sLookup(img, m[1], m[2]) >= 0
============================================================================
