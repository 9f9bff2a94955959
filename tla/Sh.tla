--------------------------------- MODULE Sh ---------------------------------
(***************************************************************************)
(* xv6's shell at work (user/sh.c): the shell forks a process for each     *)
(* line, which parses the line and becomes its command, forking others for *)
(* the parts of it and joining them with pipes.  Programs are cat, which   *)
(* copies its input to its output until the input ends, and echo, which    *)
(* writes; any other word is no program.  The kernel's calls are those of  *)
(* module Pipe, seen from a program: the lowest descriptor that is free, a *)
(* pipe that ends when nobody has its write end open, children that init   *)
(* inherits.                                                               *)
(***************************************************************************)
EXTENDS ShParse, FiniteSets

CONSTANTS
  NPID,        \* process slots besides init's
  NOFILE,      \* descriptors of a process
  PIPESIZE,    \* what a pipe holds
  NoFile,      \* names of files that cannot be opened for reading
  Lines,       \* the lines that are typed
  MaxLines     \* bound: how many

VARIABLES
  task,        \* task[p]: see Idle
  bytes,       \* bytes[k]: what pipe k holds
  typed,       \* lines typed so far
  failed       \* history: a fork failed

shvars == << task, bytes, typed, failed, line >>

Pid == 1 .. NPID
sh == 1

\* A file is the console, a file with a name, or one end of the pipe that
\* the PIPE command at some place of the tree of a line has made.
File(kind, name, place) == [kind |-> kind, name |-> name, place |-> place]
None == File("none", "", << >>)
console == File("console", "", << >>)
Named1(w) == File("file", w, << >>)
ReadEnd(k) == File("read", "", k)
WriteEnd(k) == File("write", "", k)
NoFiles == [i \in 0 .. NOFILE - 1 |-> None]

\* at: where in sh.c; cmd: the command at place in tree, the command of the
\* line; pin, pout: p[0], p[1]; left: what the input of cat still holds.
Idle == [state |-> "UNUSED", parent |-> 0, at |-> "", tree |-> Panic,
         cmd |-> Panic, place |-> << >>, fd |-> NoFiles, pin |-> 0,
         pout |-> 0, left |-> 0]

Shell == [Idle EXCEPT !.state = "RUN", !.at = "prompt",
            !.fd = [i \in DOMAIN @ |-> IF i <= 2 THEN console ELSE None]]

ShInit == /\ task = [p \in Pid |-> IF p = sh THEN Shell ELSE Idle]
          /\ bytes = << >> /\ typed = 0 /\ failed = FALSE

-----------------------------------------------------------------------------
(* The kernel's calls.                                                      *)

Runs(p, at) == task[p].state = "RUN" /\ task[p].at = at
Least(S) == CHOOSE i \in S : \A j \in S : i <= j
FreeFd(f) == {i \in DOMAIN f : f[i] = None}

\* open, dup and pipe take the lowest descriptor that is free.
Opened(f, x) == [f EXCEPT ![Least(FreeFd(f))] = x]
Closed(f, i) == [f EXCEPT ![i] = None]

\* The slot of a shell that has ended is init's, for the next one.
FreeSlots == {p \in Pid \ {sh} : task[p].state = "UNUSED"}
Holders(x) == {p \in Pid : \E i \in 0 .. NOFILE - 1 : task[p].fd[i] = x}

\* p exits: init reaps p if it is p's parent, and the zombies that p leaves.
Exited(P, p) ==
  [q \in Pid |->
     IF q = p THEN IF P[p].parent = 0 THEN Idle
                   ELSE [Idle EXCEPT !.state = "ZOMBIE", !.parent = P[p].parent]
     ELSE IF P[q].parent = p /\ P[q].state = "ZOMBIE" THEN Idle
     ELSE IF P[q].parent = p THEN [P[q] EXCEPT !.parent = 0] ELSE P[q]]

exits(p) == task' = Exited(task, p)

\* fork1: the child is r, the parent goes on as q.  A shell without a slot
\* panics, which ends it.
fork1(p, q, r) ==
  IF FreeSlots # {}
  THEN /\ task' = [task EXCEPT ![p] = q, ![Least(FreeSlots)] = [r EXCEPT !.parent = p]]
       /\ UNCHANGED failed
  ELSE exits(p) /\ failed' = TRUE

\* wait: one zombie child is gone, and p goes on as q.
waits(p, q) ==
  \E z \in Pid : /\ task[z].parent = p /\ task[z].state = "ZOMBIE"
                 /\ task' = [task EXCEPT ![z] = Idle, ![p] = q]

\* The part of the command of p to its left (1) or right (2).
Part(r, n) ==
  [r EXCEPT !.at = "runcmd", !.place = Append(@, n),
            !.cmd = IF r.cmd.type \in {"PIPE", "LIST"}
                    THEN IF n = 1 THEN r.cmd.left ELSE r.cmd.right
                    ELSE r.cmd.cmd]

-----------------------------------------------------------------------------
(* main.                                                                    *)

getcmd ==
  /\ Runs(sh, "prompt") /\ typed < MaxLines /\ typed' = typed + 1
  /\ \E s \in Lines :
       fork1(sh, [task[sh] EXCEPT !.at = "wait"],
             [task[sh] EXCEPT !.at = "parse", !.tree = parsecmd(s),
                              !.cmd = parsecmd(s), !.place = << typed >>])
  /\ UNCHANGED << bytes, line >>

\* The child's parse ends in panic or in runcmd.
parses(p) ==
  /\ Runs(p, "parse")
  /\ IF task[p].cmd = Panic THEN exits(p)
     ELSE task' = [task EXCEPT ![p].at = "runcmd"]
  /\ UNCHANGED << bytes, typed, failed, line >>

mainWait == /\ Runs(sh, "wait") /\ waits(sh, [task[sh] EXCEPT !.at = "prompt"])
            /\ UNCHANGED << bytes, typed, failed, line >>

\* init starts another shell.
initStarts == /\ task[sh].state = "UNUSED" /\ task' = [task EXCEPT ![sh] = Shell]
              /\ UNCHANGED << bytes, typed, failed, line >>

-----------------------------------------------------------------------------
(* runcmd.                                                                  *)

Does(p, type) == Runs(p, "runcmd") /\ task[p].cmd.type = type

\* A command without words, or one that is no program, ends.
runExec(p) ==
  /\ Does(p, "EXEC")
  /\ LET argv == task[p].cmd.argv
     IN IF argv # << >> /\ argv[1] \in {"cat", "echo"}
        THEN task' = [task EXCEPT ![p].at = argv[1], ![p].left = 1]
        ELSE exits(p)
  /\ UNCHANGED << bytes, typed, failed, line >>

runRedir(p) ==
  /\ Does(p, "REDIR")
  /\ LET c == task[p].cmd
         q == [Part(task[p], 1) EXCEPT !.fd = Opened(Closed(@, c.fd), Named1(c.file))]
     IN IF c.fd = 0 /\ c.file \in NoFile THEN exits(p)
        ELSE task' = [task EXCEPT ![p] = q]
  /\ UNCHANGED << bytes, typed, failed, line >>

runList(p) ==
  /\ Does(p, "LIST")
  /\ fork1(p, [task[p] EXCEPT !.at = "listwait"], Part(task[p], 1))
  /\ UNCHANGED << bytes, typed, line >>

listWait(p) == /\ Runs(p, "listwait") /\ waits(p, Part(task[p], 2))
               /\ UNCHANGED << bytes, typed, failed, line >>

runBack(p) ==
  /\ Does(p, "BACK")
  /\ IF FreeSlots = {} THEN exits(p) /\ failed' = TRUE
     ELSE /\ task' = Exited([task EXCEPT ![Least(FreeSlots)] =
                               [Part(task[p], 1) EXCEPT !.parent = p]], p)
          /\ UNCHANGED failed
  /\ UNCHANGED << bytes, typed, line >>

\* The pipe is named after the place of its command.
runPipe(p) ==
  LET f == task[p].fd
      g == Opened(f, ReadEnd(task[p].place))
  IN /\ Does(p, "PIPE")
     /\ IF Cardinality(FreeFd(f)) < 2 THEN exits(p) /\ UNCHANGED bytes
        ELSE /\ task' = [task EXCEPT ![p] =
                  [@ EXCEPT !.at = "left", !.fd = Opened(g, WriteEnd(task[p].place)),
                            !.pin = Least(FreeFd(f)), !.pout = Least(FreeFd(g))]]
             /\ bytes' = [k \in DOMAIN bytes \cup {task[p].place} |->
                            IF k = task[p].place THEN 0 ELSE bytes[k]]
     /\ UNCHANGED << typed, failed, line >>

pipeLeft(p) ==
  /\ Runs(p, "left")
  /\ fork1(p, [task[p] EXCEPT !.at = "right"], [task[p] EXCEPT !.at = "toleft"])
  /\ UNCHANGED << bytes, typed, line >>

pipeRight(p) ==
  /\ Runs(p, "right")
  /\ fork1(p, [task[p] EXCEPT !.at = "close"], [task[p] EXCEPT !.at = "toright"])
  /\ UNCHANGED << bytes, typed, line >>

BothClosed(r, f) == Closed(Closed(f, r.pin), r.pout)

\* Mutant of LeftFiles: the left command keeps the read end.
LeftFilesKept(r) == Closed(Opened(Closed(r.fd, 1), r.fd[r.pout]), r.pout)

\* close(1); dup(p[1]); close(p[0]); close(p[1]), and the same for the right.
LeftFiles(r) == BothClosed(r, Opened(Closed(r.fd, 1), r.fd[r.pout]))
RightFiles(r) == BothClosed(r, Opened(Closed(r.fd, 0), r.fd[r.pin]))

toPart(p) ==
  /\ \/ /\ Runs(p, "toleft")
        /\ task' = [task EXCEPT ![p] = [Part(@, 1) EXCEPT !.fd = LeftFiles(task[p])]]
     \/ /\ Runs(p, "toright")
        /\ task' = [task EXCEPT ![p] = [Part(@, 2) EXCEPT !.fd = RightFiles(task[p])]]
  /\ UNCHANGED << bytes, typed, failed, line >>

\* Mutant of OwnFiles: the parent keeps the write end.
OwnFilesKept(r) == Closed(r.fd, r.pin)

\* The parent closes both ends.
OwnFiles(r) == BothClosed(r, r.fd)

closesPipe(p) ==
  /\ Runs(p, "close")
  /\ task' = [task EXCEPT ![p] = [@ EXCEPT !.at = "wait1", !.fd = OwnFiles(task[p])]]
  /\ UNCHANGED << bytes, typed, failed, line >>

\* Mutant of AfterOne: the parent waits for one of the two.
AfterOneDone == "done"

AfterOne == "wait2"

pipeWait(p) ==
  /\ \/ Runs(p, "wait1") /\ waits(p, [task[p] EXCEPT !.at = AfterOne])
     \/ Runs(p, "wait2") /\ waits(p, [task[p] EXCEPT !.at = "done"])
     \/ Runs(p, "done") /\ exits(p)
  /\ UNCHANGED << bytes, typed, failed, line >>

-----------------------------------------------------------------------------
(* The programs.                                                            *)

Stays == UNCHANGED << typed, failed, line >>

\* cat reads.  A file and the console have one piece each, and then end.
catReads(p) ==
  LET x == task[p].fd[0]
      next == [task EXCEPT ![p].at = "catwrites", ![p].left = 0]
  IN /\ Runs(p, "cat") /\ Stays
     /\ \/ /\ x.kind = "read" /\ bytes[x.place] > 0
           /\ bytes' = [bytes EXCEPT ![x.place] = @ - 1] /\ task' = next
        \/ /\ x.kind = "read" /\ bytes[x.place] = 0
           /\ Holders(WriteEnd(x.place)) = {} /\ exits(p) /\ UNCHANGED bytes
        \/ /\ x.kind \in {"file", "console"} /\ UNCHANGED bytes
           /\ IF task[p].left > 0 THEN task' = next ELSE exits(p)

\* A write, which fails when nobody can read, and waits when the pipe is full.
writes(p) ==
  LET x == task[p].fd[1]
  IN /\ Runs(p, "echo") \/ Runs(p, "catwrites")
     /\ IF x.kind = "write" /\ Holders(ReadEnd(x.place)) # {}
        THEN /\ bytes[x.place] < PIPESIZE
             /\ bytes' = [bytes EXCEPT ![x.place] = @ + 1]
        ELSE UNCHANGED bytes
     /\ IF task[p].at = "echo" THEN exits(p)
        ELSE task' = [task EXCEPT ![p].at = "cat"]
     /\ Stays

Step(p) ==
  \/ parses(p) \/ runExec(p) \/ runRedir(p) \/ runList(p) \/ listWait(p)
  \/ runBack(p) \/ runPipe(p) \/ pipeLeft(p) \/ pipeRight(p) \/ toPart(p)
  \/ closesPipe(p) \/ pipeWait(p) \/ catReads(p) \/ writes(p)

ShNext == getcmd \/ mainWait \/ initStarts \/ \E p \in Pid : Step(p)

-----------------------------------------------------------------------------
(* Properties.                                                              *)

\* Input and output of the command at place q of tree c, which is itself at
\* place k of its line: a redirection nearer to a program wins.
RECURSIVE Wired(_, _, _, _, _)
Wired(c, k, q, in, out) ==
  IF q = << >> THEN << in, out >>
  ELSE LET sub == CASE c.type \in {"PIPE", "LIST"} ->
                         (IF Head(q) = 1 THEN c.left ELSE c.right)
                    [] OTHER -> c.cmd
           x == CASE c.type = "REDIR" /\ c.fd = 0 -> Named1(c.file)
                  [] c.type = "PIPE" /\ Head(q) = 2 -> ReadEnd(k)
                  [] OTHER -> in
           y == CASE c.type = "REDIR" /\ c.fd = 1 -> Named1(c.file)
                  [] c.type = "PIPE" /\ Head(q) = 1 -> WriteEnd(k)
                  [] OTHER -> out
       IN Wired(sub, Append(k, Head(q)), Tail(q), x, y)

\* Every program runs with the input and the output that its place in the
\* line means, and with no other descriptor open besides the console as 2:
\* whichever descriptors were free when runcmd closed one and opened the
\* next, the file came to the number it was meant for.
PluggedRight ==
  \A p \in Pid : Runs(p, "cat") \/ Runs(p, "echo") =>
    LET r == task[p]
        w == Wired(r.tree, << Head(r.place) >>, Tail(r.place), console, console)
    IN r.fd = [i \in 0 .. NOFILE - 1 |-> CASE i = 0 -> w[1] [] i = 1 -> w[2]
                                            [] i = 2 -> console [] OTHER -> None]

\* A command in the background is below place q of tree c.
RECURSIVE InBackground(_, _)
InBackground(c, q) ==
  /\ q # << >>
  /\ \/ c.type = "BACK"
     \/ c.type \in {"PIPE", "LIST"} /\
          InBackground(IF Head(q) = 1 THEN c.left ELSE c.right, Tail(q))
     \/ c.type = "REDIR" /\ InBackground(c.cmd, Tail(q))

\* At the prompt the shell has no child, and what still runs was started
\* with "&", unless a fork failed: no wait() takes the end of one process for
\* that of another.
PromptIsQuiet ==
  Runs(sh, "prompt") =>
    \A p \in Pid \ {sh} :
      /\ task[p].parent # sh
      /\ task[p].state = "RUN" /\ ~ failed =>
           InBackground(task[p].tree, Tail(task[p].place))

\* Programs get the files they were meant to, and the prompt comes when they
\* have ended.
LinesRun == PluggedRight /\ PromptIsQuiet

\* Every line comes to an end and the shell to its prompt: no reader waits
\* for a write end that a process forgot to close, also when a fork in the
\* middle of a pipeline fails.
LineEnds == Runs(sh, "wait") ~> Runs(sh, "prompt")
=============================================================================
