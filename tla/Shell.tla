------------------------------- MODULE Shell -------------------------------
(***************************************************************************)
(* The shell of P2 (mysh.c): commands in the foreground and in the         *)
(* background, redirection of standard output, the commands exit, cd, pwd  *)
(* and wait.  The shell is one process, a step of it is a line up to the   *)
(* next wait() or the next prompt; its children end at any time.  Lines    *)
(* that the parser refuses change nothing and are left out, and so is what *)
(* is printed.                                                             *)
(***************************************************************************)
EXTENDS Naturals, FiniteSets

CONSTANTS
  Kids,        \* children that can exist at the same time
  MaxCopies    \* descriptors that are left for copies of standard output

ASSUME ShellAssumption == IsFiniteSet(Kids) /\ MaxCopies \in Nat

VARIABLES
  shpc,        \* "prompt", "foreground", "waiting" (the command wait), "gone"
  active, zombies,   \* children that run, and that have ended unnoticed
  out,         \* descriptor 1: "tty" as at the start, "file" or "closed"
  copies,      \* the descriptors that dup() returned and that are open
  saved,       \* d of runCommand: what it is a copy of, or "none" for -1
  redirect,    \* redirect of the command in the foreground
  errno,       \* "ECHILD" or "other"
  seekable,    \* standard output was a file when the shell began
  owed,        \* history: background commands the command wait has not seen
  none,        \* history: the command wait has met the end of the children
  short,       \* history: it has stopped before
  spoiled      \* history: a command left descriptor 1 as it was not before

shvars == << shpc, active, zombies, out, copies, saved, redirect, errno,
             seekable, owed, none, short, spoiled >>

ShInit ==
  /\ shpc = "prompt" /\ active = {} /\ zombies = {} /\ out = "tty"
  /\ copies = 0 /\ saved = "none" /\ redirect = FALSE /\ errno = "other"
  /\ seekable \in BOOLEAN
  /\ owed = 0 /\ none = FALSE /\ short = FALSE /\ spoiled = FALSE

Command == {"exit", "cd", "pwd", "wait", "program"}

\* A line: its first word, whether others follow it, whether it is redirected
\* and where an & is: nowhere, at the end of the last word, or by itself.
Line == [name : Command, more : BOOLEAN, redirect : BOOLEAN,
         amp : {"no", "joined", "apart"}]

One(b) == IF b THEN 1 ELSE 0

\* size of main: the & that stands by itself is made an empty word and stays.
Words(l) == 1 + One(l.more) + One(l.redirect) + One(l.amp = "apart")

-----------------------------------------------------------------------------
(* The beginning and the end of runCommand.                                 *)

Seeks(target) == target = "file" \/ (target = "tty" /\ seekable)
CanCopy == out # "closed" /\ copies < MaxCopies

\* What dup() returns for d.
Saved == IF CanCopy THEN out ELSE "none"
Copies == copies + One(CanCopy)

\* errno after fgetpos() and dup().
Errno == IF Seeks(out) /\ CanCopy THEN errno ELSE "other"

\* Mutant of Restored: descriptor 1 is left alone.
RestoredNot(d) == "file"

\* Descriptor 1 after dup2(d), which fails if there is no copy.
Restored(d) == IF d = "none" THEN "file" ELSE d

\* The lines after "restore the stdout", for a command that began with the
\* copy d.  Only a redirected command closes its copy.
Restore(redirected, d, n, e) ==
  /\ out' = IF redirected THEN Restored(d) ELSE out
  /\ copies' = IF redirected /\ d # "none" THEN n - 1 ELSE n
  /\ errno' = IF redirected /\ ~ (d # "none" /\ Seeks(d)) THEN "other" ELSE e
  /\ saved' = "none" /\ redirect' = FALSE

-----------------------------------------------------------------------------
(* A line, by what becomes of it.                                           *)

\* open() cannot make the file, or the name is the word that & has left.
\* The command returns with descriptor 1 closed.
OpenFails(l) ==
  /\ shpc = "prompt" /\ l.redirect
  /\ out' = "closed" /\ copies' = Copies /\ errno' = "other"
  /\ spoiled' = TRUE
  /\ UNCHANGED << shpc, active, zombies, saved, redirect, seekable, owed,
                  none, short >>

\* The command comes to be told from the others.
Runs(l, name) == /\ shpc = "prompt" /\ l.name = name
                 /\ l.redirect => l.amp # "apart"

exitShell(l) ==
  /\ Runs(l, "exit") /\ shpc' = "gone"
  /\ UNCHANGED << active, zombies, out, copies, saved, redirect, errno,
                  seekable, owed, none, short, spoiled >>

\* cd and pwd, which may fail.
runBuiltin(l) ==
  /\ Runs(l, "cd") \/ Runs(l, "pwd")
  /\ \E e \in {Errno, "other"} : Restore(l.redirect, Saved, Copies, e)
  /\ spoiled' = (spoiled \/ (l.redirect /\ Saved = "none"))
  /\ UNCHANGED << shpc, active, zombies, seekable, owed, none, short >>

\* wait with something behind it, a file included: it returns at once.
waitRefused(l) ==
  /\ Runs(l, "wait") /\ Words(l) > 1
  /\ out' = IF l.redirect THEN "file" ELSE out
  /\ copies' = Copies /\ errno' = Errno
  /\ spoiled' = (spoiled \/ l.redirect)
  /\ UNCHANGED << shpc, active, zombies, saved, redirect, seekable, owed,
                  none, short >>

waitCommand(l) ==
  /\ Runs(l, "wait") /\ Words(l) = 1
  /\ shpc' = "waiting" /\ copies' = Copies /\ errno' = Errno
  /\ UNCHANGED << active, zombies, out, saved, redirect, seekable, owed, none,
                  short, spoiled >>

\* One turn of the loop of wait.  errno is looked at although waitpid() may
\* have succeeded.
waitpid ==
  /\ shpc = "waiting"
  /\ \/ /\ active \cup zombies = {}
        /\ errno' = "ECHILD" /\ shpc' = "prompt" /\ none' = TRUE
        /\ UNCHANGED << zombies, owed, short >>
     \/ \E k \in zombies :
          /\ zombies' = zombies \ {k} /\ owed' = owed - 1
          /\ shpc' = IF errno = "ECHILD" THEN "prompt" ELSE "waiting"
          /\ short' = (short \/ errno = "ECHILD")
          /\ UNCHANGED << errno, none >>
  /\ UNCHANGED << active, out, copies, saved, redirect, seekable, spoiled >>

\* fork(), and for a command in the background all that follows.
program(l) ==
  /\ Runs(l, "program")
  /\ \E k \in Kids \ (active \cup zombies) : active' = active \cup {k}
  /\ IF l.amp = "no"
     THEN /\ shpc' = "foreground"
          /\ out' = IF l.redirect THEN "file" ELSE out
          /\ copies' = Copies /\ saved' = Saved /\ errno' = Errno
          /\ redirect' = l.redirect /\ UNCHANGED owed
     ELSE /\ Restore(l.redirect, Saved, Copies, Errno)
          /\ owed' = owed + 1 /\ UNCHANGED shpc
  /\ spoiled' = (spoiled \/ (l.redirect /\ Saved = "none"))
  /\ UNCHANGED << zombies, seekable, none, short >>

\* There can be no more processes.
forkFails(l) ==
  /\ Runs(l, "program") /\ active \cup zombies = Kids
  /\ shpc' = "gone"
  /\ UNCHANGED << active, zombies, out, copies, saved, redirect, errno,
                  seekable, owed, none, short, spoiled >>

\* wait(NULL) returns, with whichever child has ended.
waitForeground ==
  /\ shpc = "foreground"
  /\ \E k \in zombies : zombies' = zombies \ {k}
  /\ Restore(redirect, saved, copies, errno)
  /\ shpc' = "prompt"
  /\ UNCHANGED << active, seekable, owed, none, short, spoiled >>

\* A program ends, or cannot be executed.
KidEnds(k) ==
  /\ k \in active
  /\ active' = active \ {k} /\ zombies' = zombies \cup {k}
  /\ UNCHANGED << shpc, out, copies, saved, redirect, errno, seekable, owed,
                  none, short, spoiled >>

ShNext ==
  \/ \E l \in Line : \/ OpenFails(l) \/ exitShell(l) \/ runBuiltin(l)
                     \/ waitRefused(l) \/ waitCommand(l)
                     \/ program(l) \/ forkFails(l)
  \/ waitpid \/ waitForeground
  \/ shpc # "gone" /\ \E k \in Kids : KidEnds(k)

ShSpec == ShInit /\ [][ShNext]_shvars

-----------------------------------------------------------------------------
(* Properties.                                                              *)

\* At the prompt there are as many children as background commands that the
\* command wait has still to see: a foreground command that is still active
\* then stands for a background one whose end was taken for its own.  The
\* command wait leaves children behind only because of what errno was from
\* an earlier one, and for that standard output has to be a file.  Standard
\* output is as it was unless a file could not be opened, wait was redirected
\* or there was no descriptor for the copy, and copies pile up to the limit.
ShellExplained ==
  /\ shpc = "prompt" => Cardinality(active \cup zombies) = owed
  /\ shpc = "foreground" => Cardinality(active \cup zombies) = owed + 1
  /\ short => none /\ (seekable \/ spoiled)
  /\ shpc = "prompt" /\ ~ spoiled => out = "tty"
  /\ copies <= MaxCopies
=============================================================================
