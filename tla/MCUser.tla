------------------------------- MODULE MCUser -------------------------------
(***************************************************************************)
(* Instances for TLC of the shell of xv6, of the pages of memory and of    *)
(* the tool that makes the first image.  They share no state here: a       *)
(* behaviour is one of a single part, chosen in the initial state.         *)
(*                                                                         *)
(* The shell: either every line of a few tokens is typed and parsed, or    *)
(* the lines below are run: pipes of two and three commands, a list with a *)
(* redirection inside a pipe, nested and repeated redirections, commands   *)
(* in the background, a missing file and errors.                           *)
(*                                                                         *)
(* Pages: init needs five pages and a child of one page as many; the       *)
(* others are enough for a second child to get some of its pages, for an   *)
(* exec to fail anywhere, and for an sbrk of two pages to get one.         *)
(***************************************************************************)
EXTENDS Sh, Pages, Mkfs

VARIABLE part

MCTokens == {"w", "<", ">>", "|", "&", ";", "(", ")"}
MCLines == {
  << "echo", "|", "cat", "|", "cat" >>,
  << "(", "echo", ";", "cat", "<", "f", ")", "|", "cat", ">", "g" >>,
  << "echo", ">", "f", ">", "g", ";", "no" >>,
  << "cat", "<", "m", "|", "cat" >>,
  << "echo", "|", "cat", "|", "cat", "&" >>,
  << "cat", "&", ";", "echo", "&" >>,
  << "echo", "|", "(" >>,
  << "<", "f", ";" >> }
MCGrows == {-3, 1, 4}

uservars == << shvars, pgvars, mkvars, part >>
Still(p, v) == part # p => UNCHANGED v

UserInit == /\ part \in {"type", "run", "pages", "mkfs"}
            /\ PsInit /\ ShInit /\ PgInit /\ MkInit

UserNext ==
  /\ \/ part = "type" /\ PsNext /\ UNCHANGED << task, bytes, typed, failed >>
     \/ part = "run" /\ ShNext
     \/ part = "pages" /\ PgNext
     \/ part = "mkfs" /\ MkNext
  /\ (part \notin {"type", "run"} => UNCHANGED shvars)
  /\ Still("pages", pgvars) /\ Still("mkfs", mkvars) /\ UNCHANGED part

\* A step of the shell's behaviours, for the fairness of its processes.
Alone(A) == part = "run" /\ A /\ UNCHANGED << pgvars, mkvars, part >>

UserSpec == /\ UserInit /\ [][UserNext]_uservars
            /\ WF_shvars(Alone(mainWait \/ initStarts))
            /\ \A p \in Pid : WF_shvars(Alone(Step(p)))
=============================================================================
