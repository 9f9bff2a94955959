------------------------------ MODULE ShParse ------------------------------
(***************************************************************************)
(* The parser of xv6's shell (user/sh.c).  A line is a sequence of tokens, *)
(* as gettoken cuts it: a symbol or a word.  A command is a tree of        *)
(* records, one for each constructor of sh.c.                              *)
(***************************************************************************)
EXTENDS Naturals, Sequences

CONSTANTS
  MAXARGS,     \* size of argv, the 0 at its end included
  Tokens,      \* what may be typed
  MaxTokens    \* bound: length of a line

VARIABLE line  \* the line that is being typed

Directions == {"<", ">", ">>"}
Symbols == Directions \cup {"|", "&", ";", "(", ")"}

\* Constructors of commands.
execcmd(argv) == [type |-> "EXEC", argv |-> argv]
redircmd(cmd, file, fd) ==
  [type |-> "REDIR", cmd |-> cmd, file |-> file, fd |-> fd]
pipecmd(left, right) == [type |-> "PIPE", left |-> left, right |-> right]
listcmd(left, right) == [type |-> "LIST", left |-> left, right |-> right]
backcmd(cmd) == [type |-> "BACK", cmd |-> cmd]

\* The child that parses has called panic, which ends it.
Panic == [type |-> "PANIC"]

-----------------------------------------------------------------------------
(* The parser.  Each operator takes the position of the next token and      *)
(* returns a command and the position after it.                             *)

peek(s, i, toks) == i <= Len(s) /\ s[i] \in toks
IsWord(s, i) == i <= Len(s) /\ s[i] \notin Symbols

At(cmd, i) == [cmd |-> cmd, pos |-> i]
Fails(i) == At(Panic, i)

\* The redirection by token dir around a command.
Redirected(cmd, dir, file) == redircmd(cmd, file, IF dir = "<" THEN 0 ELSE 1)

RECURSIVE parseredirs(_, _, _)
parseredirs(cmd, s, i) ==
  IF ~ peek(s, i, Directions) THEN At(cmd, i)
  ELSE IF ~ IsWord(s, i + 1) THEN Fails(i)
  ELSE parseredirs(Redirected(cmd, s[i], s[i + 1]), s, i + 2)

\* One more argument for the command under the redirections.
RECURSIVE WithArg(_, _)
WithArg(cmd, a) ==
  IF cmd.type = "EXEC" THEN execcmd(Append(cmd.argv, a))
  ELSE [cmd EXCEPT !.cmd = WithArg(@, a)]

RECURSIVE argc(_)
argc(cmd) == IF cmd.type = "EXEC" THEN Len(cmd.argv) ELSE argc(cmd.cmd)

\* The loop of parseexec.
RECURSIVE parseargs(_, _)
parseargs(r, s) ==
  IF r.cmd = Panic \/ r.pos > Len(s) \/ peek(s, r.pos, {"|", ")", "&", ";"})
  THEN r
  ELSE IF ~ IsWord(s, r.pos) \/ argc(r.cmd) + 1 >= MAXARGS THEN Fails(r.pos)
  ELSE parseargs(parseredirs(WithArg(r.cmd, s[r.pos]), s, r.pos + 1), s)

RECURSIVE parseline(_, _), parsepipe(_, _), backs(_, _)

parseblock(s, i) ==
  LET l == parseline(s, i + 1)
  IN IF l.cmd = Panic \/ ~ peek(s, l.pos, {")"}) THEN Fails(l.pos)
     ELSE parseredirs(l.cmd, s, l.pos + 1)

parseexec(s, i) ==
  IF peek(s, i, {"("}) THEN parseblock(s, i)
  ELSE parseargs(parseredirs(execcmd(<< >>), s, i), s)

parsepipe(s, i) ==
  LET l == parseexec(s, i)
      r == parsepipe(s, l.pos + 1)
  IN IF l.cmd = Panic \/ ~ peek(s, l.pos, {"|"}) THEN l
     ELSE IF r.cmd = Panic THEN r ELSE At(pipecmd(l.cmd, r.cmd), r.pos)

\* Mutant of backs: one "&" at most.
backsOnce(r, s) ==
  IF r.cmd # Panic /\ peek(s, r.pos, {"&"}) THEN At(backcmd(r.cmd), r.pos + 1)
  ELSE r

\* The loop of parseline.
backs(r, s) ==
  IF r.cmd # Panic /\ peek(s, r.pos, {"&"})
  THEN backs(At(backcmd(r.cmd), r.pos + 1), s) ELSE r

parseline(s, i) ==
  LET l == backs(parsepipe(s, i), s)
      r == parseline(s, l.pos + 1)
  IN IF l.cmd = Panic \/ ~ peek(s, l.pos, {";"}) THEN l
     ELSE IF r.cmd = Panic THEN r ELSE At(listcmd(l.cmd, r.cmd), r.pos)

\* Tokens left over are a syntax error.
parsecmd(s) ==
  LET l == parseline(s, 1) IN IF l.pos <= Len(s) THEN Panic ELSE l.cmd

-----------------------------------------------------------------------------
(* Typing, one token at a time.                                             *)

PsInit == line = << >>
gets == Len(line) < MaxTokens /\ \E t \in Tokens : line' = Append(line, t)
PsNext == gets
PsSpec == PsInit /\ [][PsNext]_line

-----------------------------------------------------------------------------
(* The language, said without a parser: the commands that a sequence of     *)
(* tokens stands for.                                                       *)

Before(s, i) == SubSeq(s, 1, i - 1)
After(s, i) == SubSeq(s, i + 1, Len(s))

\* Positions of directions, all of them with a word after them.
Dirs(s) == {i \in DOMAIN s : s[i] \in Directions}
Named(s) == \A i \in Dirs(s) : i < Len(s) /\ s[i + 1] \notin Symbols

\* The words that are no names of files.
Args(s) == {i \in DOMAIN s : s[i] \notin Symbols /\ i - 1 \notin Dirs(s)}
Ordered(s, I) == SelectSeq([i \in DOMAIN s |-> IF i \in I THEN s[i] ELSE ""],
                           LAMBDA w : w # "")

\* A command with the redirections of s around it, the first innermost.
RECURSIVE Around(_, _)
Around(cmd, s) ==
  IF Dirs(s) = {} THEN cmd
  ELSE LET last == CHOOSE i \in Dirs(s) : \A j \in Dirs(s) : j <= i
       IN Redirected(Around(cmd, Before(s, last)), s[last], s[last + 1])

Simple(s) ==
  IF /\ \A i \in DOMAIN s : s[i] \in Directions \/ s[i] \notin Symbols
     /\ Named(s) /\ Len(Ordered(s, Args(s))) < MAXARGS
  THEN {Around(execcmd(Ordered(s, Args(s))), s)} ELSE {}

OnlyRedirections(s) ==
  Named(s) /\ \A i \in DOMAIN s : i \in Dirs(s) \/ i - 1 \in Dirs(s)

RECURSIVE Line(_), Backed(_), Piped(_), Single(_)

Single(s) ==
  Simple(s) \cup
  UNION {{Around(c, After(s, j)) : c \in Line(SubSeq(s, 2, j - 1))} :
           j \in {k \in DOMAIN s : /\ k > 1 /\ s[1] = "(" /\ s[k] = ")"
                                   /\ OnlyRedirections(After(s, k))}}

Piped(s) ==
  Single(s) \cup
  UNION {{pipecmd(l, r) : l \in Single(Before(s, i)), r \in Piped(After(s, i))} :
           i \in {k \in DOMAIN s : s[k] = "|"}}

Backed(s) ==
  Piped(s) \cup (IF s # << >> /\ s[Len(s)] = "&"
                 THEN {backcmd(c) : c \in Backed(Before(s, Len(s)))} ELSE {})

Line(s) ==
  Backed(s) \cup
  UNION {{listcmd(l, r) : l \in Backed(Before(s, i)), r \in Line(After(s, i))} :
           i \in {k \in DOMAIN s : s[k] = ";"}}

-----------------------------------------------------------------------------
(* Property.                                                                *)

\* parsecmd, which looks one token ahead and never goes back, accepts every
\* line of the language, with the command it stands for, and panics on every
\* other; no line stands for two commands.
ParsesTheLanguage ==
  Line(line) = IF parsecmd(line) = Panic THEN {} ELSE {parsecmd(line)}
=============================================================================
