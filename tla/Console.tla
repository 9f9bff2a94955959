------------------------------ MODULE Console ------------------------------
(***************************************************************************)
(* Input from the console of xv6 (console.c): the interrupt that puts what *)
(* is typed into a ring and edits the line, and the processes that read    *)
(* lines.  A step is a key, or what consoleread does under input.lock      *)
(* before it returns or sleeps.  A character is "x", "\n" or "D", the end  *)
(* of the file.                                                            *)
(***************************************************************************)
EXTENDS Naturals, Sequences, FiniteSets

CONSTANTS
  Readers,     \* processes that read
  INPUT_BUF,   \* size of the ring
  INDEX,       \* the indices are uint: modulo this (2^32 in the code)
  MaxRead      \* bound: how much one call asks for

ASSUME ConAssumption ==
  /\ INPUT_BUF \in Nat \ {0} /\ INDEX \in Nat
  /\ INDEX % INPUT_BUF = 0 /\ INDEX >= 2 * INPUT_BUF

VARIABLES
  buf,         \* input.buf
  r, w, e,     \* input.r, input.w, input.e
  want,        \* want[p]: n of the call of p, 0 outside a call
  some,        \* some[p]: the call has read something: n < target
  asleep,      \* processes that sleep on input.r
  gone,        \* gone[p]: proc->killed
  lines,       \* history: the characters of finished lines, not read yet
  edit         \* history: the line that is being typed

ring == << buf, r, w, e, lines, edit >>
readers == << want, some, asleep, gone >>
convars == << ring, readers >>

ConInit ==
  /\ buf = [i \in 0 .. INPUT_BUF - 1 |-> "x"] /\ r = 0 /\ w = 0 /\ e = 0
  /\ want = [p \in Readers |-> 0] /\ some = [p \in Readers |-> FALSE]
  /\ asleep = {} /\ gone = [p \in Readers |-> FALSE]
  /\ lines = << >> /\ edit = << >>

Minus(i, j) == (i + INDEX - j) % INDEX
Plus(i, j) == (i + j) % INDEX
Char(i) == buf[i % INPUT_BUF]

-----------------------------------------------------------------------------
(* consoleintr.                                                             *)

\* Mutant of Ends: a line that fills the ring is not given to the readers.
EndsByKey(c, end) == c \in {"\n", "D"}

\* The line is given to the readers.
Ends(c, end) == c \in {"\n", "D"} \/ end = Plus(r, INPUT_BUF)

\* An ordinary character, "\n" and end of file.
key(c) ==
  /\ Minus(e, r) < INPUT_BUF
  /\ buf' = [buf EXCEPT ![e % INPUT_BUF] = c]
  /\ e' = Plus(e, 1)
  /\ IF Ends(c, Plus(e, 1))
     THEN /\ w' = Plus(e, 1) /\ asleep' = {}
          /\ lines' = lines \o Append(edit, c) /\ edit' = << >>
     ELSE edit' = Append(edit, c) /\ UNCHANGED << w, asleep, lines >>
  /\ UNCHANGED << r, want, some, gone >>

\* What is left of the line by the key that kills it.
KeptOf == CHOOSE i \in 0 .. Minus(e, w) :
            /\ i = 0 \/ Char(Plus(w, i - 1)) = "\n"
            /\ \A j \in i + 1 .. Minus(e, w) : Char(Plus(w, j - 1)) # "\n"

killLine == /\ e' = Plus(w, KeptOf) /\ edit' = << >>
            /\ UNCHANGED << buf, r, w, lines, readers >>

backspace == /\ e # w /\ e' = Minus(e, 1)
             /\ edit' = SubSeq(edit, 1, Len(edit) - 1)
             /\ UNCHANGED << buf, r, w, lines, readers >>

-----------------------------------------------------------------------------
(* consoleread.                                                             *)

read(p, n) == /\ want[p] = 0 /\ want' = [want EXCEPT ![p] = n]
              /\ UNCHANGED << ring, some, asleep, gone >>

Available == Minus(w, r)

\* How many characters are taken from the ring, the one that ends the loop
\* included, and whether there is one.
Stops(i, n) == i = n \/ Char(Plus(r, i - 1)) \in {"\n", "D"}
Ending(n) == {i \in 1 .. Available : i <= n /\ Stops(i, n)}
Least(S) == CHOOSE i \in S : \A j \in S : i <= j

\* The end of the file is left for the next call if this one has something.
PutBack(p, i) == Char(Plus(r, i - 1)) = "D" /\ (some[p] \/ i > 1)

\* The call of p returns.
Back(p) == /\ want' = [want EXCEPT ![p] = 0]
           /\ some' = [some EXCEPT ![p] = FALSE]
           /\ gone' = [gone EXCEPT ![p] = FALSE]

\* k characters have been taken.
Takes(k) == /\ r' = Plus(r, k) /\ lines' = SubSeq(lines, k + 1, Len(lines))
            /\ UNCHANGED << buf, w, e, edit >>

consoleread(p) ==
  /\ want[p] > 0 /\ p \notin asleep
  /\ IF Ending(want[p]) # {}
     THEN LET i == Least(Ending(want[p]))
          IN /\ Takes(IF PutBack(p, i) THEN i - 1 ELSE i)
             /\ Back(p) /\ UNCHANGED asleep
     ELSE /\ Takes(Available)
          /\ IF gone[p] THEN Back(p) /\ UNCHANGED asleep
             ELSE /\ asleep' = asleep \cup {p}
                  /\ want' = [want EXCEPT ![p] = @ - Available]
                  /\ some' = [some EXCEPT ![p] = @ \/ Available > 0]
                  /\ UNCHANGED gone

\* kill() of a process that reads.  It misses the sleep if it comes between
\* the test of proc->killed and sleep().
killReader(p) ==
  /\ want[p] > 0 /\ ~ gone[p]
  /\ gone' = [gone EXCEPT ![p] = TRUE]
  /\ asleep' \in {asleep, asleep \ {p}}
  /\ UNCHANGED << ring, want, some >>

ConNext ==
  \/ \E c \in {"x", "\n", "D"} : key(c)
  \/ killLine \/ backspace
  \/ \E p \in Readers : \/ consoleread(p) \/ killReader(p)
                        \/ \E n \in 1 .. MaxRead : read(p, n)

ConSpec == ConInit /\ [][ConNext]_convars

-----------------------------------------------------------------------------
(* Properties.                                                              *)

\* The ring holds exactly the finished lines that nobody has read and then
\* the line being typed, over the wrap of the indices and whoever reads
\* pieces of lines.  A process sleeps only when there is nothing to read,
\* and a full ring has something to read, so neither the reader nor the
\* keyboard waits for ever for the other.
ConsoleSound ==
  /\ Len(lines) = Minus(w, r) /\ Len(edit) = Minus(e, w)
  /\ Minus(e, r) <= INPUT_BUF
  /\ \A i \in 1 .. Minus(e, r) : Char(Plus(r, i - 1)) = (lines \o edit)[i]
  /\ asleep # {} => r = w
  /\ Minus(e, r) = INPUT_BUF => r # w
=============================================================================
