-------------------------------- MODULE MCFs --------------------------------
(***************************************************************************)
(* Instance of Fs for TLC: directories /a and /a/a, a file /b and one free *)
(* inode; p is in /a/a, q at the root.                                     *)
(***************************************************************************)
EXTENDS Fs

CONSTANTS p, q

MCTree == [i \in Inums |->
  CASE i = 1 -> [FreeInode EXCEPT !.type = "dir", !.nlink = 2, !.up = 1,
                                  !.entries = [NoEntries EXCEPT !["a"] = 2,
                                                                !["b"] = 4]]
    [] i = 2 -> [FreeInode EXCEPT !.type = "dir", !.nlink = 2, !.up = 1,
                                  !.entries["a"] = 3]
    [] i = 3 -> [FreeInode EXCEPT !.type = "dir", !.nlink = 1, !.up = 2]
    [] i = 4 -> [FreeInode EXCEPT !.type = "file", !.nlink = 1]
    [] OTHER -> FreeInode]
MCCwd == [r \in Procs |-> IF r = p THEN 3 ELSE 1]

Rel(s) == [abs |-> FALSE, elems |-> s]
RootB == [abs |-> TRUE, elems |-> << "b" >>]
Does(kind, path) == [kind |-> kind, path |-> path, new |-> path]

\* Calls that meet in the two directories, in the file and in the free inode.
MCCalls ==
  {Does("unlink", x) : x \in {Rel(<< "a" >>), Rel(<< "a", "a" >>), RootB}}
  \cup {Does("open", RootB)}
  \cup {Does("create", Rel(<< "..", "b" >>))}
  \cup {Does("mkdir", x) : x \in {Rel(<< ".." >>), Rel(<< "a" >>)}}
  \cup {Does("chdir", Rel(<< "a" >>))}
  \cup {[kind |-> "link", path |-> x, new |-> Rel(<< "a" >>)] :
          x \in {RootB, Rel(<< "a" >>)}}
=============================================================================
