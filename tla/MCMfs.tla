------------------------------- MODULE MCMfs -------------------------------
(***************************************************************************)
(* Instances of Mfs for TLC: the calls of the programs.  No two            *)
(* directories are given entries of the same name, because a lookup that   *)
(* runs off the end of a directory also finds the names behind it.         *)
(***************************************************************************)
EXTENDS Mfs

MCCalls == {MFS_Creat(0, Reg, "a"), MFS_Creat(0, Dir, "d"),
            MFS_Creat(1, Reg, "b"), MFS_Creat(0, 2, "a"),
            MFS_Write(1, "v", 0), MFS_Write(1, "w", 1),
            MFS_Unlink(0, "a"), MFS_Lookup(0, "a"), MFS_Read(1, 1),
            MFS_Stat(1), MFS_Shutdown}

\* Creations and removals in the root only.
MCUnlinks == {MFS_Creat(0, Reg, "a"), MFS_Creat(0, Reg, "b"),
              MFS_Creat(0, Dir, "d"), MFS_Unlink(0, "a")}
============================================================================
