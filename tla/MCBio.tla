------------------------------- MODULE MCBio -------------------------------
(***************************************************************************)
(* Instance of Bio for TLC: sector 3 stands for the block bitmap, which is *)
(* read while the indirect block of a file (1) is held; 2 is a block that  *)
(* is read alone.  There are more sectors than buffers, so that buffers    *)
(* are recycled, and fewer buffers than two processes can want to hold.    *)
(***************************************************************************)
EXTENDS Bio

MCNest == {<< 1, 3 >>}
MCDisk == [s \in Sectors |-> IF s = 1 THEN 1 ELSE 0]
============================================================================
