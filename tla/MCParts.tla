------------------------------ MODULE MCParts ------------------------------
(***************************************************************************)
(* Instances for TLC of the parts that run alone: the request buffer of    *)
(* P4's server, the memory allocator and the address space of P3, the      *)
(* lottery and the shell of P2, the checksummed files of P5, the input     *)
(* from the console, the spin locks, the allocator of user programs, the   *)
(* blocks of files and the condition variables of P4.  They share no       *)
(* state: a behaviour is one of a single part, chosen in the initial       *)
(* state, and the others stay as they begin.                               *)
(*                                                                         *)
(* Four buffers give a heap of three levels with a node of two children    *)
(* and one of one, and as many descriptors fill it.                        *)
(***************************************************************************)
EXTENDS HeapQueue, MemAlloc, AddressSpace, Lottery, Checked, Shell,
        Console, Spinlock, UMalloc, Blocks, CondVar

VARIABLE part

allvars == << vars, memvars, vmvars, lotvars, chkvars, shvars,
              convars, spvars, umvars, bkvars, cvvars, part >>

PartInit ==
  /\ part \in {"HeapQueue", "MemAlloc", "AddressSpace", "Lottery", "Checked",
               "Shell", "Console", "Spinlock", "UMalloc", "Blocks",
               "CondVar"}
  /\ Init /\ MemInit /\ VmInit /\ LotInit /\ ChkInit
  /\ ShInit /\ (part # "Shell" => ~ seekable)
  /\ ConInit /\ SpInit /\ UmInit /\ BkInit /\ CvInit

Still(p, v) == part # p => UNCHANGED v

PartNext ==
  /\ \/ part = "HeapQueue" /\ Next
     \/ part = "MemAlloc" /\ MemNext
     \/ part = "AddressSpace" /\ VmNext
     \/ part = "Lottery" /\ LotNext
     \/ part = "Checked" /\ ChkNext
     \/ part = "Shell" /\ ShNext
     \/ part = "Console" /\ ConNext
     \/ part = "Spinlock" /\ SpNext
     \/ part = "UMalloc" /\ UmNext
     \/ part = "Blocks" /\ BkNext
     \/ part = "CondVar" /\ CvNext
  /\ Still("HeapQueue", vars) /\ Still("MemAlloc", memvars)
  /\ Still("AddressSpace", vmvars) /\ Still("Lottery", lotvars)
  /\ Still("Checked", chkvars) /\ Still("Shell", shvars)
  /\ Still("Console", convars) /\ Still("Spinlock", spvars)
  /\ Still("UMalloc", umvars) /\ Still("Blocks", bkvars)
  /\ Still("CondVar", cvvars) /\ UNCHANGED part

PartSpec == PartInit /\ [][PartNext]_allvars

MCGrows == {-6, -3, 1, 4}
=============================================================================
