------------------------------- MODULE Arena -------------------------------
(***************************************************************************)
(* What a memory allocator promises: a block it gives out lies in the      *)
(* region, overlaps no other block that is in use, keeps its place and     *)
(* size until it is freed, and only then is given out again.               *)
(***************************************************************************)
EXTENDS Integers

CONSTANT Sizes     \* sizes that are asked for

VARIABLES
  region,  \* addresses are 0 .. region - 1; 0 before there is a region
  live     \* the blocks in use: [at, len]

vars == << region, live >>

Init == region = 0 /\ live = {}

SetUp == /\ region = 0 /\ region' > 0
         /\ UNCHANGED live

Apart(a, b) == a.at + a.len <= b.at \/ b.at + b.len <= a.at

Alloc == \E at \in 0 .. region - 1, len \in 1 .. region, s \in Sizes :
           LET new == [at |-> at, len |-> len]
           IN /\ len >= s /\ at + len <= region
              /\ \A b \in live : Apart(new, b)
              /\ live' = live \cup {new}
              /\ UNCHANGED region

Free == \E b \in live : live' = live \ {b} /\ UNCHANGED region

Spec == Init /\ [][SetUp \/ Alloc \/ Free]_vars
============================================================================
