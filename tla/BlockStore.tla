----------------------------- MODULE BlockStore -----------------------------
(***************************************************************************)
(* What bio.c promises its callers (the interface comment of bio.c): a     *)
(* block belongs to one process between bread and brelse, its contents are *)
(* what was last written to it, and only its holder changes them.  The one *)
(* exception is a block the disk failed to read, which the driver reports  *)
(* to nobody: nothing is promised of its contents from then on.            *)
(***************************************************************************)
EXTENDS Naturals

CONSTANTS Procs, Sectors, Values, Blank, Nobody

VARIABLES
  store,    \* store[s]: the contents of block s, Blank once a read failed
  holder,   \* holder[s]: the process that has block s, or Nobody
  failed    \* blocks of which a read failed

vars == << store, holder, failed >>

Init == /\ store \in [Sectors -> Values]
        /\ holder = [s \in Sectors |-> Nobody]
        /\ failed = {}

Acquire(p, s) == /\ holder[s] = Nobody
                 /\ holder' = [holder EXCEPT ![s] = p]
                 /\ UNCHANGED << store, failed >>

Write(p, s, v) == /\ holder[s] = p
                  /\ store' = IF s \in failed THEN store
                              ELSE [store EXCEPT ![s] = v]
                  /\ UNCHANGED << holder, failed >>

Release(p, s) == /\ holder[s] = p
                 /\ holder' = [holder EXCEPT ![s] = Nobody]
                 /\ UNCHANGED << store, failed >>

Damage(s) == /\ holder[s] # Nobody
             /\ failed' = failed \cup {s}
             /\ store' = [store EXCEPT ![s] = Blank]
             /\ UNCHANGED holder

Next == \E s \in Sectors :
          \/ \E p \in Procs : \/ Acquire(p, s)
                              \/ Release(p, s)
                              \/ \E v \in Values : Write(p, s, v)
          \/ Damage(s)

Spec == Init /\ [][Next]_vars
=============================================================================
