------------------------------ MODULE BytePipe ------------------------------
(***************************************************************************)
(* What pipe(), read() and write() promise: bytes come out in the order    *)
(* they went in, none is lost or made up, at most Capacity of them wait,   *)
(* and the end of the file is reported only when no descriptor for writing *)
(* is left and every byte has been read.                                   *)
(***************************************************************************)
EXTENDS Naturals, Sequences

CONSTANTS Pipes, Capacity, Values

VARIABLES
  queue,   \* queue[g]: the bytes written to pipe g and not read yet
  ends,    \* ends[g]: which of "r" and "w" are open
  eof      \* eof[g]: a read from g has returned 0

vars == << queue, ends, eof >>

Init == /\ queue = [g \in Pipes |-> << >>]
        /\ ends = [g \in Pipes |-> {}]
        /\ eof = [g \in Pipes |-> FALSE]

Open(g) == /\ ends[g] = {}
           /\ ends' = [ends EXCEPT ![g] = {"r", "w"}]
           /\ queue' = [queue EXCEPT ![g] = << >>]
           /\ eof' = [eof EXCEPT ![g] = FALSE]

Write(g) == /\ "w" \in ends[g]
            /\ \E k \in 1 .. Capacity - Len(queue[g]) :
                 \E s \in [1 .. k -> Values] :
                   queue' = [queue EXCEPT ![g] = @ \o s]
            /\ UNCHANGED << ends, eof >>

Read(g) == /\ "r" \in ends[g]
           /\ \E k \in 1 .. Len(queue[g]) :
                queue' = [queue EXCEPT ![g] = SubSeq(@, k + 1, Len(@))]
           /\ UNCHANGED << ends, eof >>

ReadEnd(g) == /\ ends[g] = {"r"} /\ queue[g] = << >>
              /\ eof' = [eof EXCEPT ![g] = TRUE]
              /\ UNCHANGED << queue, ends >>

\* When both ends are closed the bytes that nobody read are gone.
Close(g, e) == /\ e \in ends[g]
               /\ ends' = [ends EXCEPT ![g] = @ \ {e}]
               /\ queue' = IF ends[g] = {e} THEN [queue EXCEPT ![g] = << >>]
                           ELSE queue
               /\ UNCHANGED eof

Next == \E g \in Pipes : \/ Open(g) \/ Write(g) \/ Read(g) \/ ReadEnd(g)
                         \/ \E e \in ends[g] : Close(g, e)

Spec == Init /\ [][Next]_vars
=============================================================================
