--------------------------- MODULE PriorityQueue ---------------------------
(***************************************************************************)
(* What the request buffer of the multi-threaded web server promises       *)
(* (P4/web_server/server.h, struct queue): a bounded set of requests from  *)
(* which only a request of least priority is ever handed out.  HeapQueue   *)
(* implements it with the array heap of server.c; WebServer relies on it.  *)
(***************************************************************************)
EXTENDS Integers, FiniteSets

CONSTANTS Data,     \* the requests that can be buffered
          Buffers   \* the number of buffers given on the command line

VARIABLES items,    \* the buffered requests
          ret       \* the request dequeue() returned last

Least(S) == {d \in S : \A e \in S : d.priority =< e.priority}

Init == items = {} /\ ret \notin Data

\* enqueue(), called only when the buffer is not full.
Put(d) == /\ Cardinality(items) < Buffers
          /\ d \notin items
          /\ items' = items \union {d}
          /\ UNCHANGED ret

\* dequeue(), called only when the buffer is not empty.
Take == \E d \in Least(items) : items' = items \ {d} /\ ret' = d

Next == Take \/ \E d \in Data : Put(d)

Spec == Init /\ [][Next]_<<items, ret>>
=============================================================================
