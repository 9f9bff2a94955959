----------------------------- MODULE MfsProofs -----------------------------
(***************************************************************************)
(* The exchange of datagrams between library and server, for any number of *)
(* clients, calls and faults and whatever the server does with its image.  *)
(***************************************************************************)
EXTENDS Mfs, TLAPS

\* The types the argument needs.
NetType == /\ pc \in [Clients -> {"idle", "wait"}]
           /\ call \in [Clients -> Calls \cup {NoCall}]
           /\ lates \in Nat

IInv == NetType /\ OneDatagram

\* Each action keeps the types of the client's variables.
LEMMA TypeStep == NetType /\ [Next]_vars => NetType'
<1> SUFFICES ASSUME NetType, [Next]_vars PROVE NetType'
  OBVIOUS
<1> USE DEF NetType
<1>1. ASSUME NEW c \in Clients, NEW k \in Calls, Send(c, k) PROVE NetType'
  BY <1>1 DEF Send
<1>2. ASSUME NEW c \in Clients, Resend(c) \/ ResendLate(c) \/ Receive(c)
      PROVE  NetType'
  BY <1>2 DEF Resend, ResendLate, Receive, bounds
<1>3. CASE Handle \/ Crash \/ Restart \/ Bounce \/ Lose
  BY <1>3 DEF Handle, Crash, Restart, Bounce, Lose, bounds
<1>4. CASE UNCHANGED vars
  BY <1>4 DEF vars, bounds
<1> QED
  BY <1>1, <1>2, <1>3, <1>4 DEF Next

\* What the invariant says of one client.
Orderly(c) == /\ pc[c] = "idle" => Quiet(c)
              /\ \A m, n \in Mine(c, reqs) : m = n
              /\ \A m, n \in Mine(c, reps) : m = n
              /\ \A m \in Mine(c, reqs) :
                   m.call = call[c] /\ Mine(c, reps) = {}

\* Datagrams only disappear, and nothing else about c changes.
LEMMA FewerDatagrams ==
  ASSUME NEW c \in Clients, Orderly(c),
         reqs' \subseteq reqs, reps' \subseteq reps,
         pc'[c] = pc[c], call'[c] = call[c]
  PROVE  Orderly(c)'
BY DEF Orderly, Quiet, Mine

\* A step of a client puts or takes only datagrams of its own.
LEMMA ClientStep ==
  ASSUME NEW c \in Clients, NetType, lates = 0, lates' = 0,
         \A d \in Clients : Orderly(d),
         Resend(c) \/ ResendLate(c) \/ Receive(c)
           \/ \E k \in Calls : Send(c, k)
  PROVE  \A d \in Clients : Orderly(d)'
<1> SUFFICES ASSUME NEW d \in Clients PROVE Orderly(d)'
  OBVIOUS
<1>0. Orderly(c) /\ Orderly(d)
  OBVIOUS
<1>1. ASSUME NEW k \in Calls, Send(c, k) PROVE Orderly(d)'
  <2>1. /\ Quiet(c) /\ reps' = reps
        /\ reqs' = reqs \cup {Request(c, k, calls, 0)}
        /\ pc' = [pc EXCEPT ![c] = "wait"]
        /\ call' = [call EXCEPT ![c] = k]
    BY <1>0, <1>1 DEF Send, Orderly
  <2> QED
    BY <1>0, <2>1 DEF Orderly, Quiet, Mine, Request, NetType
<1>2. CASE Resend(c)
  <2>1. /\ Quiet(c) /\ reps' = reps /\ pc[c] = "wait"
        /\ reqs' = reqs \cup {Request(c, call[c], calls, lates)}
        /\ pc' = pc /\ call' = call
    BY <1>2 DEF Resend
  <2> QED
    BY <1>0, <2>1 DEF Orderly, Quiet, Mine, Request, NetType
<1>3. CASE ResendLate(c)
  BY <1>3 DEF ResendLate
<1>4. CASE Receive(c)
  <2>1. PICK r \in Mine(c, reps) : reps' = reps \ {r}
    BY <1>4 DEF Receive, Taken
  <2>2. /\ reqs' = reqs
        /\ pc' = [pc EXCEPT ![c] = "idle"]
        /\ call' = [call EXCEPT ![c] = NoCall]
    BY <1>4 DEF Receive
  <2>3. CASE d = c
    <3>1. Mine(c, reqs) = {} /\ Mine(c, reps) = {r}
      BY <1>0, <2>1 DEF Orderly
    <3>2. Mine(c, reqs)' = {} /\ Mine(c, reps)' = {}
      BY <2>1, <2>2, <3>1 DEF Mine
    <3> QED
      BY <2>3, <3>2 DEF Orderly, Quiet, Mine
  <2>4. CASE d # c
    BY <1>0, <2>1, <2>2, <2>4, FewerDatagrams DEF NetType
  <2> QED
    BY <2>3, <2>4
<1> QED
  BY <1>1, <1>2, <1>3, <1>4

\* The server answers a request with one reply in its place; a kill, a loss
\* and a closed port only take datagrams away.
LEMMA ServerStep ==
  ASSUME NetType, lates = 0, \A d \in Clients : Orderly(d),
         Handle \/ Crash \/ Restart \/ Bounce \/ Lose
  PROVE  \A d \in Clients : Orderly(d)'
<1> SUFFICES ASSUME NEW d \in Clients PROVE Orderly(d)'
  OBVIOUS
<1>0. Orderly(d)
  OBVIOUS
<1>1. CASE Handle
  <2>1. PICK m \in reqs :
          /\ \E o \in Outcomes(m.call) :
               reps' = reps \cup {[from |-> m.from, id |-> m.id,
                                  late |-> m.late, ret |-> o.ret,
                                  val |-> o.val]}
          /\ reqs' \subseteq reqs \ {m}
    BY <1>1 DEF Handle
  <2>2. pc' = pc /\ call' = call
    BY <1>1 DEF Handle
  <2>3. CASE m.from = d
    <3>1. m \in Mine(d, reqs) /\ Mine(d, reps) = {}
      BY <1>0, <2>1, <2>3 DEF Orderly, Mine
    <3>2. Mine(d, reqs)' = {} /\ pc[d] # "idle"
      BY <1>0, <2>1, <3>1 DEF Orderly, Quiet, Mine
    <3>3. \A x, y \in Mine(d, reps)' : x = y
      BY <2>1, <3>1 DEF Mine
    <3> QED
      BY <2>2, <3>2, <3>3 DEF Orderly
  <2>4. CASE m.from # d
    <3>1. Mine(d, reps)' = Mine(d, reps) /\ Mine(d, reqs)' \subseteq Mine(d, reqs)
      BY <2>1, <2>4 DEF Mine
    <3> QED
      BY <1>0, <2>2, <3>1 DEF Orderly, Quiet, Mine
  <2> QED
    BY <2>3, <2>4
<1>2. CASE Crash \/ Restart \/ Bounce \/ Lose
  <2>1. /\ reqs' \subseteq reqs /\ reps' \subseteq reps
        /\ pc' = pc /\ call' = call
    BY <1>2 DEF Crash, Restart, Bounce, Lose, net
  <2> QED
    BY <1>0, <2>1, FewerDatagrams
<1> QED
  BY <1>1, <1>2

\* Without a late datagram every call's exchange is its own, in every
\* behaviour: the library's protocol needs no message numbers as long as
\* nothing is under way for longer than its five seconds.
THEOREM OneDatagramHolds == Spec => []OneDatagram
<1>1. Init => IInv
  BY DEF Init, IInv, NetType, OneDatagram, Quiet, Mine
<1>2. IInv /\ [Next]_vars => IInv'
  <2> SUFFICES ASSUME NetType, OneDatagram, [Next]_vars, lates' = 0
               PROVE  \A d \in Clients : Orderly(d)'
    BY TypeStep DEF IInv, OneDatagram, Orderly
  <2>1. lates = 0
    <3>1. lates' = lates \/ lates' = lates + 1
      BY DEF Next, vars, bounds, Send, Resend, ResendLate, Receive, Handle,
             Crash, Restart, Bounce, Lose
    <3> QED
      BY <3>1 DEF NetType
  <2>2. \A d \in Clients : Orderly(d)
    BY <2>1 DEF OneDatagram, Orderly
  <2>3. CASE UNCHANGED vars
    BY <2>2, <2>3 DEF vars, net, Orderly, Quiet, Mine
  <2>4. CASE Next
    BY <2>1, <2>2, <2>4, ClientStep, ServerStep DEF Next
  <2> QED
    BY <2>3, <2>4
<1>3. IInv => OneDatagram
  BY DEF IInv
<1> QED
  BY <1>1, <1>2, <1>3, PTL DEF Spec
============================================================================
