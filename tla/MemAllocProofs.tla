--------------------------- MODULE MemAllocProofs ---------------------------
(***************************************************************************)
(* The memory allocator of P3, for every region and every size asked for.  *)
(* Its two lists are described by a sequence without repetition whose      *)
(* elements are linked to their neighbours; an operation of the code gives *)
(* the sequence that follows.  Within coalesce() the free list is such a   *)
(* sequence of the free chunks that have been passed, except that the last *)
(* one may point anywhere.                                                 *)
(*                                                                         *)
(* And the allocator of P4's user programs, for any heap and any requests. *)
(* Its blocks fill the heap; those not in use are a ring in the order of   *)
(* addresses, which the walk of the code goes around.                      *)
(*                                                                         *)
(* And the kernel's pages, for any memory and any number of processes:     *)
(* each is free, lost, or at exactly one spot of one process, and how far  *)
(* a call has come says what its process and its child may hold.           *)
(***************************************************************************)
EXTENDS MemAlloc, UMalloc, Pages, FiniteSetTheorems, WellFoundedInduction, TLAPS

\* The header has a size, and a page is larger.
LEMMA Units ==
  /\ HDR \in Nat /\ HDR >= 1 /\ ALIGN \in Nat \ {0} /\ PAGE \in Nat \ {0} /\ HDR < PAGE
  /\ RegionSizes \subseteq Nat \ {0} /\ Sizes \subseteq Nat \ {0}
BY AllocAssumption

\* A set of numbers that is not empty has a least one.
LEMMA LeastAddress ==
  ASSUME NEW T, T \subseteq Nat, T # {}
  PROVE  \E x \in T : \A y \in Nat : y < x => y \notin T
<1>1. PICK x \in T : \A y \in T : ~(<<y, x>> \in OpToRel(<, Nat))
  BY NatLessThanWellFounded, WFMin, Zenon
<1> QED
  BY <1>1 DEF OpToRel

Header == [size : Nat, free : BOOLEAN, next : Int, prev : Int]
Headers(h) == DOMAIN h \subseteq Nat /\ h \in [DOMAIN h -> Header]

FreeOf(h) == {a \in DOMAIN h : h[a].free}
UsedOf(h) == {a \in DOMAIN h : ~ h[a].free}

-----------------------------------------------------------------------------
(* Sequences of linked chunks.                                              *)

\* s has the n chunks of S, each once.
Orders(S, n, s) ==
  /\ n \in Nat /\ s \in [1 .. n -> S]
  /\ \A i, j \in 1 .. n : s[i] = s[j] => i = j
  /\ \A a \in S : \E i \in 1 .. n : s[i] = a

NextIn(n, s, i) == IF i = n THEN NULL ELSE s[i + 1]
PrevIn(s, i) == IF i = 1 THEN NULL ELSE s[i - 1]

\* The chunks of s are linked both ways, from head on.
Linked(h, head, S, n, s) ==
  /\ Orders(S, n, s)
  /\ head = IF n = 0 THEN NULL ELSE s[1]
  /\ \A i \in 1 .. n : h[s[i]].next = NextIn(n, s, i) /\ h[s[i]].prev = PrevIn(s, i)

OnList(h, head, S) == \E n, s : Linked(h, head, S, n, s)

\* The links of the chunks in S are the same.
SameLinks(g, h, S) == \A a \in S : g[a].next = h[a].next /\ g[a].prev = h[a].prev

\* A list does not depend on other chunks.
LEMMA ListFrame ==
  ASSUME NEW g, NEW h, NEW head, NEW S, OnList(h, head, S), SameLinks(g, h, S)
  PROVE  OnList(g, head, S)
<1>1. PICK n, s : Linked(h, head, S, n, s)
  BY DEF OnList
<1>2. \A i \in 1 .. n : s[i] \in S
  BY <1>1 DEF Linked, Orders
<1>3. Linked(g, head, S, n, s)
  BY <1>1, <1>2 DEF Linked, SameLinks
<1> QED
  BY <1>3 DEF OnList

\* A chunk is put before a list.
LEMMA ListPush ==
  ASSUME NEW g, NEW h, NEW head, NEW S, NEW c, OnList(h, head, S),
         S \subseteq Nat, c \in Nat, c \notin S,
         g[c].next = head, g[c].prev = NULL,
         \A a \in S : /\ g[a].next = h[a].next
                      /\ g[a].prev = IF a = head THEN c ELSE h[a].prev
  PROVE  OnList(g, c, S \cup {c})
<1>1. PICK n, s : Linked(h, head, S, n, s)
  BY DEF OnList
<1>2. n \in Nat /\ s \in [1 .. n -> S] /\ \A i, j \in 1 .. n : s[i] = s[j] => i = j
  BY <1>1 DEF Linked, Orders
<1>3. PICK t : t = [j \in 1 .. n + 1 |-> IF j = 1 THEN c ELSE s[j - 1]]
  OBVIOUS
<1>4. \A j \in 1 .. n + 1 : j # 1 => j - 1 \in 1 .. n
  BY <1>2
<1>5. \A i \in 1 .. n : i + 1 \in 1 .. n + 1 /\ t[i + 1] = s[i] /\ s[i] \in S
  BY <1>2, <1>3
<1>6. t[1] = c /\ 1 \in 1 .. n + 1
  BY <1>2, <1>3
<1>7. Orders(S \cup {c}, n + 1, t)
  <2>1. t \in [1 .. n + 1 -> S \cup {c}]
    BY <1>2, <1>3, <1>4
  <2>2. ASSUME NEW i \in 1 .. n + 1, NEW j \in 1 .. n + 1, t[i] = t[j] PROVE i = j
    <3>1. CASE i = 1 \/ j = 1
      BY <1>2, <1>3, <1>4, <2>2, <3>1
    <3>2. CASE i # 1 /\ j # 1
      <4>1. i - 1 \in 1 .. n /\ j - 1 \in 1 .. n /\ s[i - 1] = s[j - 1]
        BY <1>3, <1>4, <2>2, <3>2
      <4>2. i - 1 = j - 1
        BY <1>2, <4>1
      <4> QED
        BY <1>2, <4>2
    <3> QED
      BY <3>1, <3>2
  <2>3. ASSUME NEW a \in S \cup {c} PROVE \E i \in 1 .. n + 1 : t[i] = a
    <3>1. CASE a = c
      BY <1>6, <3>1
    <3>2. CASE a \in S
      <4>1. PICK i \in 1 .. n : s[i] = a
        BY <1>1, <3>2 DEF Linked, Orders
      <4> QED
        BY <1>5, <4>1
    <3> QED
      BY <3>1, <3>2
  <2> QED
    BY <1>2, <2>1, <2>2, <2>3 DEF Orders
<1>8. ASSUME NEW j \in 1 .. n + 1
      PROVE  g[t[j]].next = NextIn(n + 1, t, j) /\ g[t[j]].prev = PrevIn(t, j)
  <2>1. CASE j = 1
    <3>1. head = NextIn(n + 1, t, 1)
      <4>1. CASE n = 0
        BY <1>1, <4>1 DEF Linked, NextIn
      <4>2. CASE n # 0
        BY <1>1, <1>2, <1>5, <4>2 DEF Linked, NextIn
      <4> QED
        BY <4>1, <4>2
    <3> QED
      BY <1>6, <2>1, <3>1 DEF PrevIn
  <2>2. CASE j # 1
    <3>1. PICK i \in 1 .. n : i = j - 1
      BY <1>4, <2>2
    <3>2. j = i + 1 /\ t[j] = s[i] /\ s[i] \in S
      BY <1>5, <3>1
    <3>3. g[t[j]].next = NextIn(n + 1, t, j)
      <4>1. g[t[j]].next = NextIn(n, s, i)
        BY <1>1, <3>2 DEF Linked
      <4>2. i # n => i + 1 \in 1 .. n
        BY <1>2
      <4>3. i # n => t[j + 1] = s[i + 1]
        BY <1>5, <3>2, <4>2
      <4>4. (j = n + 1) <=> (i = n)
        BY <1>2, <3>2
      <4> QED
        BY <4>1, <4>3, <4>4 DEF NextIn
    <3>4. g[t[j]].prev = PrevIn(t, j)
      <4>1. CASE i = 1
        <5>1. head = s[1]
          BY <1>1, <1>2, <4>1 DEF Linked
        <5>2. j # 1 /\ j - 1 = 1
          BY <1>2, <3>2, <4>1
        <5> QED
          BY <1>6, <3>2, <4>1, <5>1, <5>2 DEF PrevIn
      <4>2. CASE i # 1
        <5>1. i - 1 \in 1 .. n /\ 1 \in 1 .. n
          BY <1>2, <4>2
        <5>2. head = s[1]
          BY <1>1, <1>2, <5>1 DEF Linked
        <5>3. s[i] # head
          BY <1>2, <4>2, <5>1, <5>2
        <5>4. g[t[j]].prev = PrevIn(s, i)
          BY <1>1, <3>2, <5>3 DEF Linked
        <5>5. t[j - 1] = s[i - 1]
          <6>1. t[(i - 1) + 1] = s[i - 1]
            BY <1>5, <5>1
          <6> QED
            BY <3>2, <6>1
        <5> QED
          BY <2>2, <4>2, <5>4, <5>5 DEF PrevIn
      <4> QED
        BY <4>1, <4>2
    <3> QED
      BY <3>3, <3>4
  <2> QED
    BY <2>1, <2>2
<1>9. Linked(g, c, S \cup {c}, n + 1, t)
  BY <1>2, <1>6, <1>7, <1>8 DEF Linked
<1> QED
  BY <1>9 DEF OnList

\* A chunk is taken out of a list.
LEMMA ListUnlink ==
  ASSUME NEW g, NEW h, NEW head, NEW S, NEW c \in S, OnList(h, head, S),
         S \subseteq Nat,
         \A a \in S :
           /\ g[a].next = IF a = h[c].prev THEN h[c].next ELSE h[a].next
           /\ g[a].prev = IF a = h[c].next THEN h[c].prev ELSE h[a].prev
  PROVE  /\ OnList(g, IF c = head THEN h[c].next ELSE head, S \ {c})
         /\ h[c].prev # c /\ h[c].next # c
         /\ h[c].prev \in S \cup {NULL} /\ h[c].next \in S \cup {NULL}
<1>1. PICK n, s : Linked(h, head, S, n, s)
  BY DEF OnList
<1>2. n \in Nat /\ s \in [1 .. n -> S] /\ \A i, j \in 1 .. n : s[i] = s[j] => i = j
  BY <1>1 DEF Linked, Orders
<1>3. PICK k \in 1 .. n : s[k] = c
  BY <1>1 DEF Linked, Orders
<1>4. h[c].next = NextIn(n, s, k) /\ h[c].prev = PrevIn(s, k)
  BY <1>1, <1>3 DEF Linked
<1>5. k # n => k + 1 \in 1 .. n
  BY <1>2
<1>6. k # 1 => k - 1 \in 1 .. n
  BY <1>2
<1>7. h[c].prev # c /\ h[c].next # c
  <2>1. k # k + 1 /\ k # k - 1
    BY <1>2
  <2>2. c # NULL
    BY DEF NULL
  <2>3. k # n => s[k + 1] # c
    BY <1>2, <1>3, <1>5, <2>1
  <2>4. k # 1 => s[k - 1] # c
    BY <1>2, <1>3, <1>6, <2>1
  <2> QED
    BY <1>4, <2>2, <2>3, <2>4 DEF NextIn, PrevIn
<1>8. h[c].prev \in S \cup {NULL} /\ h[c].next \in S \cup {NULL}
  BY <1>2, <1>4, <1>5, <1>6 DEF NextIn, PrevIn
<1>9. (c = head) <=> (k = 1)
  <2>1. 1 \in 1 .. n /\ n # 0
    BY <1>2
  <2>2. head = s[1]
    BY <1>1, <2>1 DEF Linked
  <2> QED
    BY <1>2, <1>3, <2>1, <2>2
<1>10. PICK t : t = [j \in 1 .. n - 1 |-> IF j < k THEN s[j] ELSE s[j + 1]]
  OBVIOUS
<1>11. \A j \in 1 .. n - 1 : j \in 1 .. n /\ j + 1 \in 1 .. n
  BY <1>2
<1>12. ASSUME NEW j \in 1 .. n - 1
       PROVE  /\ t[j] \in S \ {c}
              /\ j < k => t[j] = s[j]
              /\ ~ (j < k) => t[j] = s[j + 1]
  <2>1. j < k => j # k
    BY <1>2
  <2>2. ~ (j < k) => j + 1 # k
    BY <1>2
  <2>3. j < k => t[j] = s[j]
    BY <1>10
  <2>4. ~ (j < k) => t[j] = s[j + 1]
    BY <1>10
  <2>5. j < k => s[j] \in S /\ s[j] # c
    BY <1>2, <1>3, <1>11, <2>1
  <2>6. ~ (j < k) => s[j + 1] \in S /\ s[j + 1] # c
    BY <1>2, <1>3, <1>11, <2>2
  <2> QED
    BY <2>3, <2>4, <2>5, <2>6
<1>13. Orders(S \ {c}, n - 1, t)
  <2>1. n - 1 \in Nat
    BY <1>2
  <2>2. t \in [1 .. n - 1 -> S \ {c}]
    BY <1>10, <1>12
  <2>3. ASSUME NEW i \in 1 .. n - 1, NEW j \in 1 .. n - 1, t[i] = t[j] PROVE i = j
    <3>1. PICK x \in 1 .. n : x = IF i < k THEN i ELSE i + 1
      BY <1>11
    <3>2. PICK y \in 1 .. n : y = IF j < k THEN j ELSE j + 1
      BY <1>11
    <3>3. t[i] = s[x] /\ t[j] = s[y]
      BY <1>12, <3>1, <3>2
    <3>4. s[x] = s[y]
      BY <2>3, <3>3, Zenon
    <3>5. x = y
      BY <1>2, <3>4, Zenon
    <3> QED
      BY <1>2, <3>1, <3>2, <3>5
  <2>4. ASSUME NEW a \in S \ {c} PROVE \E i \in 1 .. n - 1 : t[i] = a
    <3>1. PICK x \in 1 .. n : s[x] = a
      BY <1>1 DEF Linked, Orders
    <3>2. x # k
      BY <1>3, <3>1
    <3>3. CASE x < k
      <4>1. x \in 1 .. n - 1
        BY <1>2, <3>3
      <4> QED
        BY <1>12, <3>1, <3>3, <4>1
    <3>4. CASE ~ (x < k)
      <4>1. x - 1 \in 1 .. n - 1 /\ ~ (x - 1 < k) /\ (x - 1) + 1 = x
        BY <1>2, <3>2, <3>4
      <4> QED
        BY <1>12, <3>1, <4>1
    <3> QED
      BY <3>3, <3>4
  <2> QED
    BY <2>1, <2>2, <2>3, <2>4 DEF Orders
<1>14. (IF c = head THEN h[c].next ELSE head) = IF n - 1 = 0 THEN NULL ELSE t[1]
  <2>1. CASE k = 1
    <3>1. n = 1 => h[c].next = NULL
      BY <1>4, <2>1 DEF NextIn
    <3>2. n # 1 => 1 \in 1 .. n - 1
      BY <1>2
    <3>3. n # 1 => h[c].next = t[1]
      BY <1>4, <1>12, <2>1, <3>2 DEF NextIn
    <3> QED
      BY <1>2, <1>9, <2>1, <3>1, <3>3
  <2>2. CASE k # 1
    <3>1. 1 \in 1 .. n - 1 /\ 1 < k /\ n # 0 /\ n - 1 # 0
      BY <1>2, <2>2
    <3>2. head = s[1] /\ t[1] = s[1]
      BY <1>1, <1>12, <3>1 DEF Linked
    <3> QED
      BY <1>9, <2>2, <3>1, <3>2
  <2> QED
    BY <2>1, <2>2
<1>15. ASSUME NEW j \in 1 .. n - 1
       PROVE  g[t[j]].next = NextIn(n - 1, t, j)
  <2>1. t[j] \in S
    BY <1>12
  <2>2. j + 1 \in 1 .. n /\ j \in 1 .. n
    BY <1>2
  <2>3. (t[j] = h[c].prev) <=> (j = k - 1)
    <3>1. CASE k = 1
      <4>1. h[c].prev = NULL /\ NULL \notin S
        BY <1>4, <3>1 DEF PrevIn, NULL
      <4> QED
        BY <1>2, <2>1, <3>1, <4>1
    <3>2. CASE k # 1
      <4>1. h[c].prev = s[k - 1]
        BY <1>4, <3>2 DEF PrevIn
      <4>2. j < k => ((s[j] = s[k - 1]) <=> (j = k - 1))
        BY <1>2, <1>6, <2>2, <3>2
      <4>3. ~ (j < k) => s[j + 1] # s[k - 1] /\ j # k - 1
        <5>1. ~ (j < k) => j + 1 # k - 1 /\ j # k - 1
          BY <1>2, <2>2
        <5> QED
          BY <1>2, <1>6, <2>2, <3>2, <5>1
      <4> QED
        BY <1>12, <4>1, <4>2, <4>3
    <3> QED
      BY <3>1, <3>2
  <2>4. CASE j = k - 1
    <3>1. g[t[j]].next = NextIn(n, s, k)
      BY <1>4, <2>1, <2>3, <2>4
    <3>2. (k = n) <=> (j = n - 1)
      BY <1>2, <2>4
    <3>3. k # n => t[j + 1] = s[k + 1]
      <4>1. SUFFICES ASSUME k # n PROVE t[j + 1] = s[k + 1]
        OBVIOUS
      <4>2. j + 1 \in 1 .. n - 1 /\ ~ (j + 1 < k) /\ j + 1 = k
        BY <1>2, <2>4, <4>1
      <4> QED
        BY <1>12, <4>2
    <3> QED
      BY <3>1, <3>2, <3>3 DEF NextIn
  <2>5. CASE j # k - 1 /\ j < k
    <3>1. g[t[j]].next = NextIn(n, s, j)
      <4>1. g[t[j]].next = h[t[j]].next
        BY <2>1, <2>3, <2>5
      <4>2. t[j] = s[j]
        BY <1>12, <2>5
      <4> QED
        BY <1>1, <2>2, <4>1, <4>2 DEF Linked
    <3>2. j + 1 \in 1 .. n - 1 /\ j + 1 < k /\ j # n /\ j # n - 1
      BY <1>2, <2>5
    <3>3. t[j + 1] = s[j + 1]
      BY <1>12, <3>2
    <3> QED
      BY <3>1, <3>2, <3>3 DEF NextIn
  <2>6. CASE ~ (j < k)
    <3>1. j # k - 1
      BY <1>2, <2>6
    <3>2. g[t[j]].next = NextIn(n, s, j + 1)
      <4>1. g[t[j]].next = h[t[j]].next
        BY <2>1, <2>3, <3>1
      <4>2. t[j] = s[j + 1]
        BY <1>12, <2>6
      <4> QED
        BY <1>1, <2>2, <4>1, <4>2 DEF Linked
    <3>3. (j + 1 = n) <=> (j = n - 1)
      BY <1>2
    <3>4. j # n - 1 => t[j + 1] = s[(j + 1) + 1]
      <4>1. j # n - 1 => j + 1 \in 1 .. n - 1 /\ ~ (j + 1 < k)
        BY <1>2, <2>6
      <4> QED
        BY <1>12, <4>1
    <3> QED
      BY <3>2, <3>3, <3>4 DEF NextIn
  <2> QED
    BY <2>4, <2>5, <2>6
<1>16. ASSUME NEW j \in 1 .. n - 1
       PROVE  g[t[j]].prev = PrevIn(t, j)
  <2>1. t[j] \in S
    BY <1>12
  <2>2. j + 1 \in 1 .. n /\ j \in 1 .. n
    BY <1>2
  <2>3. (t[j] = h[c].next) <=> (j = k)
    <3>1. CASE k = n
      <4>1. h[c].next = NULL /\ NULL \notin S
        BY <1>4, <3>1 DEF NextIn, NULL
      <4> QED
        BY <1>2, <2>1, <3>1, <4>1
    <3>2. CASE k # n
      <4>1. h[c].next = s[k + 1]
        BY <1>4, <3>2 DEF NextIn
      <4>2. ~ (j < k) => ((s[j + 1] = s[k + 1]) <=> (j = k))
        BY <1>2, <1>5, <2>2, <3>2
      <4>3. j < k => s[j] # s[k + 1] /\ j # k
        <5>1. j < k => j # k + 1 /\ j # k
          BY <1>2, <2>2
        <5> QED
          BY <1>2, <1>5, <2>2, <3>2, <5>1
      <4> QED
        BY <1>12, <4>1, <4>2, <4>3
    <3> QED
      BY <3>1, <3>2
  <2>4. CASE j = k
    <3>1. g[t[j]].prev = PrevIn(s, k)
      BY <1>4, <2>1, <2>3, <2>4
    <3>2. k # 1 => t[j - 1] = s[k - 1]
      <4>1. k # 1 => k - 1 \in 1 .. n - 1 /\ k - 1 < k
        BY <1>2
      <4> QED
        BY <1>12, <2>4, <4>1
    <3> QED
      BY <2>4, <3>1, <3>2 DEF PrevIn
  <2>5. CASE j < k
    <3>1. j # k
      BY <1>2, <2>5
    <3>2. g[t[j]].prev = PrevIn(s, j)
      <4>1. g[t[j]].prev = h[t[j]].prev
        BY <2>1, <2>3, <3>1
      <4>2. t[j] = s[j]
        BY <1>12, <2>5
      <4> QED
        BY <1>1, <2>2, <4>1, <4>2 DEF Linked
    <3>3. j # 1 => t[j - 1] = s[j - 1]
      <4>1. j # 1 => j - 1 \in 1 .. n - 1 /\ j - 1 < k
        BY <1>2, <2>5
      <4> QED
        BY <1>12, <4>1
    <3> QED
      BY <3>2, <3>3 DEF PrevIn
  <2>6. CASE j # k /\ ~ (j < k)
    <3>1. g[t[j]].prev = PrevIn(s, j + 1)
      <4>1. g[t[j]].prev = h[t[j]].prev
        BY <2>1, <2>3, <2>6
      <4>2. t[j] = s[j + 1]
        BY <1>12, <2>6
      <4> QED
        BY <1>1, <2>2, <4>1, <4>2 DEF Linked
    <3>2. j - 1 \in 1 .. n - 1 /\ ~ (j - 1 < k) /\ (j - 1) + 1 = j /\ (j + 1) - 1 = j /\ j # 1 /\ j + 1 # 1
      BY <1>2, <2>6
    <3>3. t[j - 1] = s[j]
      BY <1>12, <3>2
    <3> QED
      BY <3>1, <3>2, <3>3 DEF PrevIn
  <2> QED
    BY <2>4, <2>5, <2>6
<1>17. Linked(g, IF c = head THEN h[c].next ELSE head, S \ {c}, n - 1, t)
  BY <1>13, <1>14, <1>15, <1>16 DEF Linked
<1> QED
  BY <1>7, <1>8, <1>17 DEF OnList

-----------------------------------------------------------------------------
(* The free list while coalesce() builds it.                                *)

\* The order of the chunks that have been passed; the last one's way forward
\* is open.
Partial(h, head, S, n, s) ==
  /\ Orders(S, n, s)
  /\ n # 0 => head = s[1]
  /\ \A i \in 1 .. n : i # n => h[s[i]].next = s[i + 1]
  /\ \A i \in 1 .. n : h[s[i]].prev = PrevIn(s, i)

Passing(h, head, S, last) ==
  \E n, s : Partial(h, head, S, n, s) /\ last = IF n = 0 THEN NULL ELSE s[n]

\* It does not depend on other chunks.
LEMMA PassingFrame ==
  ASSUME NEW g, NEW h, NEW head, NEW S, NEW last,
         Passing(h, head, S, last), SameLinks(g, h, S)
  PROVE  Passing(g, head, S, last)
<1>1. PICK n, s : Partial(h, head, S, n, s) /\ last = IF n = 0 THEN NULL ELSE s[n]
  BY DEF Passing
<1>2. \A i \in 1 .. n : s[i] \in S
  BY <1>1 DEF Partial, Orders
<1>3. Partial(g, head, S, n, s)
  BY <1>1, <1>2 DEF Partial, SameLinks
<1> QED
  BY <1>1, <1>3 DEF Passing

\* Nothing has been passed.
LEMMA PassingNone ==
  ASSUME NEW h, NEW head
  PROVE  Passing(h, head, {}, NULL)
<1>1. PICK s : s = [i \in 1 .. 0 |-> 0]
  OBVIOUS
<1>2. 1 .. 0 = {}
  OBVIOUS
<1>3. Partial(h, head, {}, 0, s)
  BY <1>1, <1>2 DEF Partial, Orders
<1> QED
  BY <1>3 DEF Passing

\* The last chunk is none exactly if there is none.
LEMMA PassingLast ==
  ASSUME NEW h, NEW head, NEW S, NEW last, Passing(h, head, S, last), S \subseteq Nat
  PROVE  last \in S \cup {NULL} /\ (last = NULL <=> S = {})
<1>1. PICK n, s : Partial(h, head, S, n, s) /\ last = IF n = 0 THEN NULL ELSE s[n]
  BY DEF Passing
<1>2. n \in Nat /\ s \in [1 .. n -> S] /\ \A a \in S : \E i \in 1 .. n : s[i] = a
  BY <1>1 DEF Partial, Orders
<1>3. NULL \notin S
  BY DEF NULL
<1>4. CASE n = 0
  <2>1. 1 .. n = {}
    BY <1>4
  <2> QED
    BY <1>1, <1>2, <1>4, <2>1
<1>5. CASE n # 0
  <2>1. n \in 1 .. n
    BY <1>2, <1>5
  <2>2. s[n] \in S
    BY <1>2, <2>1
  <2> QED
    BY <1>1, <1>3, <1>5, <2>2
<1> QED
  BY <1>4, <1>5

\* The first free chunk.
LEMMA PassingFirst ==
  ASSUME NEW h, NEW c, h[c].prev = NULL
  PROVE  Passing(h, c, {c}, c)
<1>1. PICK s : s = [i \in 1 .. 1 |-> c]
  OBVIOUS
<1>2. 1 .. 1 = {1}
  OBVIOUS
<1>3. s[1] = c
  BY <1>1, <1>2
<1>4. Orders({c}, 1, s)
  BY <1>1, <1>2, <1>3 DEF Orders
<1>5. Partial(h, c, {c}, 1, s)
  BY <1>2, <1>3, <1>4 DEF Partial, PrevIn
<1> QED
  BY <1>3, <1>5 DEF Passing

\* One free chunk more.
LEMMA PassingAppend ==
  ASSUME NEW g, NEW h, NEW head, NEW S, NEW last, NEW c,
         Passing(h, head, S, last), S \subseteq Nat, c \in Nat, c \notin S, last # NULL,
         g[c].prev = last, g[last].next = c,
         \A a \in S : g[a].prev = h[a].prev /\ (a # last => g[a].next = h[a].next)
  PROVE  Passing(g, head, S \cup {c}, c)
<1>1. PICK n, s : Partial(h, head, S, n, s) /\ last = IF n = 0 THEN NULL ELSE s[n]
  BY DEF Passing
<1>2. n \in Nat /\ s \in [1 .. n -> S] /\ \A i, j \in 1 .. n : s[i] = s[j] => i = j
  BY <1>1 DEF Partial, Orders
<1>3. n # 0 /\ last = s[n]
  BY <1>1
<1>4. PICK t : t = [j \in 1 .. n + 1 |-> IF j = n + 1 THEN c ELSE s[j]]
  OBVIOUS
<1>5. n + 1 \in 1 .. n + 1 /\ t[n + 1] = c
  BY <1>2, <1>4
<1>6. ASSUME NEW j \in 1 .. n
      PROVE  j \in 1 .. n + 1 /\ j # n + 1 /\ t[j] = s[j] /\ s[j] \in S
  <2>1. j \in 1 .. n + 1 /\ j # n + 1
    BY <1>2
  <2> QED
    BY <1>2, <1>4, <2>1
<1>7. \A j \in 1 .. n + 1 : j # n + 1 => j \in 1 .. n
  BY <1>2
<1>8. Orders(S \cup {c}, n + 1, t)
  <2>1. t \in [1 .. n + 1 -> S \cup {c}]
    BY <1>4, <1>5, <1>6, <1>7
  <2>2. \A i, j \in 1 .. n + 1 : t[i] = t[j] => i = j
    BY <1>2, <1>5, <1>6, <1>7
  <2>3. \A a \in S : \E i \in 1 .. n : s[i] = a
    BY <1>1 DEF Partial, Orders
  <2>4. \A a \in S \cup {c} : \E i \in 1 .. n + 1 : t[i] = a
    BY <1>5, <1>6, <2>3
  <2> QED
    BY <1>2, <2>1, <2>2, <2>4 DEF Orders
<1>9. head = t[1]
  <2>1. 1 \in 1 .. n
    BY <1>2, <1>3
  <2> QED
    BY <1>1, <1>3, <1>6, <2>1 DEF Partial
<1>10. ASSUME NEW i \in 1 .. n + 1, i # n + 1 PROVE g[t[i]].next = t[i + 1]
  <2>1. i \in 1 .. n
    BY <1>7, <1>10
  <2>2. CASE i = n
    BY <1>3, <1>5, <1>6, <2>1, <2>2
  <2>3. CASE i # n
    <3>1. i + 1 \in 1 .. n /\ n \in 1 .. n
      BY <1>2, <2>1, <2>3
    <3>2. s[i] # last
      BY <1>2, <1>3, <2>1, <2>3, <3>1
    <3>3. g[s[i]].next = h[s[i]].next
      BY <1>6, <2>1, <3>2
    <3>4. h[s[i]].next = s[i + 1]
      BY <1>1, <2>1, <2>3 DEF Partial
    <3> QED
      BY <1>6, <2>1, <3>1, <3>3, <3>4
  <2> QED
    BY <2>2, <2>3
<1>11. ASSUME NEW i \in 1 .. n + 1 PROVE g[t[i]].prev = PrevIn(t, i)
  <2>1. CASE i = n + 1
    <3>1. i # 1 /\ i - 1 = n /\ n \in 1 .. n
      BY <1>2, <1>3, <2>1
    <3> QED
      BY <1>3, <1>5, <1>6, <2>1, <3>1 DEF PrevIn
  <2>2. CASE i # n + 1
    <3>1. i \in 1 .. n
      BY <1>7, <2>2
    <3>2. g[t[i]].prev = PrevIn(s, i)
      BY <1>1, <1>6, <3>1 DEF Partial
    <3>3. i # 1 => i - 1 \in 1 .. n
      BY <1>2, <3>1
    <3> QED
      BY <1>6, <3>2, <3>3 DEF PrevIn
  <2> QED
    BY <2>1, <2>2
<1>12. Partial(g, head, S \cup {c}, n + 1, t)
  BY <1>8, <1>9, <1>10, <1>11 DEF Partial
<1>13. n + 1 # 0
  BY <1>2
<1> QED
  BY <1>5, <1>12, <1>13 DEF Passing

\* The end of coalesce() closes the list.
LEMMA PassingEnd ==
  ASSUME NEW g, NEW h, NEW head, NEW S, NEW last,
         Passing(h, head, S, last), S \subseteq Nat, last # NULL,
         g[last].next = NULL,
         \A a \in S : g[a].prev = h[a].prev /\ (a # last => g[a].next = h[a].next)
  PROVE  OnList(g, head, S)
<1>1. PICK n, s : Partial(h, head, S, n, s) /\ last = IF n = 0 THEN NULL ELSE s[n]
  BY DEF Passing
<1>2. n \in Nat /\ s \in [1 .. n -> S] /\ \A i, j \in 1 .. n : s[i] = s[j] => i = j
  BY <1>1 DEF Partial, Orders
<1>3. n # 0 /\ last = s[n]
  BY <1>1
<1>4. n \in 1 .. n
  BY <1>2, <1>3
<1>5. ASSUME NEW i \in 1 .. n
      PROVE  g[s[i]].next = NextIn(n, s, i) /\ g[s[i]].prev = PrevIn(s, i)
  <2>1. s[i] \in S
    BY <1>2
  <2>2. i # n => s[i] # last
    BY <1>2, <1>3, <1>4
  <2>3. g[s[i]].prev = PrevIn(s, i)
    BY <1>1, <2>1 DEF Partial
  <2>4. i # n => g[s[i]].next = s[i + 1]
    BY <1>1, <2>1, <2>2 DEF Partial
  <2> QED
    BY <1>3, <2>3, <2>4 DEF NextIn
<1>6. Linked(g, head, S, n, s)
  BY <1>1, <1>3, <1>5 DEF Linked, Partial
<1> QED
  BY <1>6 DEF OnList

-----------------------------------------------------------------------------
(* What the model's operators find on a list.                               *)

\* The addresses that the loops of the code read are those of the sequence.
LEMMA ChainIs ==
  ASSUME NEW h, NEW head, NEW S, NEW n, NEW s, Linked(h, head, S, n, s),
         totalSize \in Nat, S \subseteq DOMAIN h, S \subseteq 0 .. totalSize - 1,
         NULL \notin DOMAIN h
  PROVE  n <= totalSize /\ Chain(h, head) = s
<1>1. n \in Nat /\ s \in [1 .. n -> S] /\ \A i, j \in 1 .. n : s[i] = s[j] => i = j
  BY DEF Linked, Orders
<1>2. n <= totalSize
  <2>1. SUFFICES ASSUME ~ (n <= totalSize) PROVE FALSE
    OBVIOUS
  <2>2. /\ IsFiniteSet(0 .. totalSize - 1) /\ IsFiniteSet(1 .. n)
        /\ Cardinality(0 .. totalSize - 1) = totalSize /\ Cardinality(1 .. n) = n
    <3>1. 0 \in Int /\ 1 \in Int /\ totalSize - 1 \in Int /\ n \in Int
      BY <1>1
    <3>2. /\ IsFiniteSet(0 .. totalSize - 1)
          /\ Cardinality(0 .. totalSize - 1) = IF 0 > totalSize - 1 THEN 0 ELSE (totalSize - 1) - 0 + 1
      BY <3>1, FS_Interval, Zenon
    <3>3. IsFiniteSet(1 .. n) /\ Cardinality(1 .. n) = IF 1 > n THEN 0 ELSE n - 1 + 1
      BY <3>1, FS_Interval, Zenon
    <3> QED
      BY <1>1, <3>2, <3>3
  <2>3. Cardinality(0 .. totalSize - 1) < Cardinality(1 .. n)
    BY <1>1, <2>1, <2>2
  <2>4. s \in [1 .. n -> 0 .. totalSize - 1]
    BY <1>1
  <2>5. PICK D, R : D = 1 .. n /\ R = 0 .. totalSize - 1
    OBVIOUS
  <2>6. IsFiniteSet(D) /\ IsFiniteSet(R) /\ Cardinality(R) < Cardinality(D) /\ s \in [D -> R]
    BY <2>2, <2>3, <2>4, <2>5
  <2>7. \E x, y \in D : x # y /\ s[x] = s[y]
    BY <2>6, FS_PigeonHole
  <2> QED
    BY <1>1, <2>5, <2>7
<1>3. PICK w : w = [k \in 0 .. totalSize |-> IF k < n THEN s[k + 1] ELSE NULL]
  OBVIOUS
<1>4. DEFINE Step(f, k) == IF k = 0 THEN head ELSE NextOf(h, f[k - 1])
<1>5. ASSUME NEW k \in 0 .. totalSize PROVE w[k] = Step(w, k)
  <2>1. CASE k = 0
    <3>1. w[0] = IF 0 < n THEN s[0 + 1] ELSE NULL
      BY <1>3, <2>1
    <3>2. (0 < n) <=> (n # 0)
      BY <1>1
    <3> QED
      BY <2>1, <3>1, <3>2 DEF Linked
  <2>2. CASE k # 0
    <3>1. k - 1 \in 0 .. totalSize /\ (k - 1) + 1 = k
      BY <2>2
    <3>2. w[k - 1] = IF k - 1 < n THEN s[k] ELSE NULL
      BY <1>3, <3>1
    <3>3. CASE k - 1 < n
      <4>1. k \in 1 .. n
        BY <1>1, <2>2, <3>3
      <4>2. w[k - 1] = s[k] /\ s[k] \in DOMAIN h
        BY <1>1, <3>2, <3>3, <4>1
      <4>3. Step(w, k) = NextIn(n, s, k)
        BY <2>2, <4>1, <4>2 DEF Linked, NextOf
      <4>4. (k < n) <=> (k # n)
        BY <1>1, <4>1
      <4> QED
        BY <1>3, <4>3, <4>4 DEF NextIn
    <3>4. CASE ~ (k - 1 < n)
      <4>1. w[k - 1] = NULL
        BY <3>2, <3>4
      <4>2. ~ (k < n)
        BY <1>1, <3>4
      <4> QED
        BY <1>3, <2>2, <4>1, <4>2 DEF NextOf
    <3> QED
      BY <3>3, <3>4
  <2> QED
    BY <2>1, <2>2
<1>6. w = [k \in 0 .. totalSize |-> Step(w, k)]
  BY <1>3, <1>5
<1>7. PICK walk : walk = CHOOSE f : f = [k \in 0 .. totalSize |-> Step(f, k)]
  OBVIOUS
<1>8. walk = [k \in 0 .. totalSize |-> Step(walk, k)]
  BY <1>6, <1>7
<1>9. ASSUME NEW k \in 0 .. totalSize PROVE walk[k] = w[k]
  <2> DEFINE T == {x \in Nat : x \in 0 .. totalSize /\ walk[x] # w[x]}
  <2>1. SUFFICES ASSUME T # {} PROVE FALSE
    OBVIOUS
  <2>2. PICK x \in T : \A y \in Nat : y < x => y \notin T
    <3>1. T \subseteq Nat
      OBVIOUS
    <3> QED
      BY <2>1, <3>1, LeastAddress, Zenon
  <2>3. x \in 0 .. totalSize /\ walk[x] # w[x]
    BY <2>2
  <2>4. walk[x] = Step(walk, x) /\ w[x] = Step(w, x)
    BY <1>5, <1>8, <2>3
  <2>5. x # 0
    BY <2>3, <2>4
  <2>6. x - 1 \in 0 .. totalSize /\ x - 1 \in Nat /\ x - 1 < x
    BY <2>3, <2>5
  <2>7. walk[x - 1] = w[x - 1]
    BY <2>2, <2>6
  <2> QED
    BY <2>3, <2>4, <2>5, <2>7
<1>10. \A k \in 0 .. totalSize - 1 : (walk[k] # NULL) <=> (k \in 0 .. n - 1)
  <2>1. SUFFICES ASSUME NEW k \in 0 .. totalSize - 1
                 PROVE  (walk[k] # NULL) <=> (k \in 0 .. n - 1)
    OBVIOUS
  <2>2. k \in 0 .. totalSize /\ ((k < n) <=> (k \in 0 .. n - 1)) /\ (k < n => k + 1 \in 1 .. n)
    BY <1>1
  <2>3. k < n => s[k + 1] # NULL
    BY <1>1, <2>2
  <2> QED
    BY <1>3, <1>9, <2>2, <2>3
<1>11. {k \in 0 .. totalSize - 1 : walk[k] # NULL} = 0 .. n - 1
  BY <1>1, <1>2, <1>10
<1>12. Cardinality(0 .. n - 1) = n
  <2>1. 0 \in Int /\ n - 1 \in Int
    BY <1>1
  <2>2. Cardinality(0 .. n - 1) = IF 0 > n - 1 THEN 0 ELSE (n - 1) - 0 + 1
    BY <2>1, FS_Interval, Zenon
  <2> QED
    BY <1>1, <2>2
<1>13. Chain(h, head) = [k \in 1 .. Cardinality({k \in 0 .. totalSize - 1 : walk[k] # NULL}) |-> walk[k - 1]]
  BY <1>7 DEF Chain
<1>14. Chain(h, head) = [k \in 1 .. n |-> walk[k - 1]]
  BY <1>11, <1>12, <1>13
<1>15. \A k \in 1 .. n : walk[k - 1] = s[k]
  <2>1. \A k \in 1 .. n : k - 1 \in 0 .. totalSize /\ k - 1 < n /\ (k - 1) + 1 = k
    BY <1>1, <1>2
  <2> QED
    BY <1>3, <1>9, <2>1
<1> QED
  BY <1>1, <1>2, <1>14, <1>15

\* The type of a header.
LEMMA HeaderIs ==
  ASSUME NEW h, Headers(h), NEW a \in DOMAIN h
  PROVE  /\ a \in Nat /\ a # NULL
         /\ h[a].size \in Nat /\ h[a].free \in BOOLEAN /\ h[a].next \in Int /\ h[a].prev \in Int
  BY DEF Headers, Header, NULL

\* firstfit finds a chunk that is large enough, if there is one.
LEMMA FirstFitIs ==
  ASSUME Headers(hdr), NEW n, NEW s, NEW r \in Int,
         Linked(hdr, freeList, FreeOf(hdr), n, s), FreeChain = s
  PROVE  IF Able(r) = {} THEN firstfit(r) = NULL ELSE firstfit(r) \in Able(r)
<1>1. n \in Nat /\ s \in [1 .. n -> FreeOf(hdr)] /\ \A a \in FreeOf(hdr) : \E i \in 1 .. n : s[i] = a
  BY DEF Linked, Orders
<1>2. PICK F : F = {i \in 1 .. n : hdr[s[i]].size >= r}
  OBVIOUS
<1>3. firstfit(r) = IF F = {} THEN NULL ELSE s[CHOOSE i \in F : \A j \in F : i <= j]
  <2>1. DOMAIN s = 1 .. n
    BY <1>1
  <2>2. F = {i \in DOMAIN s : hdr[s[i]].size >= r}
    BY <1>2, <2>1
  <2> QED
    BY <2>2 DEF firstfit, Fits
<1>4. \A i \in F : s[i] \in Able(r)
  BY <1>1, <1>2 DEF Able, FreeOf, Chunks
<1>5. \A a \in Able(r) : \E i \in F : s[i] = a
  BY <1>1, <1>2 DEF Able, FreeOf, Chunks
<1>6. F # {} => \E i \in F : \A j \in F : i <= j
  <2>1. SUFFICES ASSUME F # {} PROVE \E i \in F : \A j \in F : i <= j
    OBVIOUS
  <2>2. F \subseteq Nat
    BY <1>1, <1>2
  <2>3. PICK x \in F : \A y \in Nat : y < x => y \notin F
    BY <2>1, <2>2, LeastAddress, Zenon
  <2> QED
    BY <2>2, <2>3
<1>7. F # {} => firstfit(r) \in Able(r)
  <2>1. F # {} => (CHOOSE i \in F : \A j \in F : i <= j) \in F
    BY <1>6
  <2> QED
    BY <1>3, <1>4, <2>1
<1> QED
  BY <1>3, <1>4, <1>5, <1>7

\* What the loop of bestfit and worstfit has found in the first k chunks.
Key(a, sign) == sign * hdr[a].size
Good(acc, s, k, r, sign) ==
  /\ acc \in [tmp : DOMAIN hdr, first : BOOLEAN]
  /\ acc.first => acc.tmp = freeList /\ \A j \in 1 .. k : ~ (hdr[s[j]].size >= r)
  /\ ~ acc.first => /\ \E j \in 1 .. k : acc.tmp = s[j] /\ hdr[s[j]].size >= r
                    /\ \A j \in 1 .. k : hdr[s[j]].size >= r => Key(acc.tmp, sign) <= Key(s[j], sign)

\* One turn keeps that.
LEMMA TurnStep ==
  ASSUME Headers(hdr), NEW n \in Nat, NEW s \in [1 .. n -> DOMAIN hdr], NEW r \in Int,
         NEW sign \in {1, -1}, NEW k \in 1 .. n, NEW acc, Good(acc, s, k - 1, r, sign)
  PROVE  Good(Turn(acc, s[k], r, sign), s, k, r, sign)
<1>1. PICK a \in DOMAIN hdr : a = s[k]
  OBVIOUS
<1>2. \A b \in DOMAIN hdr : hdr[b].size \in Int /\ Key(b, sign) \in Int
  <2>1. SUFFICES ASSUME NEW b \in DOMAIN hdr PROVE hdr[b].size \in Int /\ Key(b, sign) \in Int
    OBVIOUS
  <2>2. hdr[b].size \in Int
    BY HeaderIs
  <2>3. CASE sign = 1
    BY <2>2, <2>3 DEF Key
  <2>4. CASE sign = -1
    BY <2>2, <2>4 DEF Key
  <2> QED
    BY <2>2, <2>3, <2>4
<1>3. \A j \in 1 .. k : j \in 1 .. k - 1 \/ j = k
  OBVIOUS
<1>4. \A j \in 1 .. k - 1 : j \in 1 .. k /\ j \in 1 .. n /\ s[j] \in DOMAIN hdr
  OBVIOUS
<1>5. k \in 1 .. k
  OBVIOUS
<1>6. acc \in [tmp : DOMAIN hdr, first : BOOLEAN]
  BY DEF Good
<1>7. CASE ~ (hdr[a].size >= r)
  <2>1. Turn(acc, s[k], r, sign) = acc
    BY <1>1, <1>7 DEF Turn, Fits
  <2> QED
    BY <1>1, <1>3, <1>4, <1>7, <2>1 DEF Good
<1>8. CASE hdr[a].size >= r /\ acc.first
  <2>1. Turn(acc, s[k], r, sign) = [tmp |-> a, first |-> FALSE]
    <3>1. ~ (Key(a, sign) < Key(a, sign))
      BY <1>2
    <3> QED
      BY <1>1, <1>8, <3>1 DEF Turn, Fits, Key
  <2>2. \A j \in 1 .. k : hdr[s[j]].size >= r => Key(a, sign) <= Key(s[j], sign)
    BY <1>1, <1>2, <1>3, <1>8 DEF Good
  <2> QED
    BY <1>1, <1>5, <1>8, <2>1, <2>2 DEF Good
<1>9. CASE hdr[a].size >= r /\ ~ acc.first /\ Key(a, sign) < Key(acc.tmp, sign)
  <2>1. Turn(acc, s[k], r, sign) = [acc EXCEPT !.tmp = a]
    BY <1>1, <1>9 DEF Turn, Fits, Key
  <2>2. PICK b : b = [acc EXCEPT !.tmp = a]
    OBVIOUS
  <2>3. b \in [tmp : DOMAIN hdr, first : BOOLEAN] /\ b.tmp = a /\ ~ b.first
    BY <1>6, <1>9, <2>2
  <2>4. \A j \in 1 .. k : hdr[s[j]].size >= r => Key(a, sign) <= Key(s[j], sign)
    <3>1. SUFFICES ASSUME NEW j \in 1 .. k, hdr[s[j]].size >= r
                   PROVE  Key(a, sign) <= Key(s[j], sign)
      OBVIOUS
    <3>2. Key(a, sign) \in Int /\ Key(acc.tmp, sign) \in Int
      BY <1>2, <1>6
    <3>3. CASE j = k
      BY <1>1, <3>2, <3>3
    <3>4. CASE j \in 1 .. k - 1
      <4>1. Key(acc.tmp, sign) <= Key(s[j], sign)
        BY <1>9, <3>1, <3>4 DEF Good
      <4>2. Key(s[j], sign) \in Int
        BY <1>2, <1>4, <3>4
      <4> QED
        BY <1>9, <3>2, <4>1, <4>2
    <3> QED
      BY <1>3, <3>3, <3>4
  <2>5. Good(b, s, k, r, sign)
    BY <1>1, <1>5, <1>9, <2>3, <2>4 DEF Good
  <2> QED
    BY <2>1, <2>2, <2>5
<1>10. CASE hdr[a].size >= r /\ ~ acc.first /\ ~ (Key(a, sign) < Key(acc.tmp, sign))
  <2>1. Turn(acc, s[k], r, sign) = acc
    BY <1>1, <1>10 DEF Turn, Fits, Key
  <2>2. Key(acc.tmp, sign) <= Key(a, sign)
    BY <1>2, <1>6, <1>10
  <2>3. \A j \in 1 .. k : hdr[s[j]].size >= r => Key(acc.tmp, sign) <= Key(s[j], sign)
    BY <1>1, <1>3, <1>10, <2>2 DEF Good
  <2>4. \E j \in 1 .. k : acc.tmp = s[j] /\ hdr[s[j]].size >= r
    BY <1>4, <1>10 DEF Good
  <2>5. Good(acc, s, k, r, sign)
    BY <1>6, <1>10, <2>3, <2>4 DEF Good
  <2> QED
    BY <2>1, <2>5
<1> QED
  BY <1>7, <1>8, <1>9, <1>10

\* The state of the loop after k turns, from the turns before.
TurnOf(f, s, k, r, sign) == IF k = 0 THEN [tmp |-> freeList, first |-> TRUE]
                            ELSE Turn(f[k - 1], s[k], r, sign)
IsTurns(f, s, m, r, sign) == f = [k \in 0 .. m |-> TurnOf(f, s, k, r, sign)]

\* The turns can be formed one by one.
LEMMA TurnsExist ==
  ASSUME NEW s, NEW r, NEW sign, NEW m \in Nat
  PROVE  \E f : IsTurns(f, s, m, r, sign)
<1> DEFINE Has(x) == \E f : IsTurns(f, s, x, r, sign)
           T == {x \in Nat : ~ Has(x)}
<1>1. SUFFICES ASSUME T # {} PROVE FALSE
  OBVIOUS
<1>2. PICK x \in T : \A y \in Nat : y < x => y \notin T
  <2>1. T \subseteq Nat
    OBVIOUS
  <2> QED
    BY <1>1, <2>1, LeastAddress, Zenon
<1>3. x \in Nat /\ ~ Has(x) /\ \A y \in Nat : y < x => Has(y)
  BY <1>2
<1> HIDE DEF T
<1>4. CASE x = 0
  <2>1. PICK f : f = [k \in 0 .. 0 |-> [tmp |-> freeList, first |-> TRUE]]
    OBVIOUS
  <2>2. \A k \in 0 .. 0 : TurnOf(f, s, k, r, sign) = [tmp |-> freeList, first |-> TRUE]
    BY DEF TurnOf
  <2>3. f = [k \in 0 .. 0 |-> TurnOf(f, s, k, r, sign)]
    BY <2>1, <2>2
  <2> QED
    BY <1>3, <1>4, <2>3 DEF IsTurns
<1>5. CASE x # 0
  <2>1. x - 1 \in Nat /\ x - 1 < x
    BY <1>3, <1>5
  <2>2. PICK f : f = [k \in 0 .. x - 1 |-> TurnOf(f, s, k, r, sign)]
    BY <1>3, <2>1 DEF IsTurns
  <2>3. PICK g : g = [k \in 0 .. x |-> IF k = x THEN Turn(f[x - 1], s[x], r, sign) ELSE f[k]]
    OBVIOUS
  <2>4. ASSUME NEW k \in 0 .. x PROVE g[k] = TurnOf(g, s, k, r, sign)
    <3>1. k # 0 => k - 1 \in 0 .. x /\ k - 1 # x
      BY <1>3
    <3>2. k # 0 => g[k - 1] = f[k - 1]
      BY <2>3, <3>1
    <3>3. CASE k = x
      BY <1>5, <2>3, <3>2, <3>3 DEF TurnOf
    <3>4. CASE k # x
      <4>1. k \in 0 .. x - 1
        BY <1>3, <3>4
      <4>2. f[k] = TurnOf(f, s, k, r, sign)
        BY <2>2, <4>1
      <4> QED
        BY <2>3, <3>2, <3>4, <4>2 DEF TurnOf
    <3> QED
      BY <3>3, <3>4
  <2>5. g = [k \in 0 .. x |-> TurnOf(g, s, k, r, sign)]
    BY <2>3, <2>4
  <2> QED
    BY <1>3, <2>5 DEF IsTurns
<1> QED
  BY <1>4, <1>5

\* Search finds a chunk of extreme size among those that are large enough.
LEMMA SearchIs ==
  ASSUME Headers(hdr), NEW n, NEW s, NEW r \in Int, NEW sign \in {1, -1},
         Linked(hdr, freeList, FreeOf(hdr), n, s), FreeChain = s, freeList # NULL
  PROVE  IF Able(r) = {} THEN Search(r, sign) = NULL
         ELSE /\ Search(r, sign) \in Able(r)
              /\ \A a \in Able(r) : Key(Search(r, sign), sign) <= Key(a, sign)
<1>1. n \in Nat /\ s \in [1 .. n -> FreeOf(hdr)] /\ \A a \in FreeOf(hdr) : \E i \in 1 .. n : s[i] = a
  BY DEF Linked, Orders
<1>2. n # 0 /\ freeList = s[1]
  BY DEF Linked
<1>3. s \in [1 .. n -> DOMAIN hdr] /\ freeList \in DOMAIN hdr /\ 1 \in 1 .. n
  <2>1. 1 \in 1 .. n
    BY <1>1, <1>2
  <2>2. FreeOf(hdr) \subseteq DOMAIN hdr
    BY DEF FreeOf
  <2> QED
    BY <1>1, <1>2, <2>1, <2>2
<1>4. Len(s) = n
  BY <1>1
<1>5. PICK turns : turns = CHOOSE f : f = [k \in 0 .. n |-> TurnOf(f, s, k, r, sign)]
  OBVIOUS
<1>6. turns = [k \in 0 .. n |-> TurnOf(turns, s, k, r, sign)]
  <2>1. \E f : IsTurns(f, s, n, r, sign)
    BY <1>1, TurnsExist, Zenon
  <2>2. \E f : f = [k \in 0 .. n |-> TurnOf(f, s, k, r, sign)]
    BY <2>1, Zenon DEF IsTurns
  <2> QED
    BY <1>5, <2>2, Zenon
<1>7. Search(r, sign) = IF turns[n].tmp = freeList /\ ~ (hdr[turns[n].tmp].size >= r)
                        THEN NULL ELSE turns[n].tmp
  <2>1. Len(FreeChain) = n
    BY <1>4
  <2>2. turns = CHOOSE f : f = [k \in 0 .. Len(FreeChain) |->
                    IF k = 0 THEN [tmp |-> freeList, first |-> TRUE]
                    ELSE Turn(f[k - 1], FreeChain[k], r, sign)]
    BY <1>5, <2>1 DEF TurnOf
  <2> QED
    BY <2>1, <2>2 DEF Search, Fits
<1>8. ASSUME NEW k \in 0 .. n PROVE Good(turns[k], s, k, r, sign)
  <2> DEFINE T == {x \in Nat : x \in 0 .. n /\ ~ Good(turns[x], s, x, r, sign)}
  <2>1. SUFFICES ASSUME T # {} PROVE FALSE
    BY <1>1
  <2>2. PICK x \in T : \A y \in Nat : y < x => y \notin T
    <3>1. T \subseteq Nat
      OBVIOUS
    <3> QED
      BY <2>1, <3>1, LeastAddress, Zenon
  <2>3. x \in Nat /\ x \in 0 .. n /\ ~ Good(turns[x], s, x, r, sign)
    BY <2>2
  <2>4. turns[x] = TurnOf(turns, s, x, r, sign)
    BY <1>6, <2>3
  <2>5. CASE x = 0
    <3>1. turns[x] = [tmp |-> freeList, first |-> TRUE]
      BY <2>4, <2>5 DEF TurnOf
    <3>2. 1 .. 0 = {}
      OBVIOUS
    <3>3. Good([tmp |-> freeList, first |-> TRUE], s, 0, r, sign)
      BY <1>3, <3>2 DEF Good
    <3> QED
      BY <2>3, <2>5, <3>1, <3>3
  <2>6. CASE x # 0
    <3>1. x \in 1 .. n /\ x - 1 \in Nat /\ x - 1 \in 0 .. n /\ x - 1 < x
      BY <1>1, <2>3, <2>6
    <3>2. Good(turns[x - 1], s, x - 1, r, sign)
      BY <2>2, <3>1
    <3>3. Good(Turn(turns[x - 1], s[x], r, sign), s, x, r, sign)
      BY <1>1, <1>3, <3>1, <3>2, TurnStep
    <3> QED
      BY <2>3, <2>4, <2>6, <3>3 DEF TurnOf
  <2> QED
    BY <2>5, <2>6
<1>9. PICK acc : acc = turns[n]
  OBVIOUS
<1>10. Good(acc, s, n, r, sign)
  BY <1>1, <1>8, <1>9
<1>11. \A i \in 1 .. n : hdr[s[i]].size >= r => s[i] \in Able(r)
  BY <1>1 DEF Able, FreeOf, Chunks
<1>12. \A a \in Able(r) : \E i \in 1 .. n : s[i] = a /\ hdr[s[i]].size >= r
  BY <1>1 DEF Able, FreeOf, Chunks
<1>13. CASE acc.first
  <2>1. Able(r) = {}
    BY <1>10, <1>12, <1>13 DEF Good
  <2>2. Search(r, sign) = NULL
    BY <1>2, <1>3, <1>7, <1>9, <1>10, <1>13 DEF Good
  <2> QED
    BY <2>1, <2>2
<1>14. CASE ~ acc.first
  <2>1. PICK j \in 1 .. n : acc.tmp = s[j] /\ hdr[s[j]].size >= r
    BY <1>10, <1>14 DEF Good
  <2>2. Search(r, sign) = acc.tmp /\ acc.tmp \in Able(r)
    BY <1>7, <1>9, <1>11, <2>1
  <2>3. \A a \in Able(r) : Key(acc.tmp, sign) <= Key(a, sign)
    BY <1>10, <1>12, <1>14 DEF Good
  <2> QED
    BY <2>2, <2>3
<1> QED
  BY <1>13, <1>14

-----------------------------------------------------------------------------
(* What the assignments to links change.                                    *)

\* g has the chunks of h with the same sizes and marks.
SameChunks(g, h) ==
  /\ Headers(g) /\ DOMAIN g = DOMAIN h
  /\ \A x \in DOMAIN h : g[x].size = h[x].size /\ g[x].free = h[x].free

\* The assignment to a pointer forward.
LEMMA SetNextIs ==
  ASSUME NEW h, Headers(h), NEW a \in DOMAIN h \cup {NULL}, NEW b \in Int
  PROVE  /\ SameChunks(SetNext(h, a, b), h)
         /\ \A x \in DOMAIN h :
              /\ SetNext(h, a, b)[x].next = IF x = a THEN b ELSE h[x].next
              /\ SetNext(h, a, b)[x].prev = h[x].prev
<1>1. CASE a = NULL
  BY <1>1, HeaderIs DEF SetNext, SameChunks
<1>2. CASE a # NULL
  <2>1. PICK g : g = [h EXCEPT ![a].next = b]
    OBVIOUS
  <2>2. SetNext(h, a, b) = g /\ a \in DOMAIN h
    BY <1>2, <2>1 DEF SetNext
  <2>3. DOMAIN g = DOMAIN h /\ g \in [DOMAIN h -> Header]
    BY <2>1, <2>2 DEF Headers, Header
  <2>4. \A x \in DOMAIN h : /\ g[x].size = h[x].size /\ g[x].free = h[x].free
                            /\ g[x].next = IF x = a THEN b ELSE h[x].next
                            /\ g[x].prev = h[x].prev
    BY <2>1, <2>2 DEF Headers, Header
  <2> QED
    BY <2>2, <2>3, <2>4 DEF SameChunks, Headers
<1> QED
  BY <1>1, <1>2

\* The assignment to a pointer backward.
LEMMA SetPrevIs ==
  ASSUME NEW h, Headers(h), NEW a \in DOMAIN h \cup {NULL}, NEW b \in Int
  PROVE  /\ SameChunks(SetPrev(h, a, b), h)
         /\ \A x \in DOMAIN h :
              /\ SetPrev(h, a, b)[x].prev = IF x = a THEN b ELSE h[x].prev
              /\ SetPrev(h, a, b)[x].next = h[x].next
<1>1. CASE a = NULL
  BY <1>1, HeaderIs DEF SetPrev, SameChunks
<1>2. CASE a # NULL
  <2>1. PICK g : g = [h EXCEPT ![a].prev = b]
    OBVIOUS
  <2>2. SetPrev(h, a, b) = g /\ a \in DOMAIN h
    BY <1>2, <2>1 DEF SetPrev
  <2>3. DOMAIN g = DOMAIN h /\ g \in [DOMAIN h -> Header]
    BY <2>1, <2>2 DEF Headers, Header
  <2>4. \A x \in DOMAIN h : /\ g[x].size = h[x].size /\ g[x].free = h[x].free
                            /\ g[x].prev = IF x = a THEN b ELSE h[x].prev
                            /\ g[x].next = h[x].next
    BY <2>1, <2>2 DEF Headers, Header
  <2> QED
    BY <2>2, <2>3, <2>4 DEF SameChunks, Headers
<1> QED
  BY <1>1, <1>2

\* g is h with another mark at c.
Remarked(g, h, c) ==
  /\ Headers(g) /\ DOMAIN g = DOMAIN h
  /\ \A x \in DOMAIN h : /\ g[x].size = h[x].size
                         /\ g[x].next = h[x].next /\ g[x].prev = h[x].prev
                         /\ x # c => g[x].free = h[x].free

\* The assignment of 1 to a mark.
LEMMA MarkFreeIs ==
  ASSUME NEW h, Headers(h), NEW c \in DOMAIN h
  PROVE  Remarked(MarkFree(h, c), h, c) /\ MarkFree(h, c)[c].free
<1>1. PICK g : g = [h EXCEPT ![c].free = TRUE]
  OBVIOUS
<1>2. PICK old : old = h[c]
  OBVIOUS
<1>3. PICK new : new = [old EXCEPT !.free = TRUE]
  OBVIOUS
<1>4. DOMAIN g = DOMAIN h /\ g[c] = new /\ \A x \in DOMAIN h : x # c => g[x] = h[x]
  BY <1>1, <1>2, <1>3
<1>5. /\ new \in Header /\ new.size = old.size /\ new.next = old.next /\ new.prev = old.prev
      /\ new.free
  <2>1. old \in Header
    BY <1>2 DEF Headers
  <2> QED
    BY <1>3, <2>1 DEF Header
<1>6. \A x \in DOMAIN h : g[x] \in Header
  BY <1>4, <1>5 DEF Headers
<1>7. g \in [DOMAIN h -> Header]
  BY <1>1, <1>6
<1>8. Headers(g)
  BY <1>4, <1>7 DEF Headers
<1>9. \A x \in DOMAIN h : /\ g[x].size = h[x].size
                          /\ g[x].next = h[x].next /\ g[x].prev = h[x].prev
                          /\ x # c => g[x].free = h[x].free
  BY <1>2, <1>4, <1>5
<1>10. Remarked(g, h, c)
  BY <1>4, <1>8, <1>9 DEF Remarked
<1>11. MarkFree(h, c) = g
  BY <1>1 DEF MarkFree
<1> QED
  BY <1>4, <1>5, <1>10, <1>11

\* The assignment of 0 to a mark.
LEMMA MarkUsedIs ==
  ASSUME NEW h, Headers(h), NEW c \in DOMAIN h
  PROVE  Remarked(MarkUsed(h, c), h, c) /\ ~ MarkUsed(h, c)[c].free
<1>1. PICK g : g = [h EXCEPT ![c].free = FALSE]
  OBVIOUS
<1>2. PICK old : old = h[c]
  OBVIOUS
<1>3. PICK new : new = [old EXCEPT !.free = FALSE]
  OBVIOUS
<1>4. DOMAIN g = DOMAIN h /\ g[c] = new /\ \A x \in DOMAIN h : x # c => g[x] = h[x]
  BY <1>1, <1>2, <1>3
<1>5. /\ new \in Header /\ new.size = old.size /\ new.next = old.next /\ new.prev = old.prev
      /\ ~ new.free
  <2>1. old \in Header
    BY <1>2 DEF Headers
  <2> QED
    BY <1>3, <2>1 DEF Header
<1>6. \A x \in DOMAIN h : g[x] \in Header
  BY <1>4, <1>5 DEF Headers
<1>7. g \in [DOMAIN h -> Header]
  BY <1>1, <1>6
<1>8. Headers(g)
  BY <1>4, <1>7 DEF Headers
<1>9. \A x \in DOMAIN h : /\ g[x].size = h[x].size
                          /\ g[x].next = h[x].next /\ g[x].prev = h[x].prev
                          /\ x # c => g[x].free = h[x].free
  BY <1>2, <1>4, <1>5
<1>10. Remarked(g, h, c)
  BY <1>4, <1>8, <1>9 DEF Remarked
<1>11. MarkUsed(h, c) = g
  BY <1>1 DEF MarkUsed
<1> QED
  BY <1>4, <1>5, <1>10, <1>11

\* The links after a chunk has been taken out.
LEMMA UnlinkedIs ==
  ASSUME NEW h, Headers(h), NEW c \in DOMAIN h,
         h[c].next \in DOMAIN h \cup {NULL}, h[c].prev \in DOMAIN h \cup {NULL}
  PROVE  /\ SameChunks(Unlinked(h, c), h)
         /\ \A x \in DOMAIN h :
              /\ Unlinked(h, c)[x].next = IF x = h[c].prev THEN h[c].next ELSE h[x].next
              /\ Unlinked(h, c)[x].prev = IF x = h[c].next THEN h[c].prev ELSE h[x].prev
<1>1. PICK p \in DOMAIN h \cup {NULL}, q \in DOMAIN h \cup {NULL} : p = h[c].prev /\ q = h[c].next
  OBVIOUS
<1>2. p \in Int /\ q \in Int
  BY <1>1, HeaderIs
<1>3. PICK g : g = SetPrev(h, q, p)
  OBVIOUS
<1>4. /\ SameChunks(g, h)
      /\ \A x \in DOMAIN h : g[x].prev = (IF x = q THEN p ELSE h[x].prev) /\ g[x].next = h[x].next
  <2>1. /\ SameChunks(SetPrev(h, q, p), h)
        /\ \A x \in DOMAIN h :
             /\ SetPrev(h, q, p)[x].prev = IF x = q THEN p ELSE h[x].prev
             /\ SetPrev(h, q, p)[x].next = h[x].next
    BY <1>2, SetPrevIs
  <2> QED
    BY <1>3, <2>1
<1>5. Headers(g) /\ p \in DOMAIN g \cup {NULL}
  BY <1>4 DEF SameChunks
<1>6. PICK f : f = SetNext(g, p, q)
  OBVIOUS
<1>7. /\ SameChunks(f, g)
      /\ \A x \in DOMAIN g : f[x].next = (IF x = p THEN q ELSE g[x].next) /\ f[x].prev = g[x].prev
  <2>1. /\ SameChunks(SetNext(g, p, q), g)
        /\ \A x \in DOMAIN g :
             /\ SetNext(g, p, q)[x].next = IF x = p THEN q ELSE g[x].next
             /\ SetNext(g, p, q)[x].prev = g[x].prev
    BY <1>2, <1>5, SetNextIs
  <2> QED
    BY <1>6, <2>1
<1>8. Unlinked(h, c) = f
  BY <1>1, <1>3, <1>6 DEF Unlinked
<1> QED
  BY <1>1, <1>4, <1>7, <1>8 DEF SameChunks

\* The links after a chunk has been put before a list.
LEMMA PushedIs ==
  ASSUME NEW h, Headers(h), NEW c \in DOMAIN h, NEW head \in DOMAIN h \cup {NULL}, head # c
  PROVE  /\ SameChunks(Pushed(h, c, head), h)
         /\ Pushed(h, c, head)[c].next = head /\ Pushed(h, c, head)[c].prev = NULL
         /\ \A x \in DOMAIN h :
              x # c => /\ Pushed(h, c, head)[x].next = h[x].next
                       /\ Pushed(h, c, head)[x].prev = IF x = head THEN c ELSE h[x].prev
<1>1. PICK g : g = [h EXCEPT ![c].next = head, ![c].prev = NULL]
  OBVIOUS
<1>2. head \in Int /\ c \in Int /\ NULL \in Int
  BY HeaderIs DEF NULL
<1>3. DOMAIN g = DOMAIN h /\ g \in [DOMAIN h -> Header]
  BY <1>1, <1>2 DEF Headers, Header
<1>4. \A x \in DOMAIN h : /\ g[x].size = h[x].size /\ g[x].free = h[x].free
                          /\ g[x].next = IF x = c THEN head ELSE h[x].next
                          /\ g[x].prev = IF x = c THEN NULL ELSE h[x].prev
  BY <1>1, <1>2 DEF Headers, Header
<1>5. Headers(g)
  BY <1>3 DEF Headers
<1>6. PICK f : f = SetPrev(g, head, c)
  OBVIOUS
<1>7. /\ SameChunks(f, g)
      /\ \A x \in DOMAIN g : f[x].prev = (IF x = head THEN c ELSE g[x].prev) /\ f[x].next = g[x].next
  <2>1. /\ SameChunks(SetPrev(g, head, c), g)
        /\ \A x \in DOMAIN g :
             /\ SetPrev(g, head, c)[x].prev = IF x = head THEN c ELSE g[x].prev
             /\ SetPrev(g, head, c)[x].next = g[x].next
    <3>1. head \in DOMAIN g \cup {NULL}
      BY <1>3
    <3> QED
      BY <1>2, <1>5, <3>1, SetPrevIs
  <2> QED
    BY <1>6, <2>1
<1>8. Pushed(h, c, head) = f
  BY <1>1, <1>6 DEF Pushed
<1> QED
  BY <1>3, <1>4, <1>7, <1>8 DEF SameChunks

-----------------------------------------------------------------------------
(* The invariant.                                                           *)

End(h, a) == a + HDR + h[a].size

\* The chunks tile a region of T bytes.
Tiles(h, T) ==
  /\ Headers(h) /\ 0 \in DOMAIN h
  /\ \A a \in DOMAIN h :
       a < T /\ h[a].size >= 1 /\ End(h, a) \in DOMAIN h \cup {T}
  /\ \A a, b \in DOMAIN h : a < b => End(h, a) <= b

\* No two free chunks are neighbours.
Spaced(h) == \A a \in FreeOf(h) : End(h, a) \in DOMAIN h => ~ h[End(h, a)].free

\* The free chunks that coalesce() has passed when it is at place x.
Passed(h, x) == {a \in FreeOf(h) : a < x}

\* Within coalesce(), at place x: the passed free chunks are linked, p is the
\* last of them, and only that one may end where the next chunk begins.
Rebuilt(h, head, T, x, p, near) ==
  /\ x \in DOMAIN h \cup {T}
  /\ FreeOf(h) # {}
  /\ Passing(h, head, Passed(h, x), p)
  /\ \A a \in Passed(h, x) : /\ End(h, a) = x => near /\ a = p
                             /\ End(h, a) < x => ~ h[End(h, a)].free
  /\ near => p \in Passed(h, x) /\ End(h, p) = x

MemInv ==
  /\ totalSize \in Nat /\ here \in Nat /\ currSize \in Nat
  /\ prev \in Int /\ freeList \in Int /\ memList \in Int
  /\ immediate \in BOOLEAN /\ mpc \in {"idle", "coalesce"} /\ crashed \in BOOLEAN
  /\ totalSize = 0 => /\ Headers(hdr) /\ DOMAIN hdr = {} /\ memList = NULL /\ mpc = "idle"
                      /\ freeList \in {NULL, MAP_FAILED}
  /\ totalSize > 0 => Tiles(hdr, totalSize) /\ OnList(hdr, memList, UsedOf(hdr))
  /\ totalSize > 0 /\ mpc = "idle" =>
       OnList(hdr, freeList, FreeOf(hdr)) /\ Spaced(hdr)
  /\ mpc = "coalesce" =>
       /\ currSize = here
       /\ Rebuilt(hdr, freeList, totalSize, here, prev, immediate)
  /\ crashed /\ totalSize > 0 => FreeOf(hdr) = {}

\* Links do not matter for the tiling, the marks and the free neighbours.
LEMMA SameChunksKeep ==
  ASSUME NEW g, NEW h, NEW T, SameChunks(g, h), Tiles(h, T)
  PROVE  /\ Tiles(g, T) /\ FreeOf(g) = FreeOf(h) /\ UsedOf(g) = UsedOf(h)
         /\ \A a \in DOMAIN h : End(g, a) = End(h, a)
<1>1. \A a \in DOMAIN h : End(g, a) = End(h, a)
  BY DEF SameChunks, End
<1>2. FreeOf(g) = FreeOf(h) /\ UsedOf(g) = UsedOf(h)
  BY DEF SameChunks, FreeOf, UsedOf
<1>3. Tiles(g, T)
  BY <1>1 DEF Tiles, SameChunks
<1> QED
  BY <1>1, <1>2, <1>3

\* Facts of the tiling that the steps need.
LEMMA TilesFacts ==
  ASSUME NEW h, NEW T \in Nat, Tiles(h, T), NEW a \in DOMAIN h
  PROVE  /\ a \in Nat /\ a < T /\ h[a].size \in Nat /\ h[a].size >= 1
         /\ End(h, a) \in Nat /\ End(h, a) > a + HDR /\ End(h, a) <= T
         /\ End(h, a) \in DOMAIN h \/ End(h, a) = T
         /\ \A b \in DOMAIN h : a < b => End(h, a) <= b
<1>1. a \in Nat /\ a < T /\ h[a].size \in Nat /\ h[a].size >= 1
  BY HeaderIs DEF Tiles
<1>2. End(h, a) \in Nat /\ End(h, a) > a + HDR
  BY <1>1, Units DEF End
<1>3. End(h, a) \in DOMAIN h \/ End(h, a) = T
  BY DEF Tiles
<1>4. End(h, a) <= T
  BY <1>2, <1>3 DEF Tiles
<1> QED
  BY <1>1, <1>2, <1>3, <1>4 DEF Tiles

\* A request is rounded up, to at least one unit.
LEMMA RoundUpIs ==
  ASSUME NEW s \in Nat \ {0}, NEW unit \in Nat \ {0}
  PROVE  RoundUp(s, unit) \in Nat /\ RoundUp(s, unit) >= s /\ RoundUp(s, unit) >= unit
<1>1. PICK x \in 0 .. unit - 1 : x = s % unit
  OBVIOUS
<1>2. x = 0 => s >= unit
  <2>1. s < unit => s % unit = s
    OBVIOUS
  <2> QED
    BY <1>1, <2>1
<1>3. s >= x
  <2>1. s % unit <= s
    OBVIOUS
  <2> QED
    BY <1>1, <2>1
<1> QED
  BY <1>1, <1>2, <1>3 DEF RoundUp

\* The head of a list is on it.
LEMMA ListHead ==
  ASSUME NEW h, NEW head, NEW S, OnList(h, head, S)
  PROVE  head \in S \cup {NULL} /\ (head = NULL /\ NULL \notin S => S = {})
<1>1. PICK n, s : Linked(h, head, S, n, s)
  BY DEF OnList
<1>2. n \in Nat /\ s \in [1 .. n -> S] /\ \A a \in S : \E i \in 1 .. n : s[i] = a
  BY <1>1 DEF Linked, Orders
<1>3. CASE n = 0
  <2>1. 1 .. n = {}
    BY <1>3
  <2> QED
    BY <1>1, <1>2, <1>3, <2>1 DEF Linked
<1>4. CASE n # 0
  <2>1. 1 \in 1 .. n
    BY <1>2, <1>4
  <2> QED
    BY <1>1, <1>2, <1>4, <2>1 DEF Linked
<1> QED
  BY <1>3, <1>4

\* Two different chunks do not overlap.
LEMMA TilesApart ==
  ASSUME NEW h, NEW T \in Nat, Tiles(h, T), NEW a \in DOMAIN h, NEW b \in DOMAIN h, a # b
  PROVE  End(h, a) <= b \/ End(h, b) <= a
<1>1. a \in Nat /\ b \in Nat
  BY TilesFacts
<1>2. a < b \/ b < a
  BY <1>1
<1> QED
  BY <1>2 DEF Tiles

-----------------------------------------------------------------------------
(* Mem_Alloc.                                                               *)

\* No free chunk but c has a free neighbour behind it.
SpacedBut(h, c) ==
  \A a \in FreeOf(h) \ {c} : End(h, a) \in DOMAIN h => ~ h[End(h, a)].free

\* g is h with chunk c cut at rest.
IsCut(g, h, c, r, rest) ==
  /\ rest \in Nat /\ rest > c + HDR /\ rest < End(h, c) /\ rest \notin DOMAIN h
  /\ Headers(g) /\ DOMAIN g = DOMAIN h \cup {rest}
  /\ g[rest].size = h[c].size - r - HDR /\ g[rest].free
  /\ g[c].size = r
  /\ \A a \in DOMAIN h : /\ g[a].next = h[a].next /\ g[a].prev = h[a].prev
                         /\ g[a].free = h[a].free
                         /\ a # c => g[a].size = h[a].size

\* The headers that Cut gives.
LEMMA CutIs ==
  ASSUME NEW h, NEW T \in Nat, Tiles(h, T), NEW c \in DOMAIN h, NEW r \in Nat, r >= 1,
         h[c].size - r - HDR > 0
  PROVE  IsCut(Cut(h, c, r), h, c, r, c + r + HDR)
<1>1. PICK rest : rest = c + r + HDR
  OBVIOUS
<1>2. PICK k : k = h[c].size - r - HDR
  OBVIOUS
<1>3. /\ HDR \in Nat /\ HDR >= 1 /\ c \in Nat /\ h[c].size \in Nat
      /\ \A b \in DOMAIN h : c < b => End(h, c) <= b
  BY Units, TilesFacts
<1>4. rest \in Nat /\ rest > c + HDR /\ rest < End(h, c) /\ rest > c /\ k \in Nat
  BY <1>1, <1>2, <1>3 DEF End
<1>5. rest \notin DOMAIN h /\ rest # c
  <2>1. End(h, c) \in Nat
    BY TilesFacts
  <2> QED
    BY <1>3, <1>4, <2>1
<1>6. PICK new : new = [size |-> k, free |-> TRUE, next |-> NULL, prev |-> NULL]
  OBVIOUS
<1>7. PICK old : old = [h[c] EXCEPT !.size = r]
  OBVIOUS
<1>8. PICK g : g = Cut(h, c, r)
  OBVIOUS
<1>9. g = [a \in DOMAIN h \cup {rest} |-> IF a = rest THEN new ELSE IF a = c THEN old ELSE h[a]]
  BY <1>1, <1>2, <1>6, <1>7, <1>8 DEF Cut
<1>10. Headers(h) /\ \A a \in DOMAIN h : h[a] \in Header
  BY DEF Tiles, Headers
<1>11. new \in Header /\ new.size = k /\ new.free
  BY <1>4, <1>6 DEF Header, NULL
<1>12. /\ old \in Header /\ old.size = r
       /\ old.next = h[c].next /\ old.prev = h[c].prev /\ old.free = h[c].free
  BY <1>7, <1>10 DEF Header
<1>13. DOMAIN g = DOMAIN h \cup {rest} /\ g[rest] = new /\ g[c] = old
       /\ \A a \in DOMAIN h : a # c => g[a] = h[a]
  BY <1>5, <1>9
<1>14. Headers(g)
  <2>1. \A a \in DOMAIN g : g[a] \in Header
    BY <1>10, <1>11, <1>12, <1>13
  <2>2. DOMAIN g \subseteq Nat
    BY <1>4, <1>10, <1>13 DEF Headers
  <2>3. g \in [DOMAIN g -> Header]
    BY <1>9, <2>1
  <2> QED
    BY <2>2, <2>3 DEF Headers
<1>15. \A a \in DOMAIN h : /\ g[a].next = h[a].next /\ g[a].prev = h[a].prev
                           /\ g[a].free = h[a].free
                           /\ a # c => g[a].size = h[a].size
  BY <1>12, <1>13
<1> QED
  BY <1>1, <1>2, <1>4, <1>5, <1>8, <1>11, <1>12, <1>13, <1>14, <1>15 DEF IsCut

\* A chunk is split: the rest is put on the free list.
LEMMA SplitStep ==
  ASSUME NEW h, NEW T \in Nat, Tiles(h, T), NEW fl, NEW ml,
         OnList(h, fl, FreeOf(h)), OnList(h, ml, UsedOf(h)), Spaced(h),
         NEW c \in FreeOf(h), NEW r \in Nat, r >= 1, h[c].size - r - HDR > 0,
         NEW rest, rest = c + r + HDR, NEW f, f = Pushed(Cut(h, c, r), rest, fl)
  PROVE  /\ Tiles(f, T) /\ SpacedBut(f, c)
         /\ OnList(f, rest, FreeOf(f)) /\ OnList(f, ml, UsedOf(f))
         /\ c \in FreeOf(f) /\ f[c].size = r
         /\ UsedOf(f) = UsedOf(h) /\ \A a \in UsedOf(h) : f[a].size = h[a].size
<1>0. c \in DOMAIN h
  BY DEF FreeOf
<1>1. PICK g : g = Cut(h, c, r)
  OBVIOUS
<1>2. /\ rest \in Nat /\ rest > c + HDR /\ rest < End(h, c) /\ rest \notin DOMAIN h
      /\ Headers(g) /\ DOMAIN g = DOMAIN h \cup {rest}
      /\ g[rest].size = h[c].size - r - HDR /\ g[rest].free
      /\ g[c].size = r
      /\ \A a \in DOMAIN h : /\ g[a].next = h[a].next /\ g[a].prev = h[a].prev
                             /\ g[a].free = h[a].free
                             /\ a # c => g[a].size = h[a].size
  <2>1. IsCut(g, h, c, r, rest)
    BY <1>0, <1>1, CutIs
  <2> QED
    BY <2>1 DEF IsCut
<1>3. fl \in FreeOf(h) \cup {NULL} /\ rest # NULL
  BY <1>2, ListHead DEF NULL
<1>4. fl \in DOMAIN g \cup {NULL} /\ fl # rest /\ rest \in DOMAIN g
  BY <1>2, <1>3 DEF FreeOf
<1>5. f = Pushed(g, rest, fl)
  BY <1>1
<1>6. /\ SameChunks(f, g)
      /\ f[rest].next = fl /\ f[rest].prev = NULL
      /\ \A x \in DOMAIN g : x # rest => /\ f[x].next = g[x].next
                                         /\ f[x].prev = IF x = fl THEN rest ELSE g[x].prev
  BY <1>2, <1>4, <1>5, PushedIs
<1>7. /\ Headers(f) /\ DOMAIN f = DOMAIN h \cup {rest}
      /\ f[rest].size = h[c].size - r - HDR /\ f[rest].free /\ f[c].size = r
      /\ \A a \in DOMAIN h : /\ f[a].next = h[a].next
                             /\ f[a].prev = IF a = fl THEN rest ELSE h[a].prev
                             /\ f[a].free = h[a].free
                             /\ a # c => f[a].size = h[a].size
  BY <1>0, <1>2, <1>4, <1>6 DEF SameChunks
<1>8. HDR \in Nat /\ HDR >= 1 /\ c \in Nat /\ h[c].size \in Nat
  BY <1>0, Units, TilesFacts
<1>9. End(f, c) = rest /\ End(f, rest) = End(h, c)
  BY <1>7, <1>8 DEF End
<1>10. \A a \in DOMAIN h : a # c => End(f, a) = End(h, a)
  BY <1>7 DEF End
<1>11. \A a \in DOMAIN h : a \in Nat /\ a # rest /\ End(h, a) \in Nat
  BY <1>2, TilesFacts
<1>12. \A a \in DOMAIN h : a # c => a < c \/ a >= End(h, c)
  <2>1. SUFFICES ASSUME NEW a \in DOMAIN h, a # c PROVE a < c \/ a >= End(h, c)
    OBVIOUS
  <2>2. c < a => End(h, c) <= a
    BY <1>0, TilesFacts
  <2> QED
    BY <1>8, <1>11, <2>1, <2>2
<1>13. End(h, c) \in DOMAIN h \cup {T} /\ End(h, c) \in Nat /\ End(h, c) <= T /\ c < T
  BY <1>0, TilesFacts
<1>14. Tiles(f, T)
  <2>1. 0 \in DOMAIN f
    BY <1>7 DEF Tiles
  <2>2. ASSUME NEW a \in DOMAIN f
        PROVE  a < T /\ f[a].size >= 1 /\ End(f, a) \in DOMAIN f \cup {T}
    <3>1. CASE a = rest
      <4>1. rest < T
        BY <1>2, <1>13
      <4>2. f[rest].size >= 1
        BY <1>7, <1>8
      <4> QED
        BY <1>7, <1>9, <1>13, <3>1, <4>1, <4>2
    <3>2. CASE a = c
      BY <1>7, <1>9, <1>13, <3>2
    <3>3. CASE a \in DOMAIN h /\ a # c
      BY <1>7, <1>10, <3>3 DEF Tiles
    <3> QED
      BY <1>7, <3>1, <3>2, <3>3
  <2>3. ASSUME NEW a \in DOMAIN f, NEW b \in DOMAIN f, a < b PROVE End(f, a) <= b
    <3>1. CASE a = c
      <4>1. b # rest => b >= End(h, c)
        BY <1>7, <1>8, <1>11, <1>12, <2>3, <3>1
      <4> QED
        BY <1>2, <1>7, <1>9, <1>11, <1>13, <3>1, <4>1
    <3>2. CASE a = rest
      <4>1. b \in DOMAIN h /\ b # c
        BY <1>2, <1>7, <1>8, <2>3, <3>2
      <4>2. b >= End(h, c)
        BY <1>2, <1>8, <1>11, <1>12, <2>3, <3>2, <4>1
      <4> QED
        BY <1>9, <3>2, <4>2
    <3>3. CASE a \in DOMAIN h /\ a # c /\ b = rest
      <4>1. a < c
        BY <1>2, <1>11, <1>12, <1>13, <2>3, <3>3
      <4>2. End(h, a) <= c
        BY <1>0, <3>3, <4>1, TilesFacts
      <4> QED
        BY <1>2, <1>8, <1>10, <1>11, <3>3, <4>2
    <3>4. CASE a \in DOMAIN h /\ a # c /\ b \in DOMAIN h
      BY <1>10, <2>3, <3>4 DEF Tiles
    <3> QED
      BY <1>7, <3>1, <3>2, <3>3, <3>4
  <2> QED
    BY <1>7, <2>1, <2>2, <2>3 DEF Tiles
<1>15. FreeOf(f) = FreeOf(h) \cup {rest} /\ UsedOf(f) = UsedOf(h)
  BY <1>2, <1>7 DEF FreeOf, UsedOf
<1>16. OnList(f, rest, FreeOf(f))
  <2>1. FreeOf(h) \subseteq Nat /\ rest \notin FreeOf(h) /\ FreeOf(h) \subseteq DOMAIN h
    BY <1>2, <1>11 DEF FreeOf
  <2>2. OnList(f, rest, FreeOf(h) \cup {rest})
    <3>1. \A a \in FreeOf(h) : /\ f[a].next = h[a].next
                               /\ f[a].prev = IF a = fl THEN rest ELSE h[a].prev
      BY <1>7, <2>1
    <3> QED
      BY <1>2, <1>6, <2>1, <3>1, ListPush
  <2> QED
    BY <1>15, <2>2
<1>17. OnList(f, ml, UsedOf(f))
  <2>1. SameLinks(f, h, UsedOf(h))
    BY <1>3, <1>7, <1>11 DEF SameLinks, UsedOf, FreeOf, NULL
  <2>2. OnList(f, ml, UsedOf(h))
    BY <2>1, ListFrame
  <2> QED
    BY <1>15, <2>2
<1>18. SpacedBut(f, c)
  <2>1. SUFFICES ASSUME NEW a \in FreeOf(f) \ {c}, End(f, a) \in DOMAIN f
                 PROVE  ~ f[End(f, a)].free
    BY DEF SpacedBut
  <2>2. CASE a = rest
    <3>1. End(h, c) \in DOMAIN h
      BY <1>2, <1>7, <1>9, <1>13, <2>1, <2>2
    <3>2. ~ h[End(h, c)].free
      BY <3>1 DEF Spaced
    <3> QED
      BY <1>7, <1>9, <2>2, <3>1, <3>2
  <2>3. CASE a # rest
    <3>1. a \in FreeOf(h) /\ a \in DOMAIN h /\ a # c
      BY <1>15, <2>1, <2>3 DEF FreeOf
    <3>2. End(f, a) = End(h, a)
      BY <1>10, <3>1
    <3>3. End(h, a) # rest
      <4>1. a < c => End(h, a) <= c
        BY <1>0, <3>1, TilesFacts
      <4>2. a >= End(h, c) => End(h, a) > rest
        <5>1. End(h, a) > a + HDR
          BY <3>1, TilesFacts
        <5> QED
          BY <1>2, <1>8, <1>11, <1>13, <3>1, <5>1
      <4> QED
        BY <1>2, <1>8, <1>11, <1>12, <3>1, <4>1, <4>2
    <3>4. End(h, a) \in DOMAIN h
      BY <1>7, <2>1, <3>2, <3>3
    <3>5. ~ h[End(h, a)].free
      BY <3>1, <3>4 DEF Spaced
    <3> QED
      BY <1>7, <3>2, <3>4, <3>5
  <2> QED
    BY <2>2, <2>3
<1>19. c \in FreeOf(f) /\ \A a \in UsedOf(h) : f[a].size = h[a].size
  BY <1>7, <1>15 DEF UsedOf, FreeOf
<1> QED
  BY <1>7, <1>14, <1>15, <1>16, <1>17, <1>18, <1>19

\* A free chunk is moved to the list of used ones.
LEMMA MoveStep ==
  ASSUME NEW h, NEW T \in Nat, Tiles(h, T), NEW fl, NEW ml,
         OnList(h, fl, FreeOf(h)), OnList(h, ml, UsedOf(h)),
         NEW c \in FreeOf(h), SpacedBut(h, c),
         NEW u, u = Unlinked(h, c),
         NEW g, g = MarkUsed(Pushed(u, c, ml), c)
  PROVE  /\ Tiles(g, T) /\ Spaced(g)
         /\ OnList(g, IF c = fl THEN u[c].next ELSE fl, FreeOf(g))
         /\ OnList(g, c, UsedOf(g))
         /\ UsedOf(g) = UsedOf(h) \cup {c} /\ c \notin UsedOf(h)
         /\ \A a \in DOMAIN h : g[a].size = h[a].size
<1>0. c \in DOMAIN h /\ Headers(h) /\ FreeOf(h) \subseteq DOMAIN h /\ UsedOf(h) \subseteq DOMAIN h
      /\ FreeOf(h) \cap UsedOf(h) = {} /\ DOMAIN h \subseteq Nat /\ NULL \notin DOMAIN h
  BY DEF FreeOf, UsedOf, Tiles, Headers, NULL
<1>1. ASSUME NEW f, \A a \in FreeOf(h) :
                /\ f[a].next = IF a = h[c].prev THEN h[c].next ELSE h[a].next
                /\ f[a].prev = IF a = h[c].next THEN h[c].prev ELSE h[a].prev
      PROVE  /\ OnList(f, IF c = fl THEN h[c].next ELSE fl, FreeOf(h) \ {c})
             /\ h[c].prev # c /\ h[c].next # c
             /\ h[c].prev \in FreeOf(h) \cup {NULL} /\ h[c].next \in FreeOf(h) \cup {NULL}
  <2>1. FreeOf(h) \subseteq Nat
    BY <1>0
  <2> QED
    BY <1>1, <2>1, ListUnlink
<1>2. /\ h[c].prev # c /\ h[c].next # c
      /\ h[c].prev \in FreeOf(h) \cup {NULL} /\ h[c].next \in FreeOf(h) \cup {NULL}
  <2>1. PICK f : f = [a \in FreeOf(h) |->
                  [next |-> IF a = h[c].prev THEN h[c].next ELSE h[a].next,
                   prev |-> IF a = h[c].next THEN h[c].prev ELSE h[a].prev]]
    OBVIOUS
  <2>2. \A a \in FreeOf(h) :
                /\ f[a].next = IF a = h[c].prev THEN h[c].next ELSE h[a].next
                /\ f[a].prev = IF a = h[c].next THEN h[c].prev ELSE h[a].prev
    BY <2>1
  <2> QED
    BY <1>1, <2>2
<1>3. /\ SameChunks(u, h)
      /\ \A x \in DOMAIN h :
           /\ u[x].next = IF x = h[c].prev THEN h[c].next ELSE h[x].next
           /\ u[x].prev = IF x = h[c].next THEN h[c].prev ELSE h[x].prev
  <2>1. h[c].next \in DOMAIN h \cup {NULL} /\ h[c].prev \in DOMAIN h \cup {NULL}
    BY <1>0, <1>2
  <2> QED
    BY <1>0, <2>1, UnlinkedIs
<1>4. u[c].next = h[c].next
  BY <1>0, <1>2, <1>3
<1>5. ml \in UsedOf(h) \cup {NULL} /\ ml # c
  BY <1>0, ListHead
<1>6. PICK p : p = Pushed(u, c, ml)
  OBVIOUS
<1>7. /\ SameChunks(p, u) /\ p[c].next = ml /\ p[c].prev = NULL
      /\ \A x \in DOMAIN u : x # c => /\ p[x].next = u[x].next
                                      /\ p[x].prev = IF x = ml THEN c ELSE u[x].prev
  <2>1. Headers(u) /\ c \in DOMAIN u /\ ml \in DOMAIN u \cup {NULL}
    BY <1>0, <1>3, <1>5 DEF SameChunks
  <2> QED
    BY <1>5, <1>6, <2>1, PushedIs
<1>8. /\ Headers(p) /\ DOMAIN p = DOMAIN h
      /\ \A x \in DOMAIN h : p[x].size = h[x].size /\ p[x].free = h[x].free
  BY <1>3, <1>7 DEF SameChunks
<1>9. g = MarkUsed(p, c)
  BY <1>6
<1>10. /\ Headers(g) /\ DOMAIN g = DOMAIN h /\ ~ g[c].free
       /\ \A x \in DOMAIN h : /\ g[x].size = p[x].size
                              /\ g[x].next = p[x].next /\ g[x].prev = p[x].prev
                              /\ x # c => g[x].free = p[x].free
  <2>1. c \in DOMAIN p
    BY <1>0, <1>8
  <2>2. g = MarkUsed(p, c)
    BY <1>9
  <2>3. Remarked(g, p, c) /\ ~ g[c].free
    BY <1>8, <2>1, <2>2, MarkUsedIs
  <2> QED
    BY <1>8, <2>3 DEF Remarked
<1>11. Headers(g)
  BY <1>10
<1>12. \A x \in DOMAIN h : g[x].size = h[x].size /\ End(g, x) = End(h, x)
  BY <1>8, <1>10 DEF End
<1>13. Tiles(g, T)
  BY <1>10, <1>11, <1>12 DEF Tiles
<1>14. FreeOf(g) = FreeOf(h) \ {c} /\ UsedOf(g) = UsedOf(h) \cup {c} /\ c \notin UsedOf(h)
  BY <1>0, <1>8, <1>10 DEF FreeOf, UsedOf
<1>15. OnList(g, IF c = fl THEN u[c].next ELSE fl, FreeOf(g))
  <2>1. OnList(u, IF c = fl THEN h[c].next ELSE fl, FreeOf(h) \ {c})
    BY <1>0, <1>1, <1>3
  <2>2. SameLinks(g, u, FreeOf(h) \ {c})
    <3>1. SUFFICES ASSUME NEW a \in FreeOf(h) \ {c}
                   PROVE  g[a].next = u[a].next /\ g[a].prev = u[a].prev
      BY DEF SameLinks
    <3>2. a \in DOMAIN h /\ a \in DOMAIN u /\ a # c /\ a # ml
      BY <1>0, <1>3, <1>5 DEF SameChunks
    <3> QED
      BY <1>7, <1>10, <3>2
  <2>3. OnList(g, IF c = fl THEN h[c].next ELSE fl, FreeOf(h) \ {c})
    BY <2>1, <2>2, ListFrame
  <2> QED
    BY <1>4, <1>14, <2>3
<1>16. OnList(g, c, UsedOf(g))
  <2>1. \A a \in UsedOf(h) : /\ g[a].next = h[a].next
                             /\ g[a].prev = IF a = ml THEN c ELSE h[a].prev
    <3>1. SUFFICES ASSUME NEW a \in UsedOf(h)
                   PROVE  g[a].next = h[a].next /\ g[a].prev = IF a = ml THEN c ELSE h[a].prev
      OBVIOUS
    <3>2. a \in DOMAIN h /\ a \in DOMAIN u /\ a # c /\ a # h[c].next /\ a # h[c].prev
      BY <1>0, <1>2, <1>3 DEF SameChunks
    <3>3. u[a].next = h[a].next /\ u[a].prev = h[a].prev
      BY <1>3, <3>2
    <3> QED
      BY <1>7, <1>10, <3>2, <3>3
  <2>2. g[c].next = ml /\ g[c].prev = NULL /\ UsedOf(h) \subseteq Nat /\ c \in Nat
    BY <1>0, <1>7, <1>10
  <2>3. OnList(g, c, UsedOf(h) \cup {c})
    BY <1>14, <2>1, <2>2, ListPush
  <2> QED
    BY <1>14, <2>3
<1>17. Spaced(g)
  <2>1. SUFFICES ASSUME NEW a \in FreeOf(g), End(g, a) \in DOMAIN g PROVE ~ g[End(g, a)].free
    BY DEF Spaced
  <2>2. a \in FreeOf(h) \ {c} /\ a \in DOMAIN h
    BY <1>0, <1>14
  <2>3. End(g, a) = End(h, a) /\ End(h, a) \in DOMAIN h
    BY <1>10, <1>12, <2>1, <2>2
  <2>4. ~ h[End(h, a)].free
    BY <2>2, <2>3 DEF SpacedBut
  <2> QED
    BY <1>8, <1>10, <2>3, <2>4
<1> QED
  BY <1>12, <1>13, <1>14, <1>15, <1>16, <1>17

-----------------------------------------------------------------------------
(* Mem_Free and coalesce().                                                 *)

\* The chunks in use are those of h without c.
LessUsed(g, h, c) ==
  UsedOf(g) = UsedOf(h) \ {c} /\ \A a \in DOMAIN h : g[a].size = h[a].size

\* The chunks in use are those of h.
SameUse(g, h) ==
  UsedOf(g) = UsedOf(h) /\ \A a \in UsedOf(h) : g[a].size = h[a].size

\* A used chunk is taken off its list and marked.
LEMMA FreeStep ==
  ASSUME NEW h, NEW T \in Nat, Tiles(h, T), NEW ml, OnList(h, ml, UsedOf(h)),
         NEW c \in UsedOf(h), NEW g, g = MarkFree(Unlinked(h, c), c), NEW fl
  PROVE  /\ Tiles(g, T)
         /\ OnList(g, IF ml = c THEN h[c].next ELSE ml, UsedOf(g))
         /\ LessUsed(g, h, c)
         /\ Rebuilt(g, fl, T, 0, NULL, FALSE)
<1>0. c \in DOMAIN h /\ Headers(h) /\ UsedOf(h) \subseteq DOMAIN h
      /\ DOMAIN h \subseteq Nat /\ NULL \notin DOMAIN h
  BY DEF UsedOf, Tiles, Headers, NULL
<1>1. ASSUME NEW f, \A a \in UsedOf(h) :
                /\ f[a].next = IF a = h[c].prev THEN h[c].next ELSE h[a].next
                /\ f[a].prev = IF a = h[c].next THEN h[c].prev ELSE h[a].prev
      PROVE  /\ OnList(f, IF c = ml THEN h[c].next ELSE ml, UsedOf(h) \ {c})
             /\ h[c].prev \in UsedOf(h) \cup {NULL} /\ h[c].next \in UsedOf(h) \cup {NULL}
  <2>1. UsedOf(h) \subseteq Nat
    BY <1>0
  <2> QED
    BY <1>1, <2>1, ListUnlink
<1>2. h[c].prev \in UsedOf(h) \cup {NULL} /\ h[c].next \in UsedOf(h) \cup {NULL}
  <2>1. PICK f : f = [a \in UsedOf(h) |->
                  [next |-> IF a = h[c].prev THEN h[c].next ELSE h[a].next,
                   prev |-> IF a = h[c].next THEN h[c].prev ELSE h[a].prev]]
    OBVIOUS
  <2>2. \A a \in UsedOf(h) :
                /\ f[a].next = IF a = h[c].prev THEN h[c].next ELSE h[a].next
                /\ f[a].prev = IF a = h[c].next THEN h[c].prev ELSE h[a].prev
    BY <2>1
  <2> QED
    BY <1>1, <2>2
<1>3. PICK u : u = Unlinked(h, c)
  OBVIOUS
<1>4. /\ SameChunks(u, h)
      /\ \A x \in DOMAIN h :
           /\ u[x].next = IF x = h[c].prev THEN h[c].next ELSE h[x].next
           /\ u[x].prev = IF x = h[c].next THEN h[c].prev ELSE h[x].prev
  <2>1. h[c].next \in DOMAIN h \cup {NULL} /\ h[c].prev \in DOMAIN h \cup {NULL}
    BY <1>0, <1>2
  <2>2. /\ SameChunks(Unlinked(h, c), h)
        /\ \A x \in DOMAIN h :
             /\ Unlinked(h, c)[x].next = IF x = h[c].prev THEN h[c].next ELSE h[x].next
             /\ Unlinked(h, c)[x].prev = IF x = h[c].next THEN h[c].prev ELSE h[x].prev
    BY <1>0, <2>1, UnlinkedIs
  <2> QED
    BY <1>3, <2>2
<1>5. g = MarkFree(u, c)
  BY <1>3
<1>6. /\ Headers(u) /\ DOMAIN u = DOMAIN h
      /\ \A x \in DOMAIN h : u[x].size = h[x].size /\ u[x].free = h[x].free
  BY <1>4 DEF SameChunks
<1>7. /\ Headers(g) /\ DOMAIN g = DOMAIN h /\ g[c].free
      /\ \A x \in DOMAIN h : /\ g[x].size = u[x].size
                             /\ g[x].next = u[x].next /\ g[x].prev = u[x].prev
                             /\ x # c => g[x].free = u[x].free
  <2>1. c \in DOMAIN u
    BY <1>0, <1>6
  <2>2. g = MarkFree(u, c)
    BY <1>5
  <2>3. Remarked(g, u, c) /\ g[c].free
    BY <1>6, <2>1, <2>2, MarkFreeIs
  <2> QED
    BY <1>6, <2>3 DEF Remarked
<1>8. Headers(g)
  BY <1>7
<1>9. \A x \in DOMAIN h : g[x].size = h[x].size /\ End(g, x) = End(h, x)
  BY <1>6, <1>7 DEF End
<1>10. Tiles(g, T)
  BY <1>7, <1>8, <1>9 DEF Tiles
<1>11. UsedOf(g) = UsedOf(h) \ {c} /\ c \in FreeOf(g)
  BY <1>0, <1>6, <1>7 DEF FreeOf, UsedOf
<1>12. OnList(g, IF ml = c THEN h[c].next ELSE ml, UsedOf(g))
  <2>1. \A a \in UsedOf(h) :
                /\ g[a].next = IF a = h[c].prev THEN h[c].next ELSE h[a].next
                /\ g[a].prev = IF a = h[c].next THEN h[c].prev ELSE h[a].prev
    BY <1>0, <1>4, <1>7
  <2> QED
    BY <1>1, <1>11, <2>1
<1>13. Rebuilt(g, fl, T, 0, NULL, FALSE)
  <2>1. Passed(g, 0) = {}
    BY <1>0, <1>7 DEF Passed, FreeOf
  <2>2. 0 \in DOMAIN g \cup {T}
    BY <1>10 DEF Tiles
  <2> QED
    BY <1>11, <2>1, <2>2, PassingNone DEF Rebuilt
<1> QED
  BY <1>9, <1>10, <1>11, <1>12, <1>13 DEF LessUsed

\* What lies before the end of chunk x is chunk x and what lies before it.
LEMMA Behind ==
  ASSUME NEW h, NEW T \in Nat, Tiles(h, T), NEW x \in DOMAIN h
  PROVE  /\ x \in Nat /\ x < End(h, x) /\ End(h, x) \in Nat /\ x < T
         /\ End(h, x) \in DOMAIN h \cup {T}
         /\ \A a \in DOMAIN h : a < x => End(h, a) <= x /\ a < End(h, x)
         /\ \A a \in DOMAIN h : a < End(h, x) => a < x \/ a = x
         /\ \A a \in DOMAIN h : a \in Nat /\ End(h, a) \in Nat /\ a < End(h, a)
<1>1. \A a \in DOMAIN h : /\ a \in Nat /\ End(h, a) \in Nat /\ End(h, a) > a + HDR
                          /\ \A b \in DOMAIN h : a < b => End(h, a) <= b
  BY TilesFacts
<1>2. \A a \in DOMAIN h : a < End(h, a)
  BY <1>1, Units
<1>3. x < T /\ End(h, x) \in DOMAIN h \cup {T}
  BY TilesFacts
<1>4. \A a \in DOMAIN h : a < End(h, x) => a < x \/ a = x
  BY <1>1
<1>5. \A a \in DOMAIN h : a < x => End(h, a) <= x /\ a < End(h, x)
  BY <1>1, <1>2
<1> QED
  BY <1>1, <1>2, <1>3, <1>4, <1>5

\* A used chunk is passed.
LEMMA PassUsed ==
  ASSUME NEW h, NEW T \in Nat, Tiles(h, T), NEW fl, NEW x \in DOMAIN h, NEW p,
         NEW near \in BOOLEAN, NEW now \in BOOLEAN,
         Rebuilt(h, fl, T, x, p, near), ~ h[x].free, ~ now
  PROVE  Rebuilt(h, fl, T, End(h, x), p, now)
<1>1. Passed(h, End(h, x)) = Passed(h, x)
  <2>1. \A a \in FreeOf(h) : a \in DOMAIN h /\ a # x
    BY DEF FreeOf
  <2> QED
    BY <2>1, Behind DEF Passed
<1>2. \A a \in Passed(h, x) : /\ a \in DOMAIN h /\ a < x
                              /\ End(h, a) = x => near /\ a = p
                              /\ End(h, a) < x => ~ h[End(h, a)].free
  BY DEF Passed, FreeOf, Rebuilt
<1>3. ASSUME NEW a \in Passed(h, x)
      PROVE  /\ End(h, a) # End(h, x)
             /\ End(h, a) < End(h, x) => ~ h[End(h, a)].free
  <2>1. End(h, a) <= x /\ End(h, a) \in Nat /\ x < End(h, x) /\ x \in Nat
    BY <1>2, Behind
  <2>2. End(h, a) # End(h, x)
    <3>1. End(h, x) \in Nat
      BY Behind
    <3> QED
      BY <2>1, <3>1
  <2>3. End(h, a) = x \/ End(h, a) < x
    BY <2>1
  <2> QED
    BY <1>2, <2>2, <2>3
<1>4. End(h, x) \in DOMAIN h \cup {T}
  BY Behind
<1>5. FreeOf(h) # {} /\ Passing(h, fl, Passed(h, End(h, x)), p)
  BY <1>1 DEF Rebuilt
<1> QED
  BY <1>1, <1>3, <1>4, <1>5 DEF Rebuilt

\* A free chunk whose links alone have been changed is passed.
LEMMA PassFree ==
  ASSUME NEW h, NEW T \in Nat, Tiles(h, T), NEW fl, NEW x \in DOMAIN h, NEW p,
         NEW near \in BOOLEAN, NEW now \in BOOLEAN,
         Rebuilt(h, fl, T, x, p, near), h[x].free, ~ near, now,
         NEW g, SameChunks(g, h), NEW head, Passing(g, head, Passed(h, x) \cup {x}, x)
  PROVE  Rebuilt(g, head, T, End(h, x), x, now)
<1>1. Passed(h, End(h, x)) = Passed(h, x) \cup {x}
  <2>1. \A a \in FreeOf(h) : a \in DOMAIN h
    BY DEF FreeOf
  <2>2. x \in FreeOf(h)
    BY DEF FreeOf
  <2> QED
    BY <2>1, <2>2, Behind DEF Passed
<1>2. /\ Tiles(g, T) /\ FreeOf(g) = FreeOf(h) /\ UsedOf(g) = UsedOf(h)
      /\ \A a \in DOMAIN h : End(g, a) = End(h, a)
  BY SameChunksKeep
<1>3. Passed(g, End(h, x)) = Passed(h, x) \cup {x}
  BY <1>1, <1>2 DEF Passed
<1>4. \A a \in Passed(h, x) : /\ a \in DOMAIN h /\ a < x
                              /\ End(h, a) # x
                              /\ End(h, a) < x => ~ h[End(h, a)].free
  BY DEF Passed, FreeOf, Rebuilt
<1>5. ASSUME NEW a \in Passed(h, x)
      PROVE  End(h, a) < x /\ End(h, a) # End(h, x) /\ ~ h[End(h, a)].free
             /\ End(h, a) \in DOMAIN h
  <2>1. End(h, a) <= x /\ End(h, a) \in Nat /\ x < End(h, x) /\ x \in Nat /\ End(h, x) \in Nat
    BY <1>4, Behind
  <2>2. End(h, a) < x
    BY <1>4, <2>1
  <2>3. End(h, a) \in DOMAIN h
    <3>1. End(h, a) \in DOMAIN h \cup {T} /\ x < T
      BY <1>4, Behind DEF Tiles
    <3> QED
      BY <2>1, <2>2, <3>1
  <2> QED
    BY <1>4, <2>1, <2>2, <2>3
<1>6. End(h, x) \in DOMAIN g \cup {T}
  BY Behind DEF SameChunks
<1>7. FreeOf(g) # {}
  BY <1>2 DEF Rebuilt
<1>8. \A a \in Passed(g, End(h, x)) :
        /\ End(g, a) = End(h, x) => now /\ a = x
        /\ End(g, a) < End(h, x) => ~ g[End(g, a)].free
  <2>1. SUFFICES ASSUME NEW a \in Passed(h, x) \cup {x}
                 PROVE  /\ End(g, a) = End(h, x) => a = x
                        /\ End(g, a) < End(h, x) => ~ g[End(g, a)].free
    BY <1>3
  <2>2. CASE a = x
    <3>1. End(g, a) = End(h, x) /\ End(h, x) \in Nat
      BY <1>2, <2>2, Behind
    <3> QED
      BY <2>2, <3>1
  <2>3. CASE a \in Passed(h, x)
    <3>1. End(g, a) = End(h, a)
      BY <1>2, <1>4, <2>3
    <3>2. ~ g[End(h, a)].free
      BY <1>5, <2>3 DEF SameChunks
    <3> QED
      BY <1>5, <2>3, <3>1, <3>2
  <2> QED
    BY <2>1, <2>2, <2>3
<1>9. x \in Passed(g, End(h, x)) /\ End(g, x) = End(h, x)
  BY <1>2, <1>3
<1> QED
  BY <1>3, <1>6, <1>7, <1>8, <1>9 DEF Rebuilt

\* The headers after the first free chunk has been passed.
FirstOf(h, x) == [h EXCEPT ![x].prev = NULL, ![x].next = NULL]

\* Passing the first free chunk.
LEMMA PassFirst ==
  ASSUME NEW h, NEW T \in Nat, Tiles(h, T), NEW fl, NEW x \in DOMAIN h,
         NEW near \in BOOLEAN, NEW now \in BOOLEAN, NEW ml,
         Rebuilt(h, fl, T, x, NULL, near), OnList(h, ml, UsedOf(h)), h[x].free, now
  PROVE  /\ SameChunks(FirstOf(h, x), h)
         /\ OnList(FirstOf(h, x), ml, UsedOf(h))
         /\ Rebuilt(FirstOf(h, x), x, T, End(h, x), x, now)
<1>1. PICK g : g = FirstOf(h, x)
  OBVIOUS
<1>2. \A a \in DOMAIN h : h[a] \in Header
  BY DEF Tiles, Headers
<1>3. /\ DOMAIN g = DOMAIN h /\ g[x].prev = NULL
      /\ g[x] \in Header /\ g[x].size = h[x].size /\ g[x].free = h[x].free
      /\ \A a \in DOMAIN h : a # x => g[a] = h[a]
  <2>1. PICK old : old = h[x]
    OBVIOUS
  <2>2. PICK new : new = [old EXCEPT !.prev = NULL, !.next = NULL]
    OBVIOUS
  <2>3. old \in Header /\ NULL \in Int
    BY <1>2, <2>1 DEF NULL
  <2>4. /\ new \in Header /\ new.prev = NULL
        /\ new.size = old.size /\ new.free = old.free
    BY <2>2, <2>3 DEF Header
  <2>5. g = [h EXCEPT ![x] = new]
    BY <1>1, <2>1, <2>2 DEF FirstOf
  <2>6. DOMAIN g = DOMAIN h /\ g[x] = new /\ \A a \in DOMAIN h : a # x => g[a] = h[a]
    BY <2>5
  <2> QED
    BY <2>1, <2>4, <2>6
<1>4. g \in [DOMAIN h -> Header]
  <2>1. g = [a \in DOMAIN h |-> g[a]]
    BY <1>1 DEF FirstOf
  <2>2. \A a \in DOMAIN h : g[a] \in Header
    BY <1>2, <1>3
  <2> QED
    BY <2>1, <2>2
<1>5. Headers(g)
  BY <1>3, <1>4 DEF Headers, Tiles
<1>6. SameChunks(g, h)
  BY <1>3, <1>5 DEF SameChunks
<1>7. OnList(g, ml, UsedOf(h))
  <2>1. SameLinks(g, h, UsedOf(h))
    BY <1>3 DEF SameLinks, UsedOf
  <2> QED
    BY <2>1, ListFrame
<1>8. Passed(h, x) = {} /\ ~ near
  <2>1. Passed(h, x) \subseteq Nat
    BY Behind DEF Passed, FreeOf
  <2>2. Passing(h, fl, Passed(h, x), NULL) /\ (near => NULL \in Passed(h, x))
    BY DEF Rebuilt
  <2> QED
    BY <2>1, <2>2, PassingLast
<1>9. Passing(g, x, Passed(h, x) \cup {x}, x)
  <2>1. Passing(g, x, {x}, x)
    BY <1>3, PassingFirst
  <2> QED
    BY <1>8, <2>1
<1>10. Rebuilt(g, x, T, End(h, x), x, now)
  BY <1>6, <1>8, <1>9, PassFree
<1> QED
  BY <1>1, <1>6, <1>7, <1>10

\* Passing a free chunk behind a used one.
LEMMA PassNext ==
  ASSUME NEW h, NEW T \in Nat, Tiles(h, T), NEW fl, NEW x \in DOMAIN h, NEW p,
         NEW near \in BOOLEAN, NEW now \in BOOLEAN, NEW ml,
         Rebuilt(h, fl, T, x, p, near), OnList(h, ml, UsedOf(h)),
         h[x].free, p # NULL, ~ near, now,
         NEW g, g = SetPrev(SetNext(h, p, x), x, p)
  PROVE  /\ SameChunks(g, h)
         /\ OnList(g, ml, UsedOf(h))
         /\ Rebuilt(g, fl, T, End(h, x), x, now)
<1>1. Passing(h, fl, Passed(h, x), p) /\ Passed(h, x) \subseteq Nat /\ x \in Nat
      /\ x \notin Passed(h, x) /\ Passed(h, x) \subseteq FreeOf(h)
  BY Behind DEF Rebuilt, Passed, FreeOf
<1>2. p \in Passed(h, x) /\ p \in DOMAIN h /\ p # x /\ p \in Int
  <2>1. p \in Passed(h, x)
    BY <1>1, PassingLast
  <2> QED
    BY <1>1, <2>1 DEF FreeOf
<1>3. Headers(h)
  BY DEF Tiles
<1>4. PICK f : f = SetNext(h, p, x)
  OBVIOUS
<1>5. /\ SameChunks(f, h)
      /\ \A a \in DOMAIN h : f[a].next = (IF a = p THEN x ELSE h[a].next) /\ f[a].prev = h[a].prev
  <2>1. /\ SameChunks(SetNext(h, p, x), h)
        /\ \A a \in DOMAIN h :
             /\ SetNext(h, p, x)[a].next = IF a = p THEN x ELSE h[a].next
             /\ SetNext(h, p, x)[a].prev = h[a].prev
    <3>1. p \in DOMAIN h \cup {NULL} /\ x \in Int
      BY <1>1, <1>2
    <3> QED
      BY <1>3, <3>1, SetNextIs
  <2> QED
    BY <1>4, <2>1
<1>6. /\ SameChunks(g, f)
      /\ \A a \in DOMAIN f : g[a].prev = (IF a = x THEN p ELSE f[a].prev) /\ g[a].next = f[a].next
  <2>1. /\ SameChunks(SetPrev(f, x, p), f)
        /\ \A a \in DOMAIN f :
             /\ SetPrev(f, x, p)[a].prev = IF a = x THEN p ELSE f[a].prev
             /\ SetPrev(f, x, p)[a].next = f[a].next
    <3>1. x \in DOMAIN f \cup {NULL} /\ Headers(f)
      BY <1>5 DEF SameChunks
    <3>2. p \in Int
      BY <1>2
    <3>3. SameChunks(SetPrev(f, x, p), f)
      BY <3>1, <3>2, SetPrevIs
    <3>4. \A a \in DOMAIN f : SetPrev(f, x, p)[a].prev = IF a = x THEN p ELSE f[a].prev
      BY <3>1, <3>2, SetPrevIs
    <3>5. \A a \in DOMAIN f : SetPrev(f, x, p)[a].next = f[a].next
      BY <3>1, <3>2, SetPrevIs
    <3> QED
      BY <3>3, <3>4, <3>5
  <2> QED
    BY <1>4, <2>1
<1>7. SameChunks(g, h)
  BY <1>5, <1>6 DEF SameChunks
<1>8. \A a \in DOMAIN h : /\ g[a].next = IF a = p THEN x ELSE h[a].next
                          /\ g[a].prev = IF a = x THEN p ELSE h[a].prev
  BY <1>5, <1>6 DEF SameChunks
<1>9. OnList(g, ml, UsedOf(h))
  <2>1. \A a \in UsedOf(h) : a \in DOMAIN h /\ a # p /\ a # x
    BY <1>1, <1>2 DEF UsedOf, FreeOf
  <2>2. SameLinks(g, h, UsedOf(h))
    BY <1>8, <2>1 DEF SameLinks
  <2> QED
    BY <2>2, ListFrame
<1>10. Passing(g, fl, Passed(h, x) \cup {x}, x)
  <2>1. g[x].prev = p /\ g[p].next = x
    BY <1>2, <1>8
  <2>2. \A a \in Passed(h, x) : g[a].prev = h[a].prev /\ (a # p => g[a].next = h[a].next)
    BY <1>1, <1>8 DEF FreeOf
  <2> QED
    BY <1>1, <2>1, <2>2, PassingAppend
<1>11. Rebuilt(g, fl, T, End(h, x), x, now)
  BY <1>7, <1>10, PassFree
<1> QED
  BY <1>7, <1>9, <1>11

\* The end of coalesce().
LEMMA PassEnd ==
  ASSUME NEW h, NEW T \in Nat, Tiles(h, T), NEW fl, NEW p, NEW near \in BOOLEAN, NEW ml,
         Rebuilt(h, fl, T, T, p, near), OnList(h, ml, UsedOf(h)),
         NEW g, g = SetNext(h, p, NULL)
  PROVE  /\ SameChunks(g, h)
         /\ OnList(g, ml, UsedOf(h)) /\ OnList(g, fl, FreeOf(h))
         /\ Spaced(g)
<1>1. \A a \in DOMAIN h : a \in Nat /\ a < T
  BY TilesFacts
<1>2. Passed(h, T) = FreeOf(h) /\ FreeOf(h) \subseteq Nat
  BY <1>1 DEF Passed, FreeOf
<1>3. Passing(h, fl, FreeOf(h), p) /\ FreeOf(h) # {}
  BY <1>2 DEF Rebuilt
<1>4. p \in FreeOf(h) /\ p # NULL /\ p \in DOMAIN h
  BY <1>2, <1>3, PassingLast DEF FreeOf
<1>5. /\ SameChunks(g, h)
      /\ \A a \in DOMAIN h : g[a].next = (IF a = p THEN NULL ELSE h[a].next) /\ g[a].prev = h[a].prev
  <2>1. /\ SameChunks(SetNext(h, p, NULL), h)
        /\ \A a \in DOMAIN h :
             /\ SetNext(h, p, NULL)[a].next = IF a = p THEN NULL ELSE h[a].next
             /\ SetNext(h, p, NULL)[a].prev = h[a].prev
    <3>1. p \in DOMAIN h \cup {NULL} /\ NULL \in Int /\ Headers(h)
      BY <1>4 DEF NULL, Tiles
    <3> QED
      BY <3>1, SetNextIs
  <2> QED
    BY <2>1
<1>6. OnList(g, ml, UsedOf(h))
  <2>1. \A a \in UsedOf(h) : a \in DOMAIN h /\ a # p
    BY <1>4 DEF UsedOf, FreeOf
  <2>2. SameLinks(g, h, UsedOf(h))
    BY <1>5, <2>1 DEF SameLinks
  <2> QED
    BY <2>2, ListFrame
<1>7. OnList(g, fl, FreeOf(h))
  <2>1. \A a \in FreeOf(h) : g[a].prev = h[a].prev /\ (a # p => g[a].next = h[a].next)
    BY <1>5 DEF FreeOf
  <2>2. g[p].next = NULL
    BY <1>4, <1>5
  <2> QED
    BY <1>2, <1>3, <1>4, <2>1, <2>2, PassingEnd
<1>8. Spaced(g)
  <2>1. SUFFICES ASSUME NEW a \in FreeOf(g), End(g, a) \in DOMAIN g
                 PROVE  ~ g[End(g, a)].free
    BY DEF Spaced
  <2>2. a \in Passed(h, T) /\ End(g, a) = End(h, a) /\ End(h, a) \in DOMAIN h
    <3>1. FreeOf(g) = FreeOf(h) /\ \A b \in DOMAIN h : End(g, b) = End(h, b)
      BY <1>5, SameChunksKeep
    <3>2. DOMAIN g = DOMAIN h
      BY <1>5 DEF SameChunks
    <3>3. a \in FreeOf(h) /\ a \in DOMAIN h
      BY <2>1, <3>1 DEF FreeOf
    <3> QED
      BY <1>2, <2>1, <3>1, <3>2, <3>3
  <2>3. End(h, a) < T
    BY <1>1, <2>2
  <2>4. ~ h[End(h, a)].free
    BY <2>2, <2>3 DEF Rebuilt
  <2> QED
    BY <1>5, <2>2, <2>4 DEF SameChunks
<1> QED
  BY <1>5, <1>6, <1>7, <1>8

\* The headers after the chunk at x has become part of the one at p.
Join(h, x, p) ==
  [a \in DOMAIN h \ {x} |->
     IF a = p THEN [h[a] EXCEPT !.size = @ + h[x].size + HDR] ELSE h[a]]

\* What joining changes.
Joined(g, h, x, p) ==
  /\ Headers(g) /\ DOMAIN g = DOMAIN h \ {x}
  /\ g[p].size = h[p].size + h[x].size + HDR
  /\ \A a \in DOMAIN g : /\ g[a].free = h[a].free
                         /\ g[a].next = h[a].next /\ g[a].prev = h[a].prev
                         /\ a # p => g[a].size = h[a].size

\* The headers that Join gives.
LEMMA JoinIs ==
  ASSUME NEW h, Headers(h), NEW x \in DOMAIN h, NEW p \in DOMAIN h, p # x
  PROVE  Joined(Join(h, x, p), h, x, p)
<1>1. PICK g : g = Join(h, x, p)
  OBVIOUS
<1>2. PICK old : old = h[p]
  OBVIOUS
<1>3. PICK k : k = h[x].size + HDR
  OBVIOUS
<1>4. PICK new : new = [old EXCEPT !.size = @ + h[x].size + HDR]
  OBVIOUS
<1>5. old \in Header /\ h[x].size \in Nat /\ HDR \in Nat
  BY <1>2, HeaderIs, Units DEF Headers
<1>6. /\ new \in Header /\ new.size = old.size + h[x].size + HDR
      /\ new.free = old.free /\ new.next = old.next /\ new.prev = old.prev
  BY <1>4, <1>5 DEF Header
<1>7. g = [a \in DOMAIN h \ {x} |-> IF a = p THEN new ELSE h[a]]
  BY <1>1, <1>2, <1>4 DEF Join
<1>8. DOMAIN g = DOMAIN h \ {x} /\ g[p] = new /\ \A a \in DOMAIN g : a # p => g[a] = h[a]
  BY <1>7
<1>9. \A a \in DOMAIN g : g[a] \in Header
  BY <1>6, <1>8 DEF Headers
<1>10. g \in [DOMAIN g -> Header]
  BY <1>7, <1>9
<1>11. Headers(g)
  BY <1>8, <1>10 DEF Headers
<1>12. \A a \in DOMAIN g : /\ g[a].free = h[a].free
                           /\ g[a].next = h[a].next /\ g[a].prev = h[a].prev
                           /\ a # p => g[a].size = h[a].size
  BY <1>2, <1>6, <1>8
<1>13. Joined(g, h, x, p)
  BY <1>2, <1>6, <1>8, <1>11, <1>12 DEF Joined
<1> QED
  BY <1>1, <1>13

\* A free chunk behind a free one becomes part of it.
LEMMA PassJoin ==
  ASSUME NEW h, NEW T \in Nat, Tiles(h, T), NEW fl, NEW x \in DOMAIN h, NEW p,
         NEW near \in BOOLEAN, NEW now \in BOOLEAN, NEW ml,
         Rebuilt(h, fl, T, x, p, near), OnList(h, ml, UsedOf(h)),
         h[x].free, near, now,
         NEW g, g = Join(h, x, p)
  PROVE  /\ Tiles(g, T) /\ SameUse(g, h)
         /\ OnList(g, ml, UsedOf(g))
         /\ Rebuilt(g, fl, T, End(h, x), p, now)
<1>1. /\ p \in DOMAIN h /\ p < x /\ h[p].free /\ End(h, p) = x /\ p # x
      /\ Passing(h, fl, Passed(h, x), p)
  BY Behind DEF Rebuilt, Passed, FreeOf
<1>2. /\ Headers(g) /\ DOMAIN g = DOMAIN h \ {x}
      /\ g[p].size = h[p].size + h[x].size + HDR
      /\ \A a \in DOMAIN g : /\ g[a].free = h[a].free
                             /\ g[a].next = h[a].next /\ g[a].prev = h[a].prev
                             /\ a # p => g[a].size = h[a].size
  <2>1. Joined(Join(h, x, p), h, x, p)
    BY <1>1, JoinIs DEF Tiles
  <2>2. Joined(g, h, x, p)
    BY <2>1
  <2> QED
    BY <2>2 DEF Joined
<1>3. /\ x \in Nat /\ x < End(h, x) /\ End(h, x) \in Nat /\ x < T
      /\ End(h, x) \in DOMAIN h \cup {T}
      /\ \A a \in DOMAIN h : a < x => End(h, a) <= x /\ a < End(h, x)
      /\ \A a \in DOMAIN h : a < End(h, x) => a < x \/ a = x
      /\ \A a \in DOMAIN h : a \in Nat /\ End(h, a) \in Nat /\ a < End(h, a)
  BY Behind
<1>4. End(g, p) = End(h, x)
  <2>1. p \in Nat /\ h[p].size \in Nat /\ h[x].size \in Nat /\ HDR \in Nat
    BY <1>1, TilesFacts, Units
  <2> QED
    BY <1>1, <1>2, <2>1 DEF End
<1>5. \A a \in DOMAIN g : a # p => End(g, a) = End(h, a)
  BY <1>2 DEF End
<1>6. \A a \in DOMAIN h : a # p => End(h, a) # x
  <2>1. SUFFICES ASSUME NEW a \in DOMAIN h, a # p PROVE End(h, a) # x
    OBVIOUS
  <2>2. End(h, a) <= p \/ x <= a
    BY <1>1, <2>1, TilesApart
  <2> QED
    BY <1>1, <1>3, <2>2
<1>7. \A a \in DOMAIN g : End(g, a) \in DOMAIN g \cup {T}
  <2>1. SUFFICES ASSUME NEW a \in DOMAIN g PROVE End(g, a) \in DOMAIN g \cup {T}
    OBVIOUS
  <2>2. CASE a = p
    BY <1>2, <1>3, <1>4, <2>2
  <2>3. CASE a # p
    <3>1. a \in DOMAIN h /\ End(h, a) # x /\ End(g, a) = End(h, a)
      BY <1>2, <1>5, <1>6, <2>3
    <3>2. End(h, a) \in DOMAIN h \cup {T}
      BY <3>1 DEF Tiles
    <3> QED
      BY <1>2, <3>1, <3>2
  <2> QED
    BY <2>2, <2>3
<1>8. \A a, b \in DOMAIN g : a < b => End(g, a) <= b
  <2>1. SUFFICES ASSUME NEW a \in DOMAIN g, NEW b \in DOMAIN g, a < b PROVE End(g, a) <= b
    OBVIOUS
  <2>2. a \in DOMAIN h /\ b \in DOMAIN h /\ b # x
    BY <1>2
  <2>3. CASE a = p
    <3>1. x <= b
      BY <1>1, <2>1, <2>2, <2>3 DEF Tiles
    <3>2. x < b
      BY <1>3, <2>2, <3>1
    <3>3. End(h, x) <= b
      BY <2>2, <3>2 DEF Tiles
    <3> QED
      BY <1>4, <2>3, <3>3
  <2>4. CASE a # p
    <3>1. End(h, a) <= b
      BY <2>1, <2>2 DEF Tiles
    <3> QED
      BY <1>5, <2>4, <3>1
  <2> QED
    BY <2>3, <2>4
<1>9. Tiles(g, T)
  <2>1. 0 \in DOMAIN g
    <3>1. x # 0
      BY <1>1, <1>3
    <3> QED
      BY <1>2, <3>1 DEF Tiles
  <2>2. \A a \in DOMAIN g : a < T /\ g[a].size >= 1
    <3>1. SUFFICES ASSUME NEW a \in DOMAIN g PROVE a < T /\ g[a].size >= 1
      OBVIOUS
    <3>2. a \in DOMAIN h
      BY <1>2
    <3>3. a < T /\ h[a].size \in Nat /\ h[a].size >= 1 /\ h[x].size \in Nat /\ HDR \in Nat
      BY <3>2, TilesFacts, Units
    <3> QED
      BY <1>2, <3>3
  <2> QED
    BY <1>2, <1>7, <1>8, <2>1, <2>2 DEF Tiles
<1>10. UsedOf(g) = UsedOf(h) /\ x \notin UsedOf(h) /\ p \notin UsedOf(h) /\ UsedOf(h) \subseteq DOMAIN g
  BY <1>1, <1>2 DEF UsedOf
<1>11. \A a \in UsedOf(h) : g[a].size = h[a].size
  BY <1>2, <1>10
<1>12. OnList(g, ml, UsedOf(g))
  <2>1. SameLinks(g, h, UsedOf(h))
    BY <1>2, <1>10 DEF SameLinks
  <2> QED
    BY <1>10, <2>1, ListFrame
<1>13. FreeOf(g) = FreeOf(h) \ {x} /\ FreeOf(g) # {} /\ p \in FreeOf(g)
  BY <1>1, <1>2 DEF FreeOf
<1>14. Passed(g, End(h, x)) = Passed(h, x)
  <2>1. \A a \in FreeOf(g) : a \in DOMAIN h /\ a # x /\ (a < End(h, x) <=> a < x)
    BY <1>2, <1>3 DEF FreeOf
  <2>2. ~ (x < x)
    BY <1>3
  <2>3. \A a \in FreeOf(h) : a < x => a \in FreeOf(g)
    BY <1>13, <2>2
  <2> QED
    BY <1>13, <2>1, <2>3 DEF Passed
<1>15. Passing(g, fl, Passed(h, x), p)
  <2>1. \A a \in Passed(h, x) : a \in DOMAIN g
    BY <1>2, <1>3 DEF Passed, FreeOf
  <2>2. SameLinks(g, h, Passed(h, x))
    BY <1>2, <2>1 DEF SameLinks
  <2> QED
    BY <1>1, <2>2, PassingFrame
<1>16. ASSUME NEW a \in Passed(h, x)
       PROVE  /\ End(g, a) = End(h, x) => now /\ a = p
              /\ End(g, a) < End(h, x) => ~ g[End(g, a)].free
  <2>1. CASE a = p
    BY <1>3, <1>4, <2>1
  <2>2. CASE a # p
    <3>1. a \in DOMAIN h /\ a < x /\ a \in DOMAIN g
      BY <1>2, <1>3 DEF Passed, FreeOf
    <3>2. End(g, a) = End(h, a) /\ End(h, a) <= x /\ End(h, a) # x /\ End(h, a) \in Nat
      BY <1>3, <1>5, <1>6, <2>2, <3>1
    <3>3. End(h, a) < x /\ End(h, a) # End(h, x)
      BY <1>3, <3>2
    <3>4. ~ h[End(h, a)].free
      BY <3>3 DEF Rebuilt
    <3>5. End(h, a) \in DOMAIN g
      <4>1. End(g, a) \in DOMAIN g \/ End(g, a) = T
        BY <1>7, <3>1
      <4> QED
        BY <1>3, <3>2, <3>3, <4>1
    <3> QED
      BY <1>2, <3>2, <3>3, <3>4, <3>5
  <2> QED
    BY <2>1, <2>2
<1>17. p \in Passed(g, End(h, x))
  BY <1>14 DEF Rebuilt
<1>18. End(h, x) \in DOMAIN g \cup {T}
  BY <1>2, <1>3
<1>19. Rebuilt(g, fl, T, End(h, x), p, now)
  BY <1>4, <1>13, <1>14, <1>15, <1>16, <1>17, <1>18 DEF Rebuilt
<1> QED
  BY <1>9, <1>10, <1>11, <1>12, <1>19 DEF SameUse

-----------------------------------------------------------------------------
(* The steps.                                                               *)

\* A list of no chunk.
LEMMA ListNone ==
  ASSUME NEW h
  PROVE  OnList(h, NULL, {})
<1>1. PICK s : s = [i \in 1 .. 0 |-> 0]
  OBVIOUS
<1>2. 1 .. 0 = {}
  OBVIOUS
<1>3. Linked(h, NULL, {}, 0, s)
  BY <1>1, <1>2 DEF Linked, Orders
<1> QED
  BY <1>3 DEF OnList

\* The loops of the code read the chunks of a list in order.
LEMMA ListChain ==
  ASSUME totalSize \in Nat, NEW head, NEW S, OnList(hdr, head, S), S \subseteq DOMAIN hdr,
         \A a \in DOMAIN hdr : a \in Nat /\ a < totalSize
  PROVE  \E n, s : Linked(hdr, head, S, n, s) /\ Chain(hdr, head) = s
<1>1. PICK n, s : Linked(hdr, head, S, n, s)
  BY DEF OnList
<1>2. S \subseteq 0 .. totalSize - 1 /\ NULL \notin DOMAIN hdr
  BY DEF NULL
<1>3. Chain(hdr, head) = s
  BY <1>1, <1>2, ChainIs
<1> QED
  BY <1>1, <1>3

\* Between calls the free list is the free chunks.
LEMMA FreeListIs ==
  ASSUME MemInv, mpc = "idle", freeList # MAP_FAILED
  PROVE  /\ Headers(hdr) /\ OnList(hdr, freeList, FreeOf(hdr))
         /\ \A a \in DOMAIN hdr : a \in Nat /\ a < totalSize
<1>1. CASE totalSize = 0
  <2>1. Headers(hdr) /\ DOMAIN hdr = {} /\ freeList = NULL
    BY <1>1 DEF MemInv
  <2>2. FreeOf(hdr) = {}
    BY <2>1 DEF FreeOf
  <2> QED
    BY <2>1, <2>2, ListNone
<1>2. CASE totalSize > 0
  <2>1. Tiles(hdr, totalSize) /\ OnList(hdr, freeList, FreeOf(hdr)) /\ totalSize \in Nat
    BY <1>2 DEF MemInv
  <2>2. \A a \in DOMAIN hdr : a \in Nat /\ a < totalSize
    BY <2>1, TilesFacts
  <2> QED
    BY <2>1, <2>2 DEF Tiles
<1>3. totalSize = 0 \/ totalSize > 0
  BY DEF MemInv
<1> QED
  BY <1>1, <1>2, <1>3

\* A search that finds a chunk finds a free one that is large enough.
LEMMA FoundIs ==
  ASSUME MemInv, mpc = "idle", NEW policy \in Fitting, ~ BadHead(policy), NEW r \in Int,
         Found(policy, r) # NULL
  PROVE  Found(policy, r) \in FreeOf(hdr) /\ hdr[Found(policy, r)].size >= r
<1>1. freeList # MAP_FAILED /\ (policy # "FIRSTFIT" => freeList # NULL)
  BY DEF BadHead
<1>2. /\ Headers(hdr) /\ OnList(hdr, freeList, FreeOf(hdr)) /\ totalSize \in Nat
      /\ \A a \in DOMAIN hdr : a \in Nat /\ a < totalSize
  BY <1>1, FreeListIs DEF MemInv
<1>3. PICK n, s : Linked(hdr, freeList, FreeOf(hdr), n, s) /\ FreeChain = s
  BY <1>2, ListChain DEF FreeChain, FreeOf
<1>4. Found(policy, r) \in Able(r)
  <2>1. CASE policy = "BESTFIT"
    <3>1. 1 \in {1, -1} /\ freeList # NULL
      BY <1>1, <2>1
    <3>2. Found(policy, r) = Search(r, 1)
      BY <2>1 DEF Found, bestfit
    <3>3. Able(r) # {} => Search(r, 1) \in Able(r)
      BY <1>2, <1>3, <3>1, SearchIs
    <3>4. Able(r) = {} => Search(r, 1) = NULL
      BY <1>2, <1>3, <3>1, SearchIs
    <3> QED
      BY <3>2, <3>3, <3>4
  <2>2. CASE policy = "WORSTFIT"
    <3>1. -1 \in {1, -1} /\ freeList # NULL
      BY <1>1, <2>2
    <3>2. Found(policy, r) = Search(r, -1)
      BY <2>2 DEF Found, worstfit
    <3>3. Able(r) # {} => Search(r, -1) \in Able(r)
      BY <1>2, <1>3, <3>1, SearchIs
    <3>4. Able(r) = {} => Search(r, -1) = NULL
      BY <1>2, <1>3, <3>1, SearchIs
    <3> QED
      BY <3>2, <3>3, <3>4
  <2>3. CASE policy = "FIRSTFIT"
    <3>1. Found(policy, r) = firstfit(r)
      BY <2>3 DEF Found
    <3>2. IF Able(r) = {} THEN firstfit(r) = NULL ELSE firstfit(r) \in Able(r)
      BY <1>2, <1>3, FirstFitIs
    <3> QED
      BY <3>1, <3>2
  <2> QED
    BY <2>1, <2>2, <2>3 DEF Fitting
<1> QED
  BY <1>4 DEF Able, FreeOf, Chunks

\* At the start there is no region.
LEMMA InitMem == MemInit => MemInv
<1>1. SUFFICES ASSUME MemInit PROVE MemInv
  OBVIOUS
<1>2. DOMAIN hdr = {} /\ hdr \in [{} -> Header]
  BY <1>1 DEF MemInit
<1>3. Headers(hdr)
  BY <1>2 DEF Headers
<1>4. /\ totalSize = 0 /\ here = 0 /\ currSize = 0 /\ prev = NULL /\ freeList = NULL
      /\ memList = NULL /\ mpc = "idle" /\ immediate = FALSE /\ crashed = FALSE
  BY <1>1 DEF MemInit
<1>5. /\ totalSize \in Nat /\ here \in Nat /\ currSize \in Nat /\ ~ (totalSize > 0)
      /\ prev \in Int /\ freeList \in Int /\ memList \in Int
  BY <1>4 DEF NULL
<1>6. /\ mpc # "coalesce" /\ immediate \in BOOLEAN /\ mpc \in {"idle", "coalesce"}
      /\ crashed \in BOOLEAN
  BY <1>4, Zenon
<1> QED
  BY <1>2, <1>3, <1>4, <1>5, <1>6, Zenon DEF MemInv

\* There is a region now, and none of it is in use.
Laid == totalSize = 0 /\ totalSize' > 0 /\ UsedOf(hdr') = {} /\ UsedOf(hdr) = {}

\* Mem_Init makes one free chunk of the region.
LEMMA InitKeeps ==
  ASSUME MemInv, ~ crashed, NEW s \in RegionSizes, Mem_Init(s)
  PROVE  MemInv' /\ (UNCHANGED << hdr, totalSize >> \/ Laid)
<1>1. PICK T : T = RoundUp(s, PAGE)
  OBVIOUS
<1>2. T \in Nat /\ T >= PAGE /\ PAGE > HDR /\ HDR \in Nat /\ PAGE \in Nat /\ T > 0
  <2>1. s \in Nat \ {0} /\ PAGE \in Nat \ {0} /\ HDR < PAGE /\ HDR \in Nat
    BY Units
  <2>2. T \in Nat /\ T >= PAGE
    BY <1>1, <2>1, RoundUpIs
  <2> QED
    BY <2>1, <2>2
<1>3. CASE freeList' = MAP_FAILED /\ UNCHANGED << hdr, totalSize >>
  <2>1. totalSize = 0 /\ UNCHANGED << hdr, totalSize, memList, mpc, crashed >> /\ UNCHANGED loop
    BY <1>3 DEF Mem_Init
  <2> QED
    BY <1>3, <2>1 DEF MemInv, loop, MAP_FAILED
<1>4. CASE /\ totalSize' = T /\ freeList' = 0
           /\ hdr' = [a \in {0} |-> [size |-> T - HDR, free |-> TRUE,
                                     next |-> NULL, prev |-> NULL]]
  <2>1. /\ totalSize = 0 /\ mpc = "idle" /\ UNCHANGED << memList, mpc, crashed >>
        /\ UNCHANGED << here, prev, currSize, immediate >>
    BY DEF Mem_Init, loop
  <2>2. PICK h : h = hdr'
    OBVIOUS
  <2>3. PICK k : k = T - HDR
    OBVIOUS
  <2>4. k \in Nat /\ k >= 1 /\ HDR + k = T
    BY <1>2, <2>3
  <2>5. h = [a \in {0} |-> [size |-> k, free |-> TRUE, next |-> NULL, prev |-> NULL]]
    BY <1>4, <2>2, <2>3
  <2>6. /\ DOMAIN h = {0} /\ h[0] \in Header /\ h[0].size = k /\ h[0].free
        /\ h[0].next = NULL /\ h[0].prev = NULL
    BY <2>4, <2>5 DEF Header, NULL
  <2>7. Headers(h)
    <3>1. h \in [{0} -> Header]
      BY <2>5, <2>6
    <3> QED
      BY <2>6, <3>1 DEF Headers
  <2>8. FreeOf(h) = {0} /\ UsedOf(h) = {} /\ End(h, 0) = T
    BY <1>2, <2>4, <2>6 DEF FreeOf, UsedOf, End
  <2>9. Tiles(h, T)
    BY <1>2, <2>4, <2>6, <2>7, <2>8 DEF Tiles
  <2>10. OnList(h, 0, FreeOf(h))
    <3>1. PICK q : q = [i \in 1 .. 1 |-> 0]
      OBVIOUS
    <3>2. 1 .. 1 = {1} /\ q[1] = 0
      BY <3>1
    <3>3. Orders({0}, 1, q)
      BY <3>1, <3>2 DEF Orders
    <3>4. Linked(h, 0, {0}, 1, q)
      BY <2>6, <3>2, <3>3 DEF Linked, NextIn, PrevIn
    <3> QED
      BY <2>8, <3>4 DEF OnList
  <2>11. Spaced(h)
    BY <1>2, <2>6, <2>8 DEF Spaced
  <2>12. memList = NULL /\ OnList(h, NULL, UsedOf(h))
    BY <2>1, <2>8, ListNone DEF MemInv
  <2>13. crashed' = FALSE
    BY <2>1
  <2>14. /\ here \in Nat /\ currSize \in Nat /\ prev \in Int /\ memList \in Int
         /\ immediate \in BOOLEAN /\ crashed' \in BOOLEAN
    BY <2>13 DEF MemInv
  <2>15. T # 0 /\ 0 \in Int /\ hdr' = h /\ OnList(h, memList, UsedOf(h))
    BY <1>2, <2>2, <2>12
  <2>16. MemInv'
    BY <1>2, <1>4, <2>1, <2>9, <2>10, <2>11, <2>13, <2>14, <2>15 DEF MemInv
  <2>17. Laid
    <3>1. UsedOf(hdr) = {}
      BY <2>1 DEF MemInv, UsedOf
    <3> QED
      BY <1>2, <1>4, <2>1, <2>8, <2>15, <3>1 DEF Laid
  <2> QED
    BY <2>16, <2>17
<1> QED
  BY <1>1, <1>3, <1>4 DEF Mem_Init

\* What Mem_Alloc gives out.
Given(c, r) ==
  /\ c \in FreeOf(hdr) /\ totalSize > 0
  /\ c \in UsedOf(hdr') /\ c + HDR + r <= End(hdr', c) /\ End(hdr', c) <= End(hdr, c)
  /\ UsedOf(hdr') = UsedOf(hdr) \cup {c} /\ c \notin UsedOf(hdr)
  /\ \A a \in UsedOf(hdr) : hdr'[a].size = hdr[a].size
  /\ Tiles(hdr', totalSize)

\* The chunk that a search has found changes its list.
LEMMA TakeKeeps ==
  ASSUME MemInv, mpc = "idle", NEW c, c \in FreeOf(hdr), NEW r \in Nat, r >= 1,
         hdr[c].size >= r, Take(c, r), UNCHANGED << totalSize, mpc, crashed, loop >>, ~ crashed
  PROVE  MemInv' /\ Given(c, r)
<1>1. /\ totalSize \in Nat /\ totalSize > 0 /\ Tiles(hdr, totalSize)
      /\ OnList(hdr, freeList, FreeOf(hdr)) /\ OnList(hdr, memList, UsedOf(hdr)) /\ Spaced(hdr)
      /\ c \in DOMAIN hdr /\ hdr[c].size \in Nat /\ c \in Nat
  <2>1. c \in DOMAIN hdr /\ totalSize \in Nat /\ totalSize > 0
    BY DEF MemInv, FreeOf
  <2>2. Tiles(hdr, totalSize)
    BY <2>1 DEF MemInv
  <2> QED
    BY <2>1, <2>2, TilesFacts DEF MemInv
<1>2. ASSUME NEW h, NEW head, Tiles(h, totalSize), OnList(h, head, FreeOf(h)),
             OnList(h, memList, UsedOf(h)), c \in FreeOf(h), SpacedBut(h, c),
             UsedOf(h) = UsedOf(hdr), \A a \in UsedOf(hdr) : h[a].size = hdr[a].size,
             h[c].size >= r, h[c].size <= hdr[c].size,
             freeList' = IF c = head THEN Unlinked(h, c)[c].next ELSE head,
             hdr' = MarkUsed(Pushed(Unlinked(h, c), c, memList), c), memList' = c
      PROVE  MemInv' /\ Given(c, r)
  <2>1. PICK u : u = Unlinked(h, c)
    OBVIOUS
  <2>2. PICK g : g = MarkUsed(Pushed(u, c, memList), c)
    OBVIOUS
  <2>3. /\ Tiles(g, totalSize) /\ Spaced(g)
        /\ OnList(g, IF c = head THEN u[c].next ELSE head, FreeOf(g))
        /\ OnList(g, c, UsedOf(g))
        /\ UsedOf(g) = UsedOf(h) \cup {c} /\ c \notin UsedOf(h)
        /\ \A a \in DOMAIN h : g[a].size = h[a].size
    BY <1>1, <1>2, <2>1, <2>2, MoveStep
  <2>4. hdr' = g /\ freeList' = IF c = head THEN u[c].next ELSE head
    BY <1>2, <2>1, <2>2
  <2>5. OnList(g, freeList', FreeOf(g))
    BY <2>3, <2>4
  <2>6. freeList' \in Int /\ c \in Int
    <3>1. freeList' \in FreeOf(g) \cup {NULL}
      BY <2>5, ListHead
    <3>2. FreeOf(g) \subseteq Nat
      BY <2>3 DEF FreeOf, Tiles, Headers
    <3> QED
      BY <1>1, <3>1, <3>2 DEF NULL
  <2>7. MemInv'
    BY <1>1, <1>2, <2>3, <2>4, <2>5, <2>6 DEF MemInv, loop
  <2>8. c \in DOMAIN h /\ UsedOf(h) \subseteq DOMAIN h
    BY <1>2 DEF FreeOf, UsedOf
  <2>9. \A a \in UsedOf(hdr) : g[a].size = hdr[a].size
    BY <1>2, <2>3, <2>8
  <2>10. c + HDR + r <= End(g, c) /\ End(g, c) <= End(hdr, c)
    <3>1. h[c].size \in Nat /\ HDR \in Nat
      BY <1>1, <1>2, <2>8, TilesFacts, Units
    <3> QED
      BY <1>1, <1>2, <2>3, <2>8, <3>1 DEF End
  <2> QED
    BY <1>1, <1>2, <2>3, <2>4, <2>7, <2>9, <2>10 DEF Given
<1>3. CASE Splits(c, r)
  <2>1. PICK rest : rest = c + r + HDR
    OBVIOUS
  <2>2. PICK f : f = Pushed(Cut(hdr, c, r), rest, freeList)
    OBVIOUS
  <2>3. hdr[c].size - r - HDR > 0
    BY <1>3 DEF Splits
  <2>4. /\ Tiles(f, totalSize) /\ SpacedBut(f, c)
        /\ OnList(f, rest, FreeOf(f)) /\ OnList(f, memList, UsedOf(f))
        /\ c \in FreeOf(f) /\ f[c].size = r
        /\ UsedOf(f) = UsedOf(hdr) /\ \A a \in UsedOf(hdr) : f[a].size = hdr[a].size
    BY <1>1, <2>1, <2>2, <2>3, SplitStep
  <2>5. /\ freeList' = IF c = rest THEN Unlinked(f, c)[c].next ELSE rest
        /\ hdr' = MarkUsed(Pushed(Unlinked(f, c), c, memList), c) /\ memList' = c
    BY <1>3, <2>1, <2>2, Zenon DEF Take
  <2>6. f[c].size >= r /\ f[c].size <= hdr[c].size
    BY <2>4
  <2> QED
    BY <1>2, <2>4, <2>5, <2>6
<1>4. CASE ~ Splits(c, r)
  <2>1. /\ freeList' = IF c = freeList THEN Unlinked(hdr, c)[c].next ELSE freeList
        /\ hdr' = MarkUsed(Pushed(Unlinked(hdr, c), c, memList), c) /\ memList' = c
    BY <1>4, Zenon DEF Take
  <2>2. SpacedBut(hdr, c)
    BY <1>1 DEF Spaced, SpacedBut
  <2>3. hdr[c].size <= hdr[c].size
    BY <1>1
  <2> QED
    BY <1>1, <1>2, <2>1, <2>2, <2>3
<1> QED
  BY <1>3, <1>4

\* Mem_Alloc.
LEMMA AllocKeeps ==
  ASSUME MemInv, ~ crashed, NEW s \in Sizes, NEW policy \in Fitting, Mem_Alloc(s, policy)
  PROVE  /\ MemInv'
         /\ \/ UNCHANGED << hdr, totalSize >>
            \/ \E c, r : r \in Nat /\ r >= s /\ Given(c, r) /\ UNCHANGED totalSize
<1>1. PICK r : r = RoundUp(s, ALIGN)
  OBVIOUS
<1>2. r \in Nat /\ r >= s /\ r >= 1 /\ r \in Int
  <2>1. s \in Nat \ {0} /\ ALIGN \in Nat \ {0}
    BY Units
  <2>2. r \in Nat /\ r >= s
    BY <1>1, <2>1, RoundUpIs
  <2> QED
    BY <2>1, <2>2
<1>3. mpc = "idle" /\ UNCHANGED << totalSize, mpc, loop >>
  BY DEF Mem_Alloc
<1>4. CASE BadHead(policy) /\ crashed' = TRUE /\ UNCHANGED << hdr, freeList, memList >>
  <2>1. totalSize > 0 => FreeOf(hdr) = {}
    <3>1. SUFFICES ASSUME totalSize > 0 PROVE FreeOf(hdr) = {}
      OBVIOUS
    <3>2. OnList(hdr, freeList, FreeOf(hdr)) /\ FreeOf(hdr) \subseteq Nat
      <4>1. Tiles(hdr, totalSize) /\ OnList(hdr, freeList, FreeOf(hdr))
        BY <1>3, <3>1 DEF MemInv
      <4> QED
        BY <4>1 DEF Tiles, Headers, FreeOf
    <3>3. freeList \in FreeOf(hdr) \cup {NULL}
      BY <3>2, ListHead
    <3>4. NULL \notin FreeOf(hdr) /\ MAP_FAILED \notin FreeOf(hdr) /\ NULL # MAP_FAILED
      BY <3>2 DEF NULL, MAP_FAILED
    <3>5. freeList = NULL
      BY <1>4, <3>3, <3>4 DEF BadHead
    <3> QED
      BY <3>2, <3>4, <3>5, ListHead
  <2> QED
    BY <1>3, <1>4, <2>1 DEF MemInv, loop
<1>5. CASE /\ ~ BadHead(policy) /\ Found(policy, RoundUp(s, ALIGN)) # NULL
           /\ Take(Found(policy, RoundUp(s, ALIGN)), RoundUp(s, ALIGN)) /\ UNCHANGED crashed
  <2>1. PICK c : c = Found(policy, r)
    OBVIOUS
  <2>2. c \in FreeOf(hdr) /\ hdr[c].size >= r
    BY <1>1, <1>2, <1>3, <1>5, <2>1, FoundIs
  <2>3. Take(c, r)
    BY <1>1, <1>5, <2>1, Zenon DEF Take
  <2>4. MemInv' /\ Given(c, r)
    BY <1>2, <1>3, <1>5, <2>2, <2>3, TakeKeeps
  <2> QED
    BY <1>2, <1>3, <2>4
<1> QED
  BY <1>4, <1>5 DEF Mem_Alloc

\* What Mem_Free takes back.
Returned(c) ==
  /\ c \in UsedOf(hdr) /\ UsedOf(hdr') = UsedOf(hdr) \ {c}
  /\ \A a \in UsedOf(hdr) : hdr'[a].size = hdr[a].size
  /\ UNCHANGED totalSize

\* Mem_Free.
LEMMA FreeKeeps ==
  ASSUME MemInv, ~ crashed, NEW c \in DOMAIN hdr, Mem_Free(c)
  PROVE  MemInv' /\ Returned(c)
<1>1. /\ totalSize \in Nat /\ totalSize > 0 /\ Tiles(hdr, totalSize)
      /\ OnList(hdr, memList, UsedOf(hdr)) /\ NULL \notin DOMAIN hdr
  <2>1. totalSize \in Nat /\ totalSize > 0
    BY DEF MemInv
  <2>2. Tiles(hdr, totalSize)
    BY <2>1 DEF MemInv
  <2> QED
    BY <2>1, <2>2 DEF MemInv, Tiles, Headers, NULL
<1>2. c \in UsedOf(hdr)
  <2>1. UsedOf(hdr) \subseteq DOMAIN hdr /\ \A a \in DOMAIN hdr : a \in Nat /\ a < totalSize
    BY <1>1, TilesFacts DEF UsedOf
  <2>2. PICK n, s : Linked(hdr, memList, UsedOf(hdr), n, s) /\ Chain(hdr, memList) = s
    BY <1>1, <2>1, ListChain
  <2>3. s \in [1 .. n -> UsedOf(hdr)]
    BY <2>2 DEF Linked, Orders
  <2>4. \E i \in DOMAIN s : c = s[i]
    BY <2>2 DEF Mem_Free
  <2> QED
    BY <2>3, <2>4
<1>3. PICK g : g = MarkFree(Unlinked(hdr, c), c)
  OBVIOUS
<1>4. /\ hdr' = g /\ memList' = IF memList = c THEN hdr[c].next ELSE memList
      /\ mpc' = "coalesce" /\ mpc = "idle"
      /\ here' = 0 /\ prev' = NULL /\ currSize' = 0 /\ immediate' = FALSE
      /\ UNCHANGED << freeList, totalSize, crashed >>
  BY <1>3, Zenon DEF Mem_Free
<1>5. /\ Tiles(g, totalSize)
      /\ OnList(g, IF memList = c THEN hdr[c].next ELSE memList, UsedOf(g))
      /\ UsedOf(g) = UsedOf(hdr) \ {c}
      /\ \A a \in DOMAIN hdr : g[a].size = hdr[a].size
      /\ Rebuilt(g, freeList, totalSize, 0, NULL, FALSE)
  <2>1. totalSize \in Nat /\ Tiles(hdr, totalSize) /\ OnList(hdr, memList, UsedOf(hdr))
    BY <1>1
  <2>2. Tiles(g, totalSize)
    BY <1>2, <1>3, <2>1, FreeStep
  <2>3. OnList(g, IF memList = c THEN hdr[c].next ELSE memList, UsedOf(g))
    BY <1>2, <1>3, <2>1, FreeStep, Zenon
  <2>4. LessUsed(g, hdr, c)
    BY <1>2, <1>3, <2>1, FreeStep
  <2>5. UsedOf(g) = UsedOf(hdr) \ {c} /\ \A a \in DOMAIN hdr : g[a].size = hdr[a].size
    BY <2>4 DEF LessUsed
  <2>6. Rebuilt(g, freeList, totalSize, 0, NULL, FALSE)
    BY <1>2, <1>3, <2>1, FreeStep
  <2> QED
    BY <2>2, <2>3, <2>5, <2>6
<1>6. OnList(g, memList', UsedOf(g))
  BY <1>4, <1>5
<1>7. memList' \in Int
  <2>1. memList' \in UsedOf(g) \cup {NULL} /\ UsedOf(g) \subseteq Nat
    BY <1>5, <1>6, ListHead DEF Tiles, Headers, UsedOf
  <2> QED
    BY <2>1 DEF NULL
<1>8. MemInv'
  <2>1. freeList \in Int /\ crashed' = FALSE /\ NULL \in Int
    BY <1>4 DEF MemInv, NULL
  <2> QED
    BY <1>1, <1>4, <1>5, <1>6, <1>7, <2>1 DEF MemInv
<1>9. Returned(c)
  BY <1>2, <1>4, <1>5 DEF Returned, UsedOf
<1> QED
  BY <1>8, <1>9

\* The chunks in use, and their sizes, are the same.
SameUsed ==
  /\ UsedOf(hdr') = UsedOf(hdr) /\ \A a \in UsedOf(hdr) : hdr'[a].size = hdr[a].size
  /\ UNCHANGED totalSize

\* A turn of coalesce.
LEMMA CoalesceKeeps ==
  ASSUME MemInv, ~ crashed, coalesce
  PROVE  MemInv' /\ SameUsed
<1>1. /\ totalSize \in Nat /\ totalSize > 0 /\ Tiles(hdr, totalSize)
      /\ OnList(hdr, memList, UsedOf(hdr)) /\ mpc = "coalesce" /\ mpc' = "coalesce"
      /\ UNCHANGED << memList, totalSize, mpc, crashed >>
      /\ Rebuilt(hdr, freeList, totalSize, here, prev, immediate)
      /\ currSize = here /\ here < totalSize
      /\ immediate \in BOOLEAN /\ prev \in Int /\ freeList \in Int /\ memList \in Int
      /\ crashed = FALSE
  <2>1. mpc = "coalesce" /\ currSize < totalSize /\ UNCHANGED << memList, totalSize, mpc, crashed >>
    BY DEF coalesce
  <2>2. totalSize \in Nat /\ totalSize > 0
    BY <2>1 DEF MemInv
  <2> QED
    BY <2>1, <2>2 DEF MemInv
<1>2. here \in DOMAIN hdr /\ here \in Nat
  BY <1>1, TilesFacts DEF Rebuilt
<1>3. PICK e : e = End(hdr, here)
  OBVIOUS
<1>4. here' = e /\ currSize' = e /\ e \in Nat
  <2>1. e \in Nat /\ HDR \in Nat /\ hdr[here].size \in Nat
    BY <1>1, <1>2, <1>3, TilesFacts, Units
  <2>2. currSize' = currSize + hdr[here].size + HDR /\ here' = here + HDR + hdr[here].size
    BY DEF coalesce
  <2> QED
    BY <1>1, <1>2, <1>3, <2>1, <2>2 DEF End
<1>5. PICK now \in BOOLEAN : now = hdr[here].free
  BY <1>1, <1>2, HeaderIs DEF Tiles
<1>6. immediate' = now
  BY <1>5 DEF coalesce, Immediate
<1>7. ASSUME NEW g, hdr' = g, Tiles(g, totalSize), OnList(g, memList, UsedOf(g)),
             Rebuilt(g, freeList', totalSize, e, prev', now),
             freeList' \in Int, prev' \in Int
      PROVE  MemInv'
  BY <1>1, <1>4, <1>6, <1>7 DEF MemInv
<1>8. ASSUME NEW g, hdr' = g, SameChunks(g, hdr), OnList(g, memList, UsedOf(hdr)),
             Rebuilt(g, freeList', totalSize, e, prev', now),
             freeList' \in Int, prev' \in Int
      PROVE  MemInv' /\ SameUsed
  <2>1. Tiles(g, totalSize) /\ UsedOf(g) = UsedOf(hdr)
    BY <1>1, <1>8, SameChunksKeep
  <2>2. \A a \in UsedOf(hdr) : g[a].size = hdr[a].size
    BY <1>8 DEF SameChunks, UsedOf
  <2> QED
    BY <1>1, <1>7, <1>8, <2>1, <2>2 DEF SameUsed
<1>9. CASE ~ hdr[here].free /\ UNCHANGED << hdr, freeList, prev >>
  <2>1. SameChunks(hdr, hdr)
    BY <1>1 DEF SameChunks, Tiles
  <2>2. Rebuilt(hdr, freeList, totalSize, e, prev, now)
    BY <1>1, <1>2, <1>3, <1>5, <1>9, PassUsed
  <2> QED
    BY <1>1, <1>8, <1>9, <2>1, <2>2
<1>10. CASE /\ hdr[here].free /\ prev = NULL /\ freeList' = here /\ prev' = here
            /\ hdr' = FirstOf(hdr, here)
  <2>1. PICK g : g = FirstOf(hdr, here)
    OBVIOUS
  <2>2. /\ SameChunks(g, hdr) /\ OnList(g, memList, UsedOf(hdr))
        /\ Rebuilt(g, here, totalSize, e, here, now)
    <3>1. /\ SameChunks(FirstOf(hdr, here), hdr) /\ OnList(FirstOf(hdr, here), memList, UsedOf(hdr))
          /\ Rebuilt(FirstOf(hdr, here), here, totalSize, End(hdr, here), here, now)
      BY <1>1, <1>2, <1>5, <1>10, PassFirst
    <3> QED
      BY <1>3, <2>1, <3>1
  <2> QED
    BY <1>2, <1>8, <1>10, <2>1, <2>2
<1>11. CASE /\ hdr[here].free /\ prev # NULL /\ ~ immediate
            /\ hdr' = SetPrev(SetNext(hdr, prev, here), here, prev)
            /\ prev' = here /\ UNCHANGED freeList
  <2>1. PICK g : g = SetPrev(SetNext(hdr, prev, here), here, prev)
    OBVIOUS
  <2>2. /\ SameChunks(g, hdr) /\ OnList(g, memList, UsedOf(hdr))
        /\ Rebuilt(g, freeList, totalSize, e, here, now)
    BY <1>1, <1>2, <1>3, <1>5, <1>11, <2>1, PassNext
  <2> QED
    BY <1>1, <1>2, <1>8, <1>11, <2>1, <2>2
<1>12. CASE /\ hdr[here].free /\ prev # NULL /\ immediate
            /\ hdr' = Join(hdr, here, prev) /\ UNCHANGED << freeList, prev >>
  <2>1. PICK g : g = Join(hdr, here, prev)
    OBVIOUS
  <2>2. /\ Tiles(g, totalSize) /\ UsedOf(g) = UsedOf(hdr)
        /\ \A a \in UsedOf(hdr) : g[a].size = hdr[a].size
        /\ OnList(g, memList, UsedOf(g))
        /\ Rebuilt(g, freeList, totalSize, e, prev, now)
    <3>1. /\ Tiles(hdr, totalSize) /\ OnList(hdr, memList, UsedOf(hdr)) /\ here \in DOMAIN hdr
          /\ totalSize \in Nat /\ immediate \in BOOLEAN /\ now \in BOOLEAN
          /\ Rebuilt(hdr, freeList, totalSize, here, prev, immediate)
          /\ hdr[here].free /\ immediate /\ now
          /\ g = Join(hdr, here, prev) /\ e = End(hdr, here)
      BY <1>1, <1>2, <1>3, <1>5, <1>12, <2>1
    <3>2. Tiles(g, totalSize)
      BY <3>1, PassJoin
    <3>3. SameUse(g, hdr)
      BY <3>1, PassJoin
    <3>4. UsedOf(g) = UsedOf(hdr) /\ \A a \in UsedOf(hdr) : g[a].size = hdr[a].size
      BY <3>3 DEF SameUse
    <3>5. OnList(g, memList, UsedOf(g))
      BY <3>1, PassJoin
    <3>6. Rebuilt(g, freeList, totalSize, End(hdr, here), prev, now)
      BY <3>1, PassJoin
    <3> QED
      BY <3>1, <3>2, <3>4, <3>5, <3>6
  <2>3. hdr' = g
    BY <1>12, <2>1
  <2>4. MemInv'
    BY <1>1, <1>7, <1>12, <2>2, <2>3
  <2> QED
    BY <1>1, <2>2, <2>3, <2>4 DEF SameUsed
<1> QED
  <2>1. Absorbed = Join(hdr, here, prev)
    BY Zenon DEF Absorbed, Join
  <2>2. [hdr EXCEPT ![here].prev = NULL, ![here].next = NULL] = FirstOf(hdr, here)
    BY Zenon DEF FirstOf
  <2> QED
    BY <1>9, <1>10, <1>11, <1>12, <2>1, <2>2, Zenon DEF coalesce

\* The end of coalesce.
LEMMA CoalesceEndKeeps ==
  ASSUME MemInv, ~ crashed, coalesceEnd
  PROVE  MemInv' /\ SameUsed
<1>1. /\ totalSize \in Nat /\ totalSize > 0 /\ Tiles(hdr, totalSize)
      /\ OnList(hdr, memList, UsedOf(hdr)) /\ mpc' = "idle"
      /\ UNCHANGED << freeList, memList, totalSize, crashed >>
      /\ here' = 0 /\ prev' = NULL /\ currSize' = 0 /\ immediate' = FALSE
      /\ Rebuilt(hdr, freeList, totalSize, here, prev, immediate)
      /\ ~ (here < totalSize) /\ here \in Nat
      /\ immediate \in BOOLEAN /\ prev \in Int /\ freeList \in Int /\ memList \in Int
      /\ crashed = FALSE
  <2>1. /\ mpc = "coalesce" /\ currSize >= totalSize /\ UNCHANGED << freeList, memList, totalSize, crashed >>
        /\ mpc' = "idle" /\ here' = 0 /\ prev' = NULL /\ currSize' = 0 /\ immediate' = FALSE
    BY DEF coalesceEnd
  <2>2. totalSize \in Nat /\ totalSize > 0 /\ currSize = here /\ here \in Nat
    BY <2>1 DEF MemInv
  <2> QED
    BY <2>1, <2>2 DEF MemInv
<1>2. here = totalSize
  <2>1. here \in DOMAIN hdr \cup {totalSize}
    BY <1>1 DEF Rebuilt
  <2>2. \A a \in DOMAIN hdr : a < totalSize
    BY <1>1, TilesFacts
  <2> QED
    BY <1>1, <2>1, <2>2
<1>3. PICK g : g = SetNext(hdr, prev, NULL)
  OBVIOUS
<1>4. hdr' = g
  BY <1>3 DEF coalesceEnd
<1>5. /\ SameChunks(g, hdr)
      /\ OnList(g, memList, UsedOf(hdr)) /\ OnList(g, freeList, FreeOf(hdr))
      /\ Spaced(g)
  <2>1. Rebuilt(hdr, freeList, totalSize, totalSize, prev, immediate)
    BY <1>1, <1>2
  <2> QED
    BY <1>1, <1>3, <2>1, PassEnd
<1>6. Tiles(g, totalSize) /\ FreeOf(g) = FreeOf(hdr) /\ UsedOf(g) = UsedOf(hdr)
  BY <1>1, <1>5, SameChunksKeep
<1>7. \A a \in UsedOf(hdr) : g[a].size = hdr[a].size
  BY <1>5 DEF SameChunks, UsedOf
<1>8. MemInv'
  <2>1. NULL \in Int /\ OnList(g, memList, UsedOf(g)) /\ OnList(g, freeList, FreeOf(g))
    BY <1>5, <1>6 DEF NULL
  <2>2. /\ immediate' \in BOOLEAN /\ crashed' = FALSE /\ crashed' \in BOOLEAN
        /\ totalSize' \in Nat /\ totalSize' # 0 /\ prev' \in Int
    <3>1. immediate' \in BOOLEAN /\ crashed' = FALSE /\ crashed' \in BOOLEAN
      BY <1>1, Zenon
    <3>2. totalSize' \in Nat /\ totalSize' # 0
      BY <1>1
    <3>3. prev' \in Int
      BY <1>1, <2>1, Zenon
    <3> QED
      BY <3>1, <3>2, <3>3
  <2> QED
    BY <1>1, <1>4, <1>5, <1>6, <2>1, <2>2 DEF MemInv
<1> QED
  BY <1>1, <1>4, <1>6, <1>7, <1>8 DEF SameUsed

\* Every step keeps the invariant.
LEMMA StepKeeps ==
  ASSUME MemInv, MemNext
  PROVE  MemInv'
<1>1. ~ crashed
  BY DEF MemNext
<1> QED
  BY <1>1, InitKeeps, AllocKeeps, FreeKeeps, CoalesceKeeps, CoalesceEndKeeps DEF MemNext

\* The invariant holds at every moment.
LEMMA MemInvHolds == MemSpec => []MemInv
<1>1. MemInv /\ UNCHANGED memvars => MemInv'
  BY DEF MemInv, memvars, loop
<1> QED
  BY <1>1, InitMem, StepKeeps, PTL DEF MemSpec

-----------------------------------------------------------------------------
(* The properties.                                                          *)

\* A chunk on a list points to chunks on it.
LEMMA LinksOf ==
  ASSUME NEW h, NEW head, NEW S, OnList(h, head, S), NEW a \in S
  PROVE  h[a].next \in S \cup {NULL} /\ h[a].prev \in S \cup {NULL}
<1>1. PICK n, s : Linked(h, head, S, n, s)
  BY DEF OnList
<1>2. n \in Nat /\ s \in [1 .. n -> S] /\ \A b \in S : \E i \in 1 .. n : s[i] = b
  BY <1>1 DEF Linked, Orders
<1>3. PICK i \in 1 .. n : s[i] = a
  BY <1>2
<1>4. h[a].next = NextIn(n, s, i) /\ h[a].prev = PrevIn(s, i)
  BY <1>1, <1>3 DEF Linked
<1>5. NextIn(n, s, i) \in S \cup {NULL}
  <2>1. i # n => i + 1 \in 1 .. n
    BY <1>2
  <2> QED
    BY <1>2, <2>1 DEF NextIn
<1>6. PrevIn(s, i) \in S \cup {NULL}
  <2>1. i # 1 => i - 1 \in 1 .. n
    BY <1>2
  <2> QED
    BY <1>2, <2>1 DEF PrevIn
<1> QED
  BY <1>4, <1>5, <1>6

\* The list that the code walks has the chunks of S, each once and both ways.
LEMMA ListsHold ==
  ASSUME totalSize \in Nat, NEW head, NEW S, OnList(hdr, head, S), S \subseteq DOMAIN hdr,
         \A a \in DOMAIN hdr : a \in Nat /\ a < totalSize
  PROVE  Lists(head, S)
<1>1. PICK n, s : Linked(hdr, head, S, n, s) /\ Chain(hdr, head) = s
  BY ListChain
<1>2. n \in Nat /\ s \in [1 .. n -> S] /\ (\A b \in S : \E i \in 1 .. n : s[i] = b)
      /\ (\A i, j \in 1 .. n : s[i] = s[j] => i = j)
  BY <1>1 DEF Linked, Orders
<1>3. DOMAIN s = 1 .. n
  BY <1>2
<1>4. {s[i] : i \in DOMAIN s} = S
  BY <1>2, <1>3
<1>5. IsInjective(s)
  <2>1. \A i, j \in DOMAIN s : s[i] = s[j] => i = j
    BY <1>2, <1>3
  <2> QED
    BY <2>1 DEF IsInjective
<1>6. \A i \in DOMAIN s : hdr[s[i]].prev = IF i = 1 THEN NULL ELSE s[i - 1]
  BY <1>1, <1>3 DEF Linked, PrevIn
<1> QED
  BY <1>1, <1>4, <1>5, <1>6 DEF Lists

\* The invariant has the headers in order.
LEMMA HeadersHold ==
  ASSUME MemInv, mpc = "idle"
  PROVE  HeadersOK
<1>1. CASE totalSize = 0
  BY <1>1 DEF MemInv, HeadersOK, Chunks
<1>2. CASE totalSize > 0
  <2>1. /\ totalSize \in Nat /\ Tiles(hdr, totalSize) /\ OnList(hdr, memList, UsedOf(hdr))
        /\ OnList(hdr, freeList, FreeOf(hdr))
    BY <1>2 DEF MemInv
  <2>2. Chunks \subseteq 0 .. totalSize
    BY <2>1, TilesFacts DEF Chunks
  <2>3. ASSUME NEW a \in Chunks
        PROVE  hdr[a] \in [size : Nat, free : BOOLEAN,
                           next : Chunks \cup {NULL}, prev : Chunks \cup {NULL}]
    <3>1. a \in DOMAIN hdr /\ hdr[a] \in Header
      BY <2>1, <2>3 DEF Chunks, Tiles, Headers
    <3>2. hdr[a].next \in Chunks \cup {NULL} /\ hdr[a].prev \in Chunks \cup {NULL}
      <4>1. a \in FreeOf(hdr) \/ a \in UsedOf(hdr)
        BY <3>1 DEF FreeOf, UsedOf
      <4>2. FreeOf(hdr) \subseteq Chunks /\ UsedOf(hdr) \subseteq Chunks
        BY DEF FreeOf, UsedOf, Chunks
      <4>3. CASE a \in FreeOf(hdr)
        BY <2>1, <4>2, <4>3, LinksOf
      <4>4. CASE a \in UsedOf(hdr)
        BY <2>1, <4>2, <4>4, LinksOf
      <4> QED
        BY <4>1, <4>3, <4>4
    <3> QED
      BY <3>1, <3>2 DEF Header
  <2>4. freeList \in Chunks \cup {NULL, MAP_FAILED} /\ memList \in Chunks \cup {NULL}
    <3>1. freeList \in FreeOf(hdr) \cup {NULL} /\ memList \in UsedOf(hdr) \cup {NULL}
      BY <2>1, ListHead
    <3> QED
      BY <3>1 DEF FreeOf, UsedOf, Chunks
  <2> QED
    BY <2>2, <2>3, <2>4 DEF HeadersOK
<1>3. totalSize = 0 \/ totalSize > 0
  BY DEF MemInv
<1> QED
  BY <1>1, <1>2, <1>3

\* The invariant implies the first conjunct of AllocSound.
LEMMA ListsSoundHolds == MemInv => ListsSound
<1>1. SUFFICES ASSUME MemInv PROVE ListsSound
  OBVIOUS
<1>2. \A a \in Chunks : After(a) = End(hdr, a)
  BY DEF After, End
<1>3. ASSUME totalSize > 0
      PROVE  /\ 0 \in Chunks
             /\ \A a \in Chunks : After(a) \in Chunks \cup {totalSize}
             /\ \A a, b \in Chunks : a < b => After(a) <= b
  <2>1. Tiles(hdr, totalSize)
    BY <1>1, <1>3 DEF MemInv
  <2> QED
    BY <1>2, <2>1 DEF Tiles, Chunks
<1>4. mpc = "idle" => HeadersOK
  BY <1>1, HeadersHold
<1>5. ASSUME totalSize > 0, mpc = "idle"
      PROVE  /\ Lists(freeList, {a \in Chunks : hdr[a].free})
             /\ Lists(memList, {a \in Chunks : ~ hdr[a].free})
             /\ \A a \in Chunks :
                  hdr[a].free /\ After(a) \in Chunks => ~ hdr[After(a)].free
  <2>1. /\ totalSize \in Nat /\ Tiles(hdr, totalSize) /\ OnList(hdr, memList, UsedOf(hdr))
        /\ OnList(hdr, freeList, FreeOf(hdr)) /\ Spaced(hdr)
    BY <1>1, <1>5 DEF MemInv
  <2>2. \A a \in DOMAIN hdr : a \in Nat /\ a < totalSize
    BY <2>1, TilesFacts
  <2>3. FreeOf(hdr) \subseteq DOMAIN hdr /\ UsedOf(hdr) \subseteq DOMAIN hdr
    BY DEF FreeOf, UsedOf
  <2>4. Lists(freeList, FreeOf(hdr)) /\ Lists(memList, UsedOf(hdr))
    BY <2>1, <2>2, <2>3, ListsHold
  <2>5. \A a \in Chunks : hdr[a].free /\ After(a) \in Chunks => ~ hdr[After(a)].free
    BY <1>2, <2>1 DEF Spaced, FreeOf, Chunks
  <2>6. /\ FreeOf(hdr) = {a \in Chunks : hdr[a].free}
        /\ UsedOf(hdr) = {a \in Chunks : ~ hdr[a].free}
    BY DEF FreeOf, UsedOf, Chunks
  <2> QED
    BY <2>4, <2>5, <2>6
<1> QED
  BY <1>3, <1>4, <1>5 DEF ListsSound

\* The invariant implies the second conjunct of AllocSound.
LEMMA SearchesHold == MemInv => SearchesRight
<1>1. SUFFICES ASSUME MemInv PROVE SearchesRight
  OBVIOUS
<1>2. crashed /\ totalSize > 0 => \A a \in Chunks : ~ hdr[a].free
  BY <1>1 DEF MemInv, FreeOf, Chunks
<1>3. ASSUME mpc = "idle", freeList \in Chunks, NEW s \in Sizes, NEW r, r = RoundUp(s, ALIGN)
      PROVE  IF Able(r) = {}
             THEN firstfit(r) = NULL /\ bestfit(r) = NULL /\ worstfit(r) = NULL
             ELSE /\ {firstfit(r), bestfit(r), worstfit(r)} \subseteq Able(r)
                  /\ \A a \in Able(r) : hdr[bestfit(r)].size <= hdr[a].size
                  /\ \A a \in Able(r) : hdr[worstfit(r)].size >= hdr[a].size
  <2>1. r \in Nat /\ r \in Int
    <3>1. s \in Nat \ {0} /\ ALIGN \in Nat \ {0}
      BY Units
    <3> QED
      BY <1>3, <3>1, RoundUpIs
  <2>2. totalSize \in Nat /\ freeList # MAP_FAILED /\ freeList # NULL
    <3>1. freeList \in Nat
      BY <1>1, <1>3, HeadersHold DEF HeadersOK, MemInv
    <3> QED
      BY <1>1, <3>1 DEF MAP_FAILED, NULL, MemInv
  <2>3. /\ Headers(hdr) /\ OnList(hdr, freeList, FreeOf(hdr))
        /\ \A a \in DOMAIN hdr : a \in Nat /\ a < totalSize
    BY <1>1, <1>3, <2>2, FreeListIs
  <2>4. PICK n, q : Linked(hdr, freeList, FreeOf(hdr), n, q) /\ FreeChain = q
    <3>1. FreeOf(hdr) \subseteq DOMAIN hdr
      BY DEF FreeOf
    <3> QED
      BY <2>2, <2>3, <3>1, ListChain DEF FreeChain
  <2>5. IF Able(r) = {} THEN firstfit(r) = NULL ELSE firstfit(r) \in Able(r)
    BY <2>1, <2>3, <2>4, FirstFitIs
  <2>6. 1 \in {1, -1} /\ -1 \in {1, -1}
    OBVIOUS
  <2>7. IF Able(r) = {} THEN bestfit(r) = NULL
        ELSE /\ bestfit(r) \in Able(r)
             /\ \A a \in Able(r) : Key(bestfit(r), 1) <= Key(a, 1)
    BY <2>1, <2>2, <2>3, <2>4, <2>6, SearchIs DEF bestfit
  <2>8. IF Able(r) = {} THEN worstfit(r) = NULL
        ELSE /\ worstfit(r) \in Able(r)
             /\ \A a \in Able(r) : Key(worstfit(r), -1) <= Key(a, -1)
    BY <2>1, <2>2, <2>3, <2>4, <2>6, SearchIs DEF worstfit
  <2>9. \A a \in Able(r) : hdr[a].size \in Nat
    BY <2>3, HeaderIs DEF Able, Chunks
  <2>10. \A a, b \in Able(r) : /\ Key(a, 1) <= Key(b, 1) => hdr[a].size <= hdr[b].size
                               /\ Key(a, -1) <= Key(b, -1) => hdr[a].size >= hdr[b].size
    BY <2>9 DEF Key
  <2>11. CASE Able(r) = {}
    BY <2>5, <2>7, <2>8, <2>11
  <2>12. CASE Able(r) # {}
    <3>1. firstfit(r) \in Able(r) /\ bestfit(r) \in Able(r) /\ worstfit(r) \in Able(r)
      BY <2>5, <2>7, <2>8, <2>12
    <3>2. /\ \A a \in Able(r) : hdr[bestfit(r)].size <= hdr[a].size
          /\ \A a \in Able(r) : hdr[worstfit(r)].size >= hdr[a].size
      BY <2>7, <2>8, <2>10, <2>12, <3>1
    <3> QED
      BY <2>12, <3>1, <3>2
  <2> QED
    BY <2>11, <2>12
<1> QED
  BY <1>2, <1>3 DEF SearchesRight

\* The two lists of the allocator and its three searches are right, whatever
\* the region and the sizes: chunks tile the region, also while coalesce()
\* joins them; between calls the free list has exactly the free chunks, no two
\* of which are neighbours, and the other list the used ones; a search finds a
\* chunk exactly if one is large enough, bestfit and worstfit one of extreme
\* size.
THEOREM AllocHolds == MemSpec => []AllocSound
<1>1. MemInv => AllocSound
  BY ListsSoundHolds, SearchesHold DEF AllocSound
<1> QED
  BY <1>1, MemInvHolds, PTL

-----------------------------------------------------------------------------
(* The arena.                                                               *)

BlockOf(h, a) == [at |-> a + HDR, len |-> h[a].size]
LiveOf(h) == {BlockOf(h, a) : a \in UsedOf(h)}

\* The same chunks in use are the same blocks.
LEMMA SameLive ==
  ASSUME NEW g, NEW h, SameUse(g, h)
  PROVE  LiveOf(g) = LiveOf(h)
<1>1. UsedOf(g) = UsedOf(h) /\ \A a \in UsedOf(h) : BlockOf(g, a) = BlockOf(h, a)
  BY DEF SameUse, BlockOf
<1> QED
  BY <1>1 DEF LiveOf

\* What Mem_Alloc gives out is a block apart from the others.
LEMMA GivenIs ==
  ASSUME NEW T \in Nat, NEW g, NEW h, NEW c \in UsedOf(g), NEW r \in Nat, r >= 1, Tiles(g, T),
         UsedOf(g) = UsedOf(h) \cup {c}, c \notin UsedOf(h),
         \A a \in UsedOf(h) : g[a].size = h[a].size, c + HDR + r <= End(g, c)
  PROVE  \E adr \in 0 .. T - 1, len \in 1 .. T :
            /\ len >= r /\ adr + len <= T
            /\ \A b \in LiveOf(h) : adr + len <= b.at \/ b.at + b.len <= adr
            /\ LiveOf(g) = LiveOf(h) \cup {[at |-> adr, len |-> len]}
<1>1. UsedOf(g) \subseteq DOMAIN g /\ c \in DOMAIN g
  BY DEF UsedOf
<1>2. /\ c \in Nat /\ c < T /\ g[c].size \in Nat /\ g[c].size >= 1 /\ End(g, c) <= T
      /\ HDR \in Nat
  BY <1>1, TilesFacts, Units
<1>3. PICK adr, len : adr = c + HDR /\ len = g[c].size
  OBVIOUS
<1>4. adr \in 0 .. T - 1 /\ len \in 1 .. T /\ len >= r /\ adr + len <= T
  BY <1>2, <1>3 DEF End
<1>5. ASSUME NEW b \in LiveOf(h)
      PROVE  adr + len <= b.at \/ b.at + b.len <= adr
  <2>1. PICK a \in UsedOf(h) : b = BlockOf(h, a)
    BY <1>5 DEF LiveOf
  <2>2. b.at = a + HDR /\ b.len = g[a].size
    BY <2>1 DEF BlockOf
  <2>3. a \in DOMAIN g /\ a # c
    BY <1>1
  <2>4. End(g, a) <= c \/ End(g, c) <= a
    BY <1>1, <2>3, TilesApart
  <2>5. a \in Nat /\ g[a].size \in Nat
    BY <2>3, TilesFacts
  <2> QED
    BY <1>2, <1>3, <2>2, <2>4, <2>5 DEF End
<1>6. LiveOf(g) = LiveOf(h) \cup {[at |-> adr, len |-> len]}
  <2>1. BlockOf(g, c) = [at |-> adr, len |-> len]
    BY <1>3 DEF BlockOf
  <2>2. \A a \in UsedOf(h) : BlockOf(g, a) = BlockOf(h, a)
    BY DEF BlockOf
  <2> QED
    BY <2>1, <2>2 DEF LiveOf
<1> QED
  BY <1>4, <1>5, <1>6

\* What Mem_Free takes back is one block.
LEMMA ReturnedIs ==
  ASSUME NEW g, NEW h, NEW c \in UsedOf(h), UsedOf(h) \subseteq Nat, UsedOf(g) = UsedOf(h) \ {c},
         \A a \in UsedOf(h) : g[a].size = h[a].size
  PROVE  \E b \in LiveOf(h) : LiveOf(g) = LiveOf(h) \ {b}
<1>1. PICK b : b = BlockOf(h, c)
  OBVIOUS
<1>2. b \in LiveOf(h)
  BY <1>1 DEF LiveOf
<1>3. \A a \in UsedOf(h) : BlockOf(g, a) = BlockOf(h, a)
  BY DEF BlockOf
<1>4. \A a \in UsedOf(h) : a # c => BlockOf(h, a) # b
  <2>1. \A a \in UsedOf(h) : BlockOf(h, a).at = a + HDR
    BY DEF BlockOf
  <2>2. HDR \in Nat
    BY Units
  <2> QED
    BY <1>1, <2>1, <2>2
<1>5. LiveOf(g) = LiveOf(h) \ {b}
  BY <1>1, <1>3, <1>4 DEF LiveOf
<1> QED
  BY <1>2, <1>5

\* The blocks of the refinement are these.
LEMMA BlocksAre == {[at |-> a + HDR, len |-> hdr[a].size] : a \in Used} = LiveOf(hdr)
  BY DEF LiveOf, BlockOf, Used, UsedOf, Chunks

\* The lists and headers implement an allocator: what Mem_Alloc returns lies in
\* the region, overlaps no block in use and is at least as large as asked, and
\* neither splitting nor coalesce() touches a block that is in use.
THEOREM ArenaImplemented == MemSpec => ImplementsArena
<1>1. MemInit => Blocks!Init
  <2>1. SUFFICES ASSUME MemInit PROVE Blocks!Init
    OBVIOUS
  <2>2. totalSize = 0 /\ DOMAIN hdr = {}
    BY <2>1 DEF MemInit
  <2>3. Used = {}
    BY <2>2 DEF Used, Chunks
  <2> QED
    BY <2>2, <2>3 DEF Blocks!Init
<1>2. ASSUME MemInv, [MemNext]_memvars
      PROVE  [Blocks!SetUp \/ Blocks!Alloc \/ Blocks!Free]_(Blocks!vars)
  <2>1. PICK T, T2, g, h : T = totalSize /\ T \in Nat /\ T2 = totalSize' /\ h = hdr /\ g = hdr'
    BY <1>2 DEF MemInv
  <2>2. /\ {[at |-> a + HDR, len |-> hdr[a].size] : a \in Used} = LiveOf(h)
        /\ ({[at |-> a + HDR, len |-> hdr[a].size] : a \in Used})' = LiveOf(g)
    <3>1. LiveOf(hdr)' = LiveOf(g)
      BY <2>1 DEF LiveOf, BlockOf, UsedOf
    <3>2. ({[at |-> a + HDR, len |-> hdr[a].size] : a \in Used} = LiveOf(hdr))'
      BY BlocksAre, PTL
    <3> QED
      BY <2>1, <3>1, <3>2, BlocksAre
  <2>3. CASE LiveOf(g) = LiveOf(h) /\ T2 = T
    BY <2>1, <2>2, <2>3 DEF Blocks!vars
  <2>4. CASE SameUsed
    <3>1. SameUse(g, h) /\ T2 = T
      BY <2>1, <2>4 DEF SameUsed, SameUse
    <3> QED
      BY <2>3, <3>1, SameLive
  <2>5. CASE UNCHANGED << hdr, totalSize >>
    <3>1. g = h /\ T2 = T
      BY <2>1, <2>5
    <3> QED
      BY <2>3, <3>1
  <2>6. CASE Laid
    <3>1. T = 0 /\ T2 > 0 /\ UsedOf(g) = {} /\ UsedOf(h) = {}
      BY <2>1, <2>6 DEF Laid
    <3>2. LiveOf(g) = LiveOf(h)
      BY <3>1 DEF LiveOf
    <3> QED
      BY <2>1, <2>2, <3>1, <3>2 DEF Blocks!SetUp
  <2>7. ASSUME NEW c, NEW r \in Nat, NEW s \in Sizes, r >= s, Given(c, r), T2 = T
        PROVE  Blocks!Alloc
    <3>1. /\ Tiles(g, T) /\ c \in UsedOf(g) /\ UsedOf(g) = UsedOf(h) \cup {c}
          /\ c \notin UsedOf(h) /\ c + HDR + r <= End(g, c)
      BY <2>1, <2>7, Zenon DEF Given
    <3>2. \A a \in UsedOf(h) : g[a].size = h[a].size
      BY <2>1, <2>7, Zenon DEF Given
    <3>3. s \in Nat /\ r >= 1
      BY <2>7, Units
    <3>4. \E adr \in 0 .. T - 1, len \in 1 .. T :
            /\ len >= r /\ adr + len <= T
            /\ \A b \in LiveOf(h) : adr + len <= b.at \/ b.at + b.len <= adr
            /\ LiveOf(g) = LiveOf(h) \cup {[at |-> adr, len |-> len]}
      BY <2>1, <3>1, <3>2, <3>3, GivenIs
    <3>5. PICK adr \in 0 .. T - 1, len \in 1 .. T :
            /\ len >= r /\ adr + len <= T
            /\ \A b \in LiveOf(h) : adr + len <= b.at \/ b.at + b.len <= adr
            /\ LiveOf(g) = LiveOf(h) \cup {[at |-> adr, len |-> len]}
      BY <3>4
    <3>6. len >= s
      BY <2>7, <3>3, <3>5
    <3>7. PICK new : new = [at |-> adr, len |-> len]
      OBVIOUS
    <3>8. \A b \in LiveOf(h) : Blocks!Apart(new, b)
      BY <3>5, <3>7 DEF Blocks!Apart
    <3> QED
      BY <2>1, <2>2, <2>7, <3>5, <3>6, <3>7, <3>8 DEF Blocks!Alloc
  <2>8. ASSUME NEW c, Returned(c)
        PROVE  Blocks!Free
    <3>1. c \in UsedOf(h) /\ UsedOf(g) = UsedOf(h) \ {c} /\ T2 = T
      BY <2>1, <2>8, Zenon DEF Returned
    <3>2. \A a \in UsedOf(h) : g[a].size = h[a].size
      BY <2>1, <2>8, Zenon DEF Returned
    <3>3. UsedOf(h) \subseteq Nat
      <4>1. CASE totalSize = 0
        BY <1>2, <2>1, <4>1 DEF MemInv, UsedOf
      <4>2. CASE totalSize > 0
        BY <1>2, <2>1, <4>2 DEF MemInv, Tiles, Headers, UsedOf
      <4> QED
        BY <2>1, <4>1, <4>2
    <3>4. \E b \in LiveOf(h) : LiveOf(g) = LiveOf(h) \ {b}
      BY <3>1, <3>2, <3>3, ReturnedIs
    <3> QED
      BY <2>1, <2>2, <3>1, <3>4 DEF Blocks!Free
  <2>9. CASE MemNext
    <3>1. ~ crashed
      BY <2>9 DEF MemNext
    <3>2. ASSUME NEW s \in RegionSizes, Mem_Init(s) PROVE UNCHANGED << hdr, totalSize >> \/ Laid
      BY <1>2, <3>1, <3>2, InitKeeps
    <3>3. ASSUME NEW s \in Sizes, NEW policy \in Fitting, Mem_Alloc(s, policy)
          PROVE  UNCHANGED << hdr, totalSize >> \/ Blocks!Alloc
      <4>1. \/ UNCHANGED << hdr, totalSize >>
            \/ \E c, r : r \in Nat /\ r >= s /\ Given(c, r) /\ UNCHANGED totalSize
        BY <1>2, <3>1, <3>3, AllocKeeps
      <4>2. CASE \E c, r : r \in Nat /\ r >= s /\ Given(c, r) /\ UNCHANGED totalSize
        <5>1. PICK c, r : r \in Nat /\ r >= s /\ Given(c, r) /\ UNCHANGED totalSize
          BY <4>2
        <5> QED
          BY <2>1, <2>7, <5>1
      <4> QED
        BY <4>1, <4>2
    <3>4. ASSUME NEW c \in DOMAIN hdr, Mem_Free(c) PROVE Blocks!Free
      BY <1>2, <2>8, <3>1, <3>4, FreeKeeps
    <3>5. CASE coalesce
      BY <1>2, <2>4, <3>1, <3>5, CoalesceKeeps
    <3>6. CASE coalesceEnd
      BY <1>2, <2>4, <3>1, <3>6, CoalesceEndKeeps
    <3> QED
      BY <2>5, <2>6, <2>9, <3>2, <3>3, <3>4, <3>5, <3>6 DEF MemNext
  <2>10. CASE UNCHANGED memvars
    BY <2>5, <2>10 DEF memvars
  <2> QED
    BY <1>2, <2>9, <2>10
<1> QED
  BY <1>1, <1>2, MemInvHolds, PTL DEF MemSpec, ImplementsArena, Blocks!Spec

-----------------------------------------------------------------------------
(* malloc() and free() of P4's user programs.                               *)

\* b comes after a on a ring of F in the order of addresses, Base after the last.
Follows(F, a, b) ==
  /\ b \in F
  /\ \/ a < b /\ \A c \in F : c <= a \/ b <= c
     \/ b = Base /\ \A c \in F : c <= a

RingOf(F, p) == \A a \in F : Follows(F, a, p[a])

\* The blocks D but for Base, of the sizes z, fill the heap up to t.
Fills(D, z, t) ==
  /\ D \subseteq Nat /\ Base \in D /\ z \in [D -> Nat] /\ z[Base] = 0
  /\ \A a \in D \ {Base} : z[a] >= 1 /\ BREAK <= a /\ a + z[a] <= t
  /\ \A a, b \in D : a < b => a + z[a] <= b
  /\ \A u \in BREAK .. t - 1 : \E a \in D : a <= u /\ u < a + z[a]

\* No block of F is next to another one of F.
NoneJoin(F, z) == \A a, b \in F : a < b => a + z[a] < b

\* A heap up to t with the blocks U in use.
HeapOK(h, U, t) ==
  /\ h = [ptr |-> h.ptr, bsize |-> h.bsize, freep |-> h.freep]
  /\ DOMAIN h.ptr = DOMAIN h.bsize /\ Fills(DOMAIN h.bsize, h.bsize, t)
  /\ U \subseteq DOMAIN h.bsize \ {Base}
  /\ RingOf(DOMAIN h.bsize \ U, h.ptr) /\ NoneJoin(DOMAIN h.bsize \ U, h.bsize)
  /\ h.freep \in DOMAIN h.bsize \ U

UmHeap == top \in Nat /\ BREAK <= top /\ HeapOK(Heap0, InUse, top)

UmLive ==
  /\ \A b \in live : /\ b = [at |-> b.at, asked |-> b.asked] /\ b.asked \in Bytes \cup {STACK}
                     /\ bsize[b.at] = nunits(b.asked)
  /\ \A b, c \in live : b.at = c.at => b = c

UmStacks ==
  \A s \in stacks \ {OnText} : /\ s = [at |-> s.at, stack |-> PageUp(s.at + 1)]
                               /\ [at |-> s.at, asked |-> STACK] \in live

UmInv == UmHeap /\ UmLive /\ UmStacks

\* The page size and the rest are numbers.
LEMMA UmTypes ==
  /\ UNIT \in Nat \ {0} /\ WORD \in Nat \ {0} /\ NALLOC \in Nat \ {0} /\ UPAGE \in Nat \ {0}
  /\ BREAK \in Nat \ {0} /\ LIMIT \in Nat /\ Bytes \subseteq 0 .. WORD - 1
BY UMallocAssumption

\* A bounded set of numbers that is not empty has a greatest one.
LEMMA GreatestAddress ==
  ASSUME NEW T, T \subseteq Nat, T # {}, NEW t \in Nat, \A x \in T : x <= t
  PROVE  \E x \in T : \A y \in T : y <= x
<1>1. PICK S : S = {t - x : x \in T}
  OBVIOUS
<1>2. S \subseteq Nat /\ S # {}
  <2>1. \A x \in T : x \in Nat /\ t - x \in Nat
    BY SMT
  <2>2. \E x : x \in T
    OBVIOUS
  <2> QED
    BY <1>1, <2>1, <2>2
<1>3. PICK d \in S : \A y \in Nat : y < d => y \notin S
  BY <1>2, LeastAddress
<1>4. PICK x \in T : d = t - x
  BY <1>1
<1>5. ASSUME NEW y \in T, ~ y <= x PROVE FALSE
  <2>1. t - y \in S
    BY <1>1
  <2>2. t - y \in Nat
    BY <1>2, <2>1
  <2>3. x \in Nat /\ y \in Nat
    OBVIOUS
  <2>4. t - y < d
    BY <1>4, <1>5, <2>3
  <2> QED
    BY <1>3, <2>1, <2>2, <2>4
<1> QED
  BY <1>5

\* Before an address there is a last block of the ring.
LEMMA LastBefore ==
  ASSUME NEW F, F \subseteq Nat, Base \in F, NEW x \in Nat, x > Base
  PROVE  \E q \in F : q < x /\ \A c \in F : c <= q \/ x <= c
<1>1. PICK T : T = {c \in F : c < x}
  OBVIOUS
<1>2. T \subseteq Nat /\ T # {} /\ \A c \in T : c <= x
  <2>1. Base \in T
    BY <1>1 DEF Base
  <2>2. \A c \in T : c \in F /\ c \in Nat /\ c <= x
    BY <1>1
  <2> QED
    BY <2>1, <2>2
<1>3. PICK q \in T : \A y \in T : y <= q
  BY <1>2, GreatestAddress
<1> QED
  BY <1>1, <1>3

\* Two blocks do not have the same one after them.
LEMMA FollowsOnce ==
  ASSUME NEW F, F \subseteq Nat, NEW a \in F, NEW b \in F, NEW c, Follows(F, a, c), Follows(F, b, c)
  PROVE  a = b
BY DEF Follows, Base

\* Blocks that have with each one the one after it are all of the ring.
LEMMA ClosedIsAll ==
  ASSUME NEW F, F \subseteq Nat, Base \in F, NEW t \in Nat, \A a \in F : a <= t,
         NEW p, RingOf(F, p), NEW R, R \subseteq F, R # {}, \A a \in R : p[a] \in R
  PROVE  R = F
<1>1. Base \in R
  <2>1. PICK m \in R : \A y \in R : y <= m
    BY GreatestAddress
  <2>2. Follows(F, m, p[m]) /\ p[m] \in R
    BY <2>1 DEF RingOf
  <2>3. p[m] <= m /\ m \in Nat /\ p[m] \in Nat
    BY <2>1, <2>2
  <2> QED
    BY <2>2, <2>3 DEF Follows
<1>2. SUFFICES ASSUME F \ R # {} PROVE FALSE
  OBVIOUS
<1>3. PICK x \in F \ R : \A y \in Nat : y < x => y \notin F \ R
  <2>1. F \ R \subseteq Nat
    OBVIOUS
  <2> QED
    BY <1>2, <2>1, LeastAddress
<1>4. x \in Nat /\ x > Base
  BY <1>1, <1>3 DEF Base
<1>5. PICK q \in F : q < x /\ \A c \in F : c <= q \/ x <= c
  BY <1>4, LastBefore
<1>6. q \in R
  BY <1>3, <1>5
<1>7. Follows(F, q, p[q]) /\ p[q] \in R
  BY <1>6 DEF RingOf
<1>8. p[q] # x
  BY <1>3, <1>7
<1>9. q < p[q] \/ (p[q] = Base /\ \A c \in F : c <= q)
  BY <1>7 DEF Follows
<1>10. q \in Nat /\ x \in Nat /\ x \in F /\ ~ x <= q /\ p[q] \in F /\ p[q] \in Nat
  <2>1. q \in Nat /\ x \in Nat /\ x \in F /\ q < x
    BY <1>5
  <2>2. p[q] \in F /\ p[q] \in Nat
    BY <1>7
  <2>3. ~ x <= q
    BY <2>1
  <2> QED
    BY <2>1, <2>2, <2>3, Zenon
<1>11. q < p[q] /\ (\A c \in F : c <= q \/ p[q] <= c)
  BY <1>7, <1>9, <1>10 DEF Follows
<1>12. p[q] <= x /\ (p[q] <= q \/ x <= p[q])
  BY <1>5, <1>10, <1>11
<1> QED
  BY <1>8, <1>10, <1>11, <1>12

-----------------------------------------------------------------------------
(* The walk along the ring.                                                 *)

StepOf(f, p, a, k) == IF k = 0 THEN a ELSE p[f[k - 1]]
IsSteps(f, p, a, n) == f = [k \in 0 .. n |-> StepOf(f, p, a, k)]

\* The steps can be taken one by one.
LEMMA StepsExist ==
  ASSUME NEW p, NEW a, NEW n \in Nat
  PROVE  \E f : IsSteps(f, p, a, n)
<1> DEFINE Has(x) == \E f : IsSteps(f, p, a, x)
           T == {x \in Nat : ~ Has(x)}
<1>1. SUFFICES ASSUME T # {} PROVE FALSE
  OBVIOUS
<1>2. PICK x \in T : \A y \in Nat : y < x => y \notin T
  <2>1. T \subseteq Nat
    OBVIOUS
  <2> QED
    BY <1>1, <2>1, LeastAddress, Zenon
<1>3. x \in Nat /\ ~ Has(x) /\ \A y \in Nat : y < x => Has(y)
  BY <1>2
<1> HIDE DEF T
<1>4. CASE x = 0
  <2>1. PICK f : f = [k \in 0 .. 0 |-> a]
    OBVIOUS
  <2>2. \A k \in 0 .. 0 : StepOf(f, p, a, k) = a
    BY DEF StepOf
  <2>3. f = [k \in 0 .. 0 |-> StepOf(f, p, a, k)]
    BY <2>1, <2>2
  <2> QED
    BY <1>3, <1>4, <2>3 DEF IsSteps
<1>5. CASE x # 0
  <2>1. x - 1 \in Nat /\ x - 1 < x
    BY <1>3, <1>5
  <2>2. PICK f : f = [k \in 0 .. x - 1 |-> StepOf(f, p, a, k)]
    BY <1>3, <2>1 DEF IsSteps
  <2>3. PICK g : g = [k \in 0 .. x |-> IF k = x THEN p[f[x - 1]] ELSE f[k]]
    OBVIOUS
  <2>4. ASSUME NEW k \in 0 .. x PROVE g[k] = StepOf(g, p, a, k)
    <3>1. k # 0 => k - 1 \in 0 .. x /\ k - 1 # x
      BY <1>3
    <3>2. k # 0 => g[k - 1] = f[k - 1]
      BY <2>3, <3>1
    <3>3. CASE k = x
      BY <1>5, <2>3, <3>2, <3>3 DEF StepOf
    <3>4. CASE k # x
      <4>1. k \in 0 .. x - 1
        BY <1>3, <3>4
      <4>2. f[k] = StepOf(f, p, a, k)
        BY <2>2, <4>1
      <4> QED
        BY <2>3, <3>2, <3>4, <4>2 DEF StepOf
    <3> QED
      BY <3>3, <3>4
  <2>5. g = [k \in 0 .. x |-> StepOf(g, p, a, k)]
    BY <2>3, <2>4
  <2> QED
    BY <1>3, <2>5 DEF IsSteps
<1> QED
  BY <1>4, <1>5

\* The steps as the code takes them, and where they end.
Trip(p, a, n) == CHOOSE f : f = [k \in 0 .. n |-> IF k = 0 THEN a ELSE p[f[k - 1]]]
LastOf(f, a, n) == CHOOSE k \in 1 .. n : f[k] = a /\ \A j \in 1 .. k - 1 : f[j] # a

\* w goes from a along p in n steps, and is back at a with the last one only.
IsWalk(w, F, p, a, n) ==
  /\ n \in Nat \ {0} /\ w \in [0 .. n -> F] /\ w[0] = a /\ w[n] = a
  /\ \A k \in 1 .. n : w[k] = p[w[k - 1]]
  /\ \A k \in 1 .. n - 1 : w[k] # a

\* The walk of the code is one: among as many blocks, some step has to come
\* back to one that was seen, and the first that is seen again is a.
LEMMA WalkIs ==
  ASSUME NEW h, IsFiniteSet(DOMAIN h.ptr), NEW F, F \subseteq DOMAIN h.ptr, F \subseteq Nat,
         RingOf(F, h.ptr), NEW a \in F
  PROVE  \E n : IsWalk(Walk(h, a), F, h.ptr, a, n)
<1>1. PICK n, p : n = Cardinality(DOMAIN h.ptr) /\ n \in Nat /\ p = h.ptr
  BY FS_CardinalityType
<1>2. PICK walk : walk = Trip(p, a, n)
  OBVIOUS
<1>3. walk = [k \in 0 .. n |-> StepOf(walk, p, a, k)]
  <2>1. \E f : IsSteps(f, p, a, n)
    BY <1>1, StepsExist, Zenon
  <2>2. \E f : f = [k \in 0 .. n |-> StepOf(f, p, a, k)]
    BY <2>1, Zenon DEF IsSteps
  <2>3. walk = CHOOSE f : f = [k \in 0 .. n |-> StepOf(f, p, a, k)]
    BY <1>2, Zenon DEF Trip, StepOf
  <2> QED
    BY <2>2, <2>3, Zenon
<1>4. walk[0] = a /\ \A k \in 1 .. n : walk[k] = p[walk[k - 1]]
  <2>1. \A k \in 0 .. n : walk[k] = StepOf(walk, p, a, k)
    BY <1>3
  <2>2. 0 \in 0 .. n /\ walk[0] = a
    BY <1>1, <2>1 DEF StepOf
  <2>3. ASSUME NEW k \in 1 .. n PROVE walk[k] = p[walk[k - 1]]
    <3>1. k \in 0 .. n /\ k # 0
      BY <1>1
    <3> QED
      BY <2>1, <3>1 DEF StepOf
  <2> QED
    BY <2>2, <2>3
<1>5. ASSUME NEW k \in 0 .. n PROVE walk[k] \in F
  <2> DEFINE T == {x \in 0 .. n : walk[x] \notin F}
  <2>1. SUFFICES ASSUME T # {} PROVE FALSE
    OBVIOUS
  <2>2. PICK x \in T : \A y \in Nat : y < x => y \notin T
    <3>1. T \subseteq Nat
      BY <1>1
    <3> QED
      BY <2>1, <3>1, LeastAddress, Zenon
  <2>3. x # 0
    BY <1>4, <2>2
  <2>4. x \in 1 .. n /\ x - 1 \in Nat /\ x - 1 < x /\ x - 1 \in 0 .. n
    BY <1>1, <2>2, <2>3
  <2>5. walk[x - 1] \in F
    BY <2>2, <2>4
  <2>6. walk[x] \in F
    BY <1>1, <1>4, <2>4, <2>5 DEF RingOf, Follows
  <2> QED
    BY <2>2, <2>6
<1>6. walk \in [0 .. n -> F]
  BY <1>3, <1>5
<1>7. \E k \in 1 .. n : walk[k] = a
  <2>1. IsFiniteSet(F) /\ Cardinality(F) <= n /\ Cardinality(F) \in Nat
    BY <1>1, FS_Subset, FS_CardinalityType
  <2>2. IsFiniteSet(0 .. n) /\ Cardinality(0 .. n) = n + 1
    BY <1>1, FS_Interval
  <2>3. \E x, y \in 0 .. n : x # y /\ walk[x] = walk[y]
    <3>1. Cardinality(F) < Cardinality(0 .. n)
      BY <1>1, <2>1, <2>2
    <3> QED
      BY <1>6, <2>1, <2>2, <3>1, FS_PigeonHole, Zenon
  <2> DEFINE T == {x \in 0 .. n : \E y \in 0 .. n : x < y /\ walk[x] = walk[y]}
  <2>4. T # {} /\ T \subseteq Nat
    BY <1>1, <2>3
  <2>5. PICK x \in T : \A y \in Nat : y < x => y \notin T
    BY <2>4, LeastAddress, Zenon
  <2>6. PICK y \in 0 .. n : x < y /\ walk[x] = walk[y]
    BY <2>5
  <2>7. ASSUME x # 0 PROVE FALSE
    <3>1. /\ x \in 1 .. n /\ y \in 1 .. n /\ x - 1 \in 0 .. n /\ y - 1 \in 0 .. n
          /\ x - 1 \in Nat /\ x - 1 < x /\ x - 1 < y - 1
      BY <1>1, <2>5, <2>6, <2>7
    <3>2. walk[x - 1] \in F /\ walk[y - 1] \in F
      BY <1>5, <3>1
    <3>3. Follows(F, walk[x - 1], walk[x]) /\ Follows(F, walk[y - 1], walk[x])
      BY <1>1, <1>4, <2>6, <3>1, <3>2 DEF RingOf
    <3>4. walk[x - 1] = walk[y - 1]
      BY <3>2, <3>3, FollowsOnce
    <3> QED
      BY <2>5, <3>1, <3>4
  <2>8. y \in 1 .. n /\ walk[y] = a
    BY <1>1, <1>4, <2>6, <2>7
  <2> QED
    BY <2>8
<1>8. \E k \in 1 .. n : walk[k] = a /\ \A j \in 1 .. k - 1 : walk[j] # a
  <2> DEFINE T == {k \in 1 .. n : walk[k] = a}
  <2>1. T \subseteq Nat /\ T # {}
    BY <1>1, <1>7
  <2>2. PICK k \in T : \A y \in Nat : y < k => y \notin T
    BY <2>1, LeastAddress, Zenon
  <2>3. \A j \in 1 .. k - 1 : j \in Nat /\ j < k /\ j \in 1 .. n
    BY <1>1, <2>2
  <2> QED
    BY <2>2, <2>3
<1>9. PICK last : last = LastOf(walk, a, n)
  OBVIOUS
<1>10. last \in 1 .. n /\ walk[last] = a /\ \A j \in 1 .. last - 1 : walk[j] # a
  BY <1>8, <1>9 DEF LastOf
<1>11. Walk(h, a) = [k \in 0 .. last |-> walk[k]]
  <2>1. walk = Trip(h.ptr, a, Cardinality(DOMAIN h.ptr))
    BY <1>1, <1>2
  <2>2. last = LastOf(walk, a, Cardinality(DOMAIN h.ptr))
    BY <1>1, <1>9
  <2> QED
    BY <2>1, <2>2 DEF Walk, Trip, LastOf
<1>12. PICK w : w = Walk(h, a)
  OBVIOUS
<1>13. \A k \in 0 .. last : k \in 0 .. n /\ w[k] = walk[k]
  BY <1>1, <1>10, <1>11, <1>12
<1>14. w \in [0 .. last -> F]
  BY <1>5, <1>11, <1>12, <1>13
<1>15. w[0] = a /\ w[last] = a
  BY <1>1, <1>4, <1>10, <1>13
<1>16. \A k \in 1 .. last : w[k] = p[w[k - 1]]
  <2>1. \A k \in 1 .. last : k \in 1 .. n /\ k \in 0 .. last /\ k - 1 \in 0 .. last
    BY <1>1, <1>10
  <2> QED
    BY <1>4, <1>13, <2>1
<1>17. \A k \in 1 .. last - 1 : w[k] # a
  BY <1>1, <1>10, <1>13
<1>18. last \in Nat \ {0}
  BY <1>1, <1>10
<1>19. IsWalk(w, F, p, a, last)
  BY <1>14, <1>15, <1>16, <1>17, <1>18 DEF IsWalk
<1> QED
  BY <1>1, <1>12, <1>19

\* The walk w of n steps sees every block of F; it goes up until the last step.
Sees(w, F, n) == \A x \in F : \E k \in 1 .. n : w[k] = x
Rises(w, n) == \A k \in 1 .. n - 1 : \A j \in 0 .. k - 1 : w[j] < w[k]

\* The walk sees every block of the ring, after its first step.
LEMMA WalkAll ==
  ASSUME NEW F, F \subseteq Nat, Base \in F, NEW t \in Nat, \A x \in F : x <= t,
         NEW p, RingOf(F, p), NEW w, NEW a, NEW n, IsWalk(w, F, p, a, n)
  PROVE  Sees(w, F, n)
<1>1. PICK R : R = {w[k] : k \in 1 .. n}
  OBVIOUS
<1>2. /\ n \in Nat \ {0} /\ w \in [0 .. n -> F] /\ w[0] = a /\ w[n] = a
      /\ \A k \in 1 .. n : w[k] = p[w[k - 1]]
  BY DEF IsWalk
<1>3. R \subseteq F
  <2>1. \A k \in 1 .. n : k \in 0 .. n
    BY <1>2
  <2> QED
    BY <1>1, <1>2, <2>1
<1>4. R # {}
  <2>1. 1 \in 1 .. n
    BY <1>2
  <2> QED
    BY <1>1, <2>1
<1>5. ASSUME NEW k \in 1 .. n PROVE p[w[k]] \in R
  <2>1. CASE k = n
    <3>1. 1 \in 1 .. n /\ 1 - 1 = 0
      BY <1>2
    <3>2. w[1] = p[a]
      BY <1>2, <3>1
    <3> QED
      BY <1>1, <1>2, <2>1, <3>1, <3>2
  <2>2. CASE k # n
    <3>1. k + 1 \in 1 .. n /\ (k + 1) - 1 = k
      BY <1>2, <2>2
    <3>2. w[k + 1] = p[w[k]]
      BY <1>2, <3>1
    <3> QED
      BY <1>1, <3>1, <3>2
  <2> QED
    BY <2>1, <2>2
<1>6. \A x \in R : p[x] \in R
  BY <1>1, <1>5
<1>7. R = F
  BY <1>3, <1>4, <1>6, ClosedIsAll
<1> QED
  BY <1>1, <1>7 DEF Sees

\* From Base on the walk goes up until it is back.
LEMMA WalkUp ==
  ASSUME NEW F, F \subseteq Nat, Base \in F, NEW p, RingOf(F, p),
         NEW w, NEW n, IsWalk(w, F, p, Base, n)
  PROVE  Rises(w, n)
<1>1. /\ n \in Nat \ {0} /\ w \in [0 .. n -> F]
      /\ \A k \in 1 .. n : w[k] = p[w[k - 1]]
      /\ \A k \in 1 .. n - 1 : w[k] # Base
  BY DEF IsWalk
<1>2. ASSUME NEW k \in 1 .. n - 1 PROVE w[k - 1] < w[k]
  <2>1. k \in 1 .. n /\ k - 1 \in 0 .. n
    BY <1>1
  <2>2. w[k - 1] \in F
    BY <1>1, <2>1
  <2>3. Follows(F, w[k - 1], w[k])
    BY <1>1, <2>1, <2>2 DEF RingOf
  <2> QED
    BY <1>1, <2>3 DEF Follows
<1>3. SUFFICES ASSUME NEW j \in Nat, NEW m \in 1 .. n - 1, j < m, ~ (w[j] < w[m]) PROVE FALSE
  BY <1>1 DEF Rises
<1> DEFINE T == {k \in 1 .. n - 1 : j < k /\ ~ (w[j] < w[k])}
<1>4. PICK k \in T : \A y \in Nat : y < k => y \notin T
  <2>1. T \subseteq Nat /\ T # {}
    <3>1. m \in T
      BY <1>3
    <3>2. \A k \in 1 .. n - 1 : k \in Nat
      BY <1>1
    <3> QED
      BY <3>1, <3>2
  <2> QED
    BY <2>1, LeastAddress, Zenon
<1>5. k \in 1 .. n - 1 /\ j < k /\ ~ (w[j] < w[k]) /\ k - 1 \in Nat /\ k - 1 < k
  BY <1>1, <1>4
<1>6. j # k - 1
  BY <1>2, <1>5
<1>7. k - 1 \in 1 .. n - 1 /\ j < k - 1
  BY <1>1, <1>3, <1>5, <1>6
<1>8. w[j] < w[k - 1]
  BY <1>4, <1>5, <1>7
<1>9. w[j] \in Nat /\ w[k - 1] \in Nat /\ w[k] \in Nat
  <2>1. j \in 0 .. n /\ k - 1 \in 0 .. n /\ k \in 0 .. n
    BY <1>1, <1>3, <1>5, <1>7
  <2> QED
    BY <1>1, <2>1
<1> QED
  BY <1>2, <1>5, <1>8, <1>9

\* The search stops at the first one that it looks for.
LEMMA FirstIs ==
  ASSUME NEW s, NEW P, DOMAIN s \subseteq Nat, \E k \in DOMAIN s : s[k] \in P
  PROVE  First(s, P) \in P /\ \E k \in DOMAIN s : s[k] = First(s, P)
<1> DEFINE T == {k \in DOMAIN s : s[k] \in P}
<1>1. PICK k \in T : \A y \in Nat : y < k => y \notin T
  <2>1. T \subseteq Nat /\ T # {}
    OBVIOUS
  <2> QED
    BY <2>1, LeastAddress, Zenon
<1>2. k \in DOMAIN s /\ s[k] \in P /\ \A j \in DOMAIN s : j < k => s[j] \notin P
  BY <1>1
<1>3. PICK c : c = CHOOSE x \in DOMAIN s : s[x] \in P /\ \A j \in DOMAIN s : j < x => s[j] \notin P
  OBVIOUS
<1>4. c \in DOMAIN s /\ s[c] \in P
  BY <1>2, <1>3
<1>5. First(s, P) = s[c]
  BY <1>3, Zenon DEF First
<1> QED
  BY <1>4, <1>5

FreeOn(h, U) == DOMAIN h.bsize \ U

\* What the walks need of a heap.
LEMMA HeapRing ==
  ASSUME NEW h, NEW U, NEW t \in Nat, HeapOK(h, U, t)
  PROVE  /\ FreeOn(h, U) \subseteq Nat /\ Base \in FreeOn(h, U) /\ h.freep \in FreeOn(h, U)
         /\ RingOf(FreeOn(h, U), h.ptr) /\ FreeOn(h, U) \subseteq DOMAIN h.ptr
         /\ IsFiniteSet(DOMAIN h.ptr) /\ \A x \in FreeOn(h, U) : x <= t
<1>1. /\ DOMAIN h.ptr = DOMAIN h.bsize /\ Fills(DOMAIN h.bsize, h.bsize, t)
      /\ U \subseteq DOMAIN h.bsize \ {Base} /\ RingOf(DOMAIN h.bsize \ U, h.ptr)
      /\ h.freep \in DOMAIN h.bsize \ U
  BY DEF HeapOK
<1>2. PICK D : D = DOMAIN h.bsize
  OBVIOUS
<1>3. D \subseteq Nat /\ Base \in D /\ \A a \in D : a <= t
  <2>1. D \subseteq Nat /\ Base \in D
    BY <1>1, <1>2 DEF Fills
  <2>2. ASSUME NEW a \in D PROVE a <= t
    <3>1. CASE a = Base
      BY <3>1 DEF Base
    <3>2. CASE a # Base
      <4>1. a + h.bsize[a] <= t /\ h.bsize[a] \in Nat
        BY <1>1, <1>2, <3>2 DEF Fills
      <4> QED
        BY <2>1, <4>1
    <3> QED
      BY <3>1, <3>2
  <2> QED
    BY <2>1, <2>2
<1>4. IsFiniteSet(D)
  BY <1>3, FS_BoundedSetOfNaturals
<1> QED
  BY <1>1, <1>2, <1>3, <1>4 DEF FreeOn

\* The blocks on the ring are those not in use.
LEMMA OnRingIs ==
  ASSUME NEW h, NEW U, NEW t \in Nat, HeapOK(h, U, t)
  PROVE  OnRing(h) = FreeOn(h, U)
<1>1. PICK F : F = FreeOn(h, U)
  OBVIOUS
<1>2. /\ F \subseteq Nat /\ Base \in F /\ h.freep \in F /\ RingOf(F, h.ptr)
      /\ F \subseteq DOMAIN h.ptr /\ IsFiniteSet(DOMAIN h.ptr) /\ \A x \in F : x <= t
  BY <1>1, HeapRing
<1>3. PICK n : IsWalk(Walk(h, h.freep), F, h.ptr, h.freep, n)
  BY <1>2, WalkIs
<1>4. PICK w : w = Walk(h, h.freep)
  OBVIOUS
<1>5. n \in Nat \ {0} /\ w \in [0 .. n -> F]
  BY <1>3, <1>4 DEF IsWalk
<1>6. \A x \in F : \E k \in 1 .. n : w[k] = x
  <2>1. IsWalk(w, F, h.ptr, h.freep, n)
    BY <1>3, <1>4
  <2>2. F \subseteq Nat /\ Base \in F /\ RingOf(F, h.ptr)
    BY <1>2
  <2>3. \A x \in F : x <= t
    BY <1>2
  <2> QED
    <3>1. Sees(w, F, n)
      BY <2>1, <2>2, <2>3, WalkAll
    <3> QED
      BY <3>1 DEF Sees
<1>7. DOMAIN w \ {0} = 1 .. n
  BY <1>5
<1>8. Ring(h, h.freep) = [k \in 1 .. n |-> w[k]]
  BY <1>4, <1>7 DEF Ring
<1>9. OnRing(h) = {w[k] : k \in 1 .. n}
  BY <1>8 DEF OnRing
<1>10. \A k \in 1 .. n : w[k] \in F
  BY <1>5
<1> QED
  BY <1>1, <1>6, <1>9, <1>10

-----------------------------------------------------------------------------
(* free().                                                                  *)

\* p is the last one of F before x, which is not of F.
Before(F, p, x) == p \in F /\ p < x /\ \A c \in F : c <= p \/ x < c

\* The loop of free() stops at the block of the ring before bp.
LEMMA WhereIs ==
  ASSUME NEW h, NEW U, NEW t \in Nat, HeapOK(h, U, t), NEW bp \in U
  PROVE  Before(FreeOn(h, U), First(Walk(h, h.freep), Around(h, bp)), bp)
<1>1. PICK F, a, p : F = FreeOn(h, U) /\ a = h.freep /\ p = h.ptr
  OBVIOUS
<1>2. /\ F \subseteq Nat /\ Base \in F /\ a \in F /\ RingOf(F, p) /\ F \subseteq DOMAIN p
      /\ IsFiniteSet(DOMAIN p)
  BY <1>1, HeapRing
<1>3. \A x \in F : x <= t
  BY <1>1, HeapRing
<1>4. bp \in Nat /\ bp > Base /\ bp \notin F
  <2>1. U \subseteq DOMAIN h.bsize \ {Base} /\ DOMAIN h.bsize \subseteq Nat
    BY DEF HeapOK, Fills
  <2> QED
    BY <1>1, <2>1 DEF FreeOn, Base
<1>5. PICK q \in F : q < bp /\ \A c \in F : c <= q \/ bp <= c
  BY <1>2, <1>4, LastBefore
<1>6. q \in Around(h, bp)
  <2>1. Follows(F, q, p[q]) /\ p[q] \in F /\ p[q] \in Nat /\ q \in Nat
    BY <1>2 DEF RingOf, Follows
  <2>2. q \in DOMAIN h.ptr
    BY <1>1, <1>2
  <2>3. p[q] # bp
    BY <1>4, <2>1
  <2>4. CASE p[q] = Base
    <3>1. q >= p[q] /\ bp > q
      BY <1>5, <2>1, <2>4 DEF Base
    <3> QED
      BY <1>1, <2>2, <3>1 DEF Around
  <2>5. CASE q < p[q]
    <3>1. bp <= p[q]
      BY <1>5, <2>1, <2>5
    <3>2. bp < p[q] /\ bp > q
      BY <1>4, <1>5, <2>1, <2>3, <3>1
    <3> QED
      BY <1>1, <2>2, <3>2 DEF Around
  <2> QED
    BY <2>1, <2>4, <2>5 DEF Follows
<1>7. PICK w : w = Walk(h, a)
  OBVIOUS
<1>8. PICK n : IsWalk(w, F, p, a, n)
  BY <1>1, <1>2, <1>7, WalkIs
<1>9. n \in Nat \ {0} /\ w \in [0 .. n -> F]
  BY <1>8 DEF IsWalk
<1>10. Sees(w, F, n)
  BY <1>2, <1>3, <1>8, WalkAll
<1>11. PICK k \in 1 .. n : w[k] = q
  BY <1>10 DEF Sees
<1>12. PICK x : x = First(w, Around(h, bp))
  OBVIOUS
<1>13. x \in Around(h, bp) /\ x \in F
  <2>1. DOMAIN w \subseteq Nat /\ k \in DOMAIN w
    BY <1>9
  <2>2. \E j \in DOMAIN w : w[j] \in Around(h, bp)
    BY <1>6, <1>11, <2>1
  <2>3. x \in Around(h, bp) /\ \E j \in DOMAIN w : w[j] = x
    BY <1>12, <2>1, <2>2, FirstIs
  <2> QED
    BY <1>9, <2>3
<1>14. \/ bp > x /\ bp < p[x]
       \/ x >= p[x] /\ (bp > x \/ bp < p[x])
  BY <1>1, <1>13 DEF Around
<1>15. Follows(F, x, p[x]) /\ x \in Nat /\ p[x] \in F /\ p[x] \in Nat
  BY <1>2, <1>13 DEF RingOf, Follows
<1>16. Before(F, x, bp)
  <2>1. CASE x < p[x] /\ \A c \in F : c <= x \/ p[x] <= c
    <3>1. bp > x /\ bp < p[x]
      BY <1>4, <1>14, <1>15, <2>1
    <3>2. \A c \in F : c <= x \/ bp < c
      BY <1>2, <1>4, <1>15, <2>1, <3>1
    <3> QED
      BY <1>13, <3>1, <3>2 DEF Before
  <2>2. CASE p[x] = Base /\ \A c \in F : c <= x
    <3>1. bp > x
      BY <1>4, <1>14, <1>15, <2>2 DEF Base
    <3> QED
      BY <1>13, <2>2, <3>1 DEF Before
  <2> QED
    BY <1>15, <2>1, <2>2 DEF Follows
<1> QED
  BY <1>1, <1>7, <1>12, <1>16

\* The heap between the two joins: bp is on the ring but p does not yet point to it.
Half(g, V, bp, p, t) ==
  /\ g = [ptr |-> g.ptr, bsize |-> g.bsize, freep |-> g.freep]
  /\ DOMAIN g.ptr = DOMAIN g.bsize /\ Fills(DOMAIN g.bsize, g.bsize, t)
  /\ V \subseteq DOMAIN g.bsize \ {Base}
  /\ bp \in FreeOn(g, V) /\ Before(FreeOn(g, V) \ {bp}, p, bp)
  /\ \A a \in FreeOn(g, V) \ {p} : Follows(FreeOn(g, V), a, g.ptr[a])
  /\ \A a, b \in FreeOn(g, V) : a < b /\ ~ (a = p /\ b = bp) => a + g.bsize[a] < b

\* The blocks of V are as they were.
SameOn(g, h, V) == \A a \in V : a \in DOMAIN g.bsize /\ g.bsize[a] = h.bsize[a]

\* Parts of a heap that are set.
LEMMA HeapSet ==
  ASSUME NEW h, h = [ptr |-> h.ptr, bsize |-> h.bsize, freep |-> h.freep], NEW x, NEW y, NEW z
  PROVE  /\ [h EXCEPT !.bsize = x, !.ptr = y] = [ptr |-> y, bsize |-> x, freep |-> h.freep]
         /\ [h EXCEPT !.ptr = y] = [ptr |-> y, bsize |-> h.bsize, freep |-> h.freep]
         /\ [h EXCEPT !.freep = z] = [ptr |-> h.ptr, bsize |-> h.bsize, freep |-> z]
<1>1. PICK p, s, f : p = h.ptr /\ s = h.bsize /\ f = h.freep
  OBVIOUS
<1>2. h = [ptr |-> p, bsize |-> s, freep |-> f]
  BY <1>1
<1>3. [h EXCEPT !.bsize = x, !.ptr = y] = [ptr |-> y, bsize |-> x, freep |-> f]
  <2>1. PICK u : u = [h EXCEPT !.bsize = x]
    OBVIOUS
  <2>2. u = [ptr |-> p, bsize |-> x, freep |-> f]
    BY <1>2, <2>1
  <2>3. [u EXCEPT !.ptr = y] = [ptr |-> y, bsize |-> x, freep |-> f]
    BY <2>2
  <2>4. [h EXCEPT !.bsize = x, !.ptr = y] = [u EXCEPT !.ptr = y]
    BY <2>1
  <2> QED
    BY <2>3, <2>4, Zenon
<1>4. [h EXCEPT !.ptr = y] = [ptr |-> y, bsize |-> s, freep |-> f]
  BY <1>2
<1>5. [h EXCEPT !.freep = z] = [ptr |-> p, bsize |-> s, freep |-> z]
  BY <1>2
<1> QED
  BY <1>1, <1>3, <1>4, <1>5, Zenon

\* A block grows by the one right behind it, which is no block any more.
LEMMA FillsJoined ==
  ASSUME NEW D, NEW z, NEW t \in Nat, Fills(D, z, t), NEW a \in D \ {Base}, NEW b \in D \ {Base},
         a + z[a] = b, NEW y, y = [x \in D \ {b} |-> y[x]], y[a] = z[a] + z[b],
         \A x \in D \ {a, b} : y[x] = z[x]
  PROVE  Fills(D \ {b}, y, t)
<1>1. /\ D \subseteq Nat /\ Base \in D /\ z \in [D -> Nat] /\ z[Base] = 0
      /\ \A x \in D \ {Base} : z[x] >= 1 /\ BREAK <= x /\ x + z[x] <= t
      /\ \A x, u \in D : x < u => x + z[x] <= u
      /\ \A u \in BREAK .. t - 1 : \E x \in D : x <= u /\ u < x + z[x]
  BY DEF Fills
<1>2. a < b /\ a \in Nat /\ b \in Nat /\ z[a] \in Nat /\ z[b] \in Nat
  BY <1>1
<1>3. \A x \in D \ {b} : y[x] \in Nat
  BY <1>1, <1>2
<1>4. ASSUME NEW x \in (D \ {b}) \ {Base} PROVE y[x] >= 1 /\ BREAK <= x /\ x + y[x] <= t
  <2>1. CASE x = a
    <3>1. z[a] >= 1 /\ BREAK <= a /\ b + z[b] <= t
      BY <1>1
    <3> QED
      BY <1>2, <2>1, <3>1
  <2>2. CASE x # a
    BY <1>1, <2>2
  <2> QED
    BY <2>1, <2>2
<1>5. ASSUME NEW x \in D \ {b}, NEW u \in D \ {b}, x < u PROVE x + y[x] <= u
  <2>1. x \in Nat /\ u \in Nat /\ x + z[x] <= u
    BY <1>1, <1>5
  <2>2. CASE x = a
    <3>1. b < u
      BY <1>2, <2>1, <2>2
    <3>2. b + z[b] <= u
      BY <1>1, <3>1
    <3> QED
      BY <1>2, <2>1, <2>2, <3>2
  <2>3. CASE x # a
    BY <2>1, <2>3
  <2> QED
    BY <2>2, <2>3
<1>6. ASSUME NEW u \in BREAK .. t - 1 PROVE \E x \in D \ {b} : x <= u /\ u < x + y[x]
  <2>1. PICK x \in D : x <= u /\ u < x + z[x]
    BY <1>1
  <2>2. u \in Int
    BY UmTypes
  <2>3. CASE x = a \/ x = b
    <3>1. a <= u /\ u < a + y[a]
      BY <1>2, <2>1, <2>2, <2>3
    <3> QED
      BY <1>2, <3>1
  <2>4. CASE x # a /\ x # b
    BY <2>1, <2>4
  <2> QED
    BY <2>3, <2>4
<1>7. y[Base] = 0
  BY <1>1
<1>8. y \in [D \ {b} -> Nat]
  BY <1>3
<1>9. D \ {b} \subseteq Nat /\ Base \in D \ {b}
  BY <1>1
<1> QED
  BY <1>4, <1>5, <1>6, <1>7, <1>8, <1>9 DEF Fills

JoinOf(h, a, b) == [ptr |-> Less([h.ptr EXCEPT ![a] = h.ptr[b]], b),
                    bsize |-> Less([h.bsize EXCEPT ![a] = h.bsize[a] + h.bsize[b]], b),
                    freep |-> h.freep]
PointOf(h, a, b) == [ptr |-> [h.ptr EXCEPT ![a] = b], bsize |-> h.bsize, freep |-> h.freep]

\* What joining and pointing make of a heap.
LEMMA MergedIs ==
  ASSUME NEW h, h = [ptr |-> h.ptr, bsize |-> h.bsize, freep |-> h.freep], NEW a, NEW b
  PROVE  Merged(h, a, b) = JoinOf(h, a, b) /\ Pointed(h, a, b) = PointOf(h, a, b)
<1>1. PICK x, y : /\ x = Less([h.bsize EXCEPT ![a] = h.bsize[a] + h.bsize[b]], b)
                  /\ y = Less([h.ptr EXCEPT ![a] = h.ptr[b]], b)
  OBVIOUS
<1>2. Merged(h, a, b) = [h EXCEPT !.bsize = x, !.ptr = y]
  BY <1>1, Zenon DEF Merged
<1>3. Merged(h, a, b) = [ptr |-> y, bsize |-> x, freep |-> h.freep]
  BY <1>2, HeapSet, Zenon
<1>4. PICK z : z = [h.ptr EXCEPT ![a] = b]
  OBVIOUS
<1>5. Pointed(h, a, b) = [h EXCEPT !.ptr = z]
  BY <1>4, Zenon DEF Pointed
<1>6. Pointed(h, a, b) = [ptr |-> z, bsize |-> h.bsize, freep |-> h.freep]
  BY <1>5, HeapSet, Zenon
<1> QED
  BY <1>1, <1>3, <1>4, <1>6, Zenon DEF JoinOf, PointOf

UpKept(g, h, U, bp, p, t) == /\ Half(g, U \ {bp}, bp, p, t) /\ SameOn(g, h, U \ {bp})
                             /\ g.bsize[bp] >= h.bsize[bp] /\ h.bsize[bp] \in Nat

\* The first join puts bp on the ring before the block that follows p, or joins the two.
LEMMA JoinUpKeeps ==
  ASSUME NEW h, NEW U, NEW t \in Nat, HeapOK(h, U, t), NEW bp \in U, NEW p,
         Before(FreeOn(h, U), p, bp)
  PROVE  UpKept(JoinsUp(h, bp, p), h, U, bp, p, t)
<1>1. PICK D, z, q, F, r, g, V : /\ D = DOMAIN h.bsize /\ z = h.bsize /\ q = h.ptr
                                 /\ F = FreeOn(h, U) /\ r = h.ptr[p] /\ g = JoinsUp(h, bp, p)
                                 /\ V = U \ {bp}
  OBVIOUS
<1>2. /\ D \subseteq Nat /\ Base \in D /\ z \in [D -> Nat] /\ z[Base] = 0
      /\ \A a \in D \ {Base} : z[a] >= 1 /\ BREAK <= a /\ a + z[a] <= t
      /\ \A a, b \in D : a < b => a + z[a] <= b
  BY <1>1 DEF HeapOK, Fills
<1>3. F = D \ U /\ U \subseteq D \ {Base} /\ DOMAIN q = D
  BY <1>1 DEF HeapOK, FreeOn
<1>4. \A a \in F : Follows(F, a, q[a])
  BY <1>1 DEF HeapOK, FreeOn, RingOf
<1>5. \A a, b \in F : a < b => a + z[a] < b
  BY <1>1 DEF HeapOK, FreeOn, NoneJoin
<1>6. p \in F /\ p < bp /\ \A c \in F : c <= p \/ bp < c
  BY <1>1 DEF Before
<1>7. bp \in D /\ bp # Base /\ bp \in Nat /\ bp \notin F /\ p \in Nat /\ F \subseteq Nat
      /\ z[bp] \in Nat /\ z[bp] >= 1
  BY <1>2, <1>3, <1>6
<1>8. Follows(F, p, r)
  BY <1>1, <1>4, <1>6
<1>9. r \in F /\ r \in Nat /\ (r = Base \/ bp < r)
  <2>1. r \in F /\ r \in Nat
    BY <1>7, <1>8 DEF Follows
  <2>2. p < r \/ r = Base
    BY <1>8 DEF Follows
  <2> QED
    BY <1>6, <1>7, <2>1, <2>2
<1>10. /\ h = [ptr |-> h.ptr, bsize |-> h.bsize, freep |-> h.freep]
       /\ Fills(D, z, t)
  <2>1. HeapOK(h, U, t)
    OBVIOUS
  <2>2. Fills(DOMAIN h.bsize, h.bsize, t)
    BY <2>1, Zenon DEF HeapOK
  <2> QED
    BY <1>1, <2>1, <2>2, Zenon DEF HeapOK
<1>11. \A c \in F : c <= p \/ (r # Base /\ r <= c)
  <2>1. \/ p < r /\ \A c \in F : c <= p \/ r <= c
        \/ r = Base /\ \A c \in F : c <= p
    BY <1>8 DEF Follows
  <2>2. p < r => r # Base
    BY <1>7, <1>9 DEF Base
  <2> QED
    BY <2>1, <2>2
<1>12. CASE bp + z[bp] = r
  <2>1. r # Base /\ bp < r
    BY <1>7, <1>9, <1>12 DEF Base
  <2>2. PICK y, x : y = Less([z EXCEPT ![bp] = z[bp] + z[r]], r) /\ x = Less([q EXCEPT ![bp] = q[r]], r)
    OBVIOUS
  <2>3. g = [ptr |-> x, bsize |-> y, freep |-> h.freep]
    <3>1. g = Merged(h, bp, r)
      BY <1>1, <1>12 DEF JoinsUp
    <3> QED
      <4>1. h = [ptr |-> h.ptr, bsize |-> h.bsize, freep |-> h.freep]
        BY <1>10
      <4>2. g = JoinOf(h, bp, r)
        BY <3>1, <4>1, MergedIs
      <4>3. h.ptr = q /\ h.bsize = z
        BY <1>1
      <4> QED
        BY <2>2, <4>2, <4>3 DEF JoinOf
  <2>4. g.ptr = x /\ g.bsize = y /\ g = [ptr |-> g.ptr, bsize |-> g.bsize, freep |-> g.freep]
    BY <2>3
  <2>5. /\ y = [a \in D \ {r} |-> y[a]] /\ y[bp] = z[bp] + z[r]
        /\ \A a \in D \ {bp, r} : y[a] = z[a]
    BY <1>2, <1>7, <1>9, <2>1, <2>2 DEF Less
  <2>6. DOMAIN x = D \ {r} /\ x[bp] = q[r] /\ \A a \in D \ {bp, r} : x[a] = q[a]
    BY <1>3, <1>7, <1>9, <2>1, <2>2 DEF Less
  <2>7. r \in D
    BY <1>3, <1>9
  <2>8. Fills(D \ {r}, y, t)
    <3>1. bp \in D \ {Base} /\ r \in D \ {Base} /\ Fills(D, z, t)
      BY <1>7, <1>10, <2>1, <2>7
    <3>2. y = [a \in D \ {r} |-> y[a]] /\ y[bp] = z[bp] + z[r]
      BY <2>5
    <3>3. \A a \in D \ {bp, r} : y[a] = z[a]
      BY <2>5
    <3> QED
      BY <1>12, <3>1, <3>2, <3>3, FillsJoined
  <2>9. PICK G : G = FreeOn(g, V)
    OBVIOUS
  <2>10. G = (F \ {r}) \cup {bp}
    BY <1>1, <1>3, <1>7, <2>1, <2>4, <2>5, <2>9 DEF FreeOn
  <2>11. DOMAIN y = D \ {r}
    BY <2>5
  <2>12. Before(G \ {bp}, p, bp)
    BY <1>6, <1>7, <2>1, <2>10 DEF Before
  <2>13. ASSUME NEW a \in G \ {p} PROVE Follows(G, a, x[a])
    <3>1. CASE a = bp
      <4>1. Follows(F, r, q[r])
        BY <1>4, <1>9
      <4>2. q[r] \in F /\ q[r] \in Nat /\ q[r] # r
        <5>1. q[r] \in F /\ (r < q[r] \/ q[r] = Base)
          BY <4>1 DEF Follows
        <5>2. q[r] \in Nat /\ r \in Nat
          BY <1>7, <1>9, <5>1
        <5> QED
          BY <2>1, <5>1, <5>2
      <4>3. \A c \in G : c <= bp \/ r < c
        BY <1>6, <1>7, <1>9, <1>11, <2>10
      <4>4. CASE r < q[r] /\ \A c \in F : c <= r \/ q[r] <= c
        <5>1. bp < q[r] /\ \A c \in G : c <= bp \/ q[r] <= c
          BY <1>7, <1>9, <2>1, <2>10, <4>2, <4>3, <4>4
        <5> QED
          BY <2>6, <2>10, <3>1, <4>2, <5>1 DEF Follows
      <4>5. CASE q[r] = Base /\ \A c \in F : c <= r
        <5>1. \A c \in G : c <= bp
          BY <1>7, <1>9, <2>1, <2>10, <4>3, <4>5
        <5> QED
          BY <2>6, <2>10, <3>1, <4>2, <4>5, <5>1 DEF Follows
      <4> QED
        BY <4>1, <4>4, <4>5 DEF Follows
    <3>2. CASE a # bp
      <4>1. a \in F /\ a # r /\ a # p /\ a \in D \ {bp, r}
        BY <1>3, <1>7, <2>10, <3>2
      <4>2. Follows(F, a, q[a]) /\ x[a] = q[a]
        BY <1>4, <2>6, <4>1
      <4>3. q[a] # r
        BY <1>6, <1>7, <1>8, <4>1, <4>2, FollowsOnce
      <4>4. q[a] \in F /\ q[a] \in Nat /\ a \in Nat /\ q[a] \in G
        BY <1>7, <2>10, <4>1, <4>2, <4>3 DEF Follows
      <4>5. CASE a < q[a] /\ \A c \in F : c <= a \/ q[a] <= c
        <5>1. bp <= a \/ q[a] <= bp
          BY <1>6, <1>7, <4>1, <4>4, <4>5
        <5>2. \A c \in G : c <= a \/ q[a] <= c
          BY <2>10, <4>5, <5>1
        <5> QED
          BY <4>2, <4>4, <4>5, <5>2 DEF Follows
      <4>6. CASE q[a] = Base /\ \A c \in F : c <= a
        <5>1. bp <= a
          BY <1>7, <1>9, <2>1, <4>4, <4>6
        <5>2. \A c \in G : c <= a
          BY <2>10, <4>6, <5>1
        <5> QED
          BY <4>2, <4>4, <4>6, <5>2 DEF Follows
      <4> QED
        BY <4>2, <4>5, <4>6 DEF Follows
    <3> QED
      BY <3>1, <3>2
  <2>14. ASSUME NEW a \in G, NEW b \in G, a < b, ~ (a = p /\ b = bp) PROVE a + y[a] < b
    <3>1. CASE a = bp
      <4>1. b \in F /\ b \in Nat /\ r < b
        BY <1>6, <1>7, <1>9, <1>11, <2>10, <2>14, <3>1
      <4>2. r + z[r] < b
        BY <1>5, <1>9, <4>1
      <4>3. z[r] \in Nat
        BY <1>2, <2>7
      <4> QED
        BY <1>7, <1>9, <1>12, <2>5, <3>1, <4>1, <4>2, <4>3
    <3>2. CASE a # bp
      <4>1. a \in F /\ a \in D \ {bp, r} /\ y[a] = z[a] /\ a \in Nat /\ z[a] \in Nat
        BY <1>2, <1>3, <1>7, <2>5, <2>10, <3>2
      <4>2. CASE b = bp
        <5>1. a < p
          BY <1>6, <1>7, <2>14, <4>1, <4>2
        <5>2. a + z[a] < p
          BY <1>5, <1>6, <4>1, <5>1
        <5> QED
          BY <1>6, <1>7, <4>1, <4>2, <5>2
      <4>3. CASE b # bp
        <5>1. b \in F
          BY <2>10, <4>3
        <5> QED
          BY <1>5, <2>14, <4>1, <5>1
      <4> QED
        BY <4>2, <4>3
    <3> QED
      BY <3>1, <3>2
  <2>15. V \subseteq (D \ {r}) \ {Base} /\ bp \in G
    BY <1>1, <1>3, <1>9, <2>10
  <2>16. Half(g, V, bp, p, t)
    <3>1. DOMAIN g.ptr = DOMAIN g.bsize /\ Fills(DOMAIN g.bsize, g.bsize, t)
      BY <2>4, <2>6, <2>8, <2>11
    <3>2. V \subseteq DOMAIN g.bsize \ {Base}
      BY <2>4, <2>11, <2>15
    <3>3. \A a \in FreeOn(g, V) \ {p} : Follows(FreeOn(g, V), a, g.ptr[a])
      BY <2>4, <2>9, <2>13
    <3>4. \A a, b \in FreeOn(g, V) : a < b /\ ~ (a = p /\ b = bp) => a + g.bsize[a] < b
      BY <2>4, <2>9, <2>14
    <3> QED
      BY <2>4, <2>9, <2>12, <2>15, <3>1, <3>2, <3>3, <3>4 DEF Half
  <2>17. SameOn(g, h, V)
    <3>1. \A a \in V : a \in D \ {bp, r}
      BY <1>1, <1>3, <1>9
    <3> QED
      BY <1>1, <2>4, <2>5, <2>11, <3>1 DEF SameOn
  <2>18. y[bp] >= z[bp]
    <3>1. z[r] \in Nat
      BY <1>2, <2>7
    <3> QED
      BY <1>7, <2>5, <3>1
  <2> QED
    BY <1>1, <1>7, <2>4, <2>16, <2>17, <2>18 DEF UpKept
<1>13. CASE bp + z[bp] # r
  <2>1. PICK x : x = [q EXCEPT ![bp] = r]
    OBVIOUS
  <2>2. g = [ptr |-> x, bsize |-> z, freep |-> h.freep]
    <3>1. g = Pointed(h, bp, r)
      BY <1>1, <1>13 DEF JoinsUp
    <3> QED
      <4>1. h = [ptr |-> h.ptr, bsize |-> h.bsize, freep |-> h.freep]
        BY <1>10
      <4>2. g = PointOf(h, bp, r)
        BY <3>1, <4>1, MergedIs
      <4>3. h.ptr = q /\ h.bsize = z
        BY <1>1
      <4> QED
        BY <2>1, <4>2, <4>3 DEF PointOf
  <2>3. g.ptr = x /\ g.bsize = z /\ g = [ptr |-> g.ptr, bsize |-> g.bsize, freep |-> g.freep]
    BY <2>2
  <2>4. DOMAIN x = D /\ x[bp] = r /\ \A a \in D \ {bp} : x[a] = q[a]
    BY <1>3, <1>7, <2>1
  <2>5. PICK G : G = FreeOn(g, V)
    OBVIOUS
  <2>6. G = F \cup {bp} /\ DOMAIN z = D
    BY <1>1, <1>3, <1>7, <2>3, <2>5 DEF FreeOn
  <2>7. Before(G \ {bp}, p, bp)
    BY <1>6, <1>7, <2>6 DEF Before
  <2>8. ASSUME NEW a \in G \ {p} PROVE Follows(G, a, x[a])
    <3>1. CASE a = bp
      <4>1. CASE bp < r
        <5>1. \A c \in G : c <= bp \/ r <= c
          BY <1>6, <1>7, <1>11, <2>6
        <5> QED
          BY <1>9, <2>4, <2>6, <3>1, <4>1, <5>1 DEF Follows
      <4>2. CASE r = Base
        <5>1. \A c \in G : c <= bp
          BY <1>6, <1>7, <1>11, <2>6, <4>2
        <5> QED
          BY <1>9, <2>4, <2>6, <3>1, <4>2, <5>1 DEF Follows
      <4> QED
        BY <1>9, <4>1, <4>2
    <3>2. CASE a # bp
      <4>1. a \in F /\ a # p /\ a \in D \ {bp}
        BY <1>3, <2>6, <3>2
      <4>2. Follows(F, a, q[a]) /\ x[a] = q[a]
        BY <1>4, <2>4, <4>1
      <4>3. q[a] \in F /\ q[a] \in Nat /\ a \in Nat /\ q[a] \in G
        BY <1>7, <2>6, <4>1, <4>2 DEF Follows
      <4>4. CASE a < q[a] /\ \A c \in F : c <= a \/ q[a] <= c
        <5>1. bp <= a \/ q[a] <= bp
          BY <1>6, <1>7, <4>1, <4>3, <4>4
        <5>2. \A c \in G : c <= a \/ q[a] <= c
          BY <2>6, <4>4, <5>1
        <5> QED
          BY <4>2, <4>3, <4>4, <5>2 DEF Follows
      <4>5. CASE q[a] = Base /\ \A c \in F : c <= a
        <5>1. bp <= a
          BY <1>6, <1>7, <4>1, <4>3, <4>5
        <5>2. \A c \in G : c <= a
          BY <2>6, <4>5, <5>1
        <5> QED
          BY <4>2, <4>3, <4>5, <5>2 DEF Follows
      <4> QED
        BY <4>2, <4>4, <4>5 DEF Follows
    <3> QED
      BY <3>1, <3>2
  <2>9. ASSUME NEW a \in G, NEW b \in G, a < b, ~ (a = p /\ b = bp) PROVE a + z[a] < b
    <3>1. CASE a = bp
      <4>1. b \in F /\ b \in Nat /\ r <= b /\ r # Base /\ bp < r
        BY <1>6, <1>7, <1>9, <1>11, <2>6, <2>9, <3>1
      <4>2. r \in D /\ bp + z[bp] <= r
        BY <1>2, <1>3, <1>7, <1>9, <4>1
      <4> QED
        BY <1>7, <1>9, <1>13, <3>1, <4>1, <4>2
    <3>2. CASE a # bp
      <4>1. a \in F /\ a \in Nat /\ z[a] \in Nat
        BY <1>2, <1>3, <1>7, <2>6, <3>2
      <4>2. CASE b = bp
        <5>1. a < p
          BY <1>6, <1>7, <2>9, <4>1, <4>2
        <5>2. a + z[a] < p
          BY <1>5, <1>6, <4>1, <5>1
        <5> QED
          BY <1>6, <1>7, <4>1, <4>2, <5>2
      <4>3. CASE b # bp
        <5>1. b \in F
          BY <2>6, <4>3
        <5> QED
          BY <1>5, <2>9, <4>1, <5>1
      <4> QED
        BY <4>2, <4>3
    <3> QED
      BY <3>1, <3>2
  <2>10. Half(g, V, bp, p, t)
    <3>1. DOMAIN g.ptr = DOMAIN g.bsize /\ Fills(DOMAIN g.bsize, g.bsize, t)
      BY <1>10, <2>3, <2>4, <2>6
    <3>2. V \subseteq DOMAIN g.bsize \ {Base}
      BY <1>1, <1>3, <2>3, <2>6
    <3>3. \A a \in FreeOn(g, V) \ {p} : Follows(FreeOn(g, V), a, g.ptr[a])
      BY <2>3, <2>5, <2>8
    <3>4. \A a, b \in FreeOn(g, V) : a < b /\ ~ (a = p /\ b = bp) => a + g.bsize[a] < b
      BY <2>3, <2>5, <2>9
    <3>5. bp \in FreeOn(g, V)
      BY <2>5, <2>6
    <3> QED
      BY <2>3, <2>5, <2>7, <3>1, <3>2, <3>3, <3>4, <3>5 DEF Half
  <2>11. SameOn(g, h, V)
    BY <1>1, <1>3, <2>3, <2>6 DEF SameOn
  <2> QED
    BY <1>1, <1>7, <2>3, <2>10, <2>11 DEF UpKept
<1> QED
  BY <1>12, <1>13

DownKept(g, h, V, bp, t) == /\ HeapOK(g, V, t) /\ SameOn(g, h, V)
                            /\ \E a \in FreeOn(g, V) : g.bsize[a] >= h.bsize[bp]

\* The second join makes the block before point to bp, or joins the two.
LEMMA JoinDownKeeps ==
  ASSUME NEW h, NEW V, NEW t \in Nat, NEW bp, NEW p, Half(h, V, bp, p, t)
  PROVE  DownKept([JoinsDown(h, bp, p) EXCEPT !.freep = p], h, V, bp, t)
<1>1. PICK D, z, q, F, u, g : /\ D = DOMAIN h.bsize /\ z = h.bsize /\ q = h.ptr
                              /\ F = FreeOn(h, V) /\ u = JoinsDown(h, bp, p)
                              /\ g = [u EXCEPT !.freep = p]
  OBVIOUS
<1>2. /\ h = [ptr |-> h.ptr, bsize |-> h.bsize, freep |-> h.freep]
      /\ DOMAIN q = D /\ Fills(D, z, t) /\ V \subseteq D \ {Base} /\ bp \in F
      /\ Before(F \ {bp}, p, bp)
      /\ \A a \in F \ {p} : Follows(F, a, q[a])
      /\ \A a, b \in F : a < b /\ ~ (a = p /\ b = bp) => a + z[a] < b
  BY <1>1, Zenon DEF Half
<1>3. /\ D \subseteq Nat /\ Base \in D /\ z \in [D -> Nat] /\ z[Base] = 0
      /\ \A a \in D \ {Base} : z[a] >= 1 /\ BREAK <= a /\ a + z[a] <= t
      /\ \A a, b \in D : a < b => a + z[a] <= b
  BY <1>2 DEF Fills
<1>4. F = D \ V
  BY <1>1 DEF FreeOn
<1>5. /\ p \in F /\ p \in D /\ p \in Nat /\ bp \in D /\ bp \in Nat /\ p < bp /\ bp # Base /\ F \subseteq Nat
      /\ \A c \in F : c <= p \/ bp <= c
  <2>1. p \in F /\ p < bp /\ \A c \in F \ {bp} : c <= p \/ bp < c
    BY <1>2 DEF Before
  <2>2. p \in D /\ p \in Nat /\ bp \in D /\ bp \in Nat /\ F \subseteq Nat
    BY <1>2, <1>3, <1>4, <2>1
  <2>3. \A c \in F : c <= p \/ bp <= c
    BY <2>1, <2>2
  <2> QED
    BY <2>1, <2>2, <2>3 DEF Base
<1>6. z[p] \in Nat /\ z[bp] \in Nat
  BY <1>3, <1>5
<1>7. Follows(F, bp, q[bp])
  BY <1>2, <1>5
<1>8. CASE p + z[p] = bp
  <2>1. p # Base
    BY <1>3, <1>5, <1>8 DEF Base
  <2>2. PICK y, x : y = Less([z EXCEPT ![p] = z[p] + z[bp]], bp) /\ x = Less([q EXCEPT ![p] = q[bp]], bp)
    OBVIOUS
  <2>3. g = [ptr |-> x, bsize |-> y, freep |-> p]
    <3>1. u = Merged(h, p, bp)
      BY <1>1, <1>8 DEF JoinsDown
    <3>2. u = JoinOf(h, p, bp)
      BY <1>2, <3>1, MergedIs
    <3>3. h.ptr = q /\ h.bsize = z
      BY <1>1
    <3>4. u = [ptr |-> x, bsize |-> y, freep |-> h.freep]
      BY <2>2, <3>2, <3>3 DEF JoinOf
    <3> QED
      BY <1>1, <3>4
  <2>4. /\ g.ptr = x /\ g.bsize = y /\ g.freep = p
        /\ g = [ptr |-> g.ptr, bsize |-> g.bsize, freep |-> g.freep]
    BY <2>3
  <2>5. /\ y = [a \in D \ {bp} |-> y[a]] /\ y[p] = z[p] + z[bp]
        /\ \A a \in D \ {p, bp} : y[a] = z[a]
    BY <1>3, <1>5, <2>2 DEF Less
  <2>6. DOMAIN x = D \ {bp} /\ x[p] = q[bp] /\ \A a \in D \ {p, bp} : x[a] = q[a]
    BY <1>2, <1>5, <2>2 DEF Less
  <2>7. Fills(D \ {bp}, y, t)
    <3>1. p \in D \ {Base} /\ bp \in D \ {Base} /\ Fills(D, z, t)
      BY <1>2, <1>5, <2>1
    <3>2. y = [a \in D \ {bp} |-> y[a]] /\ y[p] = z[p] + z[bp]
      BY <2>5
    <3>3. \A a \in D \ {p, bp} : y[a] = z[a]
      BY <2>5
    <3> QED
      BY <1>8, <3>1, <3>2, <3>3, FillsJoined
  <2>8. PICK G : G = FreeOn(g, V)
    OBVIOUS
  <2>9. G = F \ {bp} /\ DOMAIN y = D \ {bp}
    BY <1>4, <2>4, <2>5, <2>8 DEF FreeOn
  <2>10. ASSUME NEW a \in G PROVE Follows(G, a, x[a])
    <3>1. CASE a = p
      <4>1. q[bp] \in F /\ q[bp] \in Nat /\ q[bp] # bp
        <5>1. q[bp] \in F /\ (bp < q[bp] \/ q[bp] = Base)
          BY <1>7 DEF Follows
        <5>2. q[bp] \in Nat
          BY <1>5, <5>1
        <5> QED
          BY <1>5, <5>1, <5>2
      <4>2. \A c \in G : c <= p \/ bp < c
        BY <1>5, <2>9
      <4>3. CASE bp < q[bp] /\ \A c \in F : c <= bp \/ q[bp] <= c
        <5>1. p < q[bp] /\ \A c \in G : c <= p \/ q[bp] <= c
          BY <1>5, <2>9, <4>1, <4>2, <4>3
        <5> QED
          BY <2>6, <2>9, <3>1, <4>1, <5>1 DEF Follows
      <4>4. CASE q[bp] = Base /\ \A c \in F : c <= bp
        <5>1. \A c \in G : c <= p
          BY <1>5, <2>9, <4>2, <4>4
        <5> QED
          BY <2>6, <2>9, <3>1, <4>1, <4>4, <5>1 DEF Follows
      <4> QED
        BY <1>7, <4>3, <4>4 DEF Follows
    <3>2. CASE a # p
      <4>1. a \in F \ {p} /\ a \in D \ {p, bp} /\ a \in Nat
        BY <1>4, <1>5, <2>9, <3>2
      <4>2. Follows(F, a, q[a]) /\ x[a] = q[a]
        BY <1>2, <2>6, <4>1
      <4>3. q[a] \in F /\ q[a] \in Nat
        BY <1>5, <4>2 DEF Follows
      <4>4. q[a] # bp
        <5>1. a <= p \/ bp <= a
          BY <1>5, <4>1
        <5>2. CASE a <= p
          <6>1. a < p
            BY <1>5, <4>1, <5>2
          <6>2. q[a] = bp => p <= a \/ bp <= p
            BY <1>5, <4>1, <4>2 DEF Follows
          <6> QED
            BY <1>5, <4>1, <6>1, <6>2
        <5>3. CASE bp <= a
          BY <1>5, <4>1, <4>2, <5>3 DEF Follows
        <5> QED
          BY <5>1, <5>2, <5>3
      <4>5. G \subseteq F /\ q[a] \in G
        BY <2>9, <4>3, <4>4
      <4> QED
        BY <4>2, <4>5 DEF Follows
    <3> QED
      BY <3>1, <3>2
  <2>11. ASSUME NEW a \in G, NEW b \in G, a < b PROVE a + y[a] < b
    <3>1. a \in F /\ b \in F /\ b # bp /\ a # bp /\ a \in D \ {bp} /\ a \in Nat /\ b \in Nat
      BY <1>4, <1>5, <2>9
    <3>2. CASE a = p
      <4>1. bp < b
        BY <1>5, <2>11, <3>1, <3>2
      <4>2. bp + z[bp] < b
        BY <1>2, <1>5, <3>1, <4>1
      <4> QED
        BY <1>5, <1>6, <1>8, <2>5, <3>1, <3>2, <4>2
    <3>3. CASE a # p
      <4>1. a + z[a] < b
        BY <1>2, <2>11, <3>1, <3>3
      <4>2. y[a] = z[a]
        BY <2>5, <3>1, <3>3
      <4> QED
        BY <4>1, <4>2
    <3> QED
      BY <3>2, <3>3
  <2>12. V \subseteq (D \ {bp}) \ {Base} /\ p \in G
    BY <1>2, <1>4, <1>5, <2>9
  <2>13. HeapOK(g, V, t)
    <3>1. DOMAIN g.ptr = DOMAIN g.bsize /\ Fills(DOMAIN g.bsize, g.bsize, t)
      BY <2>4, <2>6, <2>7, <2>9
    <3>2. V \subseteq DOMAIN g.bsize \ {Base} /\ DOMAIN g.bsize \ V = G
      BY <2>4, <2>8, <2>9, <2>12 DEF FreeOn
    <3>3. RingOf(G, g.ptr) /\ NoneJoin(G, g.bsize)
      BY <2>4, <2>10, <2>11 DEF RingOf, NoneJoin
    <3> QED
      BY <2>4, <2>12, <3>1, <3>2, <3>3 DEF HeapOK
  <2>14. SameOn(g, h, V)
    <3>1. \A a \in V : a \in D \ {p, bp}
      BY <1>2, <1>4, <1>5
    <3> QED
      BY <1>1, <2>4, <2>5, <2>9, <3>1 DEF SameOn
  <2>15. \E a \in FreeOn(g, V) : g.bsize[a] >= h.bsize[bp]
    <3>1. y[p] >= z[bp]
      BY <1>6, <2>5
    <3> QED
      BY <1>1, <2>4, <2>8, <2>12, <3>1
  <2> QED
    BY <1>1, <2>13, <2>14, <2>15 DEF DownKept
<1>9. CASE p + z[p] # bp
  <2>1. PICK x : x = [q EXCEPT ![p] = bp]
    OBVIOUS
  <2>2. g = [ptr |-> x, bsize |-> z, freep |-> p]
    <3>1. u = Pointed(h, p, bp)
      BY <1>1, <1>9 DEF JoinsDown
    <3>2. u = PointOf(h, p, bp)
      BY <1>2, <3>1, MergedIs
    <3>3. h.ptr = q /\ h.bsize = z
      BY <1>1
    <3>4. u = [ptr |-> x, bsize |-> z, freep |-> h.freep]
      BY <2>1, <3>2, <3>3 DEF PointOf
    <3> QED
      BY <1>1, <3>4
  <2>3. /\ g.ptr = x /\ g.bsize = z /\ g.freep = p
        /\ g = [ptr |-> g.ptr, bsize |-> g.bsize, freep |-> g.freep]
    BY <2>2
  <2>4. DOMAIN x = D /\ x[p] = bp /\ \A a \in D \ {p} : x[a] = q[a]
    BY <1>2, <1>5, <2>1
  <2>5. FreeOn(g, V) = F
    BY <1>1, <2>3 DEF FreeOn
  <2>6. ASSUME NEW a \in F PROVE Follows(F, a, x[a])
    <3>1. CASE a = p
      BY <1>2, <1>5, <2>4, <3>1 DEF Follows
    <3>2. CASE a # p
      BY <1>2, <1>4, <2>4, <3>2
    <3> QED
      BY <3>1, <3>2
  <2>7. ASSUME NEW a \in F, NEW b \in F, a < b PROVE a + z[a] < b
    <3>1. CASE a = p /\ b = bp
      <4>1. p + z[p] <= bp
        BY <1>3, <1>5
      <4> QED
        BY <1>5, <1>6, <1>9, <3>1, <4>1
    <3>2. CASE ~ (a = p /\ b = bp)
      BY <1>2, <2>7, <3>2
    <3> QED
      BY <3>1, <3>2
  <2>8. HeapOK(g, V, t)
    <3>1. DOMAIN g.ptr = DOMAIN g.bsize /\ Fills(DOMAIN g.bsize, g.bsize, t)
      BY <1>1, <1>2, <2>3, <2>4
    <3>2. V \subseteq DOMAIN g.bsize \ {Base} /\ DOMAIN g.bsize \ V = F
      BY <1>1, <1>2, <1>4, <2>3
    <3>3. RingOf(F, g.ptr) /\ NoneJoin(F, g.bsize)
      BY <2>3, <2>6, <2>7 DEF RingOf, NoneJoin
    <3> QED
      BY <1>5, <2>3, <3>1, <3>2, <3>3 DEF HeapOK
  <2>9. SameOn(g, h, V)
    BY <1>1, <1>2, <2>3 DEF SameOn
  <2>10. \E a \in FreeOn(g, V) : g.bsize[a] >= h.bsize[bp]
    BY <1>1, <1>2, <1>6, <2>3, <2>5
  <2> QED
    BY <1>1, <2>8, <2>9, <2>10 DEF DownKept
<1> QED
  BY <1>8, <1>9

FreedOK(g, h, U, bp, t) == /\ HeapOK(g, U \ {bp}, t) /\ SameOn(g, h, U \ {bp})
                           /\ \E a \in FreeOn(g, U \ {bp}) : g.bsize[a] >= h.bsize[bp]

\* free() gives back the block it is told to, and changes no other that is in use.
LEMMA FreedKeeps ==
  ASSUME NEW h, NEW U, NEW t \in Nat, HeapOK(h, U, t), NEW bp \in U
  PROVE  FreedOK(Freed(h, bp), h, U, bp, t)
<1>1. PICK p : p = First(Walk(h, h.freep), Around(h, bp))
  OBVIOUS
<1>2. PICK u, g, V : /\ u = JoinsUp(h, bp, p) /\ g = [JoinsDown(u, bp, p) EXCEPT !.freep = p]
                     /\ V = U \ {bp}
  OBVIOUS
<1>3. Freed(h, bp) = g
  BY <1>1, <1>2, Zenon DEF Freed
<1>4. Before(FreeOn(h, U), p, bp)
  BY <1>1, WhereIs
<1>5. UpKept(u, h, U, bp, p, t)
  BY <1>2, <1>4, JoinUpKeeps
<1>6. /\ Half(u, V, bp, p, t) /\ SameOn(u, h, V) /\ u.bsize[bp] >= h.bsize[bp]
      /\ h.bsize[bp] \in Nat
  BY <1>2, <1>5 DEF UpKept
<1>7. DownKept(g, u, V, bp, t)
  BY <1>2, <1>6, JoinDownKeeps
<1>8. /\ HeapOK(g, V, t) /\ SameOn(g, u, V)
      /\ \E a \in FreeOn(g, V) : g.bsize[a] >= u.bsize[bp]
  BY <1>7 DEF DownKept
<1>9. SameOn(g, h, V)
  BY <1>6, <1>8 DEF SameOn
<1>10. \E a \in FreeOn(g, V) : g.bsize[a] >= h.bsize[bp]
  <2>1. PICK a \in FreeOn(g, V) : g.bsize[a] >= u.bsize[bp]
    BY <1>8
  <2>2. g.bsize[a] \in Nat
    <3>1. g.bsize \in [DOMAIN g.bsize -> Nat]
      BY <1>8 DEF HeapOK, Fills
    <3> QED
      BY <3>1 DEF FreeOn
  <2>3. u.bsize[bp] \in Nat
    <3>1. u.bsize \in [DOMAIN u.bsize -> Nat] /\ bp \in DOMAIN u.bsize
      BY <1>6 DEF Half, Fills, FreeOn
    <3> QED
      BY <3>1
  <2> QED
    BY <1>6, <2>1, <2>2, <2>3
<1> QED
  BY <1>2, <1>3, <1>8, <1>9, <1>10 DEF FreedOK

-----------------------------------------------------------------------------
(* malloc() and morecore().                                                 *)

GrownOK(g, h, U, n, t) == /\ HeapOK(g, U, t) /\ SameOn(g, h, U)
                          /\ \E a \in FreeOn(g, U) : g.bsize[a] >= n

\* morecore() makes the heap larger by a block that is large enough.
LEMMA GrownKeeps ==
  ASSUME top \in Nat, BREAK <= top, NEW h, NEW U, HeapOK(h, U, top), NEW n \in Nat, n >= 1
  PROVE  GrownOK(Grown(h, n), h, U, n, top + Asks(n)) /\ Asks(n) \in Nat
<1>1. PICK D, z, q, e, t, m : /\ D = DOMAIN h.bsize /\ z = h.bsize /\ q = h.ptr
                              /\ e = Extended(h, n) /\ t = top /\ m = Asks(n)
  OBVIOUS
<1>2. m \in Nat /\ m >= n /\ m >= 1
  BY <1>1, UmTypes DEF Asks, Larger
<1>3. t \in Nat /\ BREAK <= t /\ BREAK \in Nat \ {0}
  BY <1>1, UmTypes
<1>4. /\ DOMAIN q = D /\ Fills(D, z, t) /\ U \subseteq D \ {Base}
      /\ RingOf(D \ U, q) /\ NoneJoin(D \ U, z) /\ h.freep \in D \ U
  BY <1>1 DEF HeapOK
<1>5. /\ D \subseteq Nat /\ Base \in D /\ z \in [D -> Nat] /\ z[Base] = 0
      /\ \A a \in D \ {Base} : z[a] >= 1 /\ BREAK <= a /\ a + z[a] <= t
      /\ \A a, b \in D : a < b => a + z[a] <= b
      /\ \A u \in BREAK .. t - 1 : \E a \in D : a <= u /\ u < a + z[a]
  BY <1>4 DEF Fills
<1>6. \A a \in D : a < t /\ a + z[a] <= t
  BY <1>3, <1>5 DEF Base
<1>7. t \notin D /\ t # Base
  BY <1>3, <1>5, <1>6 DEF Base
<1>8. PICK E, y, x : E = D \cup {t} /\ y = With(z, t, m) /\ x = With(q, t, Base)
  OBVIOUS
<1>9. e = [ptr |-> x, bsize |-> y, freep |-> h.freep]
  BY <1>1, <1>8 DEF Extended
<1>10. /\ e.ptr = x /\ e.bsize = y /\ e.freep = h.freep
       /\ e = [ptr |-> e.ptr, bsize |-> e.bsize, freep |-> e.freep]
  BY <1>9
<1>11. y = [a \in E |-> y[a]] /\ y[t] = m /\ \A a \in D : y[a] = z[a]
  BY <1>5, <1>7, <1>8 DEF With
<1>12. DOMAIN x = E /\ \A a \in D : x[a] = q[a]
  BY <1>4, <1>7, <1>8 DEF With
<1>13. Fills(E, y, t + m)
  <2>1. E \subseteq Nat /\ Base \in E /\ y[Base] = 0
    BY <1>3, <1>5, <1>8, <1>11
  <2>2. \A a \in E : y[a] \in Nat
    BY <1>2, <1>5, <1>8, <1>11
  <2>3. y \in [E -> Nat]
    BY <1>11, <2>2
  <2>4. \A a \in E \ {Base} : y[a] >= 1 /\ BREAK <= a /\ a + y[a] <= t + m
    BY <1>2, <1>3, <1>5, <1>8, <1>11
  <2>5. \A a, b \in E : a < b => a + y[a] <= b
    BY <1>3, <1>5, <1>6, <1>8, <1>11
  <2>6. ASSUME NEW u \in BREAK .. (t + m) - 1 PROVE \E a \in E : a <= u /\ u < a + y[a]
    <3>1. u \in Int /\ BREAK <= u /\ u < t + m
      BY <1>2, <1>3
    <3>2. CASE u < t
      <4>1. PICK a \in D : a <= u /\ u < a + z[a]
        BY <1>3, <1>5, <3>1, <3>2
      <4> QED
        BY <1>8, <1>11, <4>1
    <3>3. CASE u >= t
      BY <1>8, <1>11, <3>1, <3>3
    <3> QED
      BY <1>3, <3>1, <3>2, <3>3
  <2>7. \A u \in BREAK .. (t + m) - 1 : \E a \in E : a <= u /\ u < a + y[a]
    BY <2>6
  <2> QED
    BY <2>1, <2>3, <2>4, <2>5, <2>7 DEF Fills
<1>14. PICK V : V = U \cup {t}
  OBVIOUS
<1>15. HeapOK(e, V, t + m)
  <2>1. DOMAIN y = E /\ E \ V = D \ U
    BY <1>4, <1>7, <1>8, <1>11, <1>14
  <2>2. RingOf(E \ V, x) /\ NoneJoin(E \ V, y)
    BY <1>4, <1>11, <1>12, <2>1 DEF RingOf, NoneJoin
  <2>3. V \subseteq E \ {Base} /\ h.freep \in E \ V
    BY <1>4, <1>7, <1>8, <1>14, <2>1
  <2> QED
    BY <1>10, <1>12, <1>13, <2>1, <2>2, <2>3 DEF HeapOK
<1>16. t + m \in Nat /\ t \in V
  BY <1>2, <1>3, <1>14
<1>17. FreedOK(Freed(e, t), e, V, t, t + m)
  BY <1>15, <1>16, FreedKeeps
<1>18. V \ {t} = U
  BY <1>4, <1>7, <1>14
<1>19. PICK g : g = Freed(e, t)
  OBVIOUS
<1>20. HeapOK(g, U, t + m) /\ SameOn(g, e, U) /\ \E a \in FreeOn(g, U) : g.bsize[a] >= m
  BY <1>10, <1>11, <1>17, <1>18, <1>19 DEF FreedOK
<1>21. SameOn(g, h, U)
  BY <1>1, <1>4, <1>10, <1>11, <1>20 DEF SameOn
<1>22. \E a \in FreeOn(g, U) : g.bsize[a] >= n
  <2>1. PICK a \in FreeOn(g, U) : g.bsize[a] >= m
    BY <1>20
  <2>2. g.bsize[a] \in Nat
    <3>1. g.bsize \in [DOMAIN g.bsize -> Nat]
      BY <1>20 DEF HeapOK, Fills
    <3> QED
      BY <3>1 DEF FreeOn
  <2> QED
    BY <1>2, <2>1, <2>2
<1>23. Grown(h, n) = g
  BY <1>1, <1>19 DEF Grown
<1> QED
  BY <1>1, <1>2, <1>20, <1>21, <1>22, <1>23 DEF GrownOK

\* The block that malloc() finds is on the ring, and so is the one before it.
LEMMA FoundOnRing ==
  ASSUME NEW h, NEW U, NEW t \in Nat, HeapOK(h, U, t), NEW n \in Nat, n >= 1, Fit(h, n) # {}
  PROVE  /\ FoundBlock(h, n) \in FreeOn(h, U) \ {Base} /\ h.bsize[FoundBlock(h, n)] >= n
         /\ Prev(h, FoundBlock(h, n)) \in FreeOn(h, U) /\ h.ptr[Prev(h, FoundBlock(h, n))] = FoundBlock(h, n)
<1>1. PICK F, a, p : F = FreeOn(h, U) /\ a = h.freep /\ p = h.ptr
  OBVIOUS
<1>2. /\ F \subseteq Nat /\ Base \in F /\ a \in F /\ RingOf(F, p) /\ F \subseteq DOMAIN p
      /\ IsFiniteSet(DOMAIN p)
  BY <1>1, HeapRing
<1>3. \A x \in F : x <= t
  BY <1>1, HeapRing
<1>4. OnRing(h) = F
  BY <1>1, OnRingIs
<1>5. PICK w : w = Walk(h, a)
  OBVIOUS
<1>6. PICK m : IsWalk(w, F, p, a, m)
  BY <1>1, <1>2, <1>5, WalkIs
<1>7. m \in Nat \ {0} /\ w \in [0 .. m -> F]
  BY <1>6 DEF IsWalk
<1>8. Sees(w, F, m)
  BY <1>2, <1>3, <1>6, WalkAll
<1>9. PICK r : r = Ring(h, a)
  OBVIOUS
<1>10. DOMAIN r = 1 .. m /\ \A k \in 1 .. m : r[k] = w[k] /\ w[k] \in F
  BY <1>5, <1>7, <1>9 DEF Ring
<1>11. PICK b \in F : b \in Enough(h, n)
  BY <1>4 DEF Fit
<1>12. PICK k \in 1 .. m : r[k] = b
  BY <1>8, <1>10 DEF Sees
<1>13. PICK x : x = First(r, Enough(h, n))
  OBVIOUS
<1>14. x \in Enough(h, n) /\ x \in F
  <2>1. DOMAIN r \subseteq Nat /\ \E j \in DOMAIN r : r[j] \in Enough(h, n)
    BY <1>7, <1>10, <1>11, <1>12
  <2>2. x \in Enough(h, n) /\ \E j \in DOMAIN r : r[j] = x
    BY <1>13, <2>1, FirstIs
  <2> QED
    BY <1>10, <2>2
<1>15. h.bsize[x] >= n
  BY <1>14 DEF Enough
<1>16. x # Base
  <2>1. h.bsize[Base] = 0
    BY DEF HeapOK, Fills
  <2> QED
    BY <1>15, <2>1
<1>17. x \in Nat /\ x > Base
  BY <1>2, <1>14, <1>16 DEF Base
<1>18. PICK y \in F : y < x /\ \A c \in F : c <= y \/ x <= c
  BY <1>2, <1>17, LastBefore
<1>19. p[y] = x
  <2>1. Follows(F, y, p[y]) /\ y \in Nat
    BY <1>2 DEF RingOf
  <2>2. p[y] \in F /\ p[y] \in Nat
    BY <1>2, <2>1 DEF Follows
  <2>3. CASE y < p[y] /\ \A c \in F : c <= y \/ p[y] <= c
    <3>1. x <= p[y]
      BY <1>18, <2>1, <2>2, <2>3
    <3>2. p[y] <= x
      BY <1>14, <1>17, <1>18, <2>1, <2>3
    <3> QED
      BY <1>17, <2>2, <3>1, <3>2
  <2>4. CASE p[y] = Base /\ \A c \in F : c <= y
    BY <1>14, <1>17, <1>18, <2>1, <2>4
  <2> QED
    BY <2>1, <2>3, <2>4 DEF Follows
<1>20. PICK v : v = Prev(h, x)
  OBVIOUS
<1>21. v \in F /\ p[v] = x
  <2>1. v = CHOOSE c \in F : p[c] = x
    BY <1>1, <1>4, <1>20 DEF Prev
  <2> QED
    BY <1>19, <2>1
<1>22. FoundBlock(h, n) = x
  BY <1>1, <1>9, <1>13 DEF FoundBlock
<1> QED
  BY <1>1, <1>14, <1>15, <1>16, <1>20, <1>21, <1>22

TakenOK(k, h, U, n, t) == /\ HeapOK(k.heap, U \cup {k.at}, t) /\ SameOn(k.heap, h, U)
                          /\ k.at \notin U /\ k.heap.bsize[k.at] = n /\ k.at \in Nat

\* malloc() takes a block of n units from those on the ring, or its tail.
LEMMA TakenKeeps ==
  ASSUME NEW h, NEW U, NEW t \in Nat, HeapOK(h, U, t), NEW n \in Nat, n >= 1, Fit(h, n) # {}
  PROVE  TakenOK(Taken(h, n), h, U, n, t)
<1>1. PICK D, z, q, F, p, v, k : /\ D = DOMAIN h.bsize /\ z = h.bsize /\ q = h.ptr
                                 /\ F = FreeOn(h, U) /\ p = FoundBlock(h, n) /\ v = Prev(h, p)
                                 /\ k = Taken(h, n)
  OBVIOUS
<1>2. p \in F \ {Base} /\ z[p] >= n /\ v \in F /\ q[v] = p
  <2>1. /\ FoundBlock(h, n) \in FreeOn(h, U) \ {Base} /\ h.bsize[FoundBlock(h, n)] >= n
        /\ Prev(h, FoundBlock(h, n)) \in FreeOn(h, U)
        /\ h.ptr[Prev(h, FoundBlock(h, n))] = FoundBlock(h, n)
    BY FoundOnRing
  <2> QED
    BY <1>1, <2>1
<1>3. /\ DOMAIN q = D /\ Fills(D, z, t) /\ U \subseteq D \ {Base} /\ F = D \ U
  BY <1>1 DEF HeapOK, FreeOn
<1>4. \A a \in F : Follows(F, a, q[a])
  BY <1>1 DEF HeapOK, FreeOn, RingOf
<1>5. \A a, b \in F : a < b => a + z[a] < b
  BY <1>1 DEF HeapOK, FreeOn, NoneJoin
<1>6. /\ D \subseteq Nat /\ Base \in D /\ z \in [D -> Nat] /\ z[Base] = 0
      /\ \A a \in D \ {Base} : z[a] >= 1 /\ BREAK <= a /\ a + z[a] <= t
      /\ \A a, b \in D : a < b => a + z[a] <= b
      /\ \A u \in BREAK .. t - 1 : \E a \in D : a <= u /\ u < a + z[a]
  BY <1>3 DEF Fills
<1>7. /\ p \in D /\ p \in Nat /\ v \in D /\ v \in Nat /\ z[p] \in Nat /\ F \subseteq Nat
      /\ p # Base /\ p \notin U /\ v \notin U
  BY <1>2, <1>3, <1>6
<1>8. v < p /\ \A c \in F : c <= v \/ p <= c
  <2>1. Follows(F, v, p)
    BY <1>2, <1>4
  <2> QED
    BY <1>7, <2>1 DEF Follows
<1>9. CASE z[p] = n
  <2>1. PICK x, g : x = [q EXCEPT ![v] = q[p], ![p] = Base] /\ g = [ptr |-> x, bsize |-> z, freep |-> v]
    OBVIOUS
  <2>2. k = [at |-> p, heap |-> g]
    <3>1. Whole(h, p) = g
      BY <1>1, <2>1 DEF Whole
    <3>2. Taken(h, n) = [at |-> p, heap |-> Whole(h, p)]
      BY <1>1, <1>9 DEF Taken
    <3> QED
      BY <1>1, <3>1, <3>2
  <2>3. k.at = p /\ k.heap = g
    BY <2>2
  <2>4. /\ g.ptr = x /\ g.bsize = z /\ g.freep = v
        /\ g = [ptr |-> g.ptr, bsize |-> g.bsize, freep |-> g.freep]
    BY <2>1
  <2>5. DOMAIN x = D /\ x[v] = q[p] /\ \A a \in D \ {v, p} : x[a] = q[a]
    BY <1>3, <1>7, <1>8, <2>1
  <2>6. PICK V, G : V = U \cup {p} /\ G = D \ V
    OBVIOUS
  <2>7. G = F \ {p}
    BY <1>3, <2>6
  <2>8. ASSUME NEW a \in G PROVE Follows(G, a, x[a])
    <3>1. CASE a = v
      <4>1. Follows(F, p, q[p])
        BY <1>2, <1>4
      <4>2. q[p] \in F /\ q[p] \in Nat /\ q[p] # p
        <5>1. q[p] \in F /\ (p < q[p] \/ q[p] = Base)
          BY <4>1 DEF Follows
        <5>2. q[p] \in Nat
          BY <1>7, <5>1
        <5> QED
          BY <1>7, <5>1, <5>2
      <4>3. CASE p < q[p] /\ \A c \in F : c <= p \/ q[p] <= c
        <5>1. v < q[p] /\ \A c \in G : c <= v \/ q[p] <= c
          BY <1>7, <1>8, <2>7, <4>2, <4>3
        <5> QED
          BY <2>5, <2>7, <3>1, <4>2, <5>1 DEF Follows
      <4>4. CASE q[p] = Base /\ \A c \in F : c <= p
        <5>1. \A c \in G : c <= v
          BY <1>7, <1>8, <2>7, <4>4
        <5> QED
          BY <2>5, <2>7, <3>1, <4>2, <4>4, <5>1 DEF Follows
      <4> QED
        BY <4>1, <4>3, <4>4 DEF Follows
    <3>2. CASE a # v
      <4>1. a \in F /\ a \in D \ {v, p}
        BY <1>3, <2>7, <3>2
      <4>2. Follows(F, a, q[a]) /\ x[a] = q[a]
        BY <1>4, <2>5, <4>1
      <4>3. q[a] # p
        <5>1. Follows(F, v, p)
          BY <1>2, <1>4
        <5> QED
          BY <1>2, <1>7, <3>2, <4>1, <4>2, <5>1, FollowsOnce
      <4>4. G \subseteq F /\ q[a] \in G
        BY <2>7, <4>2, <4>3 DEF Follows
      <4> QED
        BY <4>2, <4>4 DEF Follows
    <3> QED
      BY <3>1, <3>2
  <2>9. HeapOK(g, V, t)
    <3>1. DOMAIN g.ptr = DOMAIN g.bsize /\ Fills(DOMAIN g.bsize, g.bsize, t) /\ DOMAIN g.bsize = D
      BY <1>1, <1>3, <2>4, <2>5
    <3>2. V \subseteq D \ {Base} /\ v \in G
      BY <1>2, <1>3, <1>7, <1>8, <2>6, <2>7
    <3>3. RingOf(G, g.ptr) /\ NoneJoin(G, g.bsize)
      BY <1>5, <2>4, <2>7, <2>8 DEF RingOf, NoneJoin
    <3> QED
      BY <2>4, <2>6, <3>1, <3>2, <3>3 DEF HeapOK
  <2>10. SameOn(g, h, U)
    BY <1>1, <1>3, <2>4 DEF SameOn
  <2> QED
    BY <1>1, <1>7, <1>9, <2>3, <2>4, <2>6, <2>9, <2>10 DEF TakenOK
<1>10. CASE z[p] # n
  <2>1. PICK b : b = p + z[p] - n
    OBVIOUS
  <2>2. b \in Nat /\ p < b /\ b + n = p + z[p]
    BY <1>2, <1>7, <1>10, <2>1
  <2>3. b \notin D
    <3>1. p < b => (b \in D => p + z[p] <= b)
      BY <1>6, <1>7
    <3> QED
      BY <2>2, <3>1
  <2>4. PICK x, y, g : /\ x = With(q, b, Base) /\ y = With([z EXCEPT ![p] = z[p] - n], b, n)
                       /\ g = [ptr |-> x, bsize |-> y, freep |-> v]
    OBVIOUS
  <2>5. k = [at |-> b, heap |-> g]
    <3>1. Split(h, p, b, n) = g
      BY <1>1, <2>4 DEF Split
    <3>2. Taken(h, n) = [at |-> b, heap |-> Split(h, p, b, n)]
      BY <1>1, <1>10, <2>1 DEF Taken
    <3> QED
      BY <1>1, <3>1, <3>2
  <2>6. k.at = b /\ k.heap = g
    BY <2>5
  <2>7. /\ g.ptr = x /\ g.bsize = y /\ g.freep = v
        /\ g = [ptr |-> g.ptr, bsize |-> g.bsize, freep |-> g.freep]
    BY <2>4
  <2>8. PICK E, V : E = D \cup {b} /\ V = U \cup {b}
    OBVIOUS
  <2>9. /\ y = [a \in E |-> y[a]] /\ y[b] = n /\ y[p] = z[p] - n
        /\ \A a \in D \ {p} : y[a] = z[a]
    BY <1>6, <1>7, <2>2, <2>3, <2>4, <2>8 DEF With
  <2>10. DOMAIN x = E /\ \A a \in D : x[a] = q[a]
    BY <1>3, <2>3, <2>4, <2>8 DEF With
  <2>11. y[p] \in Nat /\ y[p] >= 1 /\ p + y[p] = b
    BY <1>2, <1>7, <1>10, <2>2, <2>9
  <2>12. BREAK <= p /\ p + z[p] <= t /\ BREAK \in Nat
    BY <1>6, <1>7, UmTypes
  <2>13. Fills(E, y, t)
    <3>1. E \subseteq Nat /\ Base \in E /\ y[Base] = 0
      BY <1>6, <1>7, <2>2, <2>8, <2>9
    <3>2. \A a \in E : y[a] \in Nat
      BY <1>6, <2>8, <2>9, <2>11
    <3>3. y \in [E -> Nat]
      BY <2>9, <3>2
    <3>4. ASSUME NEW a \in E \ {Base} PROVE y[a] >= 1 /\ BREAK <= a /\ a + y[a] <= t
      <4>1. CASE a = b
        BY <1>7, <2>2, <2>9, <2>12, <4>1
      <4>2. CASE a = p
        BY <1>7, <2>2, <2>11, <2>12, <4>2
      <4>3. CASE a # b /\ a # p
        BY <1>6, <2>8, <2>9, <4>3
      <4> QED
        BY <4>1, <4>2, <4>3
    <3>5. ASSUME NEW a \in E, NEW c \in E, a < c PROVE a + y[a] <= c
      <4>1. a \in Nat /\ c \in Nat
        BY <3>1
      <4>2. CASE a = b
        <5>1. c \in D /\ p < c
          BY <1>7, <2>2, <2>8, <3>5, <4>1, <4>2
        <5>2. p + z[p] <= c
          BY <1>6, <1>7, <5>1
        <5> QED
          BY <2>2, <2>9, <4>2, <5>2
      <4>3. CASE a = p
        <5>1. CASE c = b
          <6>1. a + y[a] = c
            BY <2>11, <4>3, <5>1
          <6> QED
            BY <4>1, <6>1
        <5>2. CASE c # b
          <6>1. p + z[p] <= c
            BY <1>6, <1>7, <2>8, <3>5, <4>3, <5>2
          <6> QED
            BY <1>7, <2>2, <2>11, <4>1, <4>3, <6>1
        <5> QED
          BY <5>1, <5>2
      <4>4. CASE a # b /\ a # p
        <5>1. a \in D /\ y[a] = z[a] /\ z[a] \in Nat
          BY <1>6, <2>8, <2>9, <4>4
        <5>2. CASE c = b
          <6>1. ~ p < a
            <7>1. p < a => p + z[p] <= a
              BY <1>6, <1>7, <5>1
            <7> QED
              BY <1>7, <2>2, <3>5, <4>1, <5>2, <7>1
          <6>2. a < p
            BY <1>7, <4>1, <4>4, <6>1
          <6>3. a + z[a] <= p
            BY <1>6, <1>7, <5>1, <6>2
          <6> QED
            BY <1>7, <2>2, <4>1, <5>1, <5>2, <6>3
        <5>3. CASE c # b
          BY <1>6, <2>8, <3>5, <5>1, <5>3
        <5> QED
          BY <5>2, <5>3
      <4> QED
        BY <4>2, <4>3, <4>4
    <3>6. ASSUME NEW u \in BREAK .. t - 1 PROVE \E a \in E : a <= u /\ u < a + y[a]
      <4>1. PICK a \in D : a <= u /\ u < a + z[a]
        BY <1>6
      <4>2. u \in Int
        BY <2>12
      <4>3. CASE a = p
        <5>1. CASE u < b
          BY <1>7, <2>8, <2>11, <4>1, <4>2, <4>3, <5>1
        <5>2. CASE b <= u
          BY <1>7, <2>2, <2>8, <2>9, <4>1, <4>2, <4>3, <5>2
        <5> QED
          BY <2>2, <4>2, <5>1, <5>2
      <4>4. CASE a # p
        BY <2>8, <2>9, <4>1, <4>4
      <4> QED
        BY <4>3, <4>4
    <3> QED
      BY <3>1, <3>3, <3>4, <3>5, <3>6 DEF Fills
  <2>14. E \ V = F /\ DOMAIN y = E
    BY <1>3, <2>3, <2>8, <2>9
  <2>15. NoneJoin(F, y)
    <3>1. ASSUME NEW a \in F, NEW c \in F, a < c PROVE a + y[a] < c
      <4>1. a + z[a] < c /\ a \in D /\ c \in D /\ a \in Nat /\ c \in Nat
        BY <1>3, <1>5, <1>6, <3>1
      <4>2. CASE a = p
        BY <1>7, <2>2, <2>11, <4>1, <4>2
      <4>3. CASE a # p
        BY <2>9, <4>1, <4>3
      <4> QED
        BY <4>2, <4>3
    <3> QED
      BY <3>1 DEF NoneJoin
  <2>16. RingOf(F, x)
    BY <1>3, <1>4, <2>10 DEF RingOf
  <2>17. HeapOK(g, V, t)
    <3>1. V \subseteq E \ {Base} /\ b # Base
      BY <1>3, <1>6, <2>3, <2>8
    <3> QED
      BY <1>2, <2>7, <2>10, <2>13, <2>14, <2>15, <2>16, <3>1 DEF HeapOK
  <2>18. SameOn(g, h, U)
    <3>1. \A a \in U : a \in D \ {p} /\ a \in E
      BY <1>3, <1>7, <2>8
    <3> QED
      BY <1>1, <2>7, <2>9, <2>14, <3>1 DEF SameOn
  <2>19. b \notin U
    BY <1>3, <2>3
  <2> QED
    BY <1>1, <2>2, <2>6, <2>7, <2>8, <2>9, <2>17, <2>18, <2>19 DEF TakenOK
<1> QED
  BY <1>9, <1>10

-----------------------------------------------------------------------------
(* The invariant.                                                           *)

\* A request has at least one unit, as long as nothing wraps enough for what is asked.
LEMMA UnitsAsked ==
  ASSUME NEW b \in Nat
  PROVE  /\ nunits(b) \in Nat /\ nunits(b) >= 1
         /\ b + UNIT <= WORD => (nunits(b) - 1) * UNIT >= b
<1>1. (b + UNIT - 1) % WORD \in Nat
  BY UmTypes
<1>2. PICK x \in Nat : x = (b + UNIT - 1) % WORD
  BY <1>1
<1>3. x \div UNIT \in Nat
  BY UmTypes
<1>4. PICK d \in Nat : d = x \div UNIT
  BY <1>3
<1>5. nunits(b) = d + 1
  BY <1>2, <1>4 DEF nunits
<1>6. ASSUME b + UNIT <= WORD PROVE d * UNIT >= b
  <2>1. b + UNIT - 1 \in Nat /\ b + UNIT - 1 < WORD
    BY <1>6, UmTypes
  <2>2. PICK y \in Nat : y = b + UNIT - 1
    BY <2>1
  <2>3. y % WORD = y
    BY <2>1, <2>2, UmTypes
  <2>4. x = b + UNIT - 1
    BY <1>2, <2>2, <2>3
  <2>5. x < (x \div UNIT) * UNIT + UNIT
    BY UmTypes
  <2>6. PICK e : e = d * UNIT
    OBVIOUS
  <2>7. x < e + UNIT /\ e \in Nat
    BY <1>4, <2>5, <2>6, UmTypes
  <2> QED
    BY <2>4, <2>6, <2>7, UmTypes
<1>7. (nunits(b) - 1) * UNIT = d * UNIT
  BY <1>5
<1> QED
  BY <1>5, <1>6, <1>7

\* The block of a stack has two pages and a header.
LEMMA StackUnits == STACK \in Nat /\ nunits(STACK) = 2 * UPAGE + 1
<1>1. UPAGE \in Nat \ {0} /\ UNIT \in Nat \ {0} /\ WORD \in Nat \ {0}
  BY UmTypes
<1>2. PICK e \in Nat : e = 2 * UPAGE * UNIT
  BY <1>1
<1>3. e + UNIT <= WORD
  BY <1>2, UMallocAssumption, Zenon
<1>4. STACK = e
  BY <1>2 DEF STACK
<1>5. PICK y \in Nat : y = e + UNIT - 1
  BY <1>1
<1>6. y % WORD = y
  BY <1>1, <1>3, <1>5
<1>7. y \div UNIT = 2 * UPAGE
  <2>1. (2 * UPAGE * UNIT + UNIT - 1) \div UNIT = 2 * UPAGE
    BY <1>1
  <2>2. y = 2 * UPAGE * UNIT + UNIT - 1
    BY <1>2, <1>5
  <2> QED
    BY <2>1, <2>2
<1>8. nunits(STACK) = (y % WORD) \div UNIT + 1
  BY <1>4, <1>5, Zenon DEF nunits
<1>9. (y % WORD) \div UNIT = 2 * UPAGE
  BY <1>6, <1>7, Zenon
<1> QED
  BY <1>4, <1>8, <1>9

\* Rounding up moves an address by less than a page.
LEMMA PageUpIs ==
  ASSUME NEW a \in Nat
  PROVE  PageUp(a) \in Nat /\ PageUp(a) >= a /\ PageUp(a) < a + UPAGE
<1>1. UPAGE \in Nat \ {0}
  BY UmTypes
<1>2. PICK x \in Nat : x = a + UPAGE - 1
  BY <1>1
<1>3. (x \div UPAGE) * UPAGE <= x /\ x < (x \div UPAGE) * UPAGE + UPAGE
  BY <1>1
<1>4. (x \div UPAGE) * UPAGE \in Nat
  BY <1>1
<1>5. PICK e : e = (x \div UPAGE) * UPAGE
  OBVIOUS
<1>6. PageUp(a) = e
  BY <1>2, <1>5, Zenon DEF PageUp
<1> QED
  BY <1>1, <1>2, <1>3, <1>4, <1>5, <1>6

Fields(g) == g = [ptr |-> g.ptr, bsize |-> g.bsize, freep |-> g.freep]

\* After SetHeap() the variables are the heap.
LEMMA HeapNext ==
  ASSUME NEW g, NEW U, NEW t, HeapOK(g, U, t), SetHeap(g)
  PROVE  Heap0' = g
<1>1. Fields(g) /\ g.freep \in Nat
  <2>1. Fields(g)
    BY Zenon DEF HeapOK, Fields
  <2>2. g.freep \in DOMAIN g.bsize /\ DOMAIN g.bsize \subseteq Nat
    BY DEF HeapOK, Fills
  <2> QED
    BY <2>1, <2>2
<1>2. g.freep # -1
  BY <1>1
<1>3. ptr' = g.ptr /\ bsize' = g.bsize /\ freep' = g.freep
  BY DEF SetHeap
<1>4. Heap0' = [ptr |-> g.ptr, bsize |-> g.bsize, freep |-> g.freep]
  BY <1>2, <1>3 DEF Heap0
<1> QED
  BY <1>1, <1>4, Zenon DEF Fields

SearchedOK(g, n, t) == /\ HeapOK(g, InUse, t) /\ SameOn(g, Heap0, InUse) /\ Fit(g, n) # {}
                       /\ t \in Nat /\ top <= t

\* What malloc() searches in the end has a block that is large enough.
LEMMA SearchedKeeps ==
  ASSUME UmHeap, NEW n \in Nat, n >= 1
  PROVE  SearchedOK(Searched(n), n, IF Short(n) THEN top + Asks(n) ELSE top)
<1>1. top \in Nat /\ BREAK <= top /\ HeapOK(Heap0, InUse, top)
  BY DEF UmHeap
<1>2. CASE Short(n)
  <2>1. GrownOK(Grown(Heap0, n), Heap0, InUse, n, top + Asks(n)) /\ Asks(n) \in Nat
    BY <1>1, GrownKeeps
  <2>2. PICK g, t : g = Grown(Heap0, n) /\ t = top + Asks(n)
    OBVIOUS
  <2>3. /\ HeapOK(g, InUse, t) /\ SameOn(g, Heap0, InUse)
        /\ \E a \in FreeOn(g, InUse) : g.bsize[a] >= n
    BY <2>1, <2>2 DEF GrownOK
  <2>4. t \in Nat /\ top <= t
    BY <1>1, <2>1, <2>2
  <2>5. Fit(g, n) # {}
    <3>1. PICK a \in FreeOn(g, InUse) : g.bsize[a] >= n
      BY <2>3
    <3>2. OnRing(g) = FreeOn(g, InUse)
      BY <2>3, <2>4, OnRingIs
    <3>3. a \in DOMAIN g.ptr
      BY <2>3 DEF HeapOK, FreeOn
    <3> QED
      BY <3>1, <3>2, <3>3 DEF Fit, Enough
  <2>6. Searched(n) = g
    BY <1>2, <2>2 DEF Searched
  <2> QED
    BY <1>2, <2>2, <2>3, <2>4, <2>5, <2>6 DEF SearchedOK
<1>3. CASE ~ Short(n)
  <2>1. Searched(n) = Heap0
    BY <1>3 DEF Searched
  <2>2. Fit(Heap0, n) # {}
    BY <1>3 DEF Short
  <2>3. SameOn(Heap0, Heap0, InUse)
    BY <1>1 DEF SameOn, HeapOK
  <2> QED
    BY <1>1, <1>3, <2>1, <2>2, <2>3 DEF SearchedOK
<1> QED
  BY <1>2, <1>3

\* What is asked for is a number.
LEMMA AskedIsNat == Bytes \cup {STACK} \subseteq Nat
<1>1. Bytes \subseteq Nat
  BY UmTypes
<1> QED
  BY <1>1, StackUnits

\* malloc() puts a block in use and leaves the others as they were.
LEMMA ReturnsKeeps ==
  ASSUME UmHeap, UmLive, NEW nb \in Bytes \cup {STACK}, Returns(nb)
  PROVE  /\ UmHeap' /\ UmLive' /\ live \subseteq live'
         /\ [at |-> Block(nb).at, asked |-> nb] \in live'
<1>1. PICK n, t, g, k : /\ n = nunits(nb) /\ t = (IF Short(n) THEN top + Asks(n) ELSE top)
                        /\ g = Searched(n) /\ k = Block(nb)
  OBVIOUS
<1>2. n \in Nat /\ n >= 1
  BY <1>1, AskedIsNat, UnitsAsked
<1>3. SearchedOK(g, n, t)
  BY <1>1, <1>2, SearchedKeeps
<1>4. /\ HeapOK(g, InUse, t) /\ SameOn(g, Heap0, InUse) /\ Fit(g, n) # {}
      /\ t \in Nat /\ top <= t
  BY <1>3 DEF SearchedOK
<1>5. k = Taken(g, n)
  BY <1>1 DEF Block
<1>6. TakenOK(k, g, InUse, n, t)
  BY <1>2, <1>4, <1>5, TakenKeeps
<1>7. /\ HeapOK(k.heap, InUse \cup {k.at}, t) /\ SameOn(k.heap, g, InUse)
      /\ k.at \notin InUse /\ k.heap.bsize[k.at] = n
  BY <1>6 DEF TakenOK
<1>8. /\ SetHeap(k.heap) /\ live' = live \cup {[at |-> k.at, asked |-> nb]} /\ top' = t
  BY <1>1 DEF Returns
<1>9. Heap0' = k.heap /\ bsize' = k.heap.bsize
  <2>1. Heap0' = k.heap
    BY <1>7, <1>8, HeapNext
  <2> QED
    BY <1>8, <2>1 DEF SetHeap
<1>10. InUse' = InUse \cup {k.at}
  <2>1. PICK e : e = [at |-> k.at, asked |-> nb]
    OBVIOUS
  <2>2. e.at = k.at /\ live' = live \cup {e}
    BY <1>8, <2>1
  <2>3. InUse' = {b.at : b \in live'} /\ InUse = {b.at : b \in live}
    BY DEF InUse
  <2> QED
    BY <2>2, <2>3
<1>11. UmHeap'
  <2>1. HeapOK(Heap0, InUse, top)'
    BY <1>7, <1>8, <1>9, <1>10
  <2>2. top' \in Nat /\ BREAK <= top'
    BY <1>4, <1>8, UmTypes DEF UmHeap
  <2> QED
    BY <2>1, <2>2 DEF UmHeap
<1>12. \A b \in live : bsize'[b.at] = bsize[b.at] /\ b.at # k.at
  <2>1. \A b \in live : b.at \in InUse
    BY DEF InUse
  <2> QED
    BY <1>4, <1>7, <1>9, <2>1 DEF SameOn, Heap0
<1>13. ASSUME NEW b \in live'
       PROVE  /\ b = [at |-> b.at, asked |-> b.asked] /\ b.asked \in Bytes \cup {STACK}
              /\ bsize'[b.at] = nunits(b.asked)
  <2>1. CASE b \in live
    BY <1>12, <2>1 DEF UmLive
  <2>2. CASE b = [at |-> k.at, asked |-> nb]
    <3>1. b.at = k.at /\ b.asked = nb
      BY <2>2
    <3> QED
      BY <1>1, <1>7, <1>9, <2>2, <3>1
  <2> QED
    BY <1>8, <2>1, <2>2
<1>14. \A b, c \in live' : b.at = c.at => b = c
  <2>1. \A b, c \in live : b.at = c.at => b = c
    BY DEF UmLive
  <2>2. PICK e : e = [at |-> k.at, asked |-> nb]
    OBVIOUS
  <2>3. e.at = k.at /\ live' = live \cup {e}
    BY <1>8, <2>2
  <2> QED
    BY <1>12, <2>1, <2>3
<1>15. UmLive'
  BY <1>13, <1>14 DEF UmLive
<1> QED
  BY <1>1, <1>8, <1>11, <1>15

\* free() of a block that is in use.
LEMMA FreedNext ==
  ASSUME UmHeap, UmLive, NEW b \in live, SetHeap(Freed(Heap0, b.at)),
         live' = live \ {b}, top' = top
  PROVE  UmHeap' /\ UmLive'
<1>1. top \in Nat /\ BREAK <= top /\ HeapOK(Heap0, InUse, top)
  BY DEF UmHeap
<1>2. b.at \in InUse
  BY DEF InUse
<1>3. PICK g, V : g = Freed(Heap0, b.at) /\ V = InUse \ {b.at}
  OBVIOUS
<1>4. FreedOK(g, Heap0, InUse, b.at, top)
  BY <1>1, <1>2, <1>3, FreedKeeps
<1>5. HeapOK(g, V, top) /\ SameOn(g, Heap0, V)
  BY <1>3, <1>4 DEF FreedOK
<1>6. Heap0' = g /\ bsize' = g.bsize
  <2>1. SetHeap(g)
    BY <1>3
  <2>2. Heap0' = g
    BY <1>5, <2>1, HeapNext
  <2> QED
    BY <2>1, <2>2 DEF SetHeap
<1>7. \A c \in live : c.at = b.at => c = b
  BY DEF UmLive
<1>8. InUse' = V
  <2>1. InUse' = {c.at : c \in live \ {b}}
    BY DEF InUse
  <2> QED
    BY <1>3, <1>7, <2>1 DEF InUse
<1>9. HeapOK(Heap0, InUse, top)'
  BY <1>5, <1>6, <1>8
<1>10. UmHeap'
  BY <1>1, <1>9 DEF UmHeap
<1>11. \A c \in live' : c \in live /\ bsize'[c.at] = bsize[c.at]
  <2>1. \A c \in live' : c \in live /\ c.at \in V
    BY <1>3, <1>7 DEF InUse
  <2> QED
    BY <1>5, <1>6, <2>1 DEF SameOn, Heap0
<1>12. UmLive'
  BY <1>11 DEF UmLive
<1> QED
  BY <1>10, <1>12

LEMMA UmInitHolds == UmInit => UmInv
<1> SUFFICES ASSUME UmInit PROVE UmInv
  OBVIOUS
<1>1. /\ ptr = [a \in {Base} |-> Base] /\ bsize = [a \in {Base} |-> 0] /\ freep = -1
      /\ top = BREAK /\ live = {} /\ stacks = {}
  BY DEF UmInit
<1>2. InUse = {} /\ BREAK \in Nat \ {0} /\ Base \in Nat
  BY <1>1, UmTypes DEF InUse, Base
<1>3. Heap0 = [ptr |-> ptr, bsize |-> bsize, freep |-> Base]
  BY <1>1 DEF Heap0
<1>4. PICK h : h = Heap0
  OBVIOUS
<1>5. /\ h.ptr = ptr /\ h.bsize = bsize /\ h.freep = Base
      /\ h = [ptr |-> h.ptr, bsize |-> h.bsize, freep |-> h.freep]
  BY <1>3, <1>4
<1>6. DOMAIN bsize = {Base} /\ DOMAIN ptr = {Base} /\ bsize[Base] = 0 /\ ptr[Base] = Base
  BY <1>1
<1>7. Fills({Base}, bsize, top)
  <2>1. BREAK .. top - 1 = {}
    BY <1>1, <1>2
  <2>2. bsize \in [{Base} -> Nat]
    BY <1>1
  <2> QED
    BY <1>2, <1>6, <2>1, <2>2 DEF Fills
<1>8. RingOf({Base}, ptr) /\ NoneJoin({Base}, bsize)
  BY <1>2, <1>6 DEF RingOf, Follows, NoneJoin
<1>9. HeapOK(h, {}, top)
  BY <1>5, <1>6, <1>7, <1>8 DEF HeapOK
<1>10. UmHeap
  BY <1>1, <1>2, <1>4, <1>9 DEF UmHeap
<1>11. UmLive /\ UmStacks
  BY <1>1 DEF UmLive, UmStacks
<1> QED
  BY <1>10, <1>11 DEF UmInv

\* The calls keep the invariant.
LEMMA UmStep == UmInv /\ [UmNext]_umvars => UmInv'
<1> SUFFICES ASSUME UmInv, [UmNext]_umvars PROVE UmInv'
  OBVIOUS
<1>1. UmHeap /\ UmLive /\ UmStacks
  BY DEF UmInv
<1>2. \A s \in stacks \ {OnText} : /\ s = [at |-> s.at, stack |-> PageUp(s.at + 1)]
                                   /\ [at |-> s.at, asked |-> STACK] \in live
  BY <1>1 DEF UmStacks
<1>3. ASSUME NEW nb \in Bytes, Returns(nb), stacks' = stacks PROVE UmInv'
  <2>1. UmHeap' /\ UmLive' /\ live \subseteq live'
    BY <1>1, <1>3, ReturnsKeeps
  <2>2. UmStacks'
    BY <1>2, <1>3, <2>1 DEF UmStacks
  <2> QED
    BY <2>1, <2>2 DEF UmInv
<1>4. ASSUME NEW nb, Fails(nb), stacks' \subseteq stacks \cup {OnText} PROVE UmInv'
  <2>1. SetHeap(Heap0) /\ top' = top /\ live' = live
    BY <1>4 DEF Fails
  <2>2. top \in Nat /\ BREAK <= top /\ HeapOK(Heap0, InUse, top)
    BY <1>1 DEF UmHeap
  <2>3. Heap0' = Heap0
    BY <2>1, <2>2, HeapNext
  <2>4. InUse' = InUse /\ bsize' = bsize
    BY <2>1 DEF InUse, SetHeap, Heap0
  <2>5. HeapOK(Heap0, InUse, top)'
    BY <2>1, <2>2, <2>3, <2>4
  <2>6. UmHeap'
    BY <2>1, <2>2, <2>5 DEF UmHeap
  <2>7. UmLive'
    BY <1>1, <2>1, <2>4 DEF UmLive
  <2>8. UmStacks'
    BY <1>2, <1>4, <2>1 DEF UmStacks, OnText
  <2> QED
    BY <2>6, <2>7, <2>8 DEF UmInv
<1>5. ASSUME NEW b \in live, b.at \notin {s.at : s \in stacks}, free(b) PROVE UmInv'
  <2>1. SetHeap(Freed(Heap0, b.at)) /\ live' = live \ {b} /\ top' = top /\ stacks' = stacks
    BY <1>5 DEF free
  <2>2. UmHeap' /\ UmLive'
    BY <1>1, <2>1, FreedNext
  <2>3. ASSUME NEW s \in stacks \ {OnText} PROVE [at |-> s.at, asked |-> STACK] \in live'
    <3>1. PICK c : c = [at |-> s.at, asked |-> STACK]
      OBVIOUS
    <3>2. c \in live /\ c.at = s.at
      BY <1>2, <3>1
    <3>3. s.at # b.at
      BY <1>5
    <3>4. c # b
      BY <3>2, <3>3
    <3> QED
      BY <2>1, <3>1, <3>2, <3>4
  <2>4. UmStacks'
    BY <1>2, <2>1, <2>3 DEF UmStacks, OnText
  <2> QED
    BY <2>2, <2>4 DEF UmInv
<1>6. ASSUME NEW a, a = Block(STACK).at, Returns(STACK),
             stacks' \in {stacks, stacks \cup {[at |-> a, stack |-> PageUp(a + 1)]}}
      PROVE  UmInv'
  <2>1. a = Block(STACK).at
    BY <1>6
  <2>2. Returns(STACK) /\ stacks' \in {stacks, stacks \cup {[at |-> a, stack |-> PageUp(a + 1)]}}
    BY <1>6
  <2>3. UmHeap' /\ UmLive' /\ live \subseteq live' /\ [at |-> a, asked |-> STACK] \in live'
    BY <1>1, <2>1, <2>2, ReturnsKeeps
  <2>4. ASSUME NEW s \in stacks' \ {OnText}
        PROVE  /\ s = [at |-> s.at, stack |-> PageUp(s.at + 1)]
               /\ [at |-> s.at, asked |-> STACK] \in live'
    <3>1. CASE s \in stacks
      BY <1>2, <2>3, <3>1
    <3>2. CASE s = [at |-> a, stack |-> PageUp(a + 1)]
      <4>1. s.at = a
        BY <3>2
      <4> QED
        BY <2>3, <3>2, <4>1
    <3> QED
      BY <2>2, <3>1, <3>2
  <2>5. UmStacks'
    BY <2>4 DEF UmStacks, OnText
  <2> QED
    BY <2>3, <2>5 DEF UmInv
<1>9. CASE thread_create
  <2>1. PICK a : a = Block(STACK).at
    OBVIOUS
  <2>2. CASE /\ Returns(STACK)
             /\ stacks' \in {stacks, stacks \cup {[at |-> a, stack |-> PageUp(a + 1)]}}
    BY <1>6, <2>1, <2>2
  <2>3. CASE Fails(STACK) /\ stacks' \in {stacks, stacks \cup {OnText}}
    <3>1. stacks' \subseteq stacks \cup {OnText}
      BY <2>3
    <3> QED
      BY <1>4, <2>3, <3>1
  <2> QED
    BY <1>9, <2>1, <2>2, <2>3 DEF thread_create
<1>7. CASE thread_join
  <2>1. ASSUME NEW s \in stacks, s.stack = s.at + 1, stacks' = stacks \ {s}, top' = top,
               SetHeap(Freed(Heap0, s.at)), live' = {b \in live : b.at # s.at}
        PROVE  UmInv'
    <3>0. s # OnText
      BY <2>1 DEF OnText
    <3>1. PICK b : b = [at |-> s.at, asked |-> STACK]
      OBVIOUS
    <3>2. b \in live /\ b.at = s.at
      BY <1>2, <3>0, <3>1
    <3>3. live' = live \ {b}
      <4>1. \A c \in live : c.at = b.at => c = b
        BY <1>1, <3>2 DEF UmLive
      <4> QED
        BY <2>1, <3>2, <4>1
    <3>4. UmHeap' /\ UmLive'
      BY <1>1, <2>1, <3>2, <3>3, FreedNext
    <3>5. ASSUME NEW r \in stacks' \ {OnText} PROVE [at |-> r.at, asked |-> STACK] \in live'
      <4>1. PICK c : c = [at |-> r.at, asked |-> STACK]
        OBVIOUS
      <4>2. r \in stacks /\ r # s /\ c \in live /\ c.at = r.at
        BY <1>2, <2>1, <3>5, <4>1
      <4>3. r.at # s.at
        <5>1. r = [at |-> r.at, stack |-> PageUp(r.at + 1)]
          BY <1>2, <3>5, <4>2
        <5>2. s = [at |-> s.at, stack |-> PageUp(s.at + 1)]
          BY <1>2, <3>0
        <5> QED
          BY <4>2, <5>1, <5>2
      <4> QED
        BY <2>1, <4>1, <4>2, <4>3
    <3>6. UmStacks'
      BY <1>2, <2>1, <3>5 DEF UmStacks, OnText
    <3> QED
      BY <3>4, <3>6 DEF UmInv
  <2>2. ASSUME stacks' \subseteq stacks, UNCHANGED << ptr, bsize, freep, top, live >> PROVE UmInv'
    <3>1. UmHeap'
      BY <1>1, <2>2 DEF UmHeap, Heap0, InUse
    <3>2. UmLive' /\ UmStacks'
      BY <1>1, <2>2 DEF UmLive, UmStacks, OnText
    <3> QED
      BY <3>1, <3>2 DEF UmInv
  <2> QED
    BY <1>7, <2>1, <2>2 DEF thread_join
<1>8. CASE UNCHANGED umvars
  <2>1. UNCHANGED << ptr, bsize, freep, top, live, stacks >>
    BY <1>8 DEF umvars
  <2>2. UmHeap'
    BY <1>1, <2>1 DEF UmHeap, Heap0, InUse
  <2>3. UmLive' /\ UmStacks'
    BY <1>1, <2>1 DEF UmLive, UmStacks, OnText
  <2> QED
    BY <2>2, <2>3 DEF UmInv
<1>10. ASSUME NEW nb \in Bytes, malloc(nb) PROVE UmInv'
  <2>1. CASE Ruins(nb)
    <3>1. UNCHANGED << ptr, bsize, freep, top, live, stacks >>
      BY <1>10, <2>1 DEF malloc, Ruins
    <3>2. UmHeap'
      BY <1>1, <3>1 DEF UmHeap, Heap0, InUse
    <3>3. UmLive' /\ UmStacks'
      BY <1>1, <3>1 DEF UmLive, UmStacks, OnText
    <3> QED
      BY <3>2, <3>3 DEF UmInv
  <2> QED
    BY <1>3, <1>4, <1>10, <2>1 DEF malloc
<1> QED
  BY <1>5, <1>7, <1>8, <1>9, <1>10 DEF UmNext

\* The invariant has what is promised of the heap.
LEMMA MallocSoundHolds == UmInv => MallocSound
<1> SUFFICES ASSUME UmInv PROVE MallocSound
  OBVIOUS
<1>1. UmLive /\ UmStacks /\ top \in Nat /\ BREAK <= top /\ HeapOK(Heap0, InUse, top)
  BY DEF UmInv, UmHeap
<1>2. PICK h, D, F, z : /\ h = Heap0 /\ D = DOMAIN bsize /\ F = D \ InUse /\ z = bsize
  OBVIOUS
<1>3. h.ptr = ptr /\ h.bsize = bsize
  BY <1>2 DEF Heap0
<1>4. /\ DOMAIN ptr = D /\ Fills(D, z, top) /\ InUse \subseteq D \ {Base} /\ NoneJoin(F, z)
      /\ HeapOK(h, InUse, top) /\ FreeOn(h, InUse) = F
  BY <1>1, <1>2, <1>3 DEF HeapOK, FreeOn
<1>5. /\ D \subseteq Nat /\ Base \in D /\ z \in [D -> Nat] /\ z[Base] = 0
      /\ \A a \in D \ {Base} : z[a] >= 1 /\ BREAK <= a /\ a + z[a] <= top
      /\ \A a, b \in D : a < b => a + z[a] <= b
      /\ \A u \in BREAK .. top - 1 : \E a \in D : a <= u /\ u < a + z[a]
  BY <1>4 DEF Fills
<1>6. /\ F \subseteq Nat /\ Base \in F /\ RingOf(F, h.ptr) /\ F \subseteq DOMAIN h.ptr
      /\ IsFiniteSet(DOMAIN h.ptr)
  BY <1>1, <1>4, HeapRing
<1>7. OnRing(h) = F
  BY <1>1, <1>4, OnRingIs
<1>8. FreeBlocks = F \ {Base} /\ FreeBlocks \cup InUse = D \ {Base} /\ FreeBlocks \cap InUse = {}
  BY <1>2, <1>4, <1>7 DEF FreeBlocks
<1>9. ASSUME NEW r, r = Ring(Heap0, Base)
      PROVE  \A k \in DOMAIN r : r[k] # Base => \A j \in 1 .. k - 1 : r[j] + bsize[r[j]] < r[k]
  <2>1. PICK w : w = Walk(h, Base)
    OBVIOUS
  <2>2. PICK n : IsWalk(w, F, h.ptr, Base, n)
    BY <1>6, <2>1, WalkIs
  <2>3. n \in Nat \ {0} /\ w \in [0 .. n -> F] /\ w[n] = Base
    BY <2>2 DEF IsWalk
  <2>4. Rises(w, n)
    BY <1>6, <2>2, WalkUp
  <2>5. DOMAIN r = 1 .. n /\ \A k \in 1 .. n : r[k] = w[k] /\ w[k] \in F
    BY <1>2, <1>9, <2>1, <2>3 DEF Ring
  <2>6. SUFFICES ASSUME NEW k \in 1 .. n, r[k] # Base, NEW j \in 1 .. k - 1
                 PROVE  r[j] + bsize[r[j]] < r[k]
    BY <2>5
  <2>7. k \in 1 .. n - 1 /\ j \in 0 .. k - 1 /\ j \in 1 .. n
    BY <2>3, <2>5, <2>6
  <2>8. w[j] < w[k]
    BY <2>4, <2>7 DEF Rises
  <2> QED
    BY <1>2, <1>4, <2>5, <2>7, <2>8 DEF NoneJoin
<1>10. UNION {Extent(a) : a \in FreeBlocks \cup InUse} = BREAK .. top - 1
  <2>1. ASSUME NEW u \in BREAK .. top - 1
        PROVE  \E a \in FreeBlocks \cup InUse : u \in Extent(a)
    <3>1. PICK a \in D : a <= u /\ u < a + z[a]
      BY <1>5
    <3>2. u \in Int /\ u >= 1
      BY UmTypes
    <3>3. a # Base
      BY <1>5, <3>1, <3>2 DEF Base
    <3>4. a \in Nat /\ z[a] \in Nat
      BY <1>5
    <3>5. u \in Extent(a)
      BY <1>2, <3>1, <3>2, <3>4 DEF Extent
    <3> QED
      BY <1>8, <3>3, <3>5
  <2>2. ASSUME NEW a \in FreeBlocks \cup InUse, NEW u \in Extent(a)
        PROVE  u \in BREAK .. top - 1
    <3>1. a \in D \ {Base} /\ a \in Nat /\ z[a] \in Nat /\ BREAK <= a /\ a + z[a] <= top
      BY <1>5, <1>8
    <3>2. u \in a .. a + z[a] - 1
      BY <1>2 DEF Extent
    <3>3. BREAK \in Nat
      BY UmTypes
    <3> QED
      BY <1>1, <3>1, <3>2, <3>3
  <2> QED
    BY <2>1, <2>2
<1>11. ASSUME NEW a \in FreeBlocks \cup InUse, NEW b \in FreeBlocks \cup InUse, a # b
       PROVE  Extent(a) \cap Extent(b) = {}
  <2>1. a \in D /\ b \in D /\ a \in Nat /\ b \in Nat /\ z[a] \in Nat /\ z[b] \in Nat
    BY <1>5, <1>8
  <2>2. a + z[a] <= b \/ b + z[b] <= a
    <3>1. a < b \/ b < a
      BY <1>11, <2>1
    <3> QED
      BY <1>5, <2>1, <3>1
  <2> QED
    BY <1>2, <2>1, <2>2 DEF Extent
<1>12. \A b \in live : b.asked + UNIT <= WORD => (bsize[b.at] - 1) * UNIT >= b.asked
  <2>1. SUFFICES ASSUME NEW b \in live, b.asked + UNIT <= WORD
                 PROVE  (bsize[b.at] - 1) * UNIT >= b.asked
    OBVIOUS
  <2>2. b.asked \in Nat /\ bsize[b.at] = nunits(b.asked)
    BY <1>1, AskedIsNat DEF UmLive
  <2>3. (nunits(b.asked) - 1) * UNIT >= b.asked
    BY <2>1, <2>2, UnitsAsked
  <2> QED
    BY <2>2, <2>3
<1>13. ASSUME NEW s \in stacks \ {OnText} PROVE s.stack > s.at /\ s.stack + UPAGE <= s.at + bsize[s.at]
  <2>1. /\ s = [at |-> s.at, stack |-> PageUp(s.at + 1)]
        /\ [at |-> s.at, asked |-> STACK] \in live
    BY <1>1 DEF UmStacks
  <2>2. PICK b : b = [at |-> s.at, asked |-> STACK]
    OBVIOUS
  <2>3. b \in live /\ b.at = s.at /\ b.asked = STACK
    BY <2>1, <2>2
  <2>4. bsize[s.at] = 2 * UPAGE + 1
    BY <1>1, <2>3, StackUnits DEF UmLive
  <2>5. s.at \in Nat
    BY <1>4, <1>5, <2>3 DEF InUse
  <2>6. PICK a \in Nat : a = s.at
    BY <2>5
  <2>7. s.stack = PageUp(a + 1)
    BY <2>1, <2>6
  <2>8. PageUp(a + 1) \in Nat /\ PageUp(a + 1) >= a + 1 /\ PageUp(a + 1) < (a + 1) + UPAGE
    BY PageUpIs
  <2>9. UPAGE \in Nat
    BY UmTypes
  <2> QED
    BY <2>4, <2>6, <2>7, <2>8, <2>9
<1> QED
  BY <1>4, <1>8, <1>9, <1>10, <1>11, <1>12, <1>13 DEF MallocSound

UmSpec == UmInit /\ [][UmNext]_umvars

\* Of malloc() and free(), by umalloc.c: for any sizes of headers, pages and words and
\* any requests, the free blocks are in order with no two next to each other, with the
\* blocks in use they are the whole heap, a block is as long as was asked unless the sum
\* wrapped, and the stack of a thread is inside its block if malloc() gave it one.  When
\* sbrk() has agreed to what it took for a negative number, or a stack was freed that is
\* not a block, the behaviour ends.
THEOREM MallocIsSound == UmSpec => []MallocSound
<1>1. UmSpec => []UmInv
  BY UmInitHolds, UmStep, PTL DEF UmSpec
<1> QED
  BY <1>1, MallocSoundHolds, PTL

-----------------------------------------------------------------------------
(* The pages of memory.                                                     *)

PageOr0 == 0 .. NPAGES
Dirs == [Cells -> PageOr0]

PgTypes ==
  /\ freelist \in [PageNo -> Nat]
  /\ pstate \in [Slots -> {"UNUSED", "EMBRYO", "RUN", "ZOMBIE"}]
  /\ parent \in [Slots -> 0 .. NPROC] /\ kstack \in [Slots -> PageOr0]
  /\ pgdir \in [Slots -> Dirs] /\ sz \in [Slots -> Nat]
  /\ kpc \in [Slots -> {"user", "kstack", "forkkvm", "copy", "copybad", "forkbad", "grow",
                        "execkvm", "load", "free", "reap"}]
  /\ np \in [Slots -> 0 .. NPROC]
  /\ dir \in [Slots -> Dirs] /\ goal \in [Slots -> Nat] /\ at \in [Slots -> Nat]
  /\ todo \in [Slots -> [Place -> PageOr0]]
  /\ lost \subseteq PageNo /\ panicked = FALSE

\* d has the user's pages below n and no others.
Upto(d, n) == \A a \in 0 .. UTOP - 1 : (d[a] # 0) <=> (a < n)

InFork == {"kstack", "forkkvm", "copy", "copybad", "forkbad"}

\* What a slot that is not in use holds, and where a call may hold something.
Emptied(p) ==
  /\ kpc[p] # "user" => pstate[p] = "RUN"
  /\ pstate[p] = "UNUSED" => kstack[p] = 0 /\ pgdir[p] = NoDir
  /\ pstate[p] = "EMBRYO" => pgdir[p] = NoDir
  /\ kpc[p] \notin {"forkkvm", "copy", "execkvm", "load"} => dir[p] = NoDir
  /\ kpc[p] \notin {"copybad", "forkbad", "free", "reap"} => todo[p] = NoPages

\* The child of fork and that of wait.
ChildRight(p) ==
  /\ kpc[p] \in InFork => np[p] \in Slots /\ pstate[np[p]] = "EMBRYO"
  /\ kpc[p] \in {"kstack", "forkbad"} => kstack[np[p]] = 0
  /\ kpc[p] = "reap" => /\ np[p] \in Slots /\ pstate[np[p]] = "ZOMBIE"
                        /\ kstack[np[p]] = 0 /\ pgdir[np[p]] = NoDir

\* A program is mapped as far as its size says, or not at all.
Sized(p) ==
  /\ sz[p] <= USERTOP
  /\ kpc[p] \in {"kstack", "forkkvm", "copy"} => Upto(pgdir[p], PGROUNDUP(sz[p]))
  /\ kpc[p] = "grow" =>
       /\ goal[p] <= USERTOP /\ sz[p] <= goal[p]
       /\ PGROUNDUP(sz[p]) <= at[p] /\ at[p] <= PGROUNDUP(goal[p])
       /\ Upto(pgdir[p], at[p])
  /\ pstate[p] = "RUN" /\ kpc[p] \notin {"kstack", "forkkvm", "copy", "grow"} =>
       Upto(pgdir[p], PGROUNDUP(sz[p])) \/ Upto(pgdir[p], 0)

\* And so is the directory that fork and exec build.
Built(p) ==
  /\ kpc[p] \in {"forkkvm", "execkvm"} =>
       Upto(dir[p], 0) /\ (dir[p][TOP] # 0 => Missing(dir[p]) # {})
  /\ kpc[p] = "copy" => Upto(dir[p], at[p]) /\ at[p] <= PGROUNDUP(sz[p])
  /\ kpc[p] = "load" => Upto(dir[p], at[p]) /\ at[p] <= Image(p) /\ at[p] <= UTOP

Sane(p) == Emptied(p) /\ ChildRight(p) /\ Sized(p) /\ Built(p)

\* No two calls have the same child.
Distinct ==
  \A p, q \in Slots :
    p # q /\ kpc[p] \in InFork \cup {"reap"} /\ kpc[q] \in InFork \cup {"reap"} => np[p] # np[q]

HeldAt == [x \in Spots |-> Held(x[1], x[2], x[3])]

\* Every page is free, lost or at one spot.
Once(H, F, L) ==
  /\ \A x, y \in Spots : H[x] # 0 /\ H[x] = H[y] => x = y
  /\ \A x \in Spots : H[x] # 0 => F[H[x]] = 0 /\ H[x] \notin L
  /\ \A v \in L : F[v] = 0
  /\ \A v \in PageNo : F[v] \in {0, 1} /\ (F[v] = 0 /\ v \notin L => \E x \in Spots : H[x] = v)

PgInv == /\ PgTypes
         /\ \A p \in Slots : Sane(p)
         /\ Distinct
         /\ Once(HeldAt, freelist, lost)

-----------------------------------------------------------------------------
(* Sizes, places and the smallest of a set.                                 *)

\* The places: the table of every page of the kernel is in a directory.
LEMMA PlacesAre ==
  /\ LastTable \in Nat /\ UTOP \in Nat /\ 0 < UTOP /\ TOP \in Nat /\ UTOP < TOP
  /\ KSTACK \in Place /\ TOP \in Cells /\ KSTACK \notin Cells /\ Cells \subseteq Place
  /\ \A a \in 0 .. UTOP - 1 : a \in Cells /\ a # TOP
  /\ \A t \in Tables : Table(t) \in Cells /\ Table(t) # TOP /\ Table(t) >= UTOP
  /\ \A i \in Place : i # KSTACK => i \in Cells
<1>1. LastTable \in Nat
  BY FirstTable DEF LastTable
<1> QED
  BY <1>1, FirstTable DEF TOP, KSTACK, Place, Cells, Tables, Table

\* Sizes in pages.
LEMMA RoundedUp ==
  /\ PGSIZE \in Nat \ {0} /\ USERTOP \in Nat
  /\ \A n \in Nat : PGROUNDUP(n) \in Nat /\ (n <= USERTOP => PGROUNDUP(n) <= UTOP)
                    /\ (n > 0 => PGROUNDUP(n) > 0)
  /\ \A m, n \in Nat : m <= n => PGROUNDUP(m) <= PGROUNDUP(n)
  /\ \A k \in Nat : PGROUNDUP(k * PGSIZE) = k /\ (k <= UTOP => k * PGSIZE <= USERTOP)
  /\ PGROUNDUP(0) = 0
<1> DEFINE g == PGSIZE
<1>1. g \in Nat \ {0} /\ UTOP \in Nat
  BY FirstTable
<1> HIDE DEF g
<1>2. \A k \in Nat : k * g \in Nat /\ (k * g + g - 1) \div g = k
  BY <1>1
<1>3. \A m \in Nat : (m + g - 1) \div g \in Nat
  BY <1>1
<1>4. \A m, n \in Nat : m <= n => (m + g - 1) \div g <= (n + g - 1) \div g
  <2>1. SUFFICES ASSUME NEW m \in Nat, NEW n \in Nat, m <= n
                 PROVE  (m + g - 1) \div g <= (n + g - 1) \div g
    OBVIOUS
  <2> QED
    BY <1>1, <2>1
<1>5. \A n \in Nat : n > 0 => (n + g - 1) \div g > 0
  BY <1>1
<1>6. UTOP * g \in Nat /\ \A k \in Nat : k <= UTOP => k * g <= UTOP * g
  BY <1>1
<1>7. (0 + g - 1) \div g = 0
  BY <1>1
<1>8. \A n \in Nat : n <= UTOP * g => (n + g - 1) \div g <= UTOP
  BY <1>1, <1>2, <1>4, <1>6
<1>9. USERTOP = UTOP * g /\ \A n : PGROUNDUP(n) = (n + g - 1) \div g
  BY DEF g, USERTOP, PGROUNDUP
<1>10. g = PGSIZE
  BY DEF g
<1> QED
  BY <1>1, <1>2, <1>3, <1>4, <1>5, <1>6, <1>7, <1>8, <1>9, <1>10

\* A set of places or of pages has a smallest one.
LEMMA SmallestIs ==
  ASSUME NEW S, S \subseteq Int, \A x \in S : x >= -1, S # {}
  PROVE  Smallest(S) \in S
<1> DEFINE T == {x + 1 : x \in S}
<1>1. T \subseteq Nat /\ T # {}
  <2>1. PICK x \in S : TRUE
    OBVIOUS
  <2>2. x + 1 \in T
    BY <2>1
  <2>3. \A y \in S : y + 1 \in Nat
    OBVIOUS
  <2> QED
    BY <2>2, <2>3
<1>2. PICK m \in T : \A y \in Nat : y < m => y \notin T
  BY <1>1, LeastAddress, Zenon
<1>3. PICK x \in S : m = x + 1
  BY <1>2
<1>4. \A y \in S : x <= y
  <2>1. SUFFICES ASSUME NEW y \in S, ~ (x <= y) PROVE FALSE
    OBVIOUS
  <2>2. y + 1 \in Nat /\ y + 1 < m /\ y + 1 \in T
    BY <1>3, <2>1
  <2> QED
    BY <1>2, <2>2
<1> QED
  BY <1>3, <1>4 DEF Smallest

-----------------------------------------------------------------------------
(* Pages on the move.                                                       *)

Holds(H) == H \in [Spots -> PageOr0]

\* H2 differs from H at the spot of process a, holder h and place i.
Put(H, H2, a, h, i, v) ==
  \A b \in Slots, k \in HeldBy, j \in Place :
    H2[<< b, k, j >>] = IF b = a /\ k = h /\ j = i THEN v ELSE H[<< b, k, j >>]

\* Places I are exchanged between two holders.
Swap(H, H2, a, h, b, k, I) ==
  \A c \in Slots, l \in HeldBy, j \in Place :
    H2[<< c, l, j >>] = IF j \in I /\ c = a /\ l = h THEN H[<< b, k, j >>]
                        ELSE IF j \in I /\ c = b /\ l = k THEN H[<< a, h, j >>]
                        ELSE H[<< c, l, j >>]

LEMMA SpotIs ==
  /\ \A x \in Spots : x = << x[1], x[2], x[3] >> /\ x[1] \in Slots /\ x[2] \in HeldBy /\ x[3] \in Place
  /\ \A a \in Slots, h \in HeldBy, i \in Place : << a, h, i >> \in Spots
BY DEF Spots

LEMMA PutIs ==
  ASSUME NEW H, NEW H2, Holds(H), Holds(H2), NEW a \in Slots, NEW h \in HeldBy, NEW i \in Place,
         NEW v, Put(H, H2, a, h, i, v)
  PROVE  \A x \in Spots : H2[x] = IF x = << a, h, i >> THEN v ELSE H[x]
<1>1. SUFFICES ASSUME NEW x \in Spots PROVE H2[x] = IF x = << a, h, i >> THEN v ELSE H[x]
  OBVIOUS
<1>2. PICK b \in Slots, k \in HeldBy, j \in Place : x = << b, k, j >>
  BY SpotIs
<1>3. H2[<< b, k, j >>] = IF b = a /\ k = h /\ j = i THEN v ELSE H[<< b, k, j >>]
  BY DEF Put
<1> QED
  BY <1>2, <1>3

\* kalloc.
LEMMA Takes ==
  ASSUME NEW H, NEW H2, Holds(H), Holds(H2), NEW F, F \in [PageNo -> Nat], NEW L,
         L \subseteq PageNo, Once(H, F, L),
         NEW a \in Slots, NEW h \in HeldBy, NEW i \in Place, NEW v \in PageNo, F[v] > 0,
         H[<< a, h, i >>] = 0, Put(H, H2, a, h, i, v)
  PROVE  Once(H2, [F EXCEPT ![v] = @ - 1], L)
<1> DEFINE G == [F EXCEPT ![v] = @ - 1]
           s == << a, h, i >>
<1>1. \A x \in Spots : H2[x] = IF x = s THEN v ELSE H[x]
  BY PutIs
<1>2. F[v] = 1 /\ v \notin L /\ v # 0 /\ (\A x \in Spots : H[x] # v) /\ s \in Spots /\ H[s] = 0
  <2>1. F[v] = 1 /\ v # 0
    BY DEF Once, PageNo
  <2> QED
    BY <2>1, SpotIs DEF Once, PageNo
<1>3. G[v] = 0 /\ \A w \in PageNo : w # v => G[w] = F[w]
  BY <1>2
<1>4. \A x \in Spots : H[x] = 0 \/ H[x] \in PageNo
  BY DEF Holds, PageOr0, PageNo
<1> HIDE DEF G, s
<1>5. \A x, y \in Spots : H2[x] # 0 /\ H2[x] = H2[y] => x = y
  BY <1>1, <1>2 DEF Once
<1>6. \A x \in Spots : H2[x] # 0 => G[H2[x]] = 0 /\ H2[x] \notin L
  BY <1>1, <1>2, <1>3, <1>4 DEF Once
<1>7. \A w \in L : G[w] = 0
  BY <1>2, <1>3 DEF Once
<1>8. \A w \in PageNo : G[w] \in {0, 1} /\ (G[w] = 0 /\ w \notin L => \E x \in Spots : H2[x] = w)
  <2>1. SUFFICES ASSUME NEW w \in PageNo
                 PROVE  G[w] \in {0, 1} /\ (G[w] = 0 /\ w \notin L => \E x \in Spots : H2[x] = w)
    OBVIOUS
  <2>2. CASE w = v
    <3>1. H2[s] = w /\ s \in Spots /\ G[w] = 0
      BY <1>1, <1>2, <1>3, <2>2
    <3> QED
      BY <3>1
  <2>3. CASE w # v
    <3>1. G[w] = F[w] /\ w # 0
      BY <1>3, <2>3 DEF PageNo
    <3>2. G[w] \in {0, 1}
      BY <3>1 DEF Once
    <3>3. ASSUME G[w] = 0, w \notin L PROVE \E x \in Spots : H2[x] = w
      <4>1. PICK x \in Spots : H[x] = w
        BY <3>1, <3>3 DEF Once
      <4>2. H2[x] = w
        BY <1>1, <1>2, <3>1, <4>1
      <4> QED
        BY <4>2
    <3> QED
      BY <3>2, <3>3
  <2> QED
    BY <2>2, <2>3
<1>9. G = [F EXCEPT ![v] = @ - 1]
  BY DEF G
<1> QED
  BY <1>5, <1>6, <1>7, <1>8, <1>9 DEF Once

\* kfree.
LEMMA Gives ==
  ASSUME NEW H, NEW H2, Holds(H), Holds(H2), NEW F, F \in [PageNo -> Nat], NEW L,
         L \subseteq PageNo, Once(H, F, L),
         NEW a \in Slots, NEW h \in HeldBy, NEW i \in Place, NEW v, v # 0,
         H[<< a, h, i >>] = v, Put(H, H2, a, h, i, 0)
  PROVE  Once(H2, [F EXCEPT ![v] = @ + 1], L)
<1> DEFINE G == [F EXCEPT ![v] = @ + 1]
           s == << a, h, i >>
<1>1. \A x \in Spots : H2[x] = IF x = s THEN 0 ELSE H[x]
  BY PutIs
<1>2. v \in PageNo /\ s \in Spots /\ H[s] = v
  BY SpotIs DEF Holds, PageOr0, PageNo
<1>3. F[v] = 0 /\ v \notin L /\ (\A x \in Spots : H[x] = v => x = s)
  BY <1>2 DEF Once
<1>4. G[v] = 1 /\ \A w \in PageNo : w # v => G[w] = F[w]
  BY <1>2, <1>3
<1>5. \A x \in Spots : H[x] = 0 \/ H[x] \in PageNo
  BY DEF Holds, PageOr0, PageNo
<1> HIDE DEF G, s
<1>6. \A x, y \in Spots : H2[x] # 0 /\ H2[x] = H2[y] => x = y
  BY <1>1 DEF Once
<1>7. \A x \in Spots : H2[x] # 0 => G[H2[x]] = 0 /\ H2[x] \notin L
  BY <1>1, <1>3, <1>4, <1>5 DEF Once
<1>8. \A w \in L : G[w] = 0
  BY <1>3, <1>4 DEF Once
<1>9. \A w \in PageNo : G[w] \in {0, 1} /\ (G[w] = 0 /\ w \notin L => \E x \in Spots : H2[x] = w)
  BY <1>1, <1>2, <1>4 DEF Once
<1>10. G = [F EXCEPT ![v] = @ + 1]
  BY DEF G
<1> QED
  BY <1>6, <1>7, <1>8, <1>9, <1>10 DEF Once

\* Pages that change hands.
LEMMA Swaps ==
  ASSUME NEW H, NEW H2, Holds(H), Holds(H2), NEW F, NEW L, Once(H, F, L),
         NEW a \in Slots, NEW h \in HeldBy, NEW b \in Slots, NEW k \in HeldBy,
         a # b \/ h # k, NEW I, Swap(H, H2, a, h, b, k, I)
  PROVE  Once(H2, F, L)
<1> DEFINE g == [x \in Spots |-> IF x[3] \in I /\ x[1] = a /\ x[2] = h THEN << b, k, x[3] >>
                                 ELSE IF x[3] \in I /\ x[1] = b /\ x[2] = k THEN << a, h, x[3] >>
                                 ELSE x]
<1>1. \A x \in Spots : g[x] \in Spots /\ g[g[x]] = x /\ H2[x] = H[g[x]]
  <2>1. SUFFICES ASSUME NEW x \in Spots
                 PROVE  g[x] \in Spots /\ g[g[x]] = x /\ H2[x] = H[g[x]]
    OBVIOUS
  <2>2. PICK c \in Slots, l \in HeldBy, j \in Place : x = << c, l, j >>
    BY SpotIs
  <2>3. << a, h, j >> \in Spots /\ << b, k, j >> \in Spots
    BY SpotIs
  <2>4. H2[x] = IF j \in I /\ c = a /\ l = h THEN H[<< b, k, j >>]
                ELSE IF j \in I /\ c = b /\ l = k THEN H[<< a, h, j >>] ELSE H[x]
    BY <2>2 DEF Swap
  <2>5. CASE j \in I /\ c = a /\ l = h
    <3>1. g[x] = << b, k, j >> /\ g[<< b, k, j >>] = << a, h, j >> /\ x = << a, h, j >>
      BY <2>2, <2>3, <2>5
    <3> QED
      BY <2>3, <2>4, <2>5, <3>1
  <2>6. CASE j \in I /\ c = b /\ l = k
    <3>1. g[x] = << a, h, j >> /\ g[<< a, h, j >>] = << b, k, j >> /\ x = << b, k, j >>
      BY <2>2, <2>3, <2>6
    <3> QED
      BY <2>3, <2>4, <2>6, <3>1
  <2>7. CASE ~ (j \in I /\ c = a /\ l = h) /\ ~ (j \in I /\ c = b /\ l = k)
    <3>1. g[x] = x
      BY <2>2, <2>7
    <3> QED
      BY <2>4, <2>7, <3>1
  <2> QED
    BY <2>5, <2>6, <2>7
<1> HIDE DEF g
<1>2. \A x, y \in Spots : H2[x] # 0 /\ H2[x] = H2[y] => x = y
  <2>1. SUFFICES ASSUME NEW x \in Spots, NEW y \in Spots, H2[x] # 0, H2[x] = H2[y]
                 PROVE  x = y
    OBVIOUS
  <2>2. g[x] = g[y]
    BY <1>1, <2>1 DEF Once
  <2> QED
    BY <1>1, <2>2
<1>3. \A x \in Spots : H2[x] # 0 => F[H2[x]] = 0 /\ H2[x] \notin L
  BY <1>1 DEF Once
<1>4. \A w \in PageNo : F[w] = 0 /\ w \notin L => \E x \in Spots : H2[x] = w
  <2>1. SUFFICES ASSUME NEW w \in PageNo, F[w] = 0, w \notin L
                 PROVE  \E x \in Spots : H2[x] = w
    OBVIOUS
  <2>2. PICK x \in Spots : H[x] = w
    BY <2>1 DEF Once
  <2>3. g[x] \in Spots /\ H2[g[x]] = w
    BY <1>1, <2>2
  <2> QED
    BY <2>3
<1> QED
  BY <1>2, <1>3, <1>4 DEF Once

\* Process a loses what it holds as h.
Cleared(H, H2, a, h) ==
  \A b \in Slots, k \in HeldBy, j \in Place :
    H2[<< b, k, j >>] = IF b = a /\ k = h THEN 0 ELSE H[<< b, k, j >>]

LEMMA Loses ==
  ASSUME NEW H, NEW H2, Holds(H), Holds(H2), NEW F, NEW L, NEW L2, Once(H, F, L),
         NEW a \in Slots, NEW h \in HeldBy, Cleared(H, H2, a, h),
         \A v : v \in L2 <=> v \in L \/ (v # 0 /\ \E i \in Place : v = H[<< a, h, i >>])
  PROVE  Once(H2, F, L2)
<1>1. \A x \in Spots : H2[x] = IF x[1] = a /\ x[2] = h THEN 0 ELSE H[x]
  <2>1. SUFFICES ASSUME NEW x \in Spots
                 PROVE  H2[x] = IF x[1] = a /\ x[2] = h THEN 0 ELSE H[x]
    OBVIOUS
  <2>2. PICK b \in Slots, k \in HeldBy, j \in Place : x = << b, k, j >>
    BY SpotIs
  <2> QED
    BY <2>2 DEF Cleared
<1>2. \A x \in Spots : H2[x] # 0 => H2[x] = H[x] /\ H[x] \notin L2
  <2>1. SUFFICES ASSUME NEW x \in Spots, H2[x] # 0, H[x] \in L2 PROVE FALSE
    BY <1>1
  <2>2. H2[x] = H[x] /\ ~ (x[1] = a /\ x[2] = h)
    BY <1>1, <2>1
  <2>3. H[x] \notin L
    BY <2>1, <2>2 DEF Once
  <2>4. PICK i \in Place : H[x] = H[<< a, h, i >>]
    BY <2>1, <2>3
  <2>5. << a, h, i >> \in Spots
    BY SpotIs
  <2>6. x = << a, h, i >>
    BY <2>1, <2>2, <2>4, <2>5 DEF Once
  <2> QED
    BY <2>2, <2>6
<1>3. \A x, y \in Spots : H2[x] # 0 /\ H2[x] = H2[y] => x = y
  BY <1>2 DEF Once
<1>4. \A x \in Spots : H2[x] # 0 => F[H2[x]] = 0 /\ H2[x] \notin L2
  BY <1>2 DEF Once
<1>5. \A v \in L2 : F[v] = 0
  <2>1. SUFFICES ASSUME NEW v \in L2, v \notin L PROVE F[v] = 0
    BY DEF Once
  <2>2. PICK i \in Place : v # 0 /\ v = H[<< a, h, i >>]
    BY <2>1
  <2>3. << a, h, i >> \in Spots
    BY SpotIs
  <2> QED
    BY <2>2, <2>3 DEF Once
<1>6. \A w \in PageNo : F[w] = 0 /\ w \notin L2 => \E x \in Spots : H2[x] = w
  <2>1. SUFFICES ASSUME NEW w \in PageNo, F[w] = 0, w \notin L2
                 PROVE  \E x \in Spots : H2[x] = w
    OBVIOUS
  <2>2. PICK x \in Spots : H[x] = w
    BY <2>1 DEF Once
  <2>3. ~ (x[1] = a /\ x[2] = h)
    <3>1. SUFFICES ASSUME x[1] = a, x[2] = h PROVE FALSE
      OBVIOUS
    <3>2. x = << a, h, x[3] >> /\ x[3] \in Place /\ w # 0
      BY <3>1, SpotIs DEF PageNo
    <3> QED
      BY <2>1, <2>2, <3>2
  <2>4. H2[x] = w
    BY <1>1, <2>2, <2>3
  <2> QED
    BY <2>4
<1> QED
  BY <1>3, <1>4, <1>5, <1>6 DEF Once

-----------------------------------------------------------------------------
(* What a step of a call leaves alone.                                      *)

WithChild == InFork \cup {"reap"}

Alike(q) ==
  /\ pstate'[q] = pstate[q] /\ kstack'[q] = kstack[q] /\ pgdir'[q] = pgdir[q] /\ sz'[q] = sz[q]
  /\ kpc'[q] = kpc[q] /\ np'[q] = np[q] /\ dir'[q] = dir[q] /\ goal'[q] = goal[q]
  /\ at'[q] = at[q] /\ todo'[q] = todo[q]

\* A step of p changes p and c, which is p itself or no child of another call.
Touches(p, c) == \A q \in Slots : q # p /\ q # c => Alike(q)
OthersRight(p, c) == \A q \in Slots : q # p /\ q # c => Sane(q)'
NotOf(p, c) == c = p \/ \A q \in Slots : q # p /\ kpc[q] \in WithChild => np[q] # c

LEMMA OthersSane ==
  ASSUME PgInv, NEW p \in Slots, pstate[p] = "RUN", NEW c, NotOf(p, c), Touches(p, c)
  PROVE  OthersRight(p, c)
<1>1. SUFFICES ASSUME NEW q \in Slots, q # p, q # c PROVE Sane(q)'
  BY DEF OthersRight
<1>2. Alike(q) /\ Sane(q)
  BY <1>1 DEF PgInv, Touches
<1>3. ASSUME kpc[q] \in WithChild PROVE Alike(np[q])
  <2>1. np[q] \in Slots /\ pstate[np[q]] # "RUN"
    BY <1>2, <1>3 DEF Sane, ChildRight, WithChild, InFork
  <2>2. np[q] # p /\ np[q] # c
    BY <1>1, <1>3, <2>1 DEF NotOf
  <2> QED
    BY <2>1, <2>2 DEF Touches
<1>4. Emptied(q)'
  BY <1>2 DEF Alike, Sane, Emptied
<1>5. ChildRight(q)'
  BY <1>2, <1>3 DEF Alike, Sane, ChildRight, WithChild, InFork
<1>6. Sized(q)'
  BY <1>2 DEF Alike, Sane, Sized
<1>7. Built(q)'
  BY <1>2 DEF Alike, Sane, Built, Image
<1> QED
  BY <1>4, <1>5, <1>6, <1>7 DEF Sane

\* The child of a call.
LEMMA ChildIs ==
  ASSUME PgInv, NEW p \in Slots, kpc[p] \in WithChild
  PROVE  /\ np[p] \in Slots /\ np[p] # p /\ kpc[np[p]] = "user" /\ pstate[p] = "RUN"
         /\ NotOf(p, np[p])
<1>1. Sane(p)
  BY DEF PgInv
<1>2. np[p] \in Slots /\ pstate[np[p]] # "RUN" /\ pstate[p] = "RUN"
  BY <1>1 DEF Sane, Emptied, ChildRight, WithChild, InFork
<1>3. Sane(np[p])
  BY <1>2 DEF PgInv
<1>4. kpc[np[p]] = "user"
  BY <1>2, <1>3 DEF Sane, Emptied
<1>5. \A q \in Slots : q # p /\ kpc[q] \in WithChild => np[q] # np[p]
  BY DEF PgInv, Distinct, WithChild
<1> QED
  BY <1>2, <1>4, <1>5 DEF NotOf

\* No call gets a new child.
LEMMA DistinctKept ==
  ASSUME Distinct,
         \A q \in Slots : kpc'[q] \in WithChild => kpc[q] \in WithChild /\ np'[q] = np[q]
  PROVE  Distinct'
BY DEF Distinct, WithChild

\* Spots.
LEMMA HeldIs ==
  ASSUME PgTypes
  PROVE  /\ Holds(HeldAt)
         /\ \A a \in Slots, h \in HeldBy, i \in Place : HeldAt[<< a, h, i >>] = Held(a, h, i)
<1>1. \A a \in Slots, h \in HeldBy, i \in Place : Held(a, h, i) \in PageOr0
  BY PlacesAre, FirstTable DEF PgTypes, Held, HeldBy, Dirs, PageOr0
<1>2. \A a \in Slots, h \in HeldBy, i \in Place : HeldAt[<< a, h, i >>] = Held(a, h, i)
  BY SpotIs DEF HeldAt
<1>3. \A x \in Spots : Held(x[1], x[2], x[3]) \in PageOr0
  BY <1>1, SpotIs
<1> QED
  BY <1>2, <1>3 DEF Holds, HeldAt

\* Nothing that a process holds changes.
LEMMA HeldSame ==
  ASSUME UNCHANGED << kstack, pgdir, dir, todo >>
  PROVE  HeldAt' = HeldAt
BY DEF HeldAt, Held

LEMMA OnceKept ==
  ASSUME NEW H, NEW F, NEW L, Once(H, F, L), H = HeldAt', F = freelist', L = lost'
  PROVE  Once(HeldAt, freelist, lost)'
OBVIOUS

LEMMA OnceSame ==
  ASSUME PgInv, UNCHANGED << kstack, pgdir, dir, todo, freelist, lost >>
  PROVE  Once(HeldAt, freelist, lost)'
<1>1. HeldAt' = HeldAt
  BY HeldSame
<1>2. Once(HeldAt, freelist, lost)
  BY DEF PgInv
<1> QED
  BY <1>1, <1>2, OnceKept

LEMMA NonePages ==
  /\ NoPages \in [Place -> PageOr0] /\ NoDir \in Dirs
  /\ \A i \in Place : NoPages[i] = 0
  /\ \A i \in Cells : NoDir[i] = 0
  /\ Upto(NoDir, 0) /\ NoDir[TOP] = 0
BY PlacesAre, FirstTable DEF NoPages, NoDir, Dirs, PageOr0, Upto

-----------------------------------------------------------------------------
(* Steps that move no page.                                                 *)

LEMMA ExecSane ==
  ASSUME PgInv, NEW p \in Slots, NEW n \in Images, exec(p, n)
  PROVE  PgInv'
<1> USE DEF exec, Calls, Goes
<1>1. PgTypes /\ Sane(p) /\ n \in Nat
  BY FirstTable DEF PgInv
<1>2. PgTypes'
  BY <1>1 DEF PgTypes, procvars
<1>3. OthersRight(p, p)
  <2>1. Touches(p, p)
    BY <1>1 DEF Touches, Alike, PgTypes, procvars
  <2>2. NotOf(p, p)
    BY DEF NotOf
  <2> QED
    BY <2>1, <2>2, OthersSane
<1>4. Sane(p)'
  <2>1. kpc'[p] = "execkvm"
    BY <1>1 DEF PgTypes
  <2>2. Emptied(p)'
    BY <1>1, <2>1 DEF Sane, Emptied, procvars
  <2>3. ChildRight(p)'
    BY <2>1 DEF ChildRight, InFork
  <2>4. Sized(p)'
    BY <1>1, <2>1 DEF Sane, Sized, procvars
  <2>5. Built(p)'
    BY <1>1, <2>1, NonePages DEF Sane, Emptied, Built
  <2> QED
    BY <2>2, <2>3, <2>4, <2>5 DEF Sane
<1>5. Distinct'
  <2>1. \A q \in Slots : kpc'[q] \in WithChild => kpc[q] \in WithChild /\ np'[q] = np[q]
    BY <1>1 DEF PgTypes, WithChild, InFork
  <2> QED
    BY <2>1, DistinctKept DEF PgInv
<1>6. Once(HeldAt, freelist, lost)'
  BY OnceSame DEF procvars
<1> QED
  BY <1>2, <1>3, <1>4, <1>5, <1>6 DEF PgInv, OthersRight

\* A process that makes a call is mapped.
LEMMA CallerIs ==
  ASSUME PgInv, NEW p \in Slots, Calls(p)
  PROVE  /\ pstate[p] = "RUN" /\ kpc[p] = "user" /\ panicked = FALSE
         /\ Upto(pgdir[p], PGROUNDUP(sz[p])) /\ sz[p] <= USERTOP /\ sz[p] \in Nat
         /\ PgTypes /\ Sane(p) /\ dir[p] = NoDir /\ todo[p] = NoPages
<1>1. PgTypes /\ Sane(p)
  BY DEF PgInv
<1>2. ~ Upto(pgdir[p], 0)
  BY FirstTable DEF Calls, Upto
<1> QED
  BY <1>1, <1>2 DEF Calls, Sane, Sized, Emptied, PgTypes

LEMMA SbrkUpSane ==
  ASSUME PgInv, NEW p \in Slots, NEW n \in Grows, sbrkUp(p, n)
  PROVE  PgInv'
<1> USE DEF sbrkUp, Goes
<1>0. n \in Nat
  BY FirstTable
<1>1. /\ PgTypes /\ Sane(p) /\ n \in Nat /\ sz[p] \in Nat
      /\ pstate[p] = "RUN" /\ kpc[p] = "user" /\ Upto(pgdir[p], PGROUNDUP(sz[p]))
      /\ dir[p] = NoDir /\ todo[p] = NoPages /\ sz[p] <= USERTOP
  BY <1>0, CallerIs
<1>2. PGROUNDUP(sz[p]) \in Nat /\ sz[p] + n \in Nat /\ sz[p] <= sz[p] + n
      /\ PGROUNDUP(sz[p]) <= PGROUNDUP(sz[p] + n)
  BY <1>1, RoundedUp
<1>3. PgTypes'
  BY <1>1, <1>2 DEF PgTypes, procvars
<1>4. OthersRight(p, p)
  <2>1. Touches(p, p)
    BY <1>1 DEF Touches, Alike, PgTypes, procvars
  <2>2. NotOf(p, p)
    BY DEF NotOf
  <2> QED
    BY <1>1, <2>1, <2>2, OthersSane
<1>5. Sane(p)'
  <2>1. kpc'[p] = "grow" /\ goal'[p] = sz[p] + n /\ at'[p] = PGROUNDUP(sz[p])
    BY <1>1 DEF PgTypes
  <2>2. Emptied(p)'
    BY <1>1, <2>1 DEF Sane, Emptied, procvars
  <2>3. ChildRight(p)'
    BY <2>1 DEF ChildRight, InFork
  <2>4. Sized(p)'
    BY <1>1, <1>2, <2>1 DEF Sane, Sized, procvars
  <2>5. Built(p)'
    BY <2>1 DEF Built
  <2> QED
    BY <2>2, <2>3, <2>4, <2>5 DEF Sane
<1>6. Distinct'
  <2>1. \A q \in Slots : kpc'[q] \in WithChild => kpc[q] \in WithChild /\ np'[q] = np[q]
    BY <1>1 DEF PgTypes, WithChild, InFork
  <2> QED
    BY <2>1, DistinctKept DEF PgInv
<1>7. Once(HeldAt, freelist, lost)'
  BY OnceSame DEF procvars
<1> QED
  BY <1>3, <1>4, <1>5, <1>6, <1>7 DEF PgInv, OthersRight

LEMMA GrowEndSane ==
  ASSUME PgInv, NEW p \in Slots, growEnd(p)
  PROVE  PgInv'
<1> USE DEF growEnd, Goes
<1>1. PgTypes /\ Sane(p) /\ pstate[p] = "RUN" /\ Upto(pgdir[p], at[p]) /\ goal[p] <= USERTOP
  BY DEF PgInv, Sane, Emptied, Sized
<1>3. PgTypes'
  BY <1>1 DEF PgTypes, procvars
<1>4. OthersRight(p, p)
  <2>1. Touches(p, p)
    BY <1>1 DEF Touches, Alike, PgTypes, procvars
  <2>2. NotOf(p, p)
    BY DEF NotOf
  <2> QED
    BY <1>1, <2>1, <2>2, OthersSane
<1>5. Sane(p)'
  <2>1. kpc'[p] = "user" /\ sz'[p] = goal[p]
    BY <1>1 DEF PgTypes
  <2>2. Emptied(p)'
    BY <1>1, <2>1 DEF Sane, Emptied, procvars
  <2>3. ChildRight(p)'
    BY <2>1 DEF ChildRight, InFork
  <2>4. Sized(p)'
    BY <1>1, <2>1 DEF Sane, Sized, procvars
  <2>5. Built(p)'
    BY <2>1 DEF Built
  <2> QED
    BY <2>2, <2>3, <2>4, <2>5 DEF Sane
<1>6. Distinct'
  <2>1. \A q \in Slots : kpc'[q] \in WithChild => kpc[q] \in WithChild /\ np'[q] = np[q]
    BY <1>1 DEF PgTypes, WithChild, InFork
  <2> QED
    BY <2>1, DistinctKept DEF PgInv
<1>7. Once(HeldAt, freelist, lost)'
  BY OnceSame DEF procvars
<1> QED
  BY <1>3, <1>4, <1>5, <1>6, <1>7 DEF PgInv, OthersRight

LEMMA ExitSane ==
  ASSUME PgInv, NEW p \in Slots, exit(p)
  PROVE  PgInv'
<1> USE DEF exit, Becomes
<1>1. PgTypes /\ Sane(p)
  BY DEF PgInv
<1>3. PgTypes'
  <2>1. \A q \in Slots : parent[q] \in 0 .. NPROC /\ 1 \in 0 .. NPROC
    BY <1>1, FirstTable DEF PgTypes
  <2>2. parent' \in [Slots -> 0 .. NPROC]
    BY <2>1
  <2> QED
    BY <1>1, <2>2 DEF PgTypes, procvars
<1>4. OthersRight(p, p)
  <2>1. Touches(p, p)
    BY <1>1 DEF Touches, Alike, PgTypes, procvars
  <2>2. NotOf(p, p)
    BY DEF NotOf
  <2> QED
    BY <1>1, <2>1, <2>2, OthersSane
<1>5. Sane(p)'
  <2>1. kpc'[p] = "user" /\ pstate'[p] = "ZOMBIE"
    BY <1>1 DEF PgTypes
  <2>2. Emptied(p)'
    BY <1>1, <2>1 DEF Sane, Emptied, procvars
  <2>3. ChildRight(p)'
    BY <2>1 DEF ChildRight, InFork
  <2>4. Sized(p)'
    BY <1>1, <2>1 DEF Sane, Sized, procvars
  <2>5. Built(p)'
    BY <2>1 DEF Built
  <2> QED
    BY <2>2, <2>3, <2>4, <2>5 DEF Sane
<1>6. Distinct'
  <2>1. \A q \in Slots : kpc'[q] \in WithChild => kpc[q] \in WithChild /\ np'[q] = np[q]
    OBVIOUS
  <2> QED
    BY <2>1, DistinctKept DEF PgInv
<1>7. Once(HeldAt, freelist, lost)'
  BY OnceSame DEF procvars
<1> QED
  BY <1>3, <1>4, <1>5, <1>6, <1>7 DEF PgInv, OthersRight

LEMMA AllocprocSane ==
  ASSUME PgInv, NEW p \in Slots, allocproc(p)
  PROVE  PgInv'
<1> USE DEF allocproc, Becomes, Goes
<1>1. /\ PgTypes /\ Sane(p) /\ pstate[p] = "RUN" /\ kpc[p] = "user"
      /\ Upto(pgdir[p], PGROUNDUP(sz[p])) /\ dir[p] = NoDir /\ todo[p] = NoPages
  BY CallerIs
<1>2. PICK c \in Slots : pstate[c] = "UNUSED" /\ pstate' = [pstate EXCEPT ![c] = "EMBRYO"]
                         /\ np' = [np EXCEPT ![p] = c]
  OBVIOUS
<1>3. PgTypes'
  BY <1>1, <1>2 DEF PgTypes, Slots
<1>4. c # p /\ Sane(c) /\ kpc[c] = "user" /\ kstack[c] = 0 /\ pgdir[c] = NoDir
  BY <1>1, <1>2 DEF PgInv, Sane, Emptied
<1>5. \A q \in Slots : kpc[q] \in WithChild => np[q] # c
  BY <1>2 DEF PgInv, Sane, ChildRight, WithChild, InFork
<1>6. OthersRight(p, c)
  <2>1. Touches(p, c)
    BY <1>1, <1>2 DEF Touches, Alike, PgTypes
  <2>2. NotOf(p, c)
    BY <1>5 DEF NotOf
  <2> QED
    BY <1>1, <2>1, <2>2, OthersSane
<1>7. /\ kpc'[p] = "kstack" /\ np'[p] = c /\ pstate'[c] = "EMBRYO" /\ pstate'[p] = pstate[p]
      /\ kpc'[c] = "user"
  BY <1>1, <1>2, <1>4 DEF PgTypes
<1>8. Sane(p)'
  <2>2. Emptied(p)'
    BY <1>1, <1>7 DEF Sane, Emptied
  <2>3. ChildRight(p)'
    BY <1>2, <1>4, <1>7 DEF ChildRight, InFork
  <2>4. Sized(p)'
    BY <1>1, <1>7 DEF Sane, Sized
  <2>5. Built(p)'
    BY <1>7 DEF Built
  <2> QED
    BY <2>2, <2>3, <2>4, <2>5 DEF Sane
<1>9. Sane(c)'
  <2>2. Emptied(c)'
    BY <1>4, <1>7 DEF Sane, Emptied
  <2>3. ChildRight(c)'
    BY <1>7 DEF ChildRight, InFork
  <2>4. Sized(c)'
    BY <1>4, <1>7 DEF Sane, Sized
  <2>5. Built(c)'
    BY <1>7 DEF Built
  <2> QED
    BY <2>2, <2>3, <2>4, <2>5 DEF Sane
<1>10. Distinct'
  <2>1. \A q \in Slots : q # p => kpc'[q] = kpc[q] /\ np'[q] = np[q]
    BY <1>1, <1>2 DEF PgTypes
  <2> QED
    BY <1>5, <1>7, <2>1 DEF PgInv, Distinct, WithChild
<1>11. Once(HeldAt, freelist, lost)'
  BY OnceSame
<1> QED
  BY <1>3, <1>6, <1>8, <1>9, <1>10, <1>11 DEF PgInv, OthersRight

-----------------------------------------------------------------------------
(* Pages that a step moves.                                                 *)

LEMMA HeldIsNext ==
  ASSUME PgTypes'
  PROVE  /\ Holds(HeldAt')
         /\ \A a \in Slots, h \in HeldBy, i \in Place : HeldAt'[<< a, h, i >>] = Held(a, h, i)'
<1>1. \A a \in Slots, h \in HeldBy, i \in Place : Held(a, h, i)' \in PageOr0
  BY PlacesAre, FirstTable DEF PgTypes, Held, HeldBy, Dirs, PageOr0
<1>2. \A a \in Slots, h \in HeldBy, i \in Place : HeldAt'[<< a, h, i >>] = Held(a, h, i)'
  BY SpotIs DEF HeldAt
<1>3. \A x \in Spots : Held(x[1], x[2], x[3])' \in PageOr0
  BY <1>1, SpotIs
<1> QED
  BY <1>2, <1>3 DEF Holds, HeldAt

\* The first free page.
LEMMA FreeIs ==
  ASSUME PgInv, Free # {}
  PROVE  /\ Page \in PageNo /\ Page \in PageOr0 /\ Page # 0 /\ freelist[Page] > 0
         /\ kalloc => freelist' \in [PageNo -> Nat]
<1>1. Free \subseteq Int /\ \A x \in Free : x >= -1
  BY DEF Free, PageNo
<1>2. Page \in Free
  BY <1>1, SmallestIs DEF Page
<1>3. Page \in PageNo /\ freelist[Page] > 0
  BY <1>2 DEF Free
<1>4. kalloc => freelist' \in [PageNo -> Nat]
  BY <1>3 DEF kalloc, PgInv, PgTypes
<1> QED
  BY <1>3, <1>4, FirstTable DEF PageNo, PageOr0

PutNow(a, h, i, v) ==
  \A b \in Slots, k \in HeldBy, j \in Place :
    Held(b, k, j)' = IF b = a /\ k = h /\ j = i THEN v ELSE Held(b, k, j)

\* A page that kalloc returned is put where nothing was.
LEMMA OnceTaken ==
  ASSUME PgInv, PgTypes', Free # {}, kalloc, lost' = lost,
         NEW a \in Slots, NEW h \in HeldBy, NEW i \in Place, Held(a, h, i) = 0,
         PutNow(a, h, i, Page)
  PROVE  Once(HeldAt, freelist, lost)'
<1>1. PgTypes /\ Once(HeldAt, freelist, lost)
  BY DEF PgInv
<1>2. freelist \in [PageNo -> Nat] /\ lost \subseteq PageNo
  BY <1>1 DEF PgTypes
<1>3. Holds(HeldAt) /\ Holds(HeldAt') /\ HeldAt[<< a, h, i >>] = 0
  BY <1>1, HeldIs, HeldIsNext
<1>4. Put(HeldAt, HeldAt', a, h, i, Page)
  <2>1. \A b \in Slots, k \in HeldBy, j \in Place :
          HeldAt[<< b, k, j >>] = Held(b, k, j) /\ HeldAt'[<< b, k, j >>] = Held(b, k, j)'
    BY <1>1, HeldIs, HeldIsNext
  <2>2. SUFFICES ASSUME NEW b \in Slots, NEW k \in HeldBy, NEW j \in Place
                 PROVE  HeldAt'[<< b, k, j >>] = IF b = a /\ k = h /\ j = i THEN Page
                                                 ELSE HeldAt[<< b, k, j >>]
    BY DEF Put
  <2>3. Held(b, k, j)' = IF b = a /\ k = h /\ j = i THEN Page ELSE Held(b, k, j)
    BY DEF PutNow
  <2> QED
    BY <2>1, <2>3
<1>5. Page \in PageNo /\ freelist[Page] > 0
  BY FreeIs
<1>6. Once(HeldAt', [freelist EXCEPT ![Page] = @ - 1], lost)
  BY <1>1, <1>2, <1>3, <1>4, <1>5, Takes
<1> QED
  BY <1>6, OnceKept DEF kalloc

LEMMA AllocKstackSane ==
  ASSUME PgInv, NEW p \in Slots, allocKstack(p)
  PROVE  PgInv'
<1>c. PICK c \in Slots : c = np[p]
  <2>1. kpc[p] \in WithChild
    BY DEF allocKstack, WithChild, InFork
  <2> QED
    BY <2>1, ChildIs
<1>1. /\ PgTypes /\ Sane(p) /\ Sane(c) /\ kpc[p] = "kstack" /\ c \in Slots /\ c # p
      /\ kpc[c] = "user" /\ pstate[p] = "RUN" /\ NotOf(p, c)
      /\ pstate[c] = "EMBRYO" /\ kstack[c] = 0 /\ pgdir[c] = NoDir
      /\ dir[p] = NoDir /\ todo[p] = NoPages /\ Upto(pgdir[p], PGROUNDUP(sz[p]))
  <2>1. kpc[p] = "kstack" /\ kpc[p] \in WithChild
    BY DEF allocKstack, WithChild, InFork
  <2>2. c \in Slots /\ c # p /\ kpc[c] = "user" /\ pstate[p] = "RUN" /\ NotOf(p, c)
    BY <1>c, <2>1, ChildIs
  <2>3. PgTypes /\ Sane(p) /\ Sane(c)
    BY <2>2 DEF PgInv
  <2> QED
    BY <1>c, <2>1, <2>2, <2>3 DEF Sane, Emptied, ChildRight, Sized, InFork
<1>2. CASE Free # {}
  <2>1. /\ kalloc /\ kstack' = [kstack EXCEPT ![c] = Page] /\ kpc' = [kpc EXCEPT ![p] = "forkkvm"]
        /\ UNCHANGED << pstate, parent, pgdir, sz, np, dir, goal, at, todo, lost, panicked >>
    BY <1>2, <1>c DEF allocKstack, Goes
  <2>2. Page \in PageOr0 /\ freelist' \in [PageNo -> Nat]
    BY <1>2, <2>1, FreeIs
  <2>3. PgTypes'
    BY <1>1, <2>1, <2>2 DEF PgTypes
  <2>4. OthersRight(p, c)
    <3>1. Touches(p, c)
      BY <1>1, <2>1 DEF Touches, Alike, PgTypes
    <3> QED
      BY <1>1, <3>1, OthersSane
  <2>5. kpc'[p] = "forkkvm" /\ kpc'[c] = "user"
    BY <1>1, <2>1 DEF PgTypes
  <2>6. Sane(p)'
    <3>1. Emptied(p)'
      BY <1>1, <2>1, <2>5 DEF Sane, Emptied, PgTypes
    <3>2. ChildRight(p)'
      BY <1>1, <1>c, <2>1, <2>5 DEF ChildRight, InFork
    <3>3. Sized(p)'
      BY <1>1, <2>1, <2>5 DEF Sane, Sized
    <3>4. Built(p)'
      BY <1>1, <2>1, <2>5, NonePages DEF Built
    <3> QED
      BY <3>1, <3>2, <3>3, <3>4 DEF Sane
  <2>7. Sane(c)'
    <3>1. Emptied(c)'
      BY <1>1, <2>1, <2>5 DEF Sane, Emptied
    <3>2. ChildRight(c)'
      BY <2>5 DEF ChildRight, InFork
    <3>3. Sized(c)'
      BY <1>1, <2>1, <2>5 DEF Sane, Sized
    <3>4. Built(c)'
      BY <2>5 DEF Built
    <3> QED
      BY <3>1, <3>2, <3>3, <3>4 DEF Sane
  <2>8. Distinct'
    <3>1. \A q \in Slots : kpc'[q] \in WithChild => kpc[q] \in WithChild /\ np'[q] = np[q]
      BY <1>1, <2>1 DEF PgTypes, WithChild, InFork
    <3> QED
      BY <3>1, DistinctKept DEF PgInv
  <2>9. Once(HeldAt, freelist, lost)'
    <3>1. PutNow(c, "proc", KSTACK, Page)
      BY <1>1, <2>1, PlacesAre DEF PutNow, Held, PgTypes, HeldBy
    <3>2. Held(c, "proc", KSTACK) = 0 /\ "proc" \in HeldBy
      BY <1>1 DEF Held, HeldBy
    <3> QED
      BY <1>1, <1>2, <2>1, <2>3, <3>1, <3>2, PlacesAre, OnceTaken
  <2> QED
    BY <2>3, <2>4, <2>6, <2>7, <2>8, <2>9 DEF PgInv, OthersRight
<1>3. CASE Free = {}
  <2>1. /\ pstate' = [pstate EXCEPT ![c] = "UNUSED"] /\ kpc' = [kpc EXCEPT ![p] = "user"]
        /\ UNCHANGED << freelist, kstack, parent, pgdir, sz, np, dir, goal, at, todo, lost, panicked >>
    BY <1>3, <1>c DEF allocKstack, Goes, Becomes
  <2>3. PgTypes'
    BY <1>1, <2>1 DEF PgTypes
  <2>4. OthersRight(p, c)
    <3>1. Touches(p, c)
      BY <1>1, <2>1 DEF Touches, Alike, PgTypes
    <3> QED
      BY <1>1, <3>1, OthersSane
  <2>5. kpc'[p] = "user" /\ kpc'[c] = "user" /\ pstate'[c] = "UNUSED" /\ pstate'[p] = "RUN"
    BY <1>1, <2>1 DEF PgTypes
  <2>6. Sane(p)'
    <3>1. Emptied(p)'
      BY <1>1, <2>1, <2>5 DEF Sane, Emptied
    <3>2. ChildRight(p)'
      BY <2>5 DEF ChildRight, InFork
    <3>3. Sized(p)'
      BY <1>1, <2>1, <2>5 DEF Sane, Sized
    <3>4. Built(p)'
      BY <2>5 DEF Built
    <3> QED
      BY <3>1, <3>2, <3>3, <3>4 DEF Sane
  <2>7. Sane(c)'
    <3>1. Emptied(c)'
      BY <1>1, <2>1, <2>5 DEF Sane, Emptied
    <3>2. ChildRight(c)'
      BY <2>5 DEF ChildRight, InFork
    <3>3. Sized(c)'
      BY <1>1, <2>1, <2>5 DEF Sane, Sized
    <3>4. Built(c)'
      BY <2>5 DEF Built
    <3> QED
      BY <3>1, <3>2, <3>3, <3>4 DEF Sane
  <2>8. Distinct'
    <3>1. \A q \in Slots : kpc'[q] \in WithChild => kpc[q] \in WithChild /\ np'[q] = np[q]
      BY <1>1, <2>1 DEF PgTypes, WithChild, InFork
    <3> QED
      BY <3>1, DistinctKept DEF PgInv
  <2>9. Once(HeldAt, freelist, lost)'
    BY <2>1, OnceSame
  <2> QED
    BY <2>3, <2>4, <2>6, <2>7, <2>8, <2>9 DEF PgInv, OthersRight
<1> QED
  BY <1>2, <1>3

\* What was held by one is held by another.
SwapNow(a, h, b, k, I) ==
  \A c \in Slots, l \in HeldBy, j \in Place :
    Held(c, l, j)' = IF j \in I /\ c = a /\ l = h THEN Held(b, k, j)
                     ELSE IF j \in I /\ c = b /\ l = k THEN Held(a, h, j) ELSE Held(c, l, j)

LEMMA OnceSwapped ==
  ASSUME PgInv, PgTypes', freelist' = freelist, lost' = lost,
         NEW a \in Slots, NEW h \in HeldBy, NEW b \in Slots, NEW k \in HeldBy,
         a # b \/ h # k, NEW I, SwapNow(a, h, b, k, I)
  PROVE  Once(HeldAt, freelist, lost)'
<1>1. PgTypes /\ Once(HeldAt, freelist, lost)
  BY DEF PgInv
<1>2. \A c \in Slots, l \in HeldBy, j \in Place :
        HeldAt[<< c, l, j >>] = Held(c, l, j) /\ HeldAt'[<< c, l, j >>] = Held(c, l, j)'
  BY <1>1, HeldIs, HeldIsNext
<1>3. Swap(HeldAt, HeldAt', a, h, b, k, I)
  <2>1. SUFFICES ASSUME NEW c \in Slots, NEW l \in HeldBy, NEW j \in Place
                 PROVE  HeldAt'[<< c, l, j >>] =
                          IF j \in I /\ c = a /\ l = h THEN HeldAt[<< b, k, j >>]
                          ELSE IF j \in I /\ c = b /\ l = k THEN HeldAt[<< a, h, j >>]
                          ELSE HeldAt[<< c, l, j >>]
    BY DEF Swap
  <2>2. Held(c, l, j)' = IF j \in I /\ c = a /\ l = h THEN Held(b, k, j)
                         ELSE IF j \in I /\ c = b /\ l = k THEN Held(a, h, j) ELSE Held(c, l, j)
    BY DEF SwapNow
  <2> QED
    BY <1>2, <2>2
<1>4. Holds(HeldAt) /\ Holds(HeldAt')
  BY <1>1, HeldIs, HeldIsNext
<1>5. Once(HeldAt', freelist, lost)
  BY <1>1, <1>3, <1>4, Swaps
<1> QED
  BY <1>5, OnceKept

-----------------------------------------------------------------------------
(* The steps of fork and exec.                                              *)

\* A directory with one more page.
LEMMA MappedIs ==
  ASSUME NEW d \in Dirs, NEW i \in Cells, Page \in PageOr0, Page # 0
  PROVE  /\ Mapped(d, i) \in Dirs /\ Mapped(d, i)[i] = Page
         /\ \A j \in Cells : j # i => Mapped(d, i)[j] = d[j]
         /\ i >= UTOP /\ Upto(d, 0) => Upto(Mapped(d, i), 0)
         /\ i < UTOP /\ Upto(d, i) => Upto(Mapped(d, i), i + 1)
<1>1. /\ Mapped(d, i) \in Dirs /\ Mapped(d, i)[i] = Page
      /\ \A j \in Cells : j # i => Mapped(d, i)[j] = d[j]
  BY DEF Mapped, Dirs
<1>2. i \in Int /\ 0 <= i /\ \A a \in 0 .. UTOP - 1 : a \in Cells /\ a \in Int
  BY PlacesAre DEF Cells
<1>3. i >= UTOP /\ Upto(d, 0) => Upto(Mapped(d, i), 0)
  BY <1>1, <1>2, FirstTable DEF Upto
<1>4. i < UTOP /\ Upto(d, i) => Upto(Mapped(d, i), i + 1)
  BY <1>1, <1>2, FirstTable DEF Upto
<1> QED
  BY <1>1, <1>3, <1>4

\* The next place of a directory that lacks something is empty.
LEMMA LacksIs ==
  ASSUME NEW d \in Dirs, d[TOP] # 0 => Missing(d) # {}
  PROVE  Lacks(d) \in Cells /\ Lacks(d) >= UTOP /\ d[Lacks(d)] = 0
<1>1. CASE d[TOP] = 0
  BY <1>1, PlacesAre DEF Lacks
<1>2. CASE d[TOP] # 0
  <2>1. Missing(d) \subseteq Int /\ \A t \in Missing(d) : t >= -1
    BY DEF Missing, Tables
  <2>2. Smallest(Missing(d)) \in Missing(d)
    BY <1>2, <2>1, SmallestIs
  <2>3. Smallest(Missing(d)) \in Tables /\ d[Table(Smallest(Missing(d)))] = 0
    BY <2>2 DEF Missing
  <2> QED
    BY <1>2, <2>3, PlacesAre DEF Lacks
<1> QED
  BY <1>1, <1>2

LEMMA SetupkvmSane ==
  ASSUME PgInv, NEW p \in Slots, setupkvm(p)
  PROVE  PgInv'
<1> DEFINE x == Lacks(dir[p])
           d == Mapped(dir[p], x)
<1>1. /\ PgTypes /\ Sane(p) /\ kpc[p] \in {"forkkvm", "execkvm"} /\ pstate[p] = "RUN"
      /\ dir[p] \in Dirs /\ Upto(dir[p], 0) /\ (dir[p][TOP] # 0 => Missing(dir[p]) # {})
      /\ Free # {} /\ kalloc
  BY DEF setupkvm, Building, PgInv, Sane, Emptied, Built, PgTypes
<1>2. x \in Cells /\ x >= UTOP /\ dir[p][x] = 0
  BY <1>1, LacksIs
<1>3. Page \in PageOr0 /\ Page # 0 /\ freelist' \in [PageNo -> Nat]
  BY <1>1, FreeIs
<1>4. d \in Dirs /\ d[x] = Page /\ (\A j \in Cells : j # x => d[j] = dir[p][j]) /\ Upto(d, 0)
  BY <1>1, <1>2, <1>3, MappedIs
<1>5. /\ dir' = [dir EXCEPT ![p] = d] /\ at' = [at EXCEPT ![p] = 0]
      /\ UNCHANGED << procvars, np, goal, todo, lost, panicked >>
      /\ \/ Missing(d) # {} /\ kpc' = kpc
         \/ kpc[p] = "forkkvm" /\ kpc' = [kpc EXCEPT ![p] = "copy"]
         \/ kpc[p] = "execkvm" /\ kpc' = [kpc EXCEPT ![p] = "load"]
  BY <1>1 DEF setupkvm, Mapped, Goes, IsFork
<1> HIDE DEF x, d
<1>6. PgTypes'
  <2>1. kpc' \in [Slots -> {"user", "kstack", "forkkvm", "copy", "copybad", "forkbad", "grow",
                            "execkvm", "load", "free", "reap"}]
    BY <1>1, <1>5 DEF PgTypes
  <2>2. dir' \in [Slots -> Dirs] /\ at' \in [Slots -> Nat]
    BY <1>1, <1>4, <1>5 DEF PgTypes
  <2> QED
    BY <1>1, <1>3, <1>5, <2>1, <2>2 DEF PgTypes, procvars
<1>7. OthersRight(p, p)
  <2>1. Touches(p, p)
    BY <1>1, <1>5 DEF Touches, Alike, PgTypes, procvars
  <2>2. NotOf(p, p)
    BY DEF NotOf
  <2> QED
    BY <1>1, <2>1, <2>2, OthersSane
<1>8. dir'[p] = d /\ at'[p] = 0
      /\ \/ Missing(d) # {} /\ kpc'[p] = kpc[p]
         \/ kpc[p] = "forkkvm" /\ kpc'[p] = "copy"
         \/ kpc[p] = "execkvm" /\ kpc'[p] = "load"
  BY <1>1, <1>5 DEF PgTypes
<1>9. Sane(p)'
  <2>1. Emptied(p)'
    BY <1>1, <1>5, <1>8 DEF Sane, Emptied, procvars
  <2>2. ChildRight(p)'
    BY <1>1, <1>5, <1>8 DEF Sane, ChildRight, InFork, procvars
  <2>3. Sized(p)'
    BY <1>1, <1>5, <1>8 DEF Sane, Sized, procvars
  <2>4. Built(p)'
    <3>1. PGROUNDUP(sz[p]) \in Nat /\ PGROUNDUP(goal[p]) \in Nat /\ 0 <= UTOP
      BY <1>1, RoundedUp, FirstTable DEF PgTypes
    <3> QED
      BY <1>1, <1>4, <1>5, <1>8, <3>1 DEF Built, Image, procvars
  <2> QED
    BY <2>1, <2>2, <2>3, <2>4 DEF Sane
<1>10. Distinct'
  <2>1. \A q \in Slots : kpc'[q] \in WithChild => kpc[q] \in WithChild /\ np'[q] = np[q]
    BY <1>1, <1>5 DEF PgTypes, WithChild, InFork
  <2> QED
    BY <2>1, DistinctKept DEF PgInv
<1>11. Once(HeldAt, freelist, lost)'
  <2>1. x # KSTACK /\ x \in Place
    BY <1>2, PlacesAre
  <2>2. PutNow(p, "dir", x, Page)
    BY <1>1, <1>4, <1>5, <2>1, PlacesAre DEF PutNow, Held, PgTypes, HeldBy, procvars
  <2>3. Held(p, "dir", x) = 0 /\ "dir" \in HeldBy
    BY <1>2, <2>1 DEF Held, HeldBy
  <2> QED
    BY <1>1, <1>5, <1>6, <2>1, <2>2, <2>3, OnceTaken
<1> QED
  BY <1>6, <1>7, <1>9, <1>10, <1>11 DEF PgInv, OthersRight

\* A directory that is freed, or becomes that of a process.
LEMMA FreevmIs ==
  ASSUME NEW d \in Dirs
  PROVE  /\ freevm(d) \in [Place -> PageOr0] /\ freevm(d)[KSTACK] = 0
         /\ \A i \in Cells : freevm(d)[i] = d[i]
BY PlacesAre, FirstTable DEF freevm, Dirs, PageOr0

\* What is left when the directory of a call has gone.
WithoutDir(p) == [x \in Spots |-> IF x[1] = p /\ x[2] = "dir" THEN 0 ELSE HeldAt[x]]

LEMMA OnceLost ==
  ASSUME PgInv, NEW p \in Slots
  PROVE  /\ Holds(WithoutDir(p))
         /\ \A b \in Slots, k \in HeldBy, j \in Place :
              WithoutDir(p)[<< b, k, j >>] = IF b = p /\ k = "dir" THEN 0 ELSE Held(b, k, j)
         /\ Once(WithoutDir(p), freelist, lost \cup ({dir[p][i] : i \in Cells} \ {0}))
<1> DEFINE H == WithoutDir(p)
           L == lost \cup ({dir[p][i] : i \in Cells} \ {0})
<1>1. PgTypes /\ Once(HeldAt, freelist, lost) /\ Holds(HeldAt)
  BY HeldIs DEF PgInv
<1>2. \A c \in Slots, l \in HeldBy, j \in Place : HeldAt[<< c, l, j >>] = Held(c, l, j)
  BY <1>1, HeldIs
<1>3. Holds(H)
  <2>1. \A x \in Spots : HeldAt[x] \in PageOr0 /\ 0 \in PageOr0
    BY <1>1, FirstTable DEF Holds, PageOr0
  <2> QED
    BY <2>1 DEF Holds, WithoutDir
<1>4. \A b \in Slots, k \in HeldBy, j \in Place :
        H[<< b, k, j >>] = IF b = p /\ k = "dir" THEN 0 ELSE HeldAt[<< b, k, j >>]
  BY SpotIs DEF WithoutDir
<1>5. \A v : v \in L <=> v \in lost \/ (v # 0 /\ \E i \in Place : v = HeldAt[<< p, "dir", i >>])
  <2>1. HeldAt[<< p, "dir", KSTACK >>] = 0
    BY <1>2, PlacesAre DEF Held, HeldBy
  <2>2. \A i \in Cells : i \in Place /\ HeldAt[<< p, "dir", i >>] = dir[p][i]
    BY <1>2, PlacesAre DEF Held, HeldBy
  <2>3. SUFFICES ASSUME NEW v
                 PROVE  v \in L <=> v \in lost \/ (v # 0 /\ \E i \in Place : v = HeldAt[<< p, "dir", i >>])
    OBVIOUS
  <2>4. ASSUME v \in L, v \notin lost
        PROVE  v # 0 /\ \E i \in Place : v = HeldAt[<< p, "dir", i >>]
    <3>1. PICK i \in Cells : v = dir[p][i] /\ v # 0
      BY <2>4
    <3> QED
      BY <2>2, <3>1
  <2>5. ASSUME v # 0, NEW i \in Place, v = HeldAt[<< p, "dir", i >>] PROVE v \in L
    <3>1. i \in Cells /\ v = dir[p][i]
      BY <2>1, <2>2, <2>5, PlacesAre
    <3> QED
      BY <2>5, <3>1
  <2> QED
    BY <2>4, <2>5
<1> HIDE DEF H, L
<1>6. Cleared(HeldAt, H, p, "dir") /\ "dir" \in HeldBy
  BY <1>4 DEF Cleared, HeldBy
<1>7. Once(H, freelist, L)
  BY <1>1, <1>3, <1>5, <1>6, Loses
<1>8. \A b \in Slots, k \in HeldBy, j \in Place :
        H[<< b, k, j >>] = IF b = p /\ k = "dir" THEN 0 ELSE Held(b, k, j)
  BY <1>2, <1>4
<1> QED
  BY <1>3, <1>7, <1>8 DEF H, L

LEMMA SetupkvmFailsSane ==
  ASSUME PgInv, NEW p \in Slots, setupkvmFails(p)
  PROVE  PgInv'
<1> DEFINE L == lost \cup ({dir[p][i] : i \in Cells} \ {0})
<1>1. /\ PgTypes /\ Sane(p) /\ kpc[p] \in {"forkkvm", "execkvm"} /\ pstate[p] = "RUN"
      /\ dir[p] \in Dirs /\ todo[p] = NoPages
  BY DEF setupkvmFails, Building, PgInv, Sane, Emptied, PgTypes
<1>2. /\ lost' = L /\ dir' = [dir EXCEPT ![p] = NoDir]
      /\ UNCHANGED << freelist, pstate, parent, pgdir, sz, np, goal, at, panicked >>
  BY DEF setupkvmFails
<1>3. L \subseteq PageNo
  <2>1. lost \subseteq PageNo /\ \A i \in Cells : dir[p][i] \in PageOr0
    BY <1>1 DEF PgTypes, Dirs
  <2>2. \A v \in PageOr0 : v # 0 => v \in PageNo
    BY FirstTable DEF PageOr0, PageNo
  <2> QED
    BY <2>1, <2>2
<1>4. Holds(WithoutDir(p)) /\ Once(WithoutDir(p), freelist, L)
  BY OnceLost
<1>5. \A b \in Slots, k \in HeldBy, j \in Place :
        WithoutDir(p)[<< b, k, j >>] = IF b = p /\ k = "dir" THEN 0 ELSE Held(b, k, j)
  BY OnceLost
<1> HIDE DEF L
<1>6. CASE kpc[p] = "execkvm"
  <2>1. kpc' = [kpc EXCEPT ![p] = "user"] /\ kstack' = kstack /\ todo' = todo
    BY <1>6 DEF setupkvmFails, IsFork, Goes
  <2>2. PgTypes'
    BY <1>1, <1>2, <1>3, <2>1, NonePages DEF PgTypes
  <2>3. OthersRight(p, p)
    <3>1. Touches(p, p)
      BY <1>1, <1>2, <2>1 DEF Touches, Alike, PgTypes
    <3>2. NotOf(p, p)
      BY DEF NotOf
    <3> QED
      BY <1>1, <3>1, <3>2, OthersSane
  <2>4. kpc'[p] = "user" /\ dir'[p] = NoDir
    BY <1>1, <1>2, <2>1 DEF PgTypes
  <2>5. Sane(p)'
    <3>1. Emptied(p)'
      BY <1>1, <1>2, <2>1, <2>4 DEF Sane, Emptied
    <3>2. ChildRight(p)'
      BY <2>4 DEF ChildRight, InFork
    <3>3. Sized(p)'
      BY <1>1, <1>2, <1>6, <2>4 DEF Sane, Sized
    <3>4. Built(p)'
      BY <2>4 DEF Built
    <3> QED
      BY <3>1, <3>2, <3>3, <3>4 DEF Sane
  <2>6. Distinct'
    <3>1. \A q \in Slots : kpc'[q] \in WithChild => kpc[q] \in WithChild /\ np'[q] = np[q]
      BY <1>1, <1>2, <2>1 DEF PgTypes, WithChild, InFork
    <3> QED
      BY <3>1, DistinctKept DEF PgInv
  <2>7. Once(HeldAt, freelist, lost)'
    <3>1. \A b \in Slots, k \in HeldBy, j \in Place : Held(b, k, j)' = WithoutDir(p)[<< b, k, j >>]
      <4>1. SUFFICES ASSUME NEW b \in Slots, NEW k \in HeldBy, NEW j \in Place
              PROVE  Held(b, k, j)' = IF b = p /\ k = "dir" THEN 0 ELSE Held(b, k, j)
        BY <1>5
      <4>2. /\ todo'[b][j] = todo[b][j] /\ kstack'[b] = kstack[b] /\ pgdir'[b][j] = pgdir[b][j]
            /\ dir'[b] = IF b = p THEN NoDir ELSE dir[b]
        BY <1>1, <1>2, <2>1 DEF PgTypes
      <4>3. j # KSTACK => NoDir[j] = 0
        BY PlacesAre, NonePages
      <4> QED
        BY <4>2, <4>3 DEF Held, HeldBy
    <3>2. Holds(HeldAt') /\ \A b \in Slots, k \in HeldBy, j \in Place :
                              HeldAt'[<< b, k, j >>] = WithoutDir(p)[<< b, k, j >>]
      BY <2>2, <3>1, HeldIsNext
    <3>3. \A x \in Spots : HeldAt'[x] = WithoutDir(p)[x]
      BY <3>2, SpotIs
    <3>4. HeldAt' = WithoutDir(p)
      BY <1>4, <3>2, <3>3 DEF Holds
    <3> QED
      BY <1>2, <1>4, <3>4, OnceKept
  <2> QED
    BY <2>2, <2>3, <2>5, <2>6, <2>7 DEF PgInv, OthersRight
<1>7. CASE kpc[p] = "forkkvm"
  <2>c. PICK c \in Slots : c = np[p]
    BY <1>7, ChildIs DEF WithChild, InFork
  <2>1. /\ kpc' = [kpc EXCEPT ![p] = "forkbad"] /\ kstack' = [kstack EXCEPT ![c] = 0]
        /\ todo' = [todo EXCEPT ![p] = [NoPages EXCEPT ![KSTACK] = kstack[c]]]
    BY <1>7, <2>c DEF setupkvmFails, IsFork, Goes, GiveUpStack
  <2>2. c # p /\ kpc[c] = "user" /\ NotOf(p, c) /\ Sane(c) /\ pstate[c] = "EMBRYO"
    BY <1>1, <1>7, <2>c, ChildIs DEF WithChild, InFork, PgInv, Sane, ChildRight
  <2>3. /\ todo'[p] \in [Place -> PageOr0] /\ todo'[p][KSTACK] = kstack[c] /\ kstack'[c] = 0
        /\ \A i \in Cells : todo'[p][i] = 0
    BY <1>1, <2>1, NonePages, PlacesAre DEF PgTypes
  <2>4. PgTypes'
    <3>1. kstack' \in [Slots -> PageOr0] /\ todo' \in [Slots -> [Place -> PageOr0]]
      BY <1>1, <2>1, <2>3, FirstTable DEF PgTypes, PageOr0
    <3> QED
      BY <1>1, <1>2, <1>3, <2>1, <3>1, NonePages DEF PgTypes
  <2>5. OthersRight(p, c)
    <3>1. Touches(p, c)
      BY <1>1, <1>2, <2>1 DEF Touches, Alike, PgTypes
    <3> QED
      BY <1>1, <2>2, <3>1, OthersSane
  <2>6. kpc'[p] = "forkbad" /\ dir'[p] = NoDir /\ kpc'[c] = "user" /\ dir'[c] = dir[c]
        /\ todo'[c] = todo[c] /\ kstack'[p] = kstack[p]
    BY <1>1, <1>2, <2>1, <2>2 DEF PgTypes
  <2>7. Sane(p)'
    <3>1. Emptied(p)'
      BY <1>1, <1>2, <2>1, <2>6 DEF Sane, Emptied
    <3>2. ChildRight(p)'
      BY <1>1, <1>2, <2>c, <2>2, <2>3, <2>6 DEF ChildRight, InFork
    <3>3. Sized(p)'
      BY <1>1, <1>2, <1>7, <2>6 DEF Sane, Sized
    <3>4. Built(p)'
      BY <2>6 DEF Built
    <3> QED
      BY <3>1, <3>2, <3>3, <3>4 DEF Sane
  <2>8. Sane(c)'
    <3>1. Emptied(c)'
      BY <1>1, <1>2, <2>2, <2>6 DEF Sane, Emptied
    <3>2. ChildRight(c)'
      BY <2>6 DEF ChildRight, InFork
    <3>3. Sized(c)'
      BY <1>1, <1>2, <2>2, <2>6 DEF Sane, Sized
    <3>4. Built(c)'
      BY <2>6 DEF Built
    <3> QED
      BY <3>1, <3>2, <3>3, <3>4 DEF Sane
  <2>9. Distinct'
    <3>1. \A q \in Slots : kpc'[q] \in WithChild => kpc[q] \in WithChild /\ np'[q] = np[q]
      BY <1>1, <1>2, <1>7, <2>1 DEF PgTypes, WithChild, InFork
    <3> QED
      BY <3>1, DistinctKept DEF PgInv
  <2>10. Once(HeldAt, freelist, lost)'
    <3>1. \A b \in Slots, k \in HeldBy, j \in Place :
            Held(b, k, j)' = IF j \in {KSTACK} /\ b = c /\ k = "proc" THEN WithoutDir(p)[<< p, "todo", j >>]
                             ELSE IF j \in {KSTACK} /\ b = p /\ k = "todo"
                                  THEN WithoutDir(p)[<< c, "proc", j >>]
                             ELSE WithoutDir(p)[<< b, k, j >>]
      <4>1. SUFFICES ASSUME NEW b \in Slots, NEW k \in HeldBy, NEW j \in Place
              PROVE  Held(b, k, j)' = IF j = KSTACK /\ b = c /\ k = "proc" THEN Held(p, "todo", j)
                                      ELSE IF j = KSTACK /\ b = p /\ k = "todo" THEN Held(c, "proc", j)
                                      ELSE IF b = p /\ k = "dir" THEN 0 ELSE Held(b, k, j)
        BY <1>5 DEF HeldBy
      <4> QED
        BY <1>1, <1>2, <2>1, <2>2, <2>3, PlacesAre, NonePages DEF Held, PgTypes, HeldBy
    <3>2. Holds(HeldAt') /\ \A b \in Slots, k \in HeldBy, j \in Place :
                              HeldAt'[<< b, k, j >>] = Held(b, k, j)'
      BY <2>4, HeldIsNext
    <3>3. Swap(WithoutDir(p), HeldAt', c, "proc", p, "todo", {KSTACK})
      <4>1. SUFFICES ASSUME NEW b \in Slots, NEW k \in HeldBy, NEW j \in Place
              PROVE  HeldAt'[<< b, k, j >>] =
                       IF j \in {KSTACK} /\ b = c /\ k = "proc" THEN WithoutDir(p)[<< p, "todo", j >>]
                       ELSE IF j \in {KSTACK} /\ b = p /\ k = "todo"
                            THEN WithoutDir(p)[<< c, "proc", j >>]
                       ELSE WithoutDir(p)[<< b, k, j >>]
        BY DEF Swap
      <4> QED
        BY <3>1, <3>2
    <3>4. "proc" \in HeldBy /\ "todo" \in HeldBy /\ "proc" # "todo"
      BY DEF HeldBy
    <3>5. Once(HeldAt', freelist, L)
      BY <1>4, <3>2, <3>3, <3>4, Swaps
    <3> QED
      BY <1>2, <3>5, OnceKept
  <2> QED
    BY <2>4, <2>5, <2>7, <2>8, <2>9, <2>10 DEF PgInv, OthersRight
<1> QED
  BY <1>1, <1>6, <1>7

\* What allocates a page for place at[p] of the directory that a call builds.
LEMMA DirTakes ==
  ASSUME PgInv, NEW p \in Slots, Free # {}, kalloc, at[p] < UTOP, Upto(dir[p], at[p]),
         kpc[p] \in {"copy", "load"},
         dir' = [dir EXCEPT ![p] = Mapped(dir[p], at[p])], Advances(p),
         UNCHANGED << procvars, kpc, np, goal, todo, lost, panicked >>
  PROVE  /\ PgTypes' /\ OthersRight(p, p) /\ Distinct' /\ Once(HeldAt, freelist, lost)'
         /\ dir'[p] = Mapped(dir[p], at[p]) /\ at'[p] = at[p] + 1
         /\ Upto(Mapped(dir[p], at[p]), at[p] + 1)
<1> DEFINE i == at[p]
           d == Mapped(dir[p], i)
<1>1. /\ PgTypes /\ Sane(p) /\ pstate[p] = "RUN" /\ dir[p] \in Dirs /\ i \in 0 .. UTOP - 1 /\ i \in Nat
  BY FirstTable DEF PgInv, Sane, Emptied, PgTypes
<1>2. i \in Cells /\ i \in Place /\ i # KSTACK /\ dir[p][i] = 0
  BY <1>1, PlacesAre DEF Upto
<1>3. Page \in PageOr0 /\ Page # 0 /\ freelist' \in [PageNo -> Nat]
  BY FreeIs
<1>4. d \in Dirs /\ d[i] = Page /\ (\A j \in Cells : j # i => d[j] = dir[p][j]) /\ Upto(d, i + 1)
  BY <1>1, <1>2, <1>3, MappedIs
<1>5. dir' = [dir EXCEPT ![p] = d] /\ at' = [at EXCEPT ![p] = i + 1]
  BY DEF Advances
<1> HIDE DEF d
<1>6. PgTypes'
  BY <1>1, <1>3, <1>4, <1>5 DEF PgTypes, procvars
<1>7. OthersRight(p, p)
  <2>1. Touches(p, p)
    BY <1>1, <1>5 DEF Touches, Alike, PgTypes, procvars
  <2>2. NotOf(p, p)
    BY DEF NotOf
  <2> QED
    BY <1>1, <2>1, <2>2, OthersSane
<1>8. Distinct'
  BY DistinctKept DEF PgInv
<1>9. Once(HeldAt, freelist, lost)'
  <2>1. PutNow(p, "dir", i, Page)
    BY <1>1, <1>2, <1>4, <1>5, PlacesAre DEF PutNow, Held, PgTypes, HeldBy, procvars
  <2>2. Held(p, "dir", i) = 0 /\ "dir" \in HeldBy
    BY <1>2 DEF Held, HeldBy
  <2> QED
    BY <1>2, <1>6, <2>1, <2>2, OnceTaken
<1>10. dir'[p] = d /\ at'[p] = i + 1
  BY <1>1, <1>5 DEF PgTypes
<1> QED
  BY <1>4, <1>6, <1>7, <1>8, <1>9, <1>10 DEF d

\* What frees the directory that a call builds.
LEMMA DirGone ==
  ASSUME PgInv, NEW p \in Slots, NEW where, kpc[p] \in {"copy", "load"}, GivesUp(p, where),
         << kpc[p], where >> \in { << "copy", "copybad" >>, << "load", "free" >> },
         UNCHANGED << freelist, procvars, np, goal, at, lost, panicked >>
  PROVE  /\ PgTypes' /\ OthersRight(p, p) /\ Distinct' /\ Once(HeldAt, freelist, lost)' /\ Sane(p)'
<1>1. /\ PgTypes /\ Sane(p) /\ pstate[p] = "RUN" /\ dir[p] \in Dirs /\ todo[p] = NoPages
  BY DEF PgInv, Sane, Emptied, PgTypes
<1>2. freevm(dir[p]) \in [Place -> PageOr0] /\ freevm(dir[p])[KSTACK] = 0
      /\ \A i \in Cells : freevm(dir[p])[i] = dir[p][i]
  BY <1>1, FreevmIs
<1>3. /\ todo' = [todo EXCEPT ![p] = freevm(dir[p])] /\ dir' = [dir EXCEPT ![p] = NoDir]
      /\ kpc' = [kpc EXCEPT ![p] = where]
  BY DEF GivesUp, Goes
<1>4. PgTypes'
  <2>1. kpc' \in [Slots -> {"user", "kstack", "forkkvm", "copy", "copybad", "forkbad", "grow",
                            "execkvm", "load", "free", "reap"}]
    BY <1>1, <1>3 DEF PgTypes
  <2> QED
    BY <1>1, <1>2, <1>3, <2>1, NonePages DEF PgTypes, procvars
<1>5. OthersRight(p, p)
  <2>1. Touches(p, p)
    BY <1>1, <1>3 DEF Touches, Alike, PgTypes, procvars
  <2>2. NotOf(p, p)
    BY DEF NotOf
  <2> QED
    BY <1>1, <2>1, <2>2, OthersSane
<1>6. Distinct'
  <2>1. \A q \in Slots : kpc'[q] \in WithChild => kpc[q] \in WithChild /\ np'[q] = np[q]
    BY <1>1, <1>3 DEF PgTypes, WithChild, InFork
  <2> QED
    BY <2>1, DistinctKept DEF PgInv
<1>7. kpc'[p] = where /\ dir'[p] = NoDir
  BY <1>1, <1>3 DEF PgTypes
<1>8. Once(HeldAt, freelist, lost)'
  <2>1. SwapNow(p, "dir", p, "todo", Cells)
    BY <1>1, <1>2, <1>3, PlacesAre, NonePages DEF SwapNow, Held, PgTypes, HeldBy, procvars
  <2>2. "dir" \in HeldBy /\ "todo" \in HeldBy /\ "dir" # "todo"
    BY DEF HeldBy
  <2> QED
    BY <1>4, <2>1, <2>2, OnceSwapped
<1>9. Sane(p)'
  <2>1. Emptied(p)'
    BY <1>1, <1>7 DEF Sane, Emptied, procvars
  <2>2. ChildRight(p)'
    BY <1>1, <1>7 DEF Sane, ChildRight, InFork, procvars
  <2>3. Sized(p)'
    BY <1>1, <1>7 DEF Sane, Sized, procvars
  <2>4. Built(p)'
    BY <1>7 DEF Built
  <2> QED
    BY <2>1, <2>2, <2>3, <2>4 DEF Sane
<1> QED
  BY <1>4, <1>5, <1>6, <1>8, <1>9

LEMMA CopyuvmSane ==
  ASSUME PgInv, NEW p \in Slots, copyuvm(p)
  PROVE  PgInv'
<1>1. /\ PgTypes /\ Sane(p) /\ kpc[p] = "copy" /\ at[p] < PGROUNDUP(sz[p]) /\ at[p] \in Nat
      /\ Upto(pgdir[p], PGROUNDUP(sz[p])) /\ Upto(dir[p], at[p])
      /\ sz[p] \in Nat /\ sz[p] <= USERTOP
  BY DEF copyuvm, PgInv, Sane, Sized, Built, PgTypes
<1>2. PGROUNDUP(sz[p]) \in Nat /\ PGROUNDUP(sz[p]) <= UTOP
  BY <1>1, RoundedUp
<1>3. at[p] \in 0 .. UTOP - 1 /\ at[p] < UTOP /\ pgdir[p][at[p]] # 0
  BY <1>1, <1>2, FirstTable DEF Upto
<1>4. UNCHANGED << procvars, np, goal, lost, panicked >>
  BY <1>3 DEF copyuvm
<1>5. CASE Free # {}
  <2>1. /\ kalloc /\ dir' = [dir EXCEPT ![p] = Mapped(dir[p], at[p])]
        /\ Advances(p) /\ UNCHANGED << kpc, todo >>
    BY <1>3, <1>5 DEF copyuvm
  <2>2. /\ PgTypes' /\ OthersRight(p, p) /\ Distinct' /\ Once(HeldAt, freelist, lost)'
        /\ dir'[p] = Mapped(dir[p], at[p]) /\ at'[p] = at[p] + 1
        /\ Upto(Mapped(dir[p], at[p]), at[p] + 1)
    BY <1>1, <1>3, <1>4, <1>5, <2>1, DirTakes
  <2>3. Emptied(p)'
    BY <1>1, <1>4, <2>1, <2>2 DEF Sane, Emptied, procvars
  <2>4. ChildRight(p)'
    BY <1>1, <1>4, <2>1 DEF Sane, ChildRight, InFork, procvars
  <2>5. Sized(p)'
    BY <1>1, <1>4, <2>1 DEF Sane, Sized, procvars
  <2>6. Built(p)'
    BY <1>1, <1>2, <1>4, <2>1, <2>2 DEF Built, procvars
  <2> QED
    BY <2>2, <2>3, <2>4, <2>5, <2>6 DEF PgInv, OthersRight, Sane
<1>6. CASE Free = {}
  <2>1. GivesUp(p, "copybad") /\ UNCHANGED << freelist, at >>
    BY <1>3, <1>6 DEF copyuvm
  <2>2. /\ PgTypes' /\ OthersRight(p, p) /\ Distinct' /\ Once(HeldAt, freelist, lost)' /\ Sane(p)'
    BY <1>1, <1>4, <2>1, DirGone
  <2> QED
    BY <2>2 DEF PgInv, OthersRight
<1> QED
  BY <1>5, <1>6

LEMMA ExecBadSane ==
  ASSUME PgInv, NEW p \in Slots, execBad(p)
  PROVE  PgInv'
<1>1. /\ kpc[p] = "load" /\ GivesUp(p, "free")
      /\ UNCHANGED << freelist, procvars, np, goal, at, lost, panicked >>
  BY DEF execBad
<1>2. /\ PgTypes' /\ OthersRight(p, p) /\ Distinct' /\ Once(HeldAt, freelist, lost)' /\ Sane(p)'
  BY <1>1, DirGone
<1> QED
  BY <1>2 DEF PgInv, OthersRight

LEMMA ExecAllocSane ==
  ASSUME PgInv, NEW p \in Slots, execAlloc(p)
  PROVE  PgInv'
<1> USE DEF execAlloc
<1>1. /\ PgTypes /\ Sane(p) /\ kpc[p] = "load" /\ at[p] < Image(p) /\ at[p] \in Nat
      /\ Upto(dir[p], at[p]) /\ goal[p] \in Nat
  BY DEF PgInv, Sane, Built, PgTypes
<1>2. Image(p) \in Nat /\ Image(p) <= UTOP /\ at[p] < UTOP
  <2>1. PGROUNDUP(goal[p]) \in Nat
    BY <1>1, RoundedUp
  <2>2. Image(p) \in Nat
    BY <2>1 DEF Image
  <2> QED
    BY <1>1, <2>2, FirstTable
<1>3. /\ PgTypes' /\ OthersRight(p, p) /\ Distinct' /\ Once(HeldAt, freelist, lost)'
      /\ dir'[p] = Mapped(dir[p], at[p]) /\ at'[p] = at[p] + 1
      /\ Upto(Mapped(dir[p], at[p]), at[p] + 1)
  BY <1>1, <1>2, DirTakes
<1>4. Emptied(p)'
  BY <1>1, <1>3 DEF Sane, Emptied, procvars
<1>5. ChildRight(p)'
  BY <1>1 DEF Sane, ChildRight, InFork, procvars
<1>6. Sized(p)'
  BY <1>1 DEF Sane, Sized, procvars
<1>7. Built(p)'
  <2>1. Image(p)' = Image(p)
    BY DEF Image
  <2> QED
    BY <1>1, <1>2, <1>3, <2>1, FirstTable DEF Built
<1> QED
  BY <1>3, <1>4, <1>5, <1>6, <1>7 DEF PgInv, OthersRight, Sane

LEMMA ForkEndSane ==
  ASSUME PgInv, NEW p \in Slots, forkEnd(p)
  PROVE  PgInv'
<1>c. PICK c \in Slots : c = np[p]
  BY ChildIs DEF forkEnd, WithChild, InFork
<1>1. /\ PgTypes /\ Sane(p) /\ kpc[p] = "copy" /\ pstate[p] = "RUN" /\ dir[p] \in Dirs
      /\ Upto(dir[p], PGROUNDUP(sz[p])) /\ Upto(pgdir[p], PGROUNDUP(sz[p]))
      /\ sz[p] <= USERTOP /\ todo[p] = NoPages
  BY DEF forkEnd, PgInv, Sane, Emptied, Sized, Built, PgTypes
<1>2. /\ pstate' = [pstate EXCEPT ![c] = "RUN"] /\ parent' = [parent EXCEPT ![c] = p]
      /\ pgdir' = [pgdir EXCEPT ![c] = dir[p]] /\ sz' = [sz EXCEPT ![c] = sz[p]]
      /\ dir' = [dir EXCEPT ![p] = NoDir] /\ kpc' = [kpc EXCEPT ![p] = "user"]
      /\ UNCHANGED << freelist, kstack, np, goal, at, todo, lost, panicked >>
  BY <1>c DEF forkEnd, Becomes, Goes
<1>3. c # p /\ kpc[c] = "user" /\ NotOf(p, c) /\ Sane(c) /\ pgdir[c] = NoDir /\ dir[c] = NoDir
      /\ todo[c] = NoPages
  <2>1. c # p /\ kpc[c] = "user" /\ NotOf(p, c) /\ Sane(c)
    BY <1>1, <1>c, ChildIs DEF WithChild, InFork, PgInv
  <2>2. pstate[c] = "EMBRYO"
    BY <1>1, <1>c DEF Sane, ChildRight, InFork
  <2> QED
    BY <2>1, <2>2 DEF Sane, Emptied
<1>4. PgTypes'
  BY <1>1, <1>2, NonePages DEF PgTypes, Slots
<1>5. OthersRight(p, c)
  <2>1. Touches(p, c)
    BY <1>1, <1>2 DEF Touches, Alike, PgTypes
  <2> QED
    BY <1>1, <1>3, <2>1, OthersSane
<1>6. /\ kpc'[p] = "user" /\ dir'[p] = NoDir /\ sz'[p] = sz[p] /\ pgdir'[p] = pgdir[p]
      /\ kpc'[c] = "user" /\ dir'[c] = NoDir /\ sz'[c] = sz[p] /\ pgdir'[c] = dir[p]
      /\ pstate'[c] = "RUN" /\ pstate'[p] = "RUN"
  BY <1>1, <1>2, <1>3 DEF PgTypes
<1>7. Sane(p)'
  <2>1. Emptied(p)'
    BY <1>1, <1>2, <1>6 DEF Sane, Emptied
  <2>2. ChildRight(p)'
    BY <1>6 DEF ChildRight, InFork
  <2>3. Sized(p)'
    BY <1>1, <1>2, <1>6 DEF Sized
  <2>4. Built(p)'
    BY <1>6 DEF Built
  <2> QED
    BY <2>1, <2>2, <2>3, <2>4 DEF Sane
<1>8. Sane(c)'
  <2>1. Emptied(c)'
    BY <1>2, <1>3, <1>6 DEF Emptied
  <2>2. ChildRight(c)'
    BY <1>6 DEF ChildRight, InFork
  <2>3. Sized(c)'
    BY <1>1, <1>2, <1>6 DEF Sized
  <2>4. Built(c)'
    BY <1>6 DEF Built
  <2> QED
    BY <2>1, <2>2, <2>3, <2>4 DEF Sane
<1>9. Distinct'
  <2>1. \A q \in Slots : kpc'[q] \in WithChild => kpc[q] \in WithChild /\ np'[q] = np[q]
    BY <1>1, <1>2 DEF PgTypes, WithChild, InFork
  <2> QED
    BY <2>1, DistinctKept DEF PgInv
<1>10. Once(HeldAt, freelist, lost)'
  <2>1. SwapNow(c, "proc", p, "dir", Cells)
    BY <1>1, <1>2, <1>3, PlacesAre, NonePages DEF SwapNow, Held, PgTypes, HeldBy
  <2>2. "dir" \in HeldBy /\ "proc" \in HeldBy /\ "dir" # "proc"
    BY DEF HeldBy
  <2> QED
    BY <1>2, <1>4, <2>1, <2>2, OnceSwapped
<1> QED
  BY <1>4, <1>5, <1>7, <1>8, <1>9, <1>10 DEF PgInv, OthersRight

-----------------------------------------------------------------------------
(* The steps of sbrk and the end of exec.                                   *)

LEMMA GrowTakes ==
  ASSUME PgInv, NEW p \in Slots, growuvm(p), Free # {}
  PROVE  PgInv'
<1> DEFINE i == at[p]
           d == Mapped(pgdir[p], i)
<1>1. /\ PgTypes /\ Sane(p) /\ kpc[p] = "grow" /\ pstate[p] = "RUN" /\ pgdir[p] \in Dirs
      /\ i < PGROUNDUP(goal[p]) /\ i \in Nat /\ goal[p] \in Nat /\ sz[p] \in Nat /\ goal[p] <= USERTOP
      /\ PGROUNDUP(sz[p]) <= i /\ Upto(pgdir[p], i) /\ sz[p] <= goal[p] /\ sz[p] <= USERTOP
      /\ dir[p] = NoDir /\ todo[p] = NoPages
  BY DEF growuvm, PgInv, Sane, Emptied, Sized, PgTypes
<1>2. PGROUNDUP(goal[p]) \in Nat /\ PGROUNDUP(goal[p]) <= UTOP /\ PGROUNDUP(sz[p]) \in Nat
  BY <1>1, RoundedUp
<1>3. i \in 0 .. UTOP - 1 /\ i \in Cells /\ i \in Place /\ i # KSTACK /\ pgdir[p][i] = 0 /\ i < UTOP
  <2>1. i \in 0 .. UTOP - 1
    BY <1>1, <1>2, FirstTable
  <2> QED
    BY <1>1, <2>1, PlacesAre DEF Upto
<1>4. Page \in PageOr0 /\ Page # 0 /\ freelist' \in [PageNo -> Nat]
  BY FreeIs DEF growuvm
<1>5. d \in Dirs /\ d[i] = Page /\ (\A j \in Cells : j # i => d[j] = pgdir[p][j]) /\ Upto(d, i + 1)
  BY <1>1, <1>3, <1>4, MappedIs
<1>6. /\ kalloc /\ pgdir' = [pgdir EXCEPT ![p] = d] /\ at' = [at EXCEPT ![p] = i + 1]
      /\ panicked' = (pgdir[p][i] # 0)
      /\ UNCHANGED << kpc, todo, pstate, parent, kstack, sz, np, dir, goal, lost >>
  BY DEF growuvm, Advances
<1> HIDE DEF d
<1>7. PgTypes'
  <2>1. (pgdir[p][i] # 0) = FALSE
    BY <1>3
  <2>2. panicked' = FALSE
    BY <1>6, <2>1
  <2> QED
    BY <1>1, <1>4, <1>5, <1>6, <2>2 DEF PgTypes
<1>8. OthersRight(p, p)
  <2>1. Touches(p, p)
    BY <1>1, <1>6 DEF Touches, Alike, PgTypes
  <2>2. NotOf(p, p)
    BY DEF NotOf
  <2> QED
    BY <1>1, <2>1, <2>2, OthersSane
<1>9. Distinct'
  BY <1>6, DistinctKept DEF PgInv
<1>10. Once(HeldAt, freelist, lost)'
  <2>1. PutNow(p, "proc", i, Page)
    BY <1>1, <1>3, <1>5, <1>6, PlacesAre DEF PutNow, Held, PgTypes, HeldBy
  <2>2. Held(p, "proc", i) = 0 /\ "proc" \in HeldBy
    BY <1>3 DEF Held, HeldBy
  <2> QED
    BY <1>3, <1>6, <1>7, <2>1, <2>2, OnceTaken
<1>11. pgdir'[p] = d /\ at'[p] = i + 1 /\ kpc'[p] = "grow"
  BY <1>1, <1>6 DEF PgTypes
<1>12. Sane(p)'
  <2>1. Emptied(p)'
    BY <1>1, <1>6, <1>11 DEF Emptied
  <2>2. ChildRight(p)'
    BY <1>11 DEF ChildRight, InFork
  <2>3. Sized(p)'
    BY <1>1, <1>2, <1>5, <1>6, <1>11 DEF Sized
  <2>4. Built(p)'
    BY <1>11 DEF Built
  <2> QED
    BY <2>1, <2>2, <2>3, <2>4 DEF Sane
<1> QED
  BY <1>7, <1>8, <1>9, <1>10, <1>12 DEF PgInv, OthersRight

\* The user's pages from a on, below b, are unmapped.
LEMMA UnmappedIs ==
  ASSUME NEW d \in Dirs, NEW a \in Nat, NEW b \in Nat, NEW n \in Nat, b <= UTOP,
         a <= n, n <= b, Upto(d, n)
  PROVE  /\ a .. b - 1 \subseteq Cells
         /\ Unmapped(d, a, b) \in Dirs /\ Above(d, a, b) \in [Place -> PageOr0]
         /\ \A i \in Place : Above(d, a, b)[i] = IF i \in a .. b - 1 THEN d[i] ELSE 0
         /\ \A i \in Cells : Unmapped(d, a, b)[i] = IF i \in a .. b - 1 THEN 0 ELSE d[i]
         /\ Upto(Unmapped(d, a, b), a)
<1>1. \A i \in a .. b - 1 : i \in 0 .. UTOP - 1 /\ i \in Cells /\ i \in Place
  BY PlacesAre
<1>2. Unmapped(d, a, b) \in Dirs
  BY <1>1, FirstTable DEF Unmapped, Dirs, PageOr0
<1>3. Above(d, a, b) \in [Place -> PageOr0]
  BY <1>1, FirstTable DEF Above, Dirs, PageOr0
<1>4. \A i \in Place : Above(d, a, b)[i] = IF i \in a .. b - 1 THEN d[i] ELSE 0
  BY DEF Above
<1>5. \A i \in Cells : Unmapped(d, a, b)[i] = IF i \in a .. b - 1 THEN 0 ELSE d[i]
  BY DEF Unmapped
<1>6. Upto(Unmapped(d, a, b), a)
  <2>1. SUFFICES ASSUME NEW i \in 0 .. UTOP - 1 PROVE (Unmapped(d, a, b)[i] # 0) <=> i < a
    BY DEF Upto
  <2>2. i \in Cells /\ i \in Nat /\ (d[i] # 0 <=> i < n)
    BY PlacesAre DEF Upto
  <2>3. i \in a .. b - 1 <=> a <= i /\ i < b
    BY <2>2
  <2> QED
    BY <1>5, <2>2, <2>3
<1> QED
  BY <1>1, <1>2, <1>3, <1>4, <1>5, <1>6

LEMMA Shrinks ==
  ASSUME PgInv, NEW p \in Slots, kpc[p] \in {"user", "grow"}, pstate[p] = "RUN",
         NEW a \in Nat, NEW b \in Nat, NEW n \in Nat, b <= UTOP, a <= n, n <= b, Upto(pgdir[p], n),
         Frees(p, Above(pgdir[p], a, b)),
         pgdir' = [pgdir EXCEPT ![p] = Unmapped(pgdir[p], a, b)],
         sz' \in [Slots -> Nat], \A q \in Slots : q # p => sz'[q] = sz[q],
         UNCHANGED << freelist, pstate, parent, kstack, np, dir, goal, at, lost, panicked >>
  PROVE  /\ PgTypes' /\ OthersRight(p, p) /\ Distinct' /\ Once(HeldAt, freelist, lost)'
         /\ Emptied(p)' /\ ChildRight(p)' /\ Built(p)'
         /\ kpc'[p] \in {"user", "free"} /\ Upto(pgdir[p], a)'
<1> DEFINE t == Above(pgdir[p], a, b)
           d == Unmapped(pgdir[p], a, b)
           w == IF t = NoPages THEN "user" ELSE "free"
<1>1. /\ PgTypes /\ Sane(p) /\ pgdir[p] \in Dirs /\ dir[p] = NoDir /\ todo[p] = NoPages
  BY DEF PgInv, Sane, Emptied, PgTypes
<1>2. /\ a .. b - 1 \subseteq Cells /\ d \in Dirs /\ t \in [Place -> PageOr0]
      /\ \A i \in Place : t[i] = IF i \in a .. b - 1 THEN pgdir[p][i] ELSE 0
      /\ \A i \in Cells : d[i] = IF i \in a .. b - 1 THEN 0 ELSE pgdir[p][i]
      /\ Upto(d, a)
  BY <1>1, UnmappedIs
<1>3. /\ todo' = [todo EXCEPT ![p] = t] /\ pgdir' = [pgdir EXCEPT ![p] = d]
      /\ kpc' = [kpc EXCEPT ![p] = w] /\ w \in {"user", "free"} /\ (w = "user" => t = NoPages)
  BY DEF Frees, Goes
<1> HIDE DEF t, d, w
<1>4. PgTypes'
  <2>1. kpc' \in [Slots -> {"user", "kstack", "forkkvm", "copy", "copybad", "forkbad", "grow",
                            "execkvm", "load", "free", "reap"}]
    BY <1>1, <1>3 DEF PgTypes
  <2> QED
    BY <1>1, <1>2, <1>3, <2>1 DEF PgTypes
<1>5. OthersRight(p, p)
  <2>1. Touches(p, p)
    BY <1>1, <1>3 DEF Touches, Alike, PgTypes
  <2>2. NotOf(p, p)
    BY DEF NotOf
  <2> QED
    BY <2>1, <2>2, OthersSane
<1>6. Distinct'
  <2>1. \A q \in Slots : kpc'[q] \in WithChild => kpc[q] \in WithChild /\ np'[q] = np[q]
    BY <1>1, <1>3 DEF PgTypes, WithChild, InFork
  <2> QED
    BY <2>1, DistinctKept DEF PgInv
<1>7. kpc'[p] = w /\ pgdir'[p] = d /\ todo'[p] = t
  BY <1>1, <1>3 DEF PgTypes
<1>8. Once(HeldAt, freelist, lost)'
  <2>1. SwapNow(p, "proc", p, "todo", a .. b - 1)
    BY <1>1, <1>2, <1>3, PlacesAre, NonePages DEF SwapNow, Held, PgTypes, HeldBy
  <2>2. "proc" \in HeldBy /\ "todo" \in HeldBy /\ "proc" # "todo"
    BY DEF HeldBy
  <2> QED
    BY <1>4, <2>1, <2>2, OnceSwapped
<1>9. Emptied(p)'
  BY <1>1, <1>3, <1>7 DEF Emptied
<1>10. ChildRight(p)' /\ Built(p)'
  BY <1>3, <1>7 DEF ChildRight, InFork, Built
<1>11. Upto(pgdir[p], a)'
  BY <1>2, <1>7
<1> QED
  BY <1>3, <1>4, <1>5, <1>6, <1>7, <1>8, <1>9, <1>10, <1>11

LEMMA GrowFailsSane ==
  ASSUME PgInv, NEW p \in Slots, growuvm(p), Free = {}
  PROVE  PgInv'
<1>0. goal[p] \in Nat /\ sz[p] \in Nat
  BY DEF PgInv, PgTypes
<1>a. PICK a \in Nat, b \in Nat : a = PGROUNDUP(sz[p]) /\ b = PGROUNDUP(goal[p])
  BY <1>0, RoundedUp
<1>1. /\ PgTypes /\ kpc[p] = "grow" /\ pstate[p] = "RUN"
      /\ goal[p] \in Nat /\ sz[p] \in Nat /\ goal[p] <= USERTOP /\ sz[p] <= USERTOP
      /\ a <= at[p] /\ at[p] <= b /\ at[p] \in Nat /\ Upto(pgdir[p], at[p])
  BY <1>a DEF growuvm, PgInv, Sane, Emptied, Sized, PgTypes
<1>2. a \in Nat /\ b \in Nat /\ b <= UTOP
  BY <1>1, <1>a, RoundedUp
<1>3. /\ Frees(p, Above(pgdir[p], a, b))
      /\ pgdir' = [pgdir EXCEPT ![p] = Unmapped(pgdir[p], a, b)]
      /\ UNCHANGED << freelist, pstate, parent, kstack, sz, np, dir, goal, at, lost, panicked >>
  BY <1>a DEF growuvm, Undone
<1>4. sz' \in [Slots -> Nat] /\ \A q \in Slots : q # p => sz'[q] = sz[q]
  BY <1>1, <1>3 DEF PgTypes
<1>5. /\ PgTypes' /\ OthersRight(p, p) /\ Distinct' /\ Once(HeldAt, freelist, lost)'
      /\ Emptied(p)' /\ ChildRight(p)' /\ Built(p)'
      /\ kpc'[p] \in {"user", "free"} /\ Upto(pgdir[p], a)'
  BY <1>1, <1>2, <1>3, <1>4, Shrinks
<1>6. Sized(p)'
  <2>1. PGROUNDUP(sz'[p]) = a /\ Upto(pgdir'[p], a)
    BY <1>a, <1>3, <1>5
  <2> QED
    BY <1>1, <1>3, <1>5, <2>1 DEF Sized
<1> QED
  BY <1>5, <1>6 DEF PgInv, OthersRight, Sane

LEMMA SbrkDownSane ==
  ASSUME PgInv, NEW p \in Slots, NEW n \in Grows, sbrkDown(p, n)
  PROVE  PgInv'
<1>z. Calls(p) /\ n < 0 /\ sz[p] + n >= 0 /\ n \in Int /\ sz[p] \in Nat
  BY FirstTable DEF sbrkDown, PgInv, PgTypes
<1>t. PICK to \in Nat : to = sz[p] + n
  BY <1>z
<1>a. PICK a \in Nat, b \in Nat : a = PGROUNDUP(to) /\ b = PGROUNDUP(sz[p])
  BY <1>z, RoundedUp
<1>0. Calls(p) /\ n < 0 /\ to >= 0 /\ n \in Int
  BY <1>z
<1>1. /\ PgTypes /\ Sane(p) /\ sz[p] \in Nat /\ sz[p] <= USERTOP
      /\ pstate[p] = "RUN" /\ kpc[p] = "user" /\ Upto(pgdir[p], b)
  BY <1>0, <1>a, CallerIs
<1>2. to \in Nat /\ to <= sz[p] /\ to <= USERTOP
  BY <1>0, <1>1, <1>t, RoundedUp
<1>3. a \in Nat /\ b \in Nat /\ a <= b /\ b <= UTOP /\ (to = 0 => a = 0)
  BY <1>1, <1>2, <1>a, RoundedUp
<1>4. /\ Frees(p, Above(pgdir[p], a, b))
      /\ pgdir' = [pgdir EXCEPT ![p] = Unmapped(pgdir[p], a, b)]
      /\ sz' = IF to = 0 THEN sz ELSE [sz EXCEPT ![p] = to]
      /\ UNCHANGED << freelist, pstate, parent, kstack, np, dir, goal, at, lost, panicked >>
  BY <1>a, <1>t DEF sbrkDown
<1>5. /\ sz' \in [Slots -> Nat] /\ \A q \in Slots : q # p => sz'[q] = sz[q]
      /\ sz'[p] = IF to = 0 THEN sz[p] ELSE to
  BY <1>1, <1>2, <1>4 DEF PgTypes
<1>6. /\ PgTypes' /\ OthersRight(p, p) /\ Distinct' /\ Once(HeldAt, freelist, lost)'
      /\ Emptied(p)' /\ ChildRight(p)' /\ Built(p)'
      /\ kpc'[p] \in {"user", "free"} /\ Upto(pgdir[p], a)'
  <2>1. b <= b
    BY <1>3
  <2> QED
    BY <1>1, <1>3, <1>4, <1>5, <2>1, Shrinks
<1>7. Sized(p)'
  <2>1. Upto(pgdir'[p], a) /\ sz'[p] <= USERTOP
    BY <1>1, <1>2, <1>5, <1>6
  <2>2. CASE to = 0
    BY <1>3, <1>6, <2>1, <2>2 DEF Sized
  <2>3. CASE to # 0
    <3>1. PGROUNDUP(sz'[p]) = a
      BY <1>5, <1>a, <2>3
    <3> QED
      BY <1>6, <2>1, <3>1 DEF Sized
  <2> QED
    BY <2>2, <2>3
<1> QED
  BY <1>6, <1>7 DEF PgInv, OthersRight, Sane

\* Two exchanges at once.
Swapped(H, a, h, b, k, I) ==
  [x \in Spots |-> IF x[3] \in I /\ x[1] = a /\ x[2] = h THEN H[<< b, k, x[3] >>]
                   ELSE IF x[3] \in I /\ x[1] = b /\ x[2] = k THEN H[<< a, h, x[3] >>] ELSE H[x]]

LEMMA SwappedIs ==
  ASSUME NEW H, Holds(H), NEW a \in Slots, NEW h \in HeldBy, NEW b \in Slots, NEW k \in HeldBy, NEW I
  PROVE  Holds(Swapped(H, a, h, b, k, I)) /\ Swap(H, Swapped(H, a, h, b, k, I), a, h, b, k, I)
<1>1. \A x \in Spots : /\ H[x] \in PageOr0 /\ x[3] \in Place
                       /\ H[<< b, k, x[3] >>] \in PageOr0 /\ H[<< a, h, x[3] >>] \in PageOr0
  BY SpotIs DEF Holds
<1>2. Holds(Swapped(H, a, h, b, k, I))
  BY <1>1 DEF Holds, Swapped
<1>3. Swap(H, Swapped(H, a, h, b, k, I), a, h, b, k, I)
  <2>1. SUFFICES ASSUME NEW c \in Slots, NEW l \in HeldBy, NEW j \in Place
                 PROVE  Swapped(H, a, h, b, k, I)[<< c, l, j >>] =
                          IF j \in I /\ c = a /\ l = h THEN H[<< b, k, j >>]
                          ELSE IF j \in I /\ c = b /\ l = k THEN H[<< a, h, j >>]
                          ELSE H[<< c, l, j >>]
    BY DEF Swap
  <2>2. << c, l, j >> \in Spots
    BY SpotIs
  <2> QED
    BY <2>2 DEF Swapped
<1> QED
  BY <1>2, <1>3

LEMMA ExecCommitSane ==
  ASSUME PgInv, NEW p \in Slots, execCommit(p)
  PROVE  PgInv'
<1>0. /\ PgTypes /\ Sane(p) /\ kpc[p] = "load" /\ goal[p] \in Nat
      /\ at[p] = Image(p) /\ Upto(dir[p], at[p]) /\ at[p] <= UTOP /\ at[p] \in Nat
  BY DEF execCommit, PgInv, Sane, Built, PgTypes
<1>m. PICK m \in Nat : m = Image(p)
  BY <1>0
<1>1. /\ PgTypes /\ Sane(p) /\ kpc[p] = "load" /\ pstate[p] = "RUN" /\ todo[p] = NoPages
      /\ dir[p] \in Dirs /\ pgdir[p] \in Dirs /\ Upto(dir[p], m) /\ m <= UTOP
  BY <1>0, <1>m DEF Sane, Emptied, PgTypes
<1>2. m * PGSIZE \in Nat /\ m * PGSIZE <= USERTOP /\ PGROUNDUP(m * PGSIZE) = m
  <2>1. m * PGSIZE \in Nat
    BY FirstTable
  <2> QED
    BY <1>1, <2>1, RoundedUp
<1>3. freevm(pgdir[p]) \in [Place -> PageOr0] /\ freevm(pgdir[p])[KSTACK] = 0
      /\ \A i \in Cells : freevm(pgdir[p])[i] = pgdir[p][i]
  BY <1>1, FreevmIs
<1>4. /\ pgdir' = [pgdir EXCEPT ![p] = dir[p]] /\ sz' = [sz EXCEPT ![p] = m * PGSIZE]
      /\ todo' = [todo EXCEPT ![p] = freevm(pgdir[p])]
      /\ dir' = [dir EXCEPT ![p] = NoDir] /\ kpc' = [kpc EXCEPT ![p] = "free"]
      /\ UNCHANGED << freelist, pstate, parent, kstack, np, goal, at, lost, panicked >>
  BY <1>m DEF execCommit, Goes
<1>5. PgTypes'
  BY <1>1, <1>2, <1>3, <1>4, NonePages DEF PgTypes
<1>6. OthersRight(p, p)
  <2>1. Touches(p, p)
    BY <1>1, <1>4 DEF Touches, Alike, PgTypes
  <2>2. NotOf(p, p)
    BY DEF NotOf
  <2> QED
    BY <1>1, <2>1, <2>2, OthersSane
<1>7. Distinct'
  <2>1. \A q \in Slots : kpc'[q] \in WithChild => kpc[q] \in WithChild /\ np'[q] = np[q]
    BY <1>1, <1>4 DEF PgTypes, WithChild, InFork
  <2> QED
    BY <2>1, DistinctKept DEF PgInv
<1>8. /\ kpc'[p] = "free" /\ pgdir'[p] = dir[p] /\ sz'[p] = m * PGSIZE /\ dir'[p] = NoDir
      /\ todo'[p] = freevm(pgdir[p])
  BY <1>1, <1>4 DEF PgTypes
<1>9. Sane(p)'
  <2>1. Emptied(p)'
    BY <1>1, <1>4, <1>8 DEF Emptied
  <2>2. ChildRight(p)' /\ Built(p)'
    BY <1>8 DEF ChildRight, InFork, Built
  <2>3. Sized(p)'
    BY <1>1, <1>2, <1>8 DEF Sized
  <2> QED
    BY <2>1, <2>2, <2>3 DEF Sane
<1>10. Once(HeldAt, freelist, lost)'
  <2> DEFINE H == Swapped(HeldAt, p, "proc", p, "todo", Cells)
  <2>1. "proc" \in HeldBy /\ "todo" \in HeldBy /\ "dir" \in HeldBy /\ "proc" # "todo" /\ "proc" # "dir"
    BY DEF HeldBy
  <2>2. Holds(HeldAt) /\ Once(HeldAt, freelist, lost) /\ Holds(HeldAt')
    BY <1>1, <1>5, HeldIs, HeldIsNext DEF PgInv
  <2>3. Holds(H) /\ Swap(HeldAt, H, p, "proc", p, "todo", Cells)
    BY <2>1, <2>2, SwappedIs
  <2> HIDE DEF H
  <2>4. Once(H, freelist, lost)
    BY <2>1, <2>2, <2>3, Swaps
  <2>5. \A b \in Slots, k \in HeldBy, j \in Place :
          HeldAt[<< b, k, j >>] = Held(b, k, j) /\ HeldAt'[<< b, k, j >>] = Held(b, k, j)'
    BY <1>1, <1>5, HeldIs, HeldIsNext
  <2>6. \A b \in Slots, k \in HeldBy, j \in Place :
          H[<< b, k, j >>] = IF j \in Cells /\ b = p /\ k = "proc" THEN Held(p, "todo", j)
                             ELSE IF j \in Cells /\ b = p /\ k = "todo" THEN Held(p, "proc", j)
                             ELSE Held(b, k, j)
    <3>1. SUFFICES ASSUME NEW b \in Slots, NEW k \in HeldBy, NEW j \in Place
            PROVE  H[<< b, k, j >>] = IF j \in Cells /\ b = p /\ k = "proc" THEN Held(p, "todo", j)
                             ELSE IF j \in Cells /\ b = p /\ k = "todo" THEN Held(p, "proc", j)
                             ELSE Held(b, k, j)
      OBVIOUS
    <3>2. H[<< b, k, j >>] = IF j \in Cells /\ b = p /\ k = "proc" THEN HeldAt[<< p, "todo", j >>]
                             ELSE IF j \in Cells /\ b = p /\ k = "todo" THEN HeldAt[<< p, "proc", j >>]
                             ELSE HeldAt[<< b, k, j >>]
      BY <2>3 DEF Swap
    <3> QED
      BY <2>1, <2>5, <3>2
  <2>7. \A b \in Slots, k \in HeldBy, j \in Place :
          Held(b, k, j)' = IF j \in Cells /\ b = p /\ k = "proc" THEN dir[p][j]
                           ELSE IF j \in Cells /\ b = p /\ k = "dir" THEN 0
                           ELSE IF j \in Cells /\ b = p /\ k = "todo" THEN pgdir[p][j]
                           ELSE Held(b, k, j)
    BY <1>1, <1>3, <1>4, PlacesAre, NonePages DEF Held, PgTypes, HeldBy
  <2>8. /\ \A j \in Cells : j # KSTACK /\ Held(p, "todo", j) = 0 /\ Held(p, "proc", j) = pgdir[p][j]
                            /\ Held(p, "dir", j) = dir[p][j]
    BY <1>1, PlacesAre, NonePages DEF Held
  <2>9. Swap(H, HeldAt', p, "proc", p, "dir", Cells)
    <3>1. SUFFICES ASSUME NEW b \in Slots, NEW k \in HeldBy, NEW j \in Place
            PROVE  HeldAt'[<< b, k, j >>] =
                     IF j \in Cells /\ b = p /\ k = "proc" THEN H[<< p, "dir", j >>]
                     ELSE IF j \in Cells /\ b = p /\ k = "dir" THEN H[<< p, "proc", j >>]
                     ELSE H[<< b, k, j >>]
      BY DEF Swap
    <3>2. HeldAt'[<< b, k, j >>] = Held(b, k, j)'
      BY <2>5
    <3>3. H[<< p, "dir", j >>] = Held(p, "dir", j)
      BY <2>1, <2>6 DEF HeldBy
    <3>4. j \in Cells => H[<< p, "proc", j >>] = 0
      BY <2>1, <2>6, <2>8
    <3>5. H[<< b, k, j >>] = IF j \in Cells /\ b = p /\ k = "proc" THEN Held(p, "todo", j)
                             ELSE IF j \in Cells /\ b = p /\ k = "todo" THEN Held(p, "proc", j)
                             ELSE Held(b, k, j)
      BY <2>6
    <3>6. Held(b, k, j)' = IF j \in Cells /\ b = p /\ k = "proc" THEN dir[p][j]
                           ELSE IF j \in Cells /\ b = p /\ k = "dir" THEN 0
                           ELSE IF j \in Cells /\ b = p /\ k = "todo" THEN pgdir[p][j]
                           ELSE Held(b, k, j)
      BY <2>7
    <3> QED
      BY <2>8, <3>2, <3>3, <3>4, <3>5, <3>6
  <2>10. Once(HeldAt', freelist, lost)
    BY <2>1, <2>2, <2>3, <2>4, <2>9, Swaps
  <2> QED
    BY <1>4, <2>10, OnceKept
<1> QED
  BY <1>5, <1>6, <1>7, <1>9, <1>10 DEF PgInv, OthersRight

-----------------------------------------------------------------------------
(* wait and the calls of kfree.                                             *)

LEMMA WaitSane ==
  ASSUME PgInv, NEW p \in Slots, wait(p)
  PROVE  PgInv'
<1>0. Calls(p) /\ ~ Locked
  BY DEF wait
<1>1. /\ PgTypes /\ Sane(p) /\ pstate[p] = "RUN" /\ kpc[p] = "user"
      /\ Upto(pgdir[p], PGROUNDUP(sz[p])) /\ dir[p] = NoDir /\ todo[p] = NoPages
  BY <1>0, CallerIs
<1>2. PICK c \in Slots :
        /\ pstate[c] = "ZOMBIE" /\ np' = [np EXCEPT ![p] = c]
        /\ todo' = [todo EXCEPT ![p] = [freevm(pgdir[c]) EXCEPT ![KSTACK] = kstack[c]]]
        /\ kstack' = [kstack EXCEPT ![c] = 0] /\ pgdir' = [pgdir EXCEPT ![c] = NoDir]
  BY DEF wait
<1>3. /\ kpc' = [kpc EXCEPT ![p] = "reap"]
      /\ UNCHANGED << freelist, pstate, parent, sz, dir, goal, at, lost, panicked >>
  BY DEF wait, Goes
<1>4. c # p /\ Sane(c) /\ kpc[c] = "user" /\ pgdir[c] \in Dirs /\ kstack[c] \in PageOr0
  BY <1>1, <1>2 DEF PgInv, Sane, Emptied, PgTypes
<1>5. \A q \in Slots : kpc[q] \in WithChild => np[q] # c
  BY <1>0, <1>2 DEF PgInv, Sane, ChildRight, WithChild, InFork, Locked
<1>6. /\ todo'[p] \in [Place -> PageOr0] /\ todo'[p][KSTACK] = kstack[c]
      /\ \A i \in Cells : todo'[p][i] = pgdir[c][i]
  <2>1. freevm(pgdir[c]) \in [Place -> PageOr0] /\ \A i \in Cells : freevm(pgdir[c])[i] = pgdir[c][i]
    BY <1>4, FreevmIs
  <2>2. todo'[p] = [freevm(pgdir[c]) EXCEPT ![KSTACK] = kstack[c]]
    BY <1>1, <1>2 DEF PgTypes
  <2> QED
    BY <1>4, <2>1, <2>2, PlacesAre
<1>7. PgTypes'
  <2>1. todo' \in [Slots -> [Place -> PageOr0]]
    BY <1>1, <1>2, <1>6 DEF PgTypes
  <2>2. kstack' \in [Slots -> PageOr0] /\ pgdir' \in [Slots -> Dirs] /\ np' \in [Slots -> 0 .. NPROC]
    <3>1. 0 \in PageOr0 /\ c \in 0 .. NPROC
      BY FirstTable DEF PageOr0, Slots
    <3> QED
      BY <1>1, <1>2, <3>1, NonePages DEF PgTypes
  <2> QED
    BY <1>1, <1>3, <2>1, <2>2 DEF PgTypes
<1>8. OthersRight(p, c)
  <2>1. Touches(p, c)
    BY <1>1, <1>2, <1>3 DEF Touches, Alike, PgTypes
  <2>2. NotOf(p, c)
    BY <1>5 DEF NotOf
  <2> QED
    BY <1>1, <2>1, <2>2, OthersSane
<1>9. /\ kpc'[p] = "reap" /\ np'[p] = c /\ kstack'[c] = 0 /\ pgdir'[c] = NoDir /\ kpc'[c] = "user"
      /\ kstack'[p] = kstack[p] /\ pgdir'[p] = pgdir[p] /\ todo'[c] = todo[c]
  BY <1>1, <1>2, <1>3, <1>4 DEF PgTypes
<1>10. Sane(p)'
  <2>1. Emptied(p)'
    BY <1>1, <1>3, <1>9 DEF Emptied
  <2>2. ChildRight(p)'
    BY <1>2, <1>3, <1>9 DEF ChildRight, InFork
  <2>3. Sized(p)'
    BY <1>1, <1>3, <1>9 DEF Sane, Sized
  <2>4. Built(p)'
    BY <1>9 DEF Built
  <2> QED
    BY <2>1, <2>2, <2>3, <2>4 DEF Sane
<1>11. Sane(c)'
  <2>1. Emptied(c)'
    BY <1>2, <1>3, <1>4, <1>9 DEF Sane, Emptied
  <2>2. ChildRight(c)'
    BY <1>9 DEF ChildRight, InFork
  <2>3. Sized(c)'
    BY <1>2, <1>3, <1>4, <1>9 DEF Sane, Sized
  <2>4. Built(c)'
    BY <1>9 DEF Built
  <2> QED
    BY <2>1, <2>2, <2>3, <2>4 DEF Sane
<1>12. Distinct'
  <2>1. \A q \in Slots : q # p => kpc'[q] = kpc[q] /\ np'[q] = np[q]
    BY <1>1, <1>2, <1>3 DEF PgTypes
  <2> QED
    BY <1>5, <1>9, <2>1 DEF PgInv, Distinct, WithChild
<1>13. Once(HeldAt, freelist, lost)'
  <2>1. SwapNow(c, "proc", p, "todo", Place)
    <3>1. SUFFICES ASSUME NEW b \in Slots, NEW k \in HeldBy, NEW j \in Place
            PROVE  Held(b, k, j)' = IF j \in Place /\ b = c /\ k = "proc" THEN Held(p, "todo", j)
                                    ELSE IF j \in Place /\ b = p /\ k = "todo" THEN Held(c, "proc", j)
                                    ELSE Held(b, k, j)
      BY DEF SwapNow
    <3>2. /\ todo'[b] = (IF b = p THEN todo'[p] ELSE todo[b]) /\ dir'[b] = dir[b]
          /\ kstack'[b] = (IF b = c THEN 0 ELSE kstack[b])
          /\ pgdir'[b] = (IF b = c THEN NoDir ELSE pgdir[b])
      BY <1>1, <1>2, <1>3 DEF PgTypes
    <3>3. todo[p][j] = 0 /\ (j \in Cells => NoDir[j] = 0) /\ (j # KSTACK => j \in Cells)
      BY <1>1, PlacesAre, NonePages
    <3>4. k = "proc" \/ k = "dir" \/ k = "todo"
      BY DEF HeldBy
    <3> QED
      BY <1>4, <1>6, <3>2, <3>3, <3>4 DEF Held
  <2>2. "todo" \in HeldBy /\ "proc" \in HeldBy /\ "todo" # "proc"
    BY DEF HeldBy
  <2> QED
    BY <1>3, <1>7, <2>1, <2>2, OnceSwapped
<1> QED
  BY <1>7, <1>8, <1>10, <1>11, <1>12, <1>13 DEF PgInv, OthersRight

\* What holds the pages once page v has left place j of those that p frees.
Less1(p, j) == [HeldAt EXCEPT ![<< p, "todo", j >>] = 0]

LEMMA Less1Is ==
  ASSUME PgInv, NEW p \in Slots, NEW j \in Place, NEW v \in PageNo, v # 0, v = todo[p][j], kfree(v)
  PROVE  /\ Holds(Less1(p, j))
         /\ \A b \in Slots, k \in HeldBy, i \in Place :
              Less1(p, j)[<< b, k, i >>] = IF b = p /\ k = "todo" /\ i = j THEN 0 ELSE Held(b, k, i)
         /\ Once(Less1(p, j), freelist', lost)
<1> DEFINE H == Less1(p, j)
<1>1. PgTypes /\ Once(HeldAt, freelist, lost) /\ Holds(HeldAt)
  BY HeldIs DEF PgInv
<1>2. freelist \in [PageNo -> Nat] /\ lost \subseteq PageNo
  BY <1>1 DEF PgTypes
<1>3. "todo" \in HeldBy /\ << p, "todo", j >> \in Spots
  BY SpotIs DEF HeldBy
<1>4. \A c \in Slots, l \in HeldBy, i \in Place : HeldAt[<< c, l, i >>] = Held(c, l, i)
  BY <1>1, HeldIs
<1>5. Holds(H)
  BY <1>1, <1>3, FirstTable DEF Holds, PageOr0, Less1
<1>6. Put(HeldAt, H, p, "todo", j, 0)
  <2>1. SUFFICES ASSUME NEW b \in Slots, NEW k \in HeldBy, NEW i \in Place
          PROVE  H[<< b, k, i >>] = IF b = p /\ k = "todo" /\ i = j THEN 0 ELSE HeldAt[<< b, k, i >>]
    BY DEF Put
  <2>2. << b, k, i >> \in Spots
    BY SpotIs
  <2> QED
    BY <1>1, <1>3, <2>2 DEF Less1, Holds
<1>7. HeldAt[<< p, "todo", j >>] = v
  BY <1>3, <1>4 DEF Held
<1>8. Once(H, [freelist EXCEPT ![v] = @ + 1], lost)
  BY <1>1, <1>2, <1>3, <1>5, <1>6, <1>7, Gives
<1>9. \A b \in Slots, k \in HeldBy, i \in Place :
        H[<< b, k, i >>] = IF b = p /\ k = "todo" /\ i = j THEN 0 ELSE Held(b, k, i)
  BY <1>4, <1>6 DEF Put
<1> QED
  BY <1>5, <1>8, <1>9 DEF kfree

\* t is what p frees but for place j.
OneLess(p, j, t) == t[j] = 0 /\ \A i \in Place : i # j => t[i] = todo[p][i]

LEMMA OnceGiven ==
  ASSUME PgInv, PgTypes', NEW p \in Slots, NEW j \in Place, NEW v \in PageNo, v # 0, v = todo[p][j],
         kfree(v), UNCHANGED << kstack, pgdir, dir, lost >>,
         NEW t, todo' = [todo EXCEPT ![p] = t], OneLess(p, j, t)
  PROVE  Once(HeldAt, freelist, lost)'
<1>1. Holds(Less1(p, j)) /\ Once(Less1(p, j), freelist', lost)
  BY Less1Is
<1>2. \A b \in Slots, k \in HeldBy, i \in Place :
        Less1(p, j)[<< b, k, i >>] = IF b = p /\ k = "todo" /\ i = j THEN 0 ELSE Held(b, k, i)
  BY Less1Is
<1>3. \A b \in Slots, k \in HeldBy, i \in Place :
        Held(b, k, i)' = IF b = p /\ k = "todo" /\ i = j THEN 0 ELSE Held(b, k, i)
  BY DEF Held, PgInv, PgTypes, OneLess
<1>4. Holds(HeldAt') /\ \A b \in Slots, k \in HeldBy, i \in Place :
                          HeldAt'[<< b, k, i >>] = Held(b, k, i)'
  BY HeldIsNext
<1>5. \A x \in Spots : HeldAt'[x] = Less1(p, j)[x]
  BY <1>2, <1>3, <1>4, SpotIs
<1>6. HeldAt' = Less1(p, j)
  BY <1>1, <1>4, <1>5 DEF Holds
<1> QED
  BY <1>1, <1>6, OnceKept

\* The next page that a call frees.
LEMMA DueIs ==
  ASSUME NEW p \in Slots, todo[p] \in [Place -> PageOr0], todo[p] # NoPages
  PROVE  /\ Due(p) \in Place /\ todo[p][Due(p)] # 0 /\ todo[p][Due(p)] \in PageNo
         /\ Left(p) \in [Place -> PageOr0] /\ Left(p)[Due(p)] = 0
         /\ \A i \in Place : i # Due(p) => Left(p)[i] = todo[p][i]
<1> DEFINE S == {i \in Place : todo[p][i] # 0}
<1>1. S \subseteq Int /\ \A i \in S : i >= -1
  BY PlacesAre DEF Place, KSTACK
<1>2. S # {}
  <2>1. SUFFICES ASSUME \A i \in Place : todo[p][i] = 0 PROVE FALSE
    OBVIOUS
  <2>2. todo[p] = NoPages
    BY <2>1 DEF NoPages
  <2> QED
    BY <2>2
<1>3. Due(p) \in S
  BY <1>1, <1>2, SmallestIs DEF Due
<1>4. 0 \in PageOr0 /\ \A v \in PageOr0 : v # 0 => v \in PageNo
  BY FirstTable DEF PageOr0, PageNo
<1> QED
  BY <1>3, <1>4 DEF Left

LEMMA KfreeIs ==
  ASSUME PgInv, NEW v \in PageNo, kfree(v)
  PROVE  freelist' \in [PageNo -> Nat]
BY DEF PgInv, PgTypes, kfree

\* The call that frees pages has only these left to do.
LEMMA KfreesMore ==
  ASSUME PgInv, NEW p \in Slots, kfrees(p), Left(p) # NoPages
  PROVE  PgInv'
<1>1. /\ PgTypes /\ Sane(p) /\ todo[p] \in [Place -> PageOr0] /\ todo[p] # NoPages
      /\ kpc[p] \in {"copybad", "forkbad", "free", "reap"} /\ pstate[p] = "RUN"
  BY DEF kfrees, PgInv, PgTypes, Sane, Emptied
<1>2. PICK j \in Place : j = Due(p)
  BY <1>1, DueIs
<1>3. PICK v \in PageNo : v = todo[p][j] /\ v # 0
  BY <1>1, <1>2, DueIs
<1>4. /\ kfree(v) /\ todo' = [todo EXCEPT ![p] = Left(p)]
      /\ UNCHANGED << kstack, pstate, parent, sz, kpc, pgdir, np, dir, goal, at, lost, panicked >>
  BY <1>2, <1>3 DEF kfrees
<1>5. Left(p) \in [Place -> PageOr0] /\ Left(p)[j] = 0 /\ \A i \in Place : i # j => Left(p)[i] = todo[p][i]
  BY <1>1, <1>2, DueIs
<1>6. PgTypes'
  BY <1>1, <1>4, <1>5, KfreeIs DEF PgTypes
<1>7. OthersRight(p, p)
  <2>1. Touches(p, p)
    BY <1>1, <1>4 DEF Touches, Alike, PgTypes
  <2>2. NotOf(p, p)
    BY DEF NotOf
  <2> QED
    BY <1>1, <2>1, <2>2, OthersSane
<1>8. Sane(p)'
  <2>1. Emptied(p)'
    BY <1>1, <1>4 DEF Sane, Emptied
  <2>2. ChildRight(p)'
    BY <1>1, <1>4 DEF Sane, ChildRight, InFork
  <2>3. Sized(p)'
    BY <1>1, <1>4 DEF Sane, Sized
  <2>4. Built(p)'
    BY <1>1, <1>4 DEF Built
  <2> QED
    BY <2>1, <2>2, <2>3, <2>4 DEF Sane
<1>9. Distinct'
  BY <1>4, DistinctKept DEF PgInv
<1>10. Once(HeldAt, freelist, lost)'
  <2>1. PICK t : t = Left(p)
    OBVIOUS
  <2>2. todo' = [todo EXCEPT ![p] = t] /\ OneLess(p, j, t)
    BY <1>4, <1>5, <2>1 DEF OneLess
  <2> QED
    BY <1>3, <1>4, <1>6, <2>2, OnceGiven
<1> QED
  BY <1>6, <1>7, <1>8, <1>9, <1>10 DEF PgInv, OthersRight

\* The last page is freed and the call ends; the child, if there is one, is
\* not in use any more.
LEMMA KfreesLast ==
  ASSUME PgInv, NEW p \in Slots, kfrees(p), Left(p) = NoPages, kpc[p] # "copybad"
  PROVE  PgInv'
<1>1. /\ PgTypes /\ Sane(p) /\ todo[p] \in [Place -> PageOr0] /\ todo[p] # NoPages
      /\ kpc[p] \in {"forkbad", "free", "reap"} /\ pstate[p] = "RUN" /\ dir[p] = NoDir
  BY DEF kfrees, PgInv, PgTypes, Sane, Emptied
<1>2. PICK j \in Place : j = Due(p)
  BY <1>1, DueIs
<1>3. PICK v \in PageNo : v = todo[p][j] /\ v # 0
  BY <1>1, <1>2, DueIs
<1>4. /\ kfree(v) /\ todo' = [todo EXCEPT ![p] = NoPages] /\ kpc' = [kpc EXCEPT ![p] = "user"]
      /\ UNCHANGED << kstack, pgdir, np, dir, goal, at, lost, panicked >>
      /\ IF kpc[p] = "free" THEN UNCHANGED << pstate, parent, sz >> ELSE Drops(np[p])
  BY <1>2, <1>3 DEF kfrees, Goes
<1>5. OneLess(p, j, NoPages)
  BY <1>1, <1>2, DueIs DEF OneLess
<1>6. freelist' \in [PageNo -> Nat]
  BY <1>4, KfreeIs
<1>7. kpc'[p] = "user" /\ todo'[p] = NoPages
  BY <1>1, <1>4 DEF PgTypes
<1>8. Distinct'
  <2>1. \A q \in Slots : kpc'[q] \in WithChild => kpc[q] \in WithChild /\ np'[q] = np[q]
    BY <1>1, <1>4 DEF PgTypes, WithChild, InFork
  <2> QED
    BY <2>1, DistinctKept DEF PgInv
<1>9. CASE kpc[p] = "free"
  <2>1. UNCHANGED << pstate, parent, sz >>
    BY <1>4, <1>9
  <2>2. PgTypes'
    BY <1>1, <1>4, <1>6, <2>1, NonePages DEF PgTypes
  <2>3. OthersRight(p, p)
    <3>1. Touches(p, p)
      BY <1>1, <1>4, <2>1 DEF Touches, Alike, PgTypes
    <3>2. NotOf(p, p)
      BY DEF NotOf
    <3> QED
      BY <1>1, <3>1, <3>2, OthersSane
  <2>4. Sane(p)'
    <3>1. Emptied(p)'
      BY <1>1, <1>4, <1>7, <2>1 DEF Emptied
    <3>2. ChildRight(p)' /\ Built(p)'
      BY <1>7 DEF ChildRight, InFork, Built
    <3>3. Sized(p)'
      BY <1>1, <1>4, <1>7, <1>9, <2>1 DEF Sane, Sized
    <3> QED
      BY <3>1, <3>2, <3>3 DEF Sane
  <2>5. Once(HeldAt, freelist, lost)'
    BY <1>3, <1>4, <1>5, <2>2, OnceGiven
  <2> QED
    BY <1>8, <2>2, <2>3, <2>4, <2>5 DEF PgInv, OthersRight
<1>10. CASE kpc[p] \in {"forkbad", "reap"}
  <2>c. PICK c \in Slots : c = np[p]
    BY <1>10, ChildIs DEF WithChild, InFork
  <2>0. c # p /\ kpc[c] = "user" /\ NotOf(p, c) /\ Sane(c)
    BY <1>1, <1>10, <2>c, ChildIs DEF WithChild, InFork, PgInv
  <2>1. /\ pstate' = [pstate EXCEPT ![c] = "UNUSED"] /\ parent' = [parent EXCEPT ![c] = 0]
        /\ sz' = [sz EXCEPT ![c] = 0]
    BY <1>4, <1>10, <2>c DEF Drops, Becomes
  <2>2. kstack[c] = 0 /\ pgdir[c] = NoDir
    <3>1. kstack[c] = 0 /\ (kpc[p] = "reap" => pgdir[c] = NoDir)
          /\ (kpc[p] = "forkbad" => pstate[c] = "EMBRYO")
      BY <1>1, <1>10, <2>c DEF Sane, ChildRight, InFork
    <3> QED
      BY <1>10, <2>0, <3>1 DEF Sane, Emptied
  <2>3. PgTypes'
    <3>1. 0 \in 0 .. NPROC
      BY FirstTable
    <3> QED
      BY <1>1, <1>4, <1>6, <2>1, <3>1, NonePages DEF PgTypes
  <2>4. OthersRight(p, c)
    <3>1. Touches(p, c)
      BY <1>1, <1>4, <2>1 DEF Touches, Alike, PgTypes
    <3> QED
      BY <1>1, <2>0, <3>1, OthersSane
  <2>5. pstate'[p] = "RUN" /\ sz'[p] = sz[p] /\ pstate'[c] = "UNUSED" /\ sz'[c] = 0 /\ kpc'[c] = "user"
        /\ todo'[c] = todo[c]
    BY <1>1, <1>4, <2>0, <2>1 DEF PgTypes
  <2>6. Sane(p)'
    <3>1. Emptied(p)'
      BY <1>1, <1>4, <1>7, <2>5 DEF Emptied
    <3>2. ChildRight(p)' /\ Built(p)'
      BY <1>7 DEF ChildRight, InFork, Built
    <3>3. Sized(p)'
      BY <1>1, <1>4, <1>7, <1>10, <2>5 DEF Sane, Sized
    <3> QED
      BY <3>1, <3>2, <3>3 DEF Sane
  <2>7. Sane(c)'
    <3>1. Emptied(c)'
      BY <1>4, <2>0, <2>2, <2>5 DEF Sane, Emptied
    <3>2. ChildRight(c)' /\ Built(c)'
      BY <2>5 DEF ChildRight, InFork, Built
    <3>3. Sized(c)'
      BY <2>5, RoundedUp DEF Sized
    <3> QED
      BY <3>1, <3>2, <3>3 DEF Sane
  <2>8. Once(HeldAt, freelist, lost)'
    BY <1>3, <1>4, <1>5, <2>3, OnceGiven
  <2> QED
    BY <1>8, <2>3, <2>4, <2>6, <2>7, <2>8 DEF PgInv, OthersRight
<1> QED
  BY <1>1, <1>9, <1>10

\* The last page of a copy that failed: the kernel stack is next.
LEMMA KfreesCopy ==
  ASSUME PgInv, NEW p \in Slots, kfrees(p), Left(p) = NoPages, kpc[p] = "copybad"
  PROVE  PgInv'
<1>1. /\ PgTypes /\ Sane(p) /\ todo[p] \in [Place -> PageOr0] /\ todo[p] # NoPages
      /\ pstate[p] = "RUN" /\ dir[p] = NoDir
  BY DEF kfrees, PgInv, PgTypes, Sane, Emptied
<1>2. PICK j \in Place : j = Due(p)
  BY <1>1, DueIs
<1>3. PICK v \in PageNo : v = todo[p][j] /\ v # 0
  BY <1>1, <1>2, DueIs
<1>c. PICK c \in Slots : c = np[p]
  BY ChildIs DEF WithChild, InFork
<1>4. /\ kfree(v) /\ kpc' = [kpc EXCEPT ![p] = "forkbad"] /\ kstack' = [kstack EXCEPT ![c] = 0]
      /\ todo' = [todo EXCEPT ![p] = [NoPages EXCEPT ![KSTACK] = kstack[c]]]
      /\ UNCHANGED << pstate, parent, sz, pgdir, np, dir, goal, at, lost, panicked >>
  BY <1>2, <1>3, <1>c DEF kfrees, GiveUpStack, Goes
<1>5. OneLess(p, j, NoPages)
  BY <1>1, <1>2, DueIs DEF OneLess
<1>6. c # p /\ kpc[c] = "user" /\ NotOf(p, c) /\ Sane(c) /\ pstate[c] = "EMBRYO"
  BY <1>1, <1>c, ChildIs DEF WithChild, InFork, PgInv, Sane, ChildRight
<1>7. /\ todo'[p] \in [Place -> PageOr0] /\ todo'[p][KSTACK] = kstack[c] /\ kstack'[c] = 0
      /\ \A i \in Cells : todo'[p][i] = 0
  BY <1>1, <1>4, NonePages, PlacesAre DEF PgTypes
<1>8. PgTypes'
  <2>1. kstack' \in [Slots -> PageOr0] /\ todo' \in [Slots -> [Place -> PageOr0]]
    BY <1>1, <1>4, <1>7, FirstTable DEF PgTypes, PageOr0
  <2> QED
    BY <1>1, <1>4, <2>1, KfreeIs DEF PgTypes
<1>9. OthersRight(p, c)
  <2>1. Touches(p, c)
    BY <1>1, <1>4 DEF Touches, Alike, PgTypes
  <2> QED
    BY <1>1, <1>6, <2>1, OthersSane
<1>10. kpc'[p] = "forkbad" /\ kpc'[c] = "user" /\ todo'[c] = todo[c] /\ kstack'[p] = kstack[p]
  BY <1>1, <1>4, <1>6 DEF PgTypes
<1>11. Sane(p)'
  <2>1. Emptied(p)'
    BY <1>1, <1>4, <1>10 DEF Sane, Emptied
  <2>2. ChildRight(p)'
    BY <1>4, <1>c, <1>6, <1>7, <1>10 DEF ChildRight, InFork
  <2>3. Sized(p)'
    BY <1>1, <1>4, <1>10 DEF Sane, Sized
  <2>4. Built(p)'
    BY <1>10 DEF Built
  <2> QED
    BY <2>1, <2>2, <2>3, <2>4 DEF Sane
<1>12. Sane(c)'
  <2>1. Emptied(c)'
    BY <1>4, <1>6, <1>10 DEF Sane, Emptied
  <2>2. ChildRight(c)' /\ Built(c)'
    BY <1>10 DEF ChildRight, InFork, Built
  <2>3. Sized(c)'
    BY <1>4, <1>6, <1>10 DEF Sane, Sized
  <2> QED
    BY <2>1, <2>2, <2>3 DEF Sane
<1>13. Distinct'
  <2>1. \A q \in Slots : kpc'[q] \in WithChild => kpc[q] \in WithChild /\ np'[q] = np[q]
    BY <1>1, <1>4 DEF PgTypes, WithChild, InFork
  <2> QED
    BY <2>1, DistinctKept DEF PgInv
<1>14. Once(HeldAt, freelist, lost)'
  <2>1. Holds(Less1(p, j)) /\ Once(Less1(p, j), freelist', lost)
    BY <1>3, <1>4, Less1Is
  <2>2. \A b \in Slots, k \in HeldBy, i \in Place :
          Less1(p, j)[<< b, k, i >>] = IF b = p /\ k = "todo" /\ i = j THEN 0 ELSE Held(b, k, i)
    BY <1>3, <1>4, Less1Is
  <2>3. Holds(HeldAt') /\ \A b \in Slots, k \in HeldBy, i \in Place :
                            HeldAt'[<< b, k, i >>] = Held(b, k, i)'
    BY <1>8, HeldIsNext
  <2>4. "proc" \in HeldBy /\ "todo" \in HeldBy /\ "proc" # "todo"
    BY DEF HeldBy
  <2>5. Swap(Less1(p, j), HeldAt', c, "proc", p, "todo", {KSTACK})
    <3>1. SUFFICES ASSUME NEW b \in Slots, NEW k \in HeldBy, NEW i \in Place
            PROVE  HeldAt'[<< b, k, i >>] =
                     IF i \in {KSTACK} /\ b = c /\ k = "proc" THEN Less1(p, j)[<< p, "todo", i >>]
                     ELSE IF i \in {KSTACK} /\ b = p /\ k = "todo"
                          THEN Less1(p, j)[<< c, "proc", i >>]
                     ELSE Less1(p, j)[<< b, k, i >>]
      BY DEF Swap
    <3>2. /\ todo'[b] = (IF b = p THEN todo'[p] ELSE todo[b]) /\ dir'[b] = dir[b]
          /\ kstack'[b] = (IF b = c THEN 0 ELSE kstack[b]) /\ pgdir'[b] = pgdir[b]
      BY <1>1, <1>4 DEF PgTypes
    <3>3. /\ Less1(p, j)[<< p, "todo", i >>] = 0
      BY <1>5, <2>2, <2>4, NonePages DEF OneLess, Held
    <3>4. Less1(p, j)[<< c, "proc", i >>] = Held(c, "proc", i)
      BY <2>2, <2>4
    <3>5. Less1(p, j)[<< b, k, i >>] = IF b = p /\ k = "todo" /\ i = j THEN 0 ELSE Held(b, k, i)
      BY <2>2
    <3>6. (k = "proc" \/ k = "dir" \/ k = "todo") /\ (i # KSTACK => i \in Cells)
          /\ (b = p /\ k = "todo" => Less1(p, j)[<< b, k, i >>] = 0)
      BY <3>3, PlacesAre DEF HeldBy
    <3>7. HeldAt'[<< b, k, i >>] = Held(b, k, i)'
      BY <2>3
    <3> QED
      BY <1>7, <3>2, <3>3, <3>4, <3>5, <3>6, <3>7 DEF Held
  <2>6. Once(HeldAt', freelist', lost)
    BY <2>1, <2>3, <2>4, <2>5, <1>6, Swaps
  <2> QED
    BY <1>4, <2>6, OnceKept
<1> QED
  BY <1>8, <1>9, <1>11, <1>12, <1>13, <1>14 DEF PgInv, OthersRight

-----------------------------------------------------------------------------
(* The theorem.                                                             *)

LEMMA FirstDirIs ==
  /\ FirstDir \in Dirs /\ Upto(FirstDir, 1)
  /\ FirstDir[0] = 3 /\ FirstDir[TOP] = 2
  /\ \A i \in Cells : FirstDir[i] = IF i = 0 THEN 3 ELSE IF i = TOP THEN 2
                                    ELSE IF i >= UTOP THEN 4 + i - UTOP ELSE 0
<1>1. \A i \in Cells : FirstDir[i] = IF i = 0 THEN 3 ELSE IF i = TOP THEN 2
                                    ELSE IF i >= UTOP THEN 4 + i - UTOP ELSE 0
  BY DEF FirstDir
<1>2. \A i \in Cells : i \in Int /\ 0 <= i /\ i <= TOP
  BY PlacesAre DEF Cells
<1>3. LastTable + 4 <= NPAGES /\ NPAGES \in Nat /\ LastTable \in Nat /\ UTOP \in Nat
      /\ TOP = UTOP + LastTable + 1
  BY FirstTable, PlacesAre DEF TOP
<1>4. \A i \in Cells : FirstDir[i] \in PageOr0
  <2>1. SUFFICES ASSUME NEW i \in Cells PROVE FirstDir[i] \in PageOr0
    OBVIOUS
  <2> QED
    BY <1>1, <1>2, <1>3 DEF PageOr0
<1>5. FirstDir \in Dirs
  BY <1>4 DEF FirstDir, Dirs
<1>6. 0 \in Cells /\ TOP \in Cells /\ 0 # TOP
  BY PlacesAre
<1>7. Upto(FirstDir, 1)
  <2>1. SUFFICES ASSUME NEW i \in 0 .. UTOP - 1 PROVE (FirstDir[i] # 0) <=> i < 1
    BY DEF Upto
  <2>2. i \in Cells /\ i # TOP /\ i \in Nat /\ ~ (i >= UTOP)
    BY <1>3, PlacesAre
  <2> QED
    BY <1>1, <2>2
<1> QED
  BY <1>1, <1>5, <1>6, <1>7

LEMMA PgInitHolds == PgInit => PgInv
<1> SUFFICES ASSUME PgInit PROVE PgInv
  OBVIOUS
<1> USE DEF PgInit
<1>1. 1 \in Slots /\ PGSIZE \in Nat /\ LastTable + 4 <= NPAGES /\ LastTable \in Nat
      /\ 0 \in PageOr0 /\ 1 \in PageOr0
  BY FirstTable, PlacesAre DEF Slots, PageOr0
<1>2. PgTypes
  BY <1>1, FirstDirIs, NonePages, FirstTable DEF PgTypes
<1>3. \A p \in Slots : Sane(p)
  <2>1. SUFFICES ASSUME NEW p \in Slots PROVE Sane(p)
    OBVIOUS
  <2>2. Emptied(p)
    BY DEF Emptied
  <2>3. ChildRight(p) /\ Built(p)
    BY DEF ChildRight, InFork, Built
  <2>4. Sized(p)
    <3>1. PGSIZE = 1 * PGSIZE /\ 1 \in Nat /\ 1 <= UTOP
      BY FirstTable
    <3>2. PGROUNDUP(1 * PGSIZE) = 1 /\ 1 * PGSIZE <= USERTOP /\ USERTOP \in Nat
      BY <3>1, RoundedUp
    <3>3. sz[p] <= USERTOP
      BY <3>1, <3>2
    <3>4. pstate[p] = "RUN" => Upto(pgdir[p], PGROUNDUP(sz[p]))
      BY <3>1, <3>2, FirstDirIs
    <3> QED
      BY <3>3, <3>4 DEF Sized
  <2> QED
    BY <2>2, <2>3, <2>4 DEF Sane
<1>4. Distinct
  BY DEF Distinct, InFork
<1>5. Once(HeldAt, freelist, lost)
  <2>1. \A a \in Slots, h \in HeldBy, i \in Place :
          HeldAt[<< a, h, i >>] = IF a = 1 /\ h = "proc"
                                  THEN IF i = KSTACK THEN 1 ELSE FirstDir[i] ELSE 0
    <3>1. \A a \in Slots, h \in HeldBy, i \in Place : HeldAt[<< a, h, i >>] = Held(a, h, i)
      BY <1>2, HeldIs
    <3>2. SUFFICES ASSUME NEW a \in Slots, NEW h \in HeldBy, NEW i \in Place
            PROVE  HeldAt[<< a, h, i >>] = IF a = 1 /\ h = "proc"
                                   THEN IF i = KSTACK THEN 1 ELSE FirstDir[i] ELSE 0
      OBVIOUS
    <3>3. Held(a, h, i) = IF a = 1 /\ h = "proc"
                                   THEN IF i = KSTACK THEN 1 ELSE FirstDir[i] ELSE 0
      BY NonePages, PlacesAre DEF Held, HeldBy
    <3> QED
      BY <3>1, <3>3
  <2>2. \A i \in Cells : i \in Int /\ 0 <= i /\ i <= TOP /\ TOP = UTOP + LastTable + 1
                         /\ UTOP \in Nat /\ UTOP > 0
    BY PlacesAre DEF Cells, TOP
  <2>3. \A i, j \in Place : i # j /\ (IF i = KSTACK THEN 1 ELSE FirstDir[i]) # 0 =>
          (IF i = KSTACK THEN 1 ELSE FirstDir[i]) # (IF j = KSTACK THEN 1 ELSE FirstDir[j])
    <3>1. SUFFICES ASSUME NEW i \in Place, NEW j \in Place, i # j
            PROVE  (IF i = KSTACK THEN 1 ELSE FirstDir[i]) # 0 =>
          (IF i = KSTACK THEN 1 ELSE FirstDir[i]) # (IF j = KSTACK THEN 1 ELSE FirstDir[j])
      OBVIOUS
    <3>2. \A k \in Cells : FirstDir[k] # 1
      BY <1>1, <2>2, FirstDirIs
    <3>3. i \in Cells /\ j \in Cells => (FirstDir[i] # 0 => FirstDir[i] # FirstDir[j])
      BY <1>1, <2>2, <3>1, FirstDirIs
    <3> QED
      BY <3>1, <3>2, <3>3, PlacesAre
  <2>4. \A i \in Place : (IF i = KSTACK THEN 1 ELSE FirstDir[i]) \in 0 .. LastTable + 4
    BY <1>1, <2>2, FirstDirIs, PlacesAre
  <2>5. \A v \in 1 .. LastTable + 4 : \E i \in Place : (IF i = KSTACK THEN 1 ELSE FirstDir[i]) = v
    <3>1. SUFFICES ASSUME NEW v \in 1 .. LastTable + 4
            PROVE  \E i \in Place : (IF i = KSTACK THEN 1 ELSE FirstDir[i]) = v
      OBVIOUS
    <3>2. v \in Int /\ LastTable \in Nat /\ UTOP \in Nat /\ UTOP > 0 /\ TOP = UTOP + LastTable + 1
      BY <1>1, PlacesAre DEF TOP
    <3>3. CASE v = 1
      BY <3>3, PlacesAre
    <3>4. CASE v = 2
      BY <3>4, PlacesAre, FirstDirIs
    <3>5. CASE v = 3
      <4>1. 0 \in Cells /\ 0 \in Place /\ 0 # KSTACK
        BY PlacesAre
      <4> QED
        BY <3>5, <4>1, FirstDirIs
    <3>6. CASE v >= 4
      <4>1. PICK i \in Int : i = UTOP + v - 4
        BY <3>2
      <4>2. i >= UTOP /\ i < TOP /\ i # 0 /\ i # TOP /\ 4 + i - UTOP = v
        BY <3>2, <3>6, <4>1, <1>1
      <4>3. i \in Cells /\ i \in Place /\ i # KSTACK
        BY <3>2, <4>2, PlacesAre DEF Cells
      <4>4. FirstDir[i] = v
        BY <4>2, <4>3, FirstDirIs
      <4> QED
        BY <4>3, <4>4
    <3> QED
      BY <3>2, <3>3, <3>4, <3>5, <3>6
  <2>6. "proc" \in HeldBy
    BY DEF HeldBy
  <2>7. \A x \in Spots : HeldAt[x] # 0 => /\ x = << 1, "proc", x[3] >> /\ x[3] \in Place
                                          /\ HeldAt[x] = IF x[3] = KSTACK THEN 1 ELSE FirstDir[x[3]]
    BY <2>1, SpotIs
  <2>8. \A x, y \in Spots : HeldAt[x] # 0 /\ HeldAt[x] = HeldAt[y] => x = y
    BY <2>3, <2>7
  <2>9. \A x \in Spots : HeldAt[x] # 0 => freelist[HeldAt[x]] = 0 /\ HeldAt[x] \notin lost
    <3>1. SUFFICES ASSUME NEW x \in Spots, HeldAt[x] # 0
            PROVE freelist[HeldAt[x]] = 0 /\ HeldAt[x] \notin lost
      OBVIOUS
    <3>2. HeldAt[x] \in 0 .. LastTable + 4
      BY <2>4, <2>7, <3>1
    <3>3. HeldAt[x] \in PageNo /\ HeldAt[x] <= LastTable + 4
      BY <1>1, <3>1, <3>2, FirstTable DEF PageNo
    <3> QED
      BY <3>3
  <2>10. \A v \in PageNo : freelist[v] \in {0, 1}
                           /\ (freelist[v] = 0 /\ v \notin lost => \E x \in Spots : HeldAt[x] = v)
    <3>1. SUFFICES ASSUME NEW v \in PageNo
            PROVE freelist[v] \in {0, 1} /\ (freelist[v] = 0 => \E x \in Spots : HeldAt[x] = v)
      OBVIOUS
    <3>2. freelist[v] \in {0, 1} /\ (freelist[v] = 0 => v \in 1 .. LastTable + 4)
      BY <1>1 DEF PageNo
    <3>3. ASSUME freelist[v] = 0 PROVE \E x \in Spots : HeldAt[x] = v
      <4>1. PICK i \in Place : (IF i = KSTACK THEN 1 ELSE FirstDir[i]) = v
        BY <2>5, <3>2, <3>3
      <4>2. << 1, "proc", i >> \in Spots /\ HeldAt[<< 1, "proc", i >>] = v
        BY <1>1, <2>1, <2>6, <4>1, SpotIs
      <4> QED
        BY <4>2
    <3> QED
      BY <3>2, <3>3
  <2> QED
    BY <2>8, <2>9, <2>10 DEF Once
<1> QED
  BY <1>2, <1>3, <1>4, <1>5 DEF PgInv

LEMMA GrowuvmSane ==
  ASSUME PgInv, NEW p \in Slots, growuvm(p)
  PROVE  PgInv'
BY GrowTakes, GrowFailsSane

LEMMA KfreesSane ==
  ASSUME PgInv, NEW p \in Slots, kfrees(p)
  PROVE  PgInv'
BY KfreesMore, KfreesLast, KfreesCopy

LEMMA PgStep == PgInv /\ [PgNext]_pgvars => PgInv'
<1> SUFFICES ASSUME PgInv, [PgNext]_pgvars PROVE PgInv'
  OBVIOUS
<1>1. CASE PgNext
  <2>1. PICK p \in Slots :
          \/ allocproc(p) \/ allocKstack(p) \/ setupkvm(p) \/ setupkvmFails(p)
          \/ copyuvm(p) \/ forkEnd(p) \/ growuvm(p) \/ growEnd(p)
          \/ (\E n \in Grows : sbrkUp(p, n) \/ sbrkDown(p, n))
          \/ (\E n \in Images : exec(p, n))
          \/ execAlloc(p) \/ execBad(p) \/ execCommit(p)
          \/ exit(p) \/ wait(p) \/ kfrees(p)
    BY <1>1 DEF PgNext
  <2> QED
    BY <2>1, AllocprocSane, AllocKstackSane, SetupkvmSane, SetupkvmFailsSane, CopyuvmSane,
       ForkEndSane, GrowuvmSane, GrowEndSane, SbrkUpSane, SbrkDownSane, ExecSane, ExecAllocSane,
       ExecBadSane, ExecCommitSane, ExitSane, WaitSane, KfreesSane
<1>2. CASE UNCHANGED pgvars
  <2>1. UNCHANGED << freelist, pstate, parent, kstack, pgdir, sz, kpc, np, dir, goal, at, todo,
                     lost, panicked >>
    BY <1>2 DEF pgvars, procvars
  <2>2. PgTypes'
    BY <2>1 DEF PgInv, PgTypes
  <2>3. \A p \in Slots : Sane(p)'
    <3>1. SUFFICES ASSUME NEW p \in Slots PROVE Sane(p)'
      OBVIOUS
    <3>2. Sane(p)
      BY DEF PgInv
    <3>3. Emptied(p)' /\ ChildRight(p)'
      BY <2>1, <3>2 DEF Sane, Emptied, ChildRight
    <3>4. Sized(p)' /\ Built(p)'
      BY <2>1, <3>2 DEF Sane, Sized, Built, Image
    <3> QED
      BY <3>3, <3>4 DEF Sane
  <2>4. Distinct'
    BY <2>1, DistinctKept DEF PgInv
  <2>5. Once(HeldAt, freelist, lost)'
    BY <2>1, OnceSame
  <2> QED
    BY <2>2, <2>3, <2>4, <2>5 DEF PgInv
<1> QED
  BY <1>1, <1>2

\* Counting: two sets without a common element, and the values of a function
\* that has none twice.
LEMMA ApartCount ==
  ASSUME NEW A, NEW B, IsFiniteSet(A), IsFiniteSet(B), A \cap B = {}
  PROVE  IsFiniteSet(A \cup B) /\ Cardinality(A \cup B) = Cardinality(A) + Cardinality(B)
<1>1. Cardinality(A) \in Nat /\ Cardinality(B) \in Nat
  BY FS_CardinalityType
<1>2. Cardinality(A \cap B) = 0
  BY FS_EmptySet
<1>3. /\ IsFiniteSet(A \cup B)
      /\ Cardinality(A \cup B) = Cardinality(A) + Cardinality(B) - Cardinality(A \cap B)
  BY FS_Union
<1> QED
  BY <1>1, <1>2, <1>3

LEMMA OneEach ==
  ASSUME NEW S, NEW T, IsFiniteSet(T), NEW f \in [S -> T],
         \A x, y \in S : f[x] = f[y] => x = y, \A v \in T : \E x \in S : f[x] = v
  PROVE  Cardinality(S) = Cardinality(T)
<1>1. DOMAIN f = S
  OBVIOUS
<1>2. IsInjective(f)
  BY <1>1 DEF IsInjective
<1>3. f \in Injection(S, T)
  BY <1>2 DEF Injection
<1>4. f \in Surjection(S, T)
  BY DEF Surjection
<1>5. Cardinality(S) = Cardinality(T) <=> f \in Surjection(S, T)
  BY <1>3, FS_Injection, Zenon
<1> QED
  BY <1>4, <1>5

LEMMA PagesSoundHolds ==
  ASSUME PgInv
  PROVE  PagesSound
<1>1. PgTypes /\ Once(HeldAt, freelist, lost)
  BY DEF PgInv
<1>2. PagesConserved
  <2>1. PICK V : V = {HeldAt[x] : x \in Occupied}
    OBVIOUS
  <2>2. /\ Occupied = {x \in Spots : HeldAt[x] # 0}
        /\ V = {Held(x[1], x[2], x[3]) : x \in Occupied}
    BY <2>1 DEF Occupied, HeldAt
  <2>3. V \subseteq PageNo
    <3>1. \A x \in Spots : HeldAt[x] \in PageOr0
      BY <1>1, HeldIs DEF Holds
    <3>2. \A v \in PageOr0 : v # 0 => v \in PageNo
      BY FirstTable DEF PageOr0, PageNo
    <3> QED
      BY <2>1, <2>2, <3>1, <3>2
  <2>4. lost \subseteq PageNo /\ freelist \in [PageNo -> Nat]
    BY <1>1 DEF PgTypes
  <2>5. \A v \in PageNo : v \in Free <=> freelist[v] = 1
    BY <1>1, <2>4 DEF Free, Once
  <2>6. Free \subseteq PageNo /\ Free \cap V = {} /\ Free \cap lost = {} /\ V \cap lost = {}
    BY <1>1, <2>1, <2>2, <2>3, <2>4, <2>5 DEF Free, Once
  <2>7. Free \cup V \cup lost = PageNo
    <3>1. \A v \in PageNo : v \notin Free /\ v \notin lost => \E x \in Spots : HeldAt[x] = v
      BY <1>1, <2>5 DEF Once
    <3>2. \A v \in PageNo : v # 0
      BY DEF PageNo
    <3>3. \A v \in PageNo : v \notin Free /\ v \notin lost => v \in V
      BY <2>1, <2>2, <3>1, <3>2
    <3> QED
      BY <2>3, <2>4, <2>6, <3>3
  <2>8. Cardinality(Occupied) = Cardinality(V) /\ IsFiniteSet(V)
    <3>1. PICK f : f = [x \in Occupied |-> HeldAt[x]]
      OBVIOUS
    <3>2. f \in [Occupied -> V] /\ \A v \in V : \E x \in Occupied : f[x] = v
      BY <2>1, <3>1
    <3>3. \A x, y \in Occupied : f[x] = f[y] => x = y
      BY <1>1, <2>2, <3>1 DEF Once
    <3>4. IsFiniteSet(PageNo)
      BY FirstTable, FS_Interval DEF PageNo
    <3>5. IsFiniteSet(V)
      BY <2>3, <3>4, FS_Subset
    <3> QED
      BY <3>2, <3>3, <3>5, OneEach
  <2>9. IsFiniteSet(PageNo) /\ Cardinality(PageNo) = NPAGES
    BY FirstTable, FS_Interval DEF PageNo
  <2>10. IsFiniteSet(Free) /\ IsFiniteSet(lost)
    BY <2>4, <2>6, <2>9, FS_Subset
  <2>11. /\ IsFiniteSet(Free \cup V)
         /\ Cardinality(Free \cup V) = Cardinality(Free) + Cardinality(V)
    BY <2>6, <2>8, <2>10, ApartCount
  <2>12. NPAGES = Cardinality(Free) + Cardinality(V) + Cardinality(lost)
    <3>1. (Free \cup V) \cap lost = {}
      BY <2>6
    <3>2. Cardinality((Free \cup V) \cup lost) = Cardinality(Free \cup V) + Cardinality(lost)
      BY <2>10, <2>11, <3>1, ApartCount
    <3> QED
      BY <2>7, <2>9, <2>11, <3>2
  <2>13. \A v \in Free : freelist[v] = 1
    BY <2>5, <2>6
  <2> QED
    BY <2>2, <2>7, <2>8, <2>12, <2>13 DEF PagesConserved
<1>3. MappedIsSize
  <2>1. SUFFICES ASSUME NEW p \in Slots, pstate[p] = "RUN", kpc[p] = "user"
          PROVE  LET m == {a \in 0 .. UTOP - 1 : pgdir[p][a] # 0}
                 IN m = {} \/ m = 0 .. PGROUNDUP(sz[p]) - 1
    BY <1>1 DEF MappedIsSize, PgTypes
  <2>2. Sane(p) /\ sz[p] \in Nat
    BY <1>1 DEF PgInv, PgTypes
  <2>3. sz[p] <= USERTOP /\ (Upto(pgdir[p], PGROUNDUP(sz[p])) \/ Upto(pgdir[p], 0))
    BY <2>1, <2>2 DEF Sane, Sized
  <2>4. PICK n \in Nat : n = PGROUNDUP(sz[p]) /\ n <= UTOP
    BY <2>2, <2>3, RoundedUp
  <2>5. UTOP \in Nat
    BY FirstTable
  <2>6. CASE Upto(pgdir[p], n)
    BY <2>4, <2>5, <2>6 DEF Upto
  <2>7. CASE Upto(pgdir[p], 0)
    BY <2>5, <2>7 DEF Upto
  <2> QED
    BY <2>3, <2>4, <2>6, <2>7
<1> QED
  BY <1>2, <1>3 DEF PagesSound

\* However forks, execs, sbrks and exits run out of memory in the middle of
\* each other, every page is free once, or in one place, or was given up by
\* setupkvm, and the pages of a process are those of its size.
THEOREM PagesAreSound == PgSpec => []PagesSound
<1>1. PgSpec => []PgInv
  BY PgInitHolds, PgStep, PTL DEF PgSpec
<1>2. PgInv => PagesSound
  BY PagesSoundHolds
<1> QED
  BY <1>1, <1>2, PTL
====
