-------------------------- MODULE GreenQueueProofs --------------------------
(* The lists that enqueue and dequeue of green.c link by one field are     *)
(* FIFO queues, for any number of lists and threads: disjoint, without     *)
(* cycles, and no statement dereferences NULL.                             *)
EXTENDS GreenQueue, QueueLemmas, FiniteSetTheorems

-----------------------------------------------------------------------------
(* The sequences q that heads h and links n stand for.  A thread in none   *)
(* of them has no link, but for the one that dequeue has taken out, which  *)
(* still has the link rest.                                                *)

At(s, i) == IF i \in 1 .. Len(s) THEN s[i] ELSE NULL

Queued(q, t) == \E l \in Lists : \E i \in 1 .. Len(q[l]) : q[l][i] = t

Apart(q) ==
  \A k, l \in Lists : \A i \in 1 .. Len(q[k]), j \in 1 .. Len(q[l]) :
    q[k][i] = q[l][j] => k = l /\ i = j

Linked(q, h, n, taken, rest) ==
  /\ q \in [Lists -> Seq(Threads)]
  /\ Apart(q)
  /\ \A l \in Lists : h[l] = At(q[l], 1)
  /\ \A l \in Lists : \A i \in 1 .. Len(q[l]) : n[q[l][i]] = At(q[l], i + 1)
  /\ \A t \in Threads : ~Queued(q, t) => n[t] = IF t = taken THEN rest ELSE NULL

(* The queues while an operation is under way. *)
Represents(q) ==
  /\ Linked(q, head, nxt, IF pc = "clear" THEN thread ELSE NULL, head[list])
  /\ pc \in {"enqueue", "walk", "clear"} => ~Queued(q, thread)
  /\ pc = "walk" => \E i \in 1 .. Len(q[list]) : susp = q[list][i]

(* While dequeue is between its load of *list and its store to it, *list   *)
(* is the thread it has loaded.                                            *)
Typed == GQTypeOK /\ (pc = "advance" => head[list] = thread)

QueueInv == Typed /\ \E q : Represents(q)

-----------------------------------------------------------------------------
(* A queue has threads for elements, and is empty when its head is NULL.   *)
LEMMA Elements ==
  ASSUME NEW q, NEW h, NEW n, NEW taken, NEW rest, Linked(q, h, n, taken, rest),
         NEW l \in Lists
  PROVE  /\ q[l] \in Seq(Threads) /\ Len(q[l]) \in Nat
         /\ \A i \in 1 .. Len(q[l]) : q[l][i] \in Threads /\ q[l][i] # NULL
         /\ q[l] = <<>> <=> h[l] = NULL
         /\ q[l] # <<>> => 1 \in 1 .. Len(q[l]) /\ h[l] = q[l][1]
<1>1. q[l] \in Seq(Threads)
  BY DEF Linked
<1>2. \A i \in 1 .. Len(q[l]) : q[l][i] \in Threads /\ q[l][i] # NULL
  BY <1>1, ThreadsAssumption
<1>3. h[l] = At(q[l], 1)
  BY DEF Linked
<1>4. Len(q[l]) \in Nat /\ (q[l] = <<>> <=> Len(q[l]) = 0)
  BY <1>1
<1>5. 1 \in 1 .. Len(q[l]) <=> Len(q[l]) # 0
  BY <1>4
<1> QED
  BY <1>1, <1>2, <1>3, <1>4, <1>5 DEF At

(* Node and Chain with the heads and the links as parameters. *)
NodesFrom(h, n, l) ==
  LET node[i \in 0 .. Cardinality(Threads)] ==
        IF i = 0 THEN h[l]
        ELSE IF node[i - 1] = NULL THEN NULL ELSE n[node[i - 1]]
  IN node

ChainFrom(h, n, l) ==
  LET length == Cardinality({i \in DOMAIN NodesFrom(h, n, l) : NodesFrom(h, n, l)[i] # NULL})
  IN [i \in 1 .. length |-> NodesFrom(h, n, l)[i - 1]]

(* A queue holds no more elements than there are threads. *)
LEMMA ShortQueue ==
  ASSUME NEW q \in [Lists -> Seq(Threads)], Apart(q), NEW l \in Lists
  PROVE  /\ Cardinality(Threads) \in Nat
         /\ Len(q[l]) \in 0 .. Cardinality(Threads)
<1>1. q[l] \in Seq(Threads) /\ Len(q[l]) \in Nat
  OBVIOUS
<1>2. q[l] \in [1 .. Len(q[l]) -> Threads]
  BY <1>1
<1>3. IsInjective(q[l])
  BY <1>2 DEF IsInjective, Apart
<1>4. q[l] \in Injection(1 .. Len(q[l]), Threads)
  BY <1>2, <1>3 DEF Injection
<1>5. Cardinality(1 .. Len(q[l])) <= Cardinality(Threads) /\ Cardinality(Threads) \in Nat
  BY <1>4, FS_Injection, FS_CardinalityType, ThreadsAssumption
<1>6. Cardinality(1 .. Len(q[l])) = Len(q[l])
  BY <1>1, FS_Interval
<1> QED
  BY <1>1, <1>5, <1>6

(* Following the links from a head, for as many steps as there are threads, *)
(* meets the elements of the queue in order, and then NULL.                *)
LEMMA NodesAreElements ==
  ASSUME NEW q, NEW h, NEW n, NEW taken, NEW rest, Linked(q, h, n, taken, rest),
         NEW l \in Lists
  PROVE  /\ DOMAIN NodesFrom(h, n, l) = 0 .. Cardinality(Threads)
         /\ \A i \in 0 .. Cardinality(Threads) : NodesFrom(h, n, l)[i] = At(q[l], i + 1)
<1> DEFINE N == Cardinality(Threads)
           s == q[l]
           follow(f) == [i \in 0 .. N |->
                           IF i = 0 THEN h[l] ELSE IF f[i - 1] = NULL THEN NULL ELSE n[f[i - 1]]]
           node == CHOOSE f : f = follow(f)
           g == [i \in 0 .. N |-> At(s, i + 1)]
<1>0. \A i \in 1 .. Len(s) : s[i] # NULL
  BY Elements
<1>1. N \in Nat /\ Len(s) \in Nat /\ Len(s) <= N
  BY ShortQueue DEF Linked
<1>2. /\ h[l] = At(s, 1)
      /\ \A i \in 1 .. Len(s) : n[s[i]] = At(s, i + 1) /\ s[i] # NULL
  BY <1>0 DEF Linked
<1>3. NodesFrom(h, n, l) = node
  BY DEF NodesFrom
<1> HIDE DEF N, s
<1>4. ASSUME NEW i \in 0 .. N, i # 0
      PROVE  At(s, i + 1) = IF At(s, i) = NULL THEN NULL ELSE n[At(s, i)]
  <2>1. CASE i \in 1 .. Len(s)
    BY <1>2, <2>1 DEF At
  <2>2. CASE i \notin 1 .. Len(s)
    <3>1. i + 1 \notin 1 .. Len(s)
      BY <1>1, <1>4, <2>2
    <3> QED
      BY <2>2, <3>1 DEF At
  <2> QED
    BY <2>1, <2>2
<1>5. g = follow(g)
  <2>1. ASSUME NEW i \in 0 .. N PROVE g[i] = follow(g)[i]
    <3>1. CASE i = 0
      BY <1>2, <3>1
    <3>2. CASE i # 0
      <4>1. i - 1 \in 0 .. N /\ (i - 1) + 1 = i
        BY <1>1, <3>2
      <4>2. g[i - 1] = At(s, i) /\ g[i] = At(s, i + 1)
        BY <4>1
      <4>3. follow(g)[i] = IF g[i - 1] = NULL THEN NULL ELSE n[g[i - 1]]
        BY <3>2
      <4> QED
        BY <1>4, <3>2, <4>2, <4>3
    <3> QED
      BY <3>1, <3>2
  <2> QED
    BY <2>1
<1>6. node = follow(node)
  <2>1. \E f : f = follow(f)
    <3> HIDE DEF g, follow
    <3> QED
      BY <1>5
  <2> QED
    BY <2>1
<1> HIDE DEF node, g
<1>7. ASSUME NEW i \in 0 .. N PROVE node[i] = At(s, i + 1)
  <2> DEFINE T == {k \in 0 .. N : node[k] # At(s, k + 1)}
  <2> SUFFICES ASSUME T # {} PROVE FALSE
    OBVIOUS
  <2>1. PICK k \in T : \A j \in T : k <= j
    <3>1. T \in SUBSET Nat
      BY <1>1
    <3> HIDE DEF T
    <3> QED
      BY <3>1, LeastNumber
  <2>2. k \in 0 .. N /\ node[k] # At(s, k + 1)
    BY <2>1
  <2>3. k # 0
    BY <1>2, <1>6, <2>2
  <2>4. k - 1 \in 0 .. N /\ (k - 1) + 1 = k
    BY <1>1, <2>2, <2>3
  <2>5. node[k - 1] = At(s, k)
    <3>1. k - 1 \notin T
      BY <1>1, <2>1, <2>4
    <3> QED
      BY <2>4, <3>1
  <2>6. node[k] = IF node[k - 1] = NULL THEN NULL ELSE n[node[k - 1]]
    BY <1>6, <2>2, <2>3
  <2> QED
    BY <1>4, <2>2, <2>3, <2>5, <2>6
<1>8. DOMAIN node = 0 .. N
  <2>1. DOMAIN follow(node) = 0 .. N
    OBVIOUS
  <2> QED
    BY <1>6, <2>1
<1> QED
  BY <1>3, <1>7, <1>8 DEF N, s

(* So the chain from a head is the queue. *)
LEMMA ChainIsQueue ==
  ASSUME NEW q, NEW h, NEW n, NEW taken, NEW rest, Linked(q, h, n, taken, rest),
         NEW l \in Lists
  PROVE  ChainFrom(h, n, l) = q[l]
<1> DEFINE s == q[l]
           node == NodesFrom(h, n, l)
           N == Cardinality(Threads)
<1>1. /\ DOMAIN node = 0 .. N
      /\ \A i \in 0 .. N : node[i] = At(s, i + 1)
  BY NodesAreElements
<1>2. /\ N \in Nat /\ Len(s) \in Nat /\ Len(s) <= N /\ s \in Seq(Threads)
      /\ \A i \in 1 .. Len(s) : s[i] # NULL
  <2>1. s \in Seq(Threads) /\ \A i \in 1 .. Len(s) : s[i] # NULL
    BY Elements
  <2>2. N \in Nat /\ Len(s) \in 0 .. N
    BY ShortQueue DEF Linked
  <2> QED
    BY <2>1, <2>2
<1>3. ChainFrom(h, n, l) = [i \in 1 .. Cardinality({j \in DOMAIN node : node[j] # NULL}) |-> node[i - 1]]
  BY DEF ChainFrom
<1> HIDE DEF s, node, N
<1>4. {j \in DOMAIN node : node[j] # NULL} = 0 .. (Len(s) - 1)
  <2>1. ASSUME NEW j \in 0 .. N PROVE node[j] # NULL <=> j + 1 \in 1 .. Len(s)
    BY <1>1, <1>2, <2>1 DEF At
  <2>2. ASSUME NEW j \in 0 .. N PROVE j + 1 \in 1 .. Len(s) <=> j \in 0 .. (Len(s) - 1)
    BY <1>2
  <2>3. \A j \in 0 .. (Len(s) - 1) : j \in 0 .. N
    BY <1>2
  <2> QED
    BY <1>1, <2>1, <2>2, <2>3
<1>5. Cardinality(0 .. (Len(s) - 1)) = Len(s)
  <2> DEFINE m == Len(s) - 1
  <2>1. m \in Int /\ Len(s) = m - 0 + 1 /\ ~(0 > m /\ Len(s) # 0)
    BY <1>2
  <2> HIDE DEF m
  <2>2. Cardinality(0 .. m) = IF 0 > m THEN 0 ELSE m - 0 + 1
    BY <2>1, FS_Interval
  <2> QED
    BY <2>1, <2>2 DEF m
<1>6. ASSUME NEW i \in 1 .. Len(s) PROVE node[i - 1] = s[i]
  <2>1. i - 1 \in 0 .. N /\ (i - 1) + 1 = i
    BY <1>2
  <2> QED
    BY <1>1, <2>1 DEF At
<1>7. s = [i \in 1 .. Len(s) |-> node[i - 1]]
  BY <1>2, <1>6
<1> QED
  BY <1>3, <1>4, <1>5, <1>7 DEF s

-----------------------------------------------------------------------------
(* What the stores do to the queues. *)

AppendTo(q, l, t) == [q EXCEPT ![l] = Append(@, t)]

RemoveFrom(q, l) == [q EXCEPT ![l] = Tail(@)]

(* Heads h2 and links n2 are h and n but for t as the head of an empty list *)
(* l or the next of its last thread.                                       *)
Stored(q, l, t, h, n, h2, n2) ==
  /\ \A k \in Lists : h2[k] = IF k = l /\ q[l] = <<>> THEN t ELSE h[k]
  /\ \A u \in Threads : n2[u] = IF q[l] # <<>> /\ u = q[l][Len(q[l])] THEN t ELSE n[u]

(* Heads h2 are h but for l, whose head is the next of what it was. *)
Advanced(l, h, n, h2) == \A k \in Lists : h2[k] = IF k = l THEN n[h[l]] ELSE h[k]

(* The store of an empty list's head, or of its last thread's next, appends *)
(* a thread that is in no queue.                                           *)
LEMMA Appended ==
  ASSUME NEW q, NEW h, NEW n, NEW rest, Linked(q, h, n, NULL, rest),
         NEW l \in Lists, NEW t \in Threads, ~Queued(q, t), NEW h2, NEW n2, NEW rest2,
         Stored(q, l, t, h, n, h2, n2)
  PROVE  Linked(AppendTo(q, l, t), h2, n2, NULL, rest2)
<1>1. /\ \A k \in Lists : h2[k] = IF k = l /\ q[l] = <<>> THEN t ELSE h[k]
      /\ \A u \in Threads : n2[u] = IF q[l] # <<>> /\ u = q[l][Len(q[l])] THEN t ELSE n[u]
  BY DEF Stored
<1> DEFINE s == q[l]
           r == Append(s, t)
           p == [q EXCEPT ![l] = r]
<1>2. /\ s \in Seq(Threads) /\ Len(s) \in Nat
      /\ \A i \in 1 .. Len(s) : s[i] \in Threads
      /\ s = <<>> <=> Len(s) = 0
  BY Elements
<1>3. /\ r \in Seq(Threads) /\ Len(r) = Len(s) + 1 /\ r[Len(s) + 1] = t
      /\ \A i \in 1 .. Len(s) : r[i] = s[i]
  BY <1>2
<1>4. p \in [Lists -> Seq(Threads)] /\ p[l] = r /\ \A k \in Lists : k # l => p[k] = q[k]
  BY <1>3 DEF Linked
<1>5. \A k \in Lists : \A i \in 1 .. Len(q[k]) : q[k][i] # t
  BY DEF Queued
<1>6. \A k \in Lists : Len(q[k]) \in Nat /\ \A i \in 1 .. Len(q[k]) : q[k][i] \in Threads
  BY Elements
<1>7. /\ Apart(q)
      /\ \A k \in Lists : h[k] = At(q[k], 1)
      /\ \A k \in Lists : \A i \in 1 .. Len(q[k]) : n[q[k][i]] = At(q[k], i + 1)
      /\ \A u \in Threads : ~Queued(q, u) => n[u] = NULL
  BY ThreadsAssumption DEF Linked
<1> HIDE DEF r, p
<1>8. ASSUME NEW k \in Lists, NEW i \in 1 .. Len(p[k])
      PROVE  \/ i \in 1 .. Len(q[k]) /\ p[k][i] = q[k][i]
             \/ k = l /\ i = Len(s) + 1 /\ p[k][i] = t
  <2>1. CASE k = l
    BY <1>2, <1>3, <1>4, <2>1
  <2>2. CASE k # l
    BY <1>4, <2>2
  <2> QED
    BY <2>1, <2>2
<1>9. Apart(p)
  <2> SUFFICES ASSUME NEW j \in Lists, NEW k \in Lists, NEW i \in 1 .. Len(p[j]),
                      NEW m \in 1 .. Len(p[k]), p[j][i] = p[k][m]
               PROVE  j = k /\ i = m
    BY DEF Apart
  <2>1. /\ \/ i \in 1 .. Len(q[j]) /\ p[j][i] = q[j][i]
           \/ j = l /\ i = Len(s) + 1 /\ p[j][i] = t
        /\ \/ m \in 1 .. Len(q[k]) /\ p[k][m] = q[k][m]
           \/ k = l /\ m = Len(s) + 1 /\ p[k][m] = t
    BY <1>8
  <2>2. CASE i \in 1 .. Len(q[j]) /\ m \in 1 .. Len(q[k]) /\ q[j][i] = q[k][m]
    BY <1>7, <2>2 DEF Apart
  <2> QED
    BY <1>5, <2>1, <2>2
<1>10. ASSUME NEW k \in Lists PROVE h2[k] = At(p[k], 1)
  <2>1. CASE k # l
    BY <1>1, <1>4, <1>7, <2>1
  <2>2. CASE k = l /\ s = <<>>
    <3>1. 1 \in 1 .. Len(r) /\ r[1] = t
      BY <1>2, <1>3, <2>2
    <3> QED
      BY <1>1, <1>4, <2>2, <3>1 DEF At
  <2>3. CASE k = l /\ s # <<>>
    <3>1. 1 \in 1 .. Len(r) /\ 1 \in 1 .. Len(s) /\ r[1] = s[1]
      BY <1>2, <1>3, <2>3
    <3> QED
      BY <1>1, <1>4, <1>7, <2>3, <3>1 DEF At
  <2> QED
    BY <2>1, <2>2, <2>3
<1>11. ASSUME NEW k \in Lists, NEW i \in 1 .. Len(p[k])
       PROVE  n2[p[k][i]] = At(p[k], i + 1)
  <2>1. CASE k = l /\ i = Len(s) + 1
    <3>1. n[t] = NULL
      BY <1>7
    <3>2. s # <<>> => Len(s) \in 1 .. Len(s)
      BY <1>2
    <3>3. n2[t] = n[t]
      BY <1>1, <1>5, <3>2
    <3>4. i + 1 \notin 1 .. Len(r)
      BY <1>2, <1>3, <2>1
    <3> QED
      BY <1>3, <1>4, <2>1, <3>1, <3>3, <3>4 DEF At
  <2>2. CASE k = l /\ i = Len(s) /\ i \in 1 .. Len(s)
    <3>1. s # <<>> /\ p[k][i] = s[Len(s)] /\ s[Len(s)] \in Threads
      BY <1>2, <1>3, <1>4, <2>2
    <3>2. n2[p[k][i]] = t
      BY <1>1, <3>1
    <3>3. i + 1 \in 1 .. Len(r) /\ r[i + 1] = t
      BY <1>2, <1>3, <2>2
    <3> QED
      BY <1>4, <2>2, <3>2, <3>3 DEF At
  <2>3. CASE i \in 1 .. Len(q[k]) /\ ~(k = l /\ i = Len(s))
    <3>1. p[k][i] = q[k][i] /\ q[k][i] \in Threads
      BY <1>3, <1>4, <1>6, <2>3
    <3>2. s # <<>> => Len(s) \in 1 .. Len(s)
      BY <1>2
    <3>3. ~(s # <<>> /\ q[k][i] = s[Len(s)])
      BY <1>7, <2>3, <3>2 DEF Apart
    <3>4. n2[p[k][i]] = At(q[k], i + 1)
      BY <1>1, <1>7, <2>3, <3>1, <3>3
    <3>5. At(q[k], i + 1) = At(p[k], i + 1)
      <4>1. CASE k # l
        BY <1>4, <4>1
      <4>2. CASE k = l
        <5>1. i + 1 \in 1 .. Len(s) /\ i + 1 \in 1 .. Len(r)
          BY <1>2, <1>3, <2>3, <4>2
        <5> QED
          BY <1>3, <1>4, <4>2, <5>1 DEF At
      <4> QED
        BY <4>1, <4>2
    <3> QED
      BY <3>4, <3>5
  <2> QED
    BY <1>2, <1>8, <2>1, <2>2, <2>3
<1>12. ASSUME NEW u \in Threads, ~Queued(p, u) PROVE n2[u] = NULL
  <2>1. \A k \in Lists : \A i \in 1 .. Len(q[k]) : i \in 1 .. Len(p[k]) /\ p[k][i] = q[k][i]
    <3> SUFFICES ASSUME NEW k \in Lists, NEW i \in 1 .. Len(q[k])
                 PROVE  i \in 1 .. Len(p[k]) /\ p[k][i] = q[k][i]
      OBVIOUS
    <3>1. CASE k = l
      BY <1>2, <1>3, <1>4, <3>1
    <3>2. CASE k # l
      BY <1>4, <3>2
    <3> QED
      BY <3>1, <3>2
  <2>2. ~Queued(q, u)
    BY <1>12, <2>1 DEF Queued
  <2>3. s # <<>> => Len(s) \in 1 .. Len(s)
    BY <1>2
  <2>4. ~(s # <<>> /\ u = s[Len(s)])
    BY <2>2, <2>3 DEF Queued
  <2> QED
    BY <1>1, <1>7, <2>2, <2>4
<1>13. \A u \in Threads : u # NULL
  BY ThreadsAssumption
<1> QED
  BY <1>4, <1>9, <1>10, <1>11, <1>12, <1>13 DEF Linked, AppendTo, p, r

(* The store of a list's head takes the first thread out of the queue, and *)
(* that thread keeps its link for now.                                     *)
LEMMA Removed ==
  ASSUME NEW q, NEW h, NEW n, NEW rest, Linked(q, h, n, NULL, rest),
         NEW l \in Lists, q[l] # <<>>, NEW h2, Advanced(l, h, n, h2)
  PROVE  /\ Linked(RemoveFrom(q, l), h2, n, h[l], h2[l])
         /\ ~Queued(RemoveFrom(q, l), h[l])
         /\ h[l] = Head(q[l])
<1>1. \A k \in Lists : h2[k] = IF k = l THEN n[h[l]] ELSE h[k]
  BY DEF Advanced
<1> DEFINE s == q[l]
           r == Tail(s)
           p == [q EXCEPT ![l] = r]
<1>2. /\ s \in Seq(Threads) /\ Len(s) \in Nat /\ Len(s) > 0
      /\ \A i \in 1 .. Len(s) : s[i] \in Threads
      /\ 1 \in 1 .. Len(s) /\ h[l] = s[1]
  BY Elements
<1>3. /\ r \in Seq(Threads) /\ Len(r) = Len(s) - 1
      /\ \A i \in 1 .. Len(r) : r[i] = s[i + 1]
      /\ s[1] = Head(s)
  BY <1>2
<1>4. p \in [Lists -> Seq(Threads)] /\ p[l] = r /\ \A k \in Lists : k # l => p[k] = q[k]
  BY <1>3 DEF Linked
<1>5. /\ Apart(q)
      /\ \A k \in Lists : h[k] = At(q[k], 1)
      /\ \A k \in Lists : \A i \in 1 .. Len(q[k]) : n[q[k][i]] = At(q[k], i + 1)
      /\ \A u \in Threads : ~Queued(q, u) => n[u] = NULL
  BY ThreadsAssumption DEF Linked
<1> DEFINE Was(k, i) == IF k = l THEN i + 1 ELSE i
<1> HIDE DEF r, p
<1>6. ASSUME NEW k \in Lists, NEW i \in 1 .. Len(p[k])
      PROVE  Was(k, i) \in 1 .. Len(q[k]) /\ p[k][i] = q[k][Was(k, i)] /\ ~(k = l /\ Was(k, i) = 1)
  <2>1. CASE k = l
    BY <1>2, <1>3, <1>4, <2>1
  <2>2. CASE k # l
    BY <1>4, <2>2
  <2> QED
    BY <2>1, <2>2
<1>7. ASSUME NEW k \in Lists, NEW i \in 1 .. Len(q[k]), ~(k = l /\ i = 1)
      PROVE  \E j \in 1 .. Len(p[k]) : p[k][j] = q[k][i]
  <2>1. CASE k = l
    <3>1. i - 1 \in 1 .. Len(r) /\ (i - 1) + 1 = i
      BY <1>2, <1>3, <1>7, <2>1
    <3> QED
      BY <1>3, <1>4, <2>1, <3>1
  <2>2. CASE k # l
    BY <1>4, <2>2
  <2> QED
    BY <2>1, <2>2
<1>8. Apart(p)
  <2> SUFFICES ASSUME NEW j \in Lists, NEW k \in Lists, NEW i \in 1 .. Len(p[j]),
                      NEW m \in 1 .. Len(p[k]), p[j][i] = p[k][m]
               PROVE  j = k /\ i = m
    BY DEF Apart
  <2>1. j = k /\ Was(j, i) = Was(k, m)
    <3>1. /\ Was(j, i) \in 1 .. Len(q[j]) /\ p[j][i] = q[j][Was(j, i)]
          /\ Was(k, m) \in 1 .. Len(q[k]) /\ p[k][m] = q[k][Was(k, m)]
      BY <1>6
    <3>2. p[j][i] = p[k][m]
      OBVIOUS
    <3> DEFINE a == Was(j, i)
               b == Was(k, m)
    <3>3. a \in 1 .. Len(q[j]) /\ b \in 1 .. Len(q[k]) /\ q[j][a] = q[k][b]
      BY <3>1, <3>2
    <3> HIDE DEF a, b
    <3>4. j = k /\ a = b
      BY <1>5, <3>3 DEF Apart
    <3> QED
      BY <3>4 DEF a, b
  <2>2. i \in Int /\ m \in Int
    OBVIOUS
  <2> QED
    BY <2>1, <2>2
<1>9. ASSUME NEW k \in Lists PROVE h2[k] = At(p[k], 1)
  <2>1. CASE k # l
    BY <1>1, <1>4, <1>5, <2>1
  <2>2. CASE k = l
    <3>1. h2[k] = At(s, 1 + 1)
      BY <1>1, <1>2, <1>5, <2>2
    <3>2. 1 + 1 \in 1 .. Len(s) <=> 1 \in 1 .. Len(r)
      BY <1>2, <1>3
    <3>3. 1 \in 1 .. Len(r) => r[1] = s[1 + 1]
      BY <1>3
    <3> QED
      BY <1>4, <2>2, <3>1, <3>2, <3>3 DEF At
  <2> QED
    BY <2>1, <2>2
<1>10. ASSUME NEW k \in Lists, NEW i \in 1 .. Len(p[k])
      PROVE  n[p[k][i]] = At(p[k], i + 1)
  <2>1. CASE k # l
    BY <1>4, <1>5, <2>1
  <2>2. CASE k = l
    <3>1. i + 1 \in 1 .. Len(s) /\ p[k][i] = s[i + 1]
      BY <1>2, <1>3, <1>4, <2>2
    <3>2. n[p[k][i]] = At(s, (i + 1) + 1)
      BY <1>5, <2>2, <3>1
    <3>3. (i + 1) + 1 \in 1 .. Len(s) <=> i + 1 \in 1 .. Len(r)
      BY <1>2, <1>3
    <3>4. i + 1 \in 1 .. Len(r) => r[i + 1] = s[(i + 1) + 1]
      BY <1>3
    <3> QED
      BY <1>4, <2>2, <3>2, <3>3, <3>4 DEF At
  <2> QED
    BY <2>1, <2>2
<1>11. ~Queued(p, h[l])
  <2> SUFFICES ASSUME NEW k \in Lists, NEW i \in 1 .. Len(p[k]), p[k][i] = s[1] PROVE FALSE
    BY <1>2 DEF Queued
  <2> DEFINE a == Was(k, i)
  <2>1. a \in 1 .. Len(q[k]) /\ q[k][a] = q[l][1] /\ 1 \in 1 .. Len(q[l]) /\ ~(k = l /\ a = 1)
    BY <1>2, <1>6
  <2> HIDE DEF a
  <2> QED
    BY <1>5, <2>1 DEF Apart
<1>12. ASSUME NEW u \in Threads, ~Queued(p, u) PROVE n[u] = IF u = h[l] THEN h2[l] ELSE NULL
  <2>1. CASE u = h[l]
    BY <1>1, <2>1
  <2>2. CASE u # h[l]
    <3>1. ~Queued(q, u)
      <4> SUFFICES ASSUME NEW k \in Lists, NEW i \in 1 .. Len(q[k]), q[k][i] = u PROVE FALSE
        BY DEF Queued
      <4>1. ~(k = l /\ i = 1)
        BY <1>2, <2>2
      <4>2. PICK j \in 1 .. Len(p[k]) : p[k][j] = u
        BY <1>7, <4>1
      <4> QED
        BY <1>12, <4>2 DEF Queued
    <3> QED
      BY <1>5, <2>2, <3>1
  <2> QED
    BY <2>1, <2>2
<1> QED
  BY <1>2, <1>3, <1>4, <1>8, <1>9, <1>10, <1>11, <1>12 DEF Linked, RemoveFrom, p, r

(* Then it loses its link. *)
LEMMA Cleared ==
  ASSUME NEW q, NEW h, NEW n \in [Threads -> Threads \cup {NULL}], NEW t \in Threads,
         NEW rest, NEW rest2, Linked(q, h, n, t, rest), ~Queued(q, t)
  PROVE  Linked(q, h, [n EXCEPT ![t] = NULL], NULL, rest2)
<1> DEFINE m == [n EXCEPT ![t] = NULL]
<1>1. \A u \in Threads : m[u] = IF u = t THEN NULL ELSE n[u]
  OBVIOUS
<1>2. \A l \in Lists : \A i \in 1 .. Len(q[l]) : q[l][i] \in Threads /\ q[l][i] # t
  BY Elements DEF Queued
<1> HIDE DEF m
<1>3. \A l \in Lists : \A i \in 1 .. Len(q[l]) : m[q[l][i]] = At(q[l], i + 1)
  BY <1>1, <1>2 DEF Linked
<1>4. \A u \in Threads : u # NULL
  BY ThreadsAssumption
<1>5. \A u \in Threads : ~Queued(q, u) => m[u] = NULL
  BY <1>1 DEF Linked
<1> QED
  BY <1>3, <1>4, <1>5 DEF Linked, m

-----------------------------------------------------------------------------
(* Each statement keeps the types. *)
LEMMA TypedStep == Typed /\ [GQNext]_gqVars => Typed'
<1> SUFFICES ASSUME Typed, [GQNext]_gqVars PROVE Typed'
  OBVIOUS
<1> DEFINE Links == Threads \cup {NULL}
<1>1. /\ list \in Lists /\ head[list] \in Links /\ thread \in Links /\ susp \in Links
      /\ \A t \in Threads : nxt[t] \in Links
  BY DEF Typed, GQTypeOK
<1>2. ASSUME NEW l \in Lists, NEW t \in Links, CallDequeue(l) \/ CallEnqueue(l, t)
      PROVE  Typed'
  BY <1>2 DEF CallDequeue, CallEnqueue, Typed, GQTypeOK
<1>3. CASE EnqueueFirst
  BY <1>1, <1>3 DEF EnqueueFirst, Typed, GQTypeOK
<1>4. CASE EnqueueWalk
  BY <1>1, <1>4 DEF EnqueueWalk, Typed, GQTypeOK
<1>5. CASE EnqueueLast
  BY <1>1, <1>5 DEF EnqueueLast, Typed, GQTypeOK
<1>6. CASE DequeueNone \/ DequeueLoad
  BY <1>1, <1>6 DEF DequeueNone, DequeueLoad, Typed, GQTypeOK
<1>7. CASE DequeueAdvance
  BY <1>1, <1>7 DEF DequeueAdvance, Typed, GQTypeOK
<1>8. CASE DequeueClear
  BY <1>1, <1>8 DEF DequeueClear, Typed, GQTypeOK
<1>9. CASE UNCHANGED gqVars
  BY <1>9 DEF gqVars, Typed, GQTypeOK
<1> QED
  BY <1>2, <1>3, <1>4, <1>5, <1>6, <1>7, <1>8, <1>9 DEF GQNext

(* The queues are threads' and their links' whatever NULL has for a link.  *)
LEMMA RestIsFree ==
  ASSUME NEW q, NEW h, NEW n, NEW rest, NEW rest2, Linked(q, h, n, NULL, rest)
  PROVE  Linked(q, h, n, NULL, rest2)
<1>1. \A t \in Threads : t # NULL
  BY ThreadsAssumption
<1> QED
  BY <1>1 DEF Linked

(* The chains from the heads are the queues, before a step and after it.   *)
LEMMA ChainsAreQueues ==
  /\ \A q : Represents(q) => [l \in Lists |-> Chain(l)] = q
  /\ \A q : Represents(q)' => [l \in Lists |-> Chain(l)'] = q
<1>1. ASSUME NEW q, Represents(q) PROVE [l \in Lists |-> Chain(l)] = q
  <2>1. \A l \in Lists : Chain(l) = ChainFrom(head, nxt, l)
    BY DEF Chain, Node, ChainFrom, NodesFrom
  <2>2. Linked(q, head, nxt, IF pc = "clear" THEN thread ELSE NULL, head[list])
    BY <1>1 DEF Represents
  <2>3. \A l \in Lists : ChainFrom(head, nxt, l) = q[l]
    BY <2>2, ChainIsQueue
  <2>4. q \in [Lists -> Seq(Threads)]
    BY <2>2 DEF Linked
  <2> QED
    BY <2>1, <2>3, <2>4
<1>2. ASSUME NEW q, Represents(q)' PROVE [l \in Lists |-> Chain(l)'] = q
  <2>1. \A l \in Lists : Chain(l)' = ChainFrom(head', nxt', l)
    BY DEF Chain, Node, ChainFrom, NodesFrom
  <2>2. Linked(q, head', nxt', IF pc' = "clear" THEN thread' ELSE NULL, head'[list'])
    BY <1>2 DEF Represents
  <2>3. \A l \in Lists : ChainFrom(head', nxt', l) = q[l]
    BY <2>2, ChainIsQueue
  <2>4. q \in [Lists -> Seq(Threads)]
    BY <2>2 DEF Linked
  <2> QED
    BY <2>1, <2>3, <2>4
<1> QED
  BY <1>1, <1>2

(* A thread of no chain is in no queue. *)
LEMMA NotQueued ==
  ASSUME NEW q, Represents(q), NEW t, \A k \in Lists : t \notin Range(Chain(k))
  PROVE  ~Queued(q, t)
<1> SUFFICES ASSUME NEW l \in Lists, NEW i \in 1 .. Len(q[l]), q[l][i] = t PROVE FALSE
  BY DEF Queued
<1>1. Chain(l) = q[l] /\ q[l] \in Seq(Threads)
  <2>1. [k \in Lists |-> Chain(k)] = q
    BY ChainsAreQueues
  <2>2. q \in [Lists -> Seq(Threads)]
    BY DEF Represents, Linked
  <2> QED
    BY <2>1, <2>2
<1>2. i \in DOMAIN q[l]
  BY <1>1
<1> QED
  BY <1>1, <1>2 DEF Range

-----------------------------------------------------------------------------
(* The steps of the queues, with out for the thread a dequeue has taken.   *)
Out == IF pc = "clear" THEN thread ELSE NULL

QueuesStep(q, p, taken, taken2) ==
  \/ p = q /\ taken2 = taken
  \/ /\ taken = NULL /\ taken2 = NULL
     /\ \E l \in Lists, t \in Threads : ~Queued(q, t) /\ p = [q EXCEPT ![l] = Append(@, t)]
  \/ /\ taken = NULL
     /\ \E l \in Lists : /\ q[l] # <<>> /\ taken2 = Head(q[l])
                         /\ p = [q EXCEPT ![l] = Tail(@)]
  \/ taken # NULL /\ taken2 = NULL /\ p = q

(* A step that changes no link and calls, walks on or returns.             *)
LEMMA LinksKept ==
  ASSUME Typed, NEW q, Represents(q),
         \/ \E l \in Lists : CallDequeue(l)
         \/ \E l \in Lists, t \in Threads \cup {NULL} : CallEnqueue(l, t)
         \/ EnqueueWalk \/ DequeueNone \/ DequeueLoad \/ UNCHANGED gqVars
  PROVE  Represents(q)' /\ Out' = Out
<1>1. Linked(q, head, nxt, IF pc = "clear" THEN thread ELSE NULL, head[list])
  BY DEF Represents
<1>2. CASE UNCHANGED gqVars
  BY <1>2 DEF gqVars, Represents, Out
<1>3. CASE pc # "clear" /\ pc' # "clear" /\ UNCHANGED <<head, nxt>>
  <2>1. Linked(q, head', nxt', NULL, head'[list'])
    BY <1>1, <1>3, RestIsFree
  <2>2. pc' \in {"enqueue", "walk", "clear"} => ~Queued(q, thread')
    <3>1. ASSUME NEW l \in Lists, NEW t \in Threads \cup {NULL}, CallEnqueue(l, t)
          PROVE  ~Queued(q, t)
      BY <3>1, NotQueued DEF CallEnqueue
    <3>2. EnqueueWalk => ~Queued(q, thread)
      BY DEF EnqueueWalk, Represents
    <3> QED
      BY <1>3, <3>1, <3>2 DEF CallDequeue, CallEnqueue, EnqueueWalk, DequeueNone, DequeueLoad, Represents, gqVars
  <2>3. pc' = "walk" => \E i \in 1 .. Len(q[list']) : susp' = q[list'][i]
    <3>1. CASE EnqueueWalk
      <4>1. list \in Lists /\ list' = list
        BY <3>1 DEF EnqueueWalk, Typed, GQTypeOK
      <4>2. CASE pc = "enqueue"
        <5>1. head[list] # NULL /\ susp' = head[list]
          BY <3>1, <4>2 DEF EnqueueWalk
        <5>2. 1 \in 1 .. Len(q[list]) /\ head[list] = q[list][1]
          BY <1>1, <4>1, <5>1, Elements
        <5> QED
          BY <4>1, <5>1, <5>2
      <4>3. CASE pc = "walk"
        <5>1. nxt[susp] # NULL /\ susp' = nxt[susp]
          BY <3>1, <4>3 DEF EnqueueWalk
        <5>2. PICK i \in 1 .. Len(q[list]) : susp = q[list][i]
          BY <4>3 DEF Represents
        <5>3. nxt[susp] = At(q[list], i + 1)
          BY <1>1, <4>1, <5>2 DEF Linked
        <5> QED
          BY <4>1, <5>1, <5>3 DEF At
      <4> QED
        BY <3>1, <4>2, <4>3 DEF EnqueueWalk
    <3>2. CASE UNCHANGED gqVars
      BY <3>2 DEF gqVars, Represents
    <3> QED
      BY <3>1, <3>2 DEF CallDequeue, CallEnqueue, DequeueNone, DequeueLoad
  <2> QED
    BY <1>3, <2>1, <2>2, <2>3 DEF Represents, Out
<1>4. \/ UNCHANGED gqVars
      \/ pc # "clear" /\ pc' # "clear" /\ UNCHANGED <<head, nxt>>
  BY DEF CallDequeue, CallEnqueue, EnqueueWalk, DequeueNone, DequeueLoad
<1> QED
  BY <1>2, <1>3, <1>4

(* enqueue's store of an empty list's head. *)
LEMMA FirstStored ==
  ASSUME Typed, NEW q, Represents(q), EnqueueFirst
  PROVE  \E p : Represents(p)' /\ QueuesStep(q, p, Out, Out')
<1>1. /\ pc = "enqueue" /\ pc' = "idle" /\ head[list] = NULL /\ list \in Lists
      /\ head' = [head EXCEPT ![list] = thread] /\ nxt' = nxt /\ list' = list
      /\ head \in [Lists -> Threads \cup {NULL}] /\ thread \in Threads \cup {NULL}
  BY DEF EnqueueFirst, Typed, GQTypeOK
<1>2. Linked(q, head, nxt, NULL, head[list]) /\ ~Queued(q, thread)
  BY <1>1 DEF Represents
<1>3. Out = NULL /\ Out' = NULL
  BY <1>1 DEF Out
<1>4. CASE thread = NULL
  <2>1. head' = head
    BY <1>1, <1>4
  <2>2. Represents(q)'
    BY <1>1, <1>2, <2>1 DEF Represents
  <2> QED
    BY <1>3, <2>2 DEF QueuesStep
<1>5. CASE thread \in Threads
  <2>0. PICK p : p = AppendTo(q, list, thread)
    OBVIOUS
  <2>1. q[list] = <<>>
    BY <1>1, <1>2, Elements
  <2>2. Stored(q, list, thread, head, nxt, head', nxt')
    BY <1>1, <2>1 DEF Stored
  <2>3. Linked(p, head', nxt', NULL, head'[list'])
    BY <1>1, <1>2, <1>5, <2>0, <2>2, Appended
  <2>4. Represents(p)'
    BY <1>1, <2>3 DEF Represents
  <2> QED
    BY <1>1, <1>2, <1>3, <1>5, <2>0, <2>4 DEF QueuesStep, AppendTo
<1> QED
  BY <1>1, <1>4, <1>5

(* enqueue's store of the last thread's next. *)
LEMMA LastStored ==
  ASSUME Typed, NEW q, Represents(q), EnqueueLast
  PROVE  \E p : Represents(p)' /\ QueuesStep(q, p, Out, Out')
<1>1. /\ pc = "walk" /\ pc' = "idle" /\ nxt[susp] = NULL /\ list \in Lists
      /\ nxt' = [nxt EXCEPT ![susp] = thread] /\ head' = head /\ list' = list
      /\ nxt \in [Threads -> Threads \cup {NULL}] /\ thread \in Threads \cup {NULL}
  BY DEF EnqueueLast, Typed, GQTypeOK
<1>2. Linked(q, head, nxt, NULL, head[list]) /\ ~Queued(q, thread)
  BY <1>1 DEF Represents
<1>3. Out = NULL /\ Out' = NULL
  BY <1>1 DEF Out
<1>4. PICK i \in 1 .. Len(q[list]) : susp = q[list][i]
  BY <1>1 DEF Represents
<1>5. /\ Len(q[list]) \in Nat /\ susp \in Threads /\ q[list] # <<>>
      /\ \A j \in 1 .. Len(q[list]) : q[list][j] # NULL
  <2>1. /\ q[list] \in Seq(Threads) /\ Len(q[list]) \in Nat
        /\ \A j \in 1 .. Len(q[list]) : q[list][j] \in Threads /\ q[list][j] # NULL
    BY <1>1, <1>2, Elements
  <2>2. Len(q[list]) # 0
    BY <2>1, <1>4
  <2> QED
    BY <1>4, <2>1, <2>2
<1>6. i = Len(q[list])
  <2>1. nxt[susp] = At(q[list], i + 1)
    BY <1>1, <1>2, <1>4 DEF Linked
  <2>2. i + 1 \notin 1 .. Len(q[list])
    BY <1>1, <1>5, <2>1 DEF At
  <2> QED
    BY <1>4, <1>5, <2>2
<1>7. CASE thread = NULL
  <2>1. nxt' = nxt
    BY <1>1, <1>7
  <2>2. Represents(q)'
    BY <1>1, <1>2, <2>1 DEF Represents
  <2> QED
    BY <1>3, <2>2 DEF QueuesStep
<1>8. CASE thread \in Threads
  <2>0. PICK p : p = AppendTo(q, list, thread)
    OBVIOUS
  <2>1. Stored(q, list, thread, head, nxt, head', nxt')
    BY <1>1, <1>4, <1>5, <1>6 DEF Stored
  <2>2. Linked(p, head', nxt', NULL, head'[list'])
    BY <1>1, <1>2, <1>8, <2>0, <2>1, Appended
  <2>3. Represents(p)'
    BY <1>1, <2>2 DEF Represents
  <2> QED
    BY <1>1, <1>2, <1>3, <1>8, <2>0, <2>3 DEF QueuesStep, AppendTo
<1> QED
  BY <1>1, <1>7, <1>8

(* dequeue's store of the head. *)
LEMMA HeadAdvanced ==
  ASSUME Typed, NEW q, Represents(q), DequeueAdvance
  PROVE  \E p : Represents(p)' /\ QueuesStep(q, p, Out, Out')
<1>1. /\ pc = "advance" /\ pc' = "clear" /\ head[list] = thread /\ list \in Lists
      /\ head' = [head EXCEPT ![list] = nxt[head[list]]] /\ nxt' = nxt /\ list' = list
      /\ head \in [Lists -> Threads \cup {NULL}] /\ thread # NULL /\ thread' = thread
  BY DEF DequeueAdvance, Typed, GQTypeOK
<1>2. Linked(q, head, nxt, NULL, head[list])
  BY <1>1 DEF Represents
<1>3. q[list] # <<>>
  BY <1>1, <1>2, Elements
<1>0. PICK p : p = RemoveFrom(q, list)
  OBVIOUS
<1>4. Advanced(list, head, nxt, head')
  BY <1>1 DEF Advanced
<1>5. /\ Linked(p, head', nxt, head[list], head'[list])
      /\ ~Queued(p, head[list])
      /\ head[list] = Head(q[list])
  BY <1>1, <1>2, <1>3, <1>4, <1>0, Removed
<1>6. Represents(p)'
  BY <1>1, <1>5 DEF Represents
<1>7. Out = NULL /\ Out' = Head(q[list])
  BY <1>1, <1>5 DEF Out
<1> QED
  BY <1>0, <1>1, <1>3, <1>6, <1>7 DEF QueuesStep, RemoveFrom

(* dequeue's store of NULL to the next of the thread it returns. *)
LEMMA LinkCleared ==
  ASSUME Typed, NEW q, Represents(q), DequeueClear
  PROVE  \E p : Represents(p)' /\ QueuesStep(q, p, Out, Out')
<1>1. /\ pc = "clear" /\ pc' = "idle" /\ thread \in Threads /\ thread # NULL
      /\ head' = head /\ nxt' = [nxt EXCEPT ![thread] = NULL] /\ list' = list
      /\ nxt \in [Threads -> Threads \cup {NULL}]
  BY DEF DequeueClear, Typed, GQTypeOK
<1>2. Linked(q, head, nxt, thread, head[list]) /\ ~Queued(q, thread)
  BY <1>1 DEF Represents
<1>3. Linked(q, head', nxt', NULL, head'[list'])
  BY <1>1, <1>2, Cleared
<1>4. Represents(q)'
  BY <1>1, <1>3 DEF Represents
<1> QED
  BY <1>1, <1>4 DEF QueuesStep, Out

(* Every step of enqueue and dequeue is a step of the queues or changes no *)
(* queue.                                                                  *)
LEMMA EveryStep ==
  ASSUME Typed, NEW q, Represents(q), [GQNext]_gqVars
  PROVE  \E p : Represents(p)' /\ QueuesStep(q, p, Out, Out')
<1>1. CASE \/ \E l \in Lists : CallDequeue(l)
           \/ \E l \in Lists, t \in Threads \cup {NULL} : CallEnqueue(l, t)
           \/ EnqueueWalk \/ DequeueNone \/ DequeueLoad \/ UNCHANGED gqVars
  BY <1>1, LinksKept DEF QueuesStep
<1> QED
  BY <1>1, FirstStored, LastStored, HeadAdvanced, LinkCleared DEF GQNext

(* At the start the queues are empty. *)
LEMMA EmptyQueues == GQInit => Represents([l \in Lists |-> <<>>])
<1> DEFINE q == [l \in Lists |-> <<>>]
<1>1. q \in [Lists -> Seq(Threads)] /\ \A l \in Lists : Len(q[l]) = 0
  OBVIOUS
<1> HIDE DEF q
<1>2. Apart(q) /\ (\A t : ~Queued(q, t)) /\ \A l \in Lists : At(q[l], 1) = NULL
  BY <1>1 DEF Apart, Queued, At
<1> QED
  BY <1>1, <1>2 DEF GQInit, Represents, Linked, q

LEMMA QueueInvariant == GQSpec => []QueueInv
<1>1. GQInit => QueueInv
  BY EmptyQueues DEF GQInit, QueueInv, Typed, GQTypeOK
<1>2. QueueInv /\ [GQNext]_gqVars => QueueInv'
  <2> SUFFICES ASSUME QueueInv, [GQNext]_gqVars PROVE QueueInv'
    OBVIOUS
  <2>1. Typed /\ Typed'
    BY TypedStep DEF QueueInv
  <2>2. PICK q : Represents(q)
    BY DEF QueueInv
  <2>3. \E p : Represents(p)'
    BY <2>1, <2>2, EveryStep
  <2> QED
    BY <2>1, <2>3 DEF QueueInv
<1> QED
  BY <1>1, <1>2, PTL DEF GQSpec

-----------------------------------------------------------------------------
(* enqueue's walk is at a thread, and dequeue has one where it looks at    *)
(* next, for any number of lists and threads.                              *)
THEOREM QueuesTypeCorrect == GQSpec => []GQTypeOK
<1>1. QueueInv => GQTypeOK
  BY DEF QueueInv, Typed
<1> QED
  BY <1>1, QueueInvariant, PTL

(* Two sets with at most one element each. *)
LEMMA AtMostTwo ==
  ASSUME NEW S, NEW T, NEW x, NEW y, S \subseteq {x}, T \subseteq {y}
  PROVE  /\ Cardinality(S) + Cardinality(T) <= 2
         /\ S = {} \/ T = {} => Cardinality(S) + Cardinality(T) <= 1
<1>1. Cardinality({}) = 0 /\ \A z : Cardinality({z}) = 1
  BY FS_EmptySet, FS_Singleton, Zenon
<1>2. (S = {} \/ S = {x}) /\ (T = {} \/ T = {y})
  OBVIOUS
<1>3. Cardinality(S) \in {0, 1} /\ Cardinality(T) \in {0, 1}
  BY <1>1, <1>2
<1>4. S = {} => Cardinality(S) = 0
  BY <1>1
<1>5. T = {} => Cardinality(T) = 0
  BY <1>1
<1> QED
  BY <1>3, <1>4, <1>5

(* No thread is the next of two threads, the head of two lists, or both,   *)
(* but for the moment in which dequeue has a thread out whose link is not  *)
(* cleared yet, for any number of lists and threads.                       *)
THEOREM LinksAreApart == GQSpec => []OnePredecessor
<1>1. QueueInv => OnePredecessor
  <2> SUFFICES ASSUME QueueInv, NEW t \in Threads
               PROVE  Cardinality({l \in Lists : head[l] = t})
                      + Cardinality({u \in Threads : nxt[u] = t})
                        <= IF pc = "clear" /\ nxt[thread] = t THEN 2 ELSE 1
    BY DEF OnePredecessor
  <2> DEFINE heads == {l \in Lists : head[l] = t}
             links == {u \in Threads : nxt[u] = t}
             taken == pc = "clear" /\ nxt[thread] = t
             Precedes(r, u, l, i) == u = r[l][i] /\ i + 1 \in 1 .. Len(r[l]) /\ t = r[l][i + 1]
  <2>1. PICK q : Represents(q)
    BY DEF QueueInv
  <2>2. Linked(q, head, nxt, IF pc = "clear" THEN thread ELSE NULL, head[list])
    BY <2>1 DEF Represents
  <2>3. /\ Apart(q)
        /\ \A l \in Lists : head[l] = At(q[l], 1)
        /\ \A l \in Lists : \A i \in 1 .. Len(q[l]) : nxt[q[l][i]] = At(q[l], i + 1)
    BY <2>2 DEF Linked
  <2>4. list \in Lists /\ t # NULL
    BY ThreadsAssumption DEF QueueInv, Typed, GQTypeOK
  <2>5. ASSUME NEW u \in links PROVE \/ u = thread /\ taken
                                     \/ \E l \in Lists : \E i \in 1 .. Len(q[l]) : Precedes(q, u, l, i)
    <3>1. CASE Queued(q, u)
      BY <2>3, <2>4, <3>1 DEF Queued, At
    <3>2. CASE ~Queued(q, u)
      <4>1. u # NULL
        BY ThreadsAssumption
      <4> QED
        BY <2>2, <2>4, <3>2, <4>1 DEF Linked
    <3> QED
      BY <3>1, <3>2
  <2>6. ASSUME NEW l \in heads PROVE 1 \in 1 .. Len(q[l]) /\ t = q[l][1]
    BY <2>3, <2>4 DEF At
  <2>7. ASSUME NEW u \in links, NEW v \in links, u # thread \/ ~taken, v # thread \/ ~taken
        PROVE  u = v
    <3>1. PICK k \in Lists : \E i \in 1 .. Len(q[k]) : Precedes(q, u, k, i)
      BY <2>5, <2>7
    <3>2. PICK i \in 1 .. Len(q[k]) : Precedes(q, u, k, i)
      BY <3>1
    <3>3. PICK l \in Lists : \E j \in 1 .. Len(q[l]) : Precedes(q, v, l, j)
      BY <2>5, <2>7
    <3>4. PICK j \in 1 .. Len(q[l]) : Precedes(q, v, l, j)
      BY <3>3
    <3> DEFINE a == i + 1
               b == j + 1
    <3>5. a \in 1 .. Len(q[k]) /\ b \in 1 .. Len(q[l]) /\ q[k][a] = q[l][b]
      BY <3>2, <3>4
    <3> HIDE DEF a, b
    <3>6. k = l /\ a = b
      BY <2>3, <3>5 DEF Apart
    <3>7. i = j
      BY <3>6 DEF a, b
    <3> QED
      BY <3>2, <3>4, <3>6, <3>7
  <2>8. ASSUME NEW l \in heads, NEW u \in links, u # thread \/ ~taken PROVE FALSE
    <3>1. PICK k \in Lists : \E i \in 1 .. Len(q[k]) : Precedes(q, u, k, i)
      BY <2>5, <2>8
    <3>2. PICK i \in 1 .. Len(q[k]) : Precedes(q, u, k, i)
      BY <3>1
    <3> DEFINE a == i + 1
    <3>3. a \in 1 .. Len(q[k]) /\ 1 \in 1 .. Len(q[l]) /\ q[k][a] = q[l][1] /\ l \in Lists
      BY <2>6, <3>2
    <3> HIDE DEF a
    <3>4. a = 1
      BY <2>3, <3>3 DEF Apart
    <3> QED
      BY <3>4 DEF a
  <2>9. ASSUME NEW k \in heads, NEW l \in heads PROVE k = l
    BY <2>3, <2>6 DEF Apart
  <2>10. PICK l : heads \subseteq {l}
    BY <2>9
  <2>11. CASE taken
    <3>1. list \in heads
      <4>1. thread \in Threads /\ ~Queued(q, thread)
        BY <2>1, <2>11 DEF QueueInv, Typed, GQTypeOK, Represents
      <4> QED
        BY <2>2, <2>4, <2>11, <4>1 DEF Linked
    <3>2. links \subseteq {thread}
      BY <2>8, <3>1
    <3> HIDE DEF heads, links
    <3>3. Cardinality(heads) + Cardinality(links) <= 2
      BY <2>10, <3>2, AtMostTwo
    <3> QED
      BY <2>11, <3>3 DEF heads, links
  <2>12. CASE ~taken
    <3>1. PICK u : links \subseteq {u}
      BY <2>7, <2>12
    <3>2. heads = {} \/ links = {}
      BY <2>8, <2>12
    <3> HIDE DEF heads, links
    <3>3. Cardinality(heads) + Cardinality(links) <= 1
      BY <2>10, <3>1, <3>2, AtMostTwo
    <3> QED
      BY <2>12, <3>3 DEF heads, links
  <2> QED
    BY <2>11, <2>12
<1> QED
  BY <1>1, QueueInvariant, PTL

(* Every step is one of the queues' or changes none of them.               *)
LEMMA StepRefines ==
  ASSUME QueueInv, [GQNext]_gqVars
  PROVE  [Queues!QueuesNext]_(Queues!queuesVars)
<1>1. PICK q : Represents(q)
  BY DEF QueueInv
<1>2. PICK p : Represents(p)' /\ QueuesStep(q, p, Out, Out')
  BY <1>1, EveryStep DEF QueueInv
<1>3. [l \in Lists |-> Chain(l)] = q /\ [l \in Lists |-> Chain(l)'] = p
  BY <1>1, <1>2, ChainsAreQueues
<1>4. \A l \in Lists, t \in Threads :
        ~Queued(q, t) => t \notin Range(q[l])
  <2>1. q \in [Lists -> Seq(Threads)]
    BY <1>1 DEF Represents, Linked
  <2> QED
    BY <2>1 DEF Queued, Range
<1>5. CASE p = q /\ Out' = Out
  BY <1>3, <1>5 DEF Out, Queues!queuesVars
<1>6. CASE /\ Out = NULL /\ Out' = NULL
           /\ \E l \in Lists, t \in Threads : ~Queued(q, t) /\ p = [q EXCEPT ![l] = Append(@, t)]
  <2>1. PICK l \in Lists, t \in Threads : ~Queued(q, t) /\ p = [q EXCEPT ![l] = Append(@, t)]
    BY <1>6
  <2>2. Queues!Enqueue(l, t)
    <3>1. \A k \in Lists : t \notin Range(Chain(k))
      BY <1>3, <1>4, <2>1
    <3>2. \A k \in Lists : t \notin Queues!Range([m \in Lists |-> Chain(m)][k])
      BY <3>1 DEF Queues!Range, Range
    <3>3. [m \in Lists |-> Chain(m)]' = [[m \in Lists |-> Chain(m)] EXCEPT ![l] = Append(@, t)]
      BY <1>3, <2>1
    <3> QED
      BY <1>6, <3>2, <3>3 DEF Queues!Enqueue, Out
  <2> QED
    BY <2>2 DEF Queues!QueuesNext
<1>7. CASE /\ Out = NULL
           /\ \E l \in Lists : /\ q[l] # <<>> /\ Out' = Head(q[l])
                               /\ p = [q EXCEPT ![l] = Tail(@)]
  <2>1. PICK l \in Lists : q[l] # <<>> /\ Out' = Head(q[l]) /\ p = [q EXCEPT ![l] = Tail(@)]
    BY <1>7
  <2>2. Queues!Dequeue(l)
    BY <1>3, <1>7, <2>1 DEF Queues!Dequeue, Out
  <2> QED
    BY <2>2 DEF Queues!QueuesNext
<1>8. CASE Out # NULL /\ Out' = NULL /\ p = q
  BY <1>3, <1>8 DEF Out, Queues!QueuesNext, Queues!Return
<1> QED
  BY <1>2, <1>5, <1>6, <1>7, <1>8 DEF QueuesStep

(* The linked lists are FIFO queues that no two share a thread, for any     *)
(* number of lists and threads.                                            *)
THEOREM QueuesAreImplemented == GQSpec => ImplementsQueues
<1>1. GQInit => Queues!QueuesInit
  BY EmptyQueues, ChainsAreQueues DEF GQInit, Queues!QueuesInit
<1>2. QueueInv /\ [GQNext]_gqVars => [Queues!QueuesNext]_(Queues!queuesVars)
  BY StepRefines
<1> QED
  BY <1>1, <1>2, QueueInvariant, PTL DEF GQSpec, ImplementsQueues, Queues!QueuesSpec
=============================================================================
