--------------------------- MODULE DLMallocProofs ---------------------------
(* The boundary tags and the free list of dlmalloc.c stay right through    *)
(* every sequence of init, dalloc and dfree, with and without merge.       *)
EXTENDS DLMalloc, QueueLemmas, FiniteSetTheorems

-----------------------------------------------------------------------------
(* The free list: its blocks in order are s[1], ..., s[n]. *)

At(s, n, i) == IF i \in 1 .. n THEN s[i] ELSE NULL

IsList(l, s, n) ==
  /\ n \in Nat
  /\ s \in [1 .. n -> Int]
  /\ \A i, j \in 1 .. n : s[i] = s[j] => i = j
  /\ DOMAIN l.next = {s[i] : i \in 1 .. n}
  /\ DOMAIN l.prev = DOMAIN l.next
  /\ l.first = At(s, n, 1)
  /\ \A i \in 1 .. n : l.next[s[i]] = At(s, n, i + 1) /\ l.prev[s[i]] = At(s, n, i - 1)

Linked(l) == \E n, s : IsList(l, s, n)

(* insert puts a block in front of a list that is in order. *)
LEMMA Inserted ==
  ASSUME NEW l, Linked(l), NEW b \in Int, b \notin DOMAIN l.next
  PROVE  /\ Linked(insert(l, b))
         /\ DOMAIN insert(l, b).next = DOMAIN l.next \cup {b}
<1>1. PICK n, s : IsList(l, s, n)
  BY DEF Linked
<1> DEFINE t == [i \in 1 .. n + 1 |-> IF i = 1 THEN b ELSE s[i - 1]]
           m == insert(l, b)
<1>2. /\ DOMAIN m.next = DOMAIN l.next \cup {b}
      /\ DOMAIN m.prev = DOMAIN l.next \cup {b}
      /\ m.first = b
      /\ m.next[b] = l.first
      /\ m.prev[b] = NULL
      /\ \A c \in DOMAIN l.next : /\ m.next[c] = l.next[c]
                                  /\ m.prev[c] = IF c = l.first THEN b ELSE l.prev[c]
  BY DEF insert
<1> HIDE DEF m
<1>3. /\ n \in Nat /\ n + 1 \in Nat /\ s \in [1 .. n -> Int]
      /\ \A i \in 1 .. n : i + 1 \in 1 .. n + 1 /\ t[i + 1] = s[i]
      /\ \A i \in 1 .. n + 1 : i # 1 => i - 1 \in 1 .. n /\ t[i] = s[i - 1]
      /\ 1 \in 1 .. n + 1 /\ t[1] = b
  BY <1>1 DEF IsList
<1>4. t \in [1 .. n + 1 -> Int]
  BY <1>3
<1> HIDE DEF t
<1>5. \A i \in 1 .. n : s[i] # b
  BY <1>1 DEF IsList
<1>6. \A i, j \in 1 .. n + 1 : t[i] = t[j] => i = j
  <2> SUFFICES ASSUME NEW i \in 1 .. n + 1, NEW j \in 1 .. n + 1, t[i] = t[j] PROVE i = j
    OBVIOUS
  <2>1. CASE i = 1 \/ j = 1
    BY <1>3, <1>5, <2>1
  <2>2. CASE i # 1 /\ j # 1
    <3>1. i - 1 = j - 1
      BY <1>1, <1>3, <2>2 DEF IsList
    <3> QED
      BY <1>3, <3>1
  <2> QED
    BY <2>1, <2>2
<1>7. DOMAIN m.next = {t[i] : i \in 1 .. n + 1}
  <2>1. ASSUME NEW x \in DOMAIN l.next PROVE \E i \in 1 .. n + 1 : x = t[i]
    <3>1. PICK i \in 1 .. n : x = s[i]
      BY <1>1 DEF IsList
    <3>2. i + 1 \in 1 .. n + 1 /\ t[i + 1] = x
      BY <1>3, <3>1
    <3> QED
      BY <3>2
  <2>2. ASSUME NEW i \in 1 .. n + 1 PROVE t[i] \in DOMAIN l.next \cup {b}
    <3>1. i = 1 => t[i] = b
      BY <1>3
    <3>2. i # 1 => i - 1 \in 1 .. n /\ t[i] = s[i - 1]
      BY <1>3
    <3>3. \A j \in 1 .. n : s[j] \in DOMAIN l.next
      BY <1>1 DEF IsList
    <3> QED
      BY <3>1, <3>2, <3>3
  <2> QED
    BY <1>2, <1>3, <2>1, <2>2
<1>8. \A i \in 1 .. n : l.first = s[i] <=> i = 1
  <2>1. l.first = At(s, n, 1)
    BY <1>1 DEF IsList
  <2>2. \A i, j \in 1 .. n : s[i] = s[j] => i = j
    BY <1>1 DEF IsList
  <2>3. 1 \in 1 .. n \/ n = 0
    BY <1>3
  <2> QED
    BY <1>3, <2>1, <2>2, <2>3 DEF At
<1>9. ASSUME NEW i \in 1 .. n + 1
      PROVE  m.next[t[i]] = At(t, n + 1, i + 1) /\ m.prev[t[i]] = At(t, n + 1, i - 1)
  <2>1. CASE i = 1
    <3>1. m.next[t[i]] = At(s, n, 1)
      BY <1>1, <1>2, <1>3, <2>1 DEF IsList
    <3>2. At(s, n, 1) = At(t, n + 1, 2)
      BY <1>3 DEF At
    <3>3. At(t, n + 1, 0) = NULL
      BY DEF At
    <3> QED
      BY <1>2, <1>3, <2>1, <3>1, <3>2, <3>3
  <2>2. CASE i # 1
    <3> DEFINE j == i - 1
    <3>1. /\ j \in 1 .. n /\ t[i] = s[j] /\ s[j] \in DOMAIN l.next /\ j + 1 = i
          /\ l.next[s[j]] = At(s, n, j + 1) /\ l.prev[s[j]] = At(s, n, j - 1)
      BY <1>1, <1>3, <2>2 DEF IsList
    <3>2. m.next[t[i]] = At(s, n, i) /\ m.prev[t[i]] = IF j = 1 THEN b ELSE At(s, n, j - 1)
      BY <1>2, <1>8, <3>1
    <3>3. At(s, n, i) = At(t, n + 1, i + 1)
      <4>1. i \in 1 .. n <=> i + 1 \in 1 .. n + 1
        BY <1>3, <3>1
      <4> QED
        BY <1>3, <4>1 DEF At
    <3>4. CASE j = 1
      BY <1>3, <3>1, <3>2, <3>3, <3>4 DEF At
    <3>5. CASE j # 1
      <4>1. j - 1 \in 1 .. n /\ j \in 1 .. n + 1 /\ t[j] = s[j - 1]
        BY <1>3, <3>1, <3>5
      <4> QED
        BY <3>1, <3>2, <3>3, <3>5, <4>1 DEF At
    <3> QED
      BY <3>4, <3>5
  <2> QED
    BY <2>1, <2>2
<1>10. IsList(m, t, n + 1)
  BY <1>2, <1>3, <1>4, <1>6, <1>7, <1>9 DEF IsList, At
<1> QED
  BY <1>2, <1>10 DEF Linked, m

(* detach takes a block out of a list that is in order. *)
LEMMA Detached ==
  ASSUME NEW l, Linked(l), NEW b \in DOMAIN l.next
  PROVE  /\ Linked(detach(l, b))
         /\ DOMAIN detach(l, b).next = DOMAIN l.next \ {b}
<1>1. PICK n, s : IsList(l, s, n)
  BY DEF Linked
<1>2. PICK k \in 1 .. n : b = s[k]
  BY <1>1 DEF IsList
<1> DEFINE t == [i \in 1 .. n - 1 |-> IF i < k THEN s[i] ELSE s[i + 1]]
           m == detach(l, b)
<1>3. /\ DOMAIN m.next = DOMAIN l.next \ {b}
      /\ DOMAIN m.prev = DOMAIN l.next \ {b}
      /\ m.first = IF l.prev[b] = NULL THEN l.next[b] ELSE l.first
      /\ \A c \in DOMAIN l.next \ {b} :
           /\ m.next[c] = IF c = l.prev[b] THEN l.next[b] ELSE l.next[c]
           /\ m.prev[c] = IF c = l.next[b] THEN l.prev[b] ELSE l.prev[c]
  BY DEF detach
<1> HIDE DEF m
<1>4. /\ n \in Nat /\ n - 1 \in Nat /\ s \in [1 .. n -> Int]
      /\ \A i \in 1 .. n : s[i] \in Int /\ s[i] # NULL /\ s[i] \in DOMAIN l.next
      /\ \A i, j \in 1 .. n : s[i] = s[j] => i = j
      /\ l.next[b] = At(s, n, k + 1) /\ l.prev[b] = At(s, n, k - 1)
      /\ l.first = At(s, n, 1)
      /\ \A i \in 1 .. n : l.next[s[i]] = At(s, n, i + 1) /\ l.prev[s[i]] = At(s, n, i - 1)
  <2>1. n \in Nat /\ s \in [1 .. n -> Int]
    BY <1>1 DEF IsList
  <2>2. n - 1 \in Nat
    BY <2>1
  <2>3. \A i \in 1 .. n : s[i] \in Int /\ s[i] # NULL
    BY <2>1, ArenaAssumption
  <2>4. \A i \in 1 .. n : s[i] \in DOMAIN l.next
    BY <1>1 DEF IsList
  <2>5. /\ l.first = At(s, n, 1)
        /\ \A i, j \in 1 .. n : s[i] = s[j] => i = j
        /\ \A i \in 1 .. n : l.next[s[i]] = At(s, n, i + 1) /\ l.prev[s[i]] = At(s, n, i - 1)
    BY <1>1 DEF IsList
  <2> QED
    BY <1>2, <2>1, <2>2, <2>3, <2>4, <2>5
<1>5. /\ \A i \in 1 .. n - 1 : i \in 1 .. n /\ i + 1 \in 1 .. n
      /\ \A i \in 1 .. n - 1 : t[i] = IF i < k THEN s[i] ELSE s[i + 1]
      /\ t \in [1 .. n - 1 -> Int]
  BY <1>4
<1> HIDE DEF t
<1>6. \A i, j \in 1 .. n - 1 : t[i] = t[j] => i = j
  <2> SUFFICES ASSUME NEW i \in 1 .. n - 1, NEW j \in 1 .. n - 1, t[i] = t[j] PROVE i = j
    OBVIOUS
  <2> DEFINE x == IF i < k THEN i ELSE i + 1
             y == IF j < k THEN j ELSE j + 1
  <2>1. x \in 1 .. n /\ y \in 1 .. n /\ s[x] = s[y]
    BY <1>5
  <2>2. x = y
    BY <1>4, <2>1
  <2> QED
    BY <1>2, <2>2
<1>7. \A i \in 1 .. n - 1 : t[i] \in DOMAIN l.next \ {b}
  <2> SUFFICES ASSUME NEW i \in 1 .. n - 1 PROVE t[i] \in DOMAIN l.next \ {b}
    OBVIOUS
  <2> DEFINE x == IF i < k THEN i ELSE i + 1
  <2>1. x \in 1 .. n /\ x # k /\ t[i] = s[x]
    BY <1>2, <1>5
  <2> QED
    BY <1>2, <1>4, <2>1
<1>8. \A c \in DOMAIN l.next \ {b} : \E i \in 1 .. n - 1 : c = t[i]
  <2> SUFFICES ASSUME NEW c \in DOMAIN l.next \ {b} PROVE \E i \in 1 .. n - 1 : c = t[i]
    OBVIOUS
  <2>1. PICK x \in 1 .. n : c = s[x]
    BY <1>1 DEF IsList
  <2> DEFINE i == IF x < k THEN x ELSE x - 1
  <2>2. x # k
    BY <1>2, <2>1
  <2>3. i \in 1 .. n - 1 /\ (IF i < k THEN i ELSE i + 1) = x
    BY <1>2, <1>4, <2>2
  <2> QED
    BY <1>5, <2>1, <2>3
<1>9. DOMAIN m.next = {t[i] : i \in 1 .. n - 1}
  BY <1>3, <1>7, <1>8
<1>10. m.first = At(t, n - 1, 1)
  <2>1. CASE k = 1
    <3>1. l.prev[b] = NULL /\ l.next[b] = At(s, n, 2)
      BY <1>4, <2>1 DEF At
    <3>2. At(s, n, 2) = At(t, n - 1, 1)
      BY <1>4, <1>5, <2>1 DEF At
    <3> QED
      BY <1>3, <3>1, <3>2
  <2>2. CASE k # 1
    <3>1. l.prev[b] = s[k - 1] /\ l.first = s[1] /\ k - 1 \in 1 .. n /\ 1 \in 1 .. n - 1
      BY <1>2, <1>4, <2>2 DEF At
    <3>2. t[1] = s[1]
      BY <1>2, <1>5, <2>2, <3>1
    <3> QED
      BY <1>3, <1>4, <3>1, <3>2 DEF At
  <2> QED
    BY <2>1, <2>2
<1>11. ASSUME NEW i \in 1 .. n - 1
       PROVE  m.next[t[i]] = At(t, n - 1, i + 1) /\ m.prev[t[i]] = At(t, n - 1, i - 1)
  <2> DEFINE x == IF i < k THEN i ELSE i + 1
  <2>1. x \in 1 .. n /\ x # k /\ t[i] = s[x] /\ s[x] \in DOMAIN l.next \ {b}
    BY <1>2, <1>4, <1>5, <1>7
  <2>2. s[x] = l.prev[b] <=> x = k - 1
    <3>1. CASE k = 1
      <4>1. l.prev[b] = NULL /\ x # k - 1
        BY <1>4, <2>1, <3>1 DEF At
      <4> QED
        BY <1>4, <2>1, <4>1
    <3>2. CASE k # 1
      <4>1. k - 1 \in 1 .. n /\ l.prev[b] = s[k - 1]
        BY <1>4, <3>2 DEF At
      <4> QED
        BY <1>4, <2>1, <4>1
    <3> QED
      BY <3>1, <3>2
  <2>3. s[x] = l.next[b] <=> x = k + 1
    <3>1. CASE k = n
      <4>1. l.next[b] = NULL /\ x # k + 1
        BY <1>4, <2>1, <3>1 DEF At
      <4> QED
        BY <1>4, <2>1, <4>1
    <3>2. CASE k # n
      <4>1. k + 1 \in 1 .. n /\ l.next[b] = s[k + 1]
        BY <1>4, <3>2 DEF At
      <4> QED
        BY <1>4, <2>1, <4>1
    <3> QED
      BY <3>1, <3>2
  <2>4. m.next[t[i]] = At(t, n - 1, i + 1)
    <3>1. m.next[t[i]] = IF x = k - 1 THEN At(s, n, k + 1) ELSE At(s, n, x + 1)
      <4>1. m.next[s[x]] = IF s[x] = l.prev[b] THEN l.next[b] ELSE l.next[s[x]]
        BY <1>3, <2>1
      <4> QED
        BY <1>4, <2>1, <2>2, <4>1
    <3> DEFINE z == IF i + 1 < k THEN i + 1 ELSE i + 2
    <3>2. m.next[t[i]] = At(s, n, z)
      BY <1>2, <3>1
    <3>3. z \in 1 .. n <=> i + 1 \in 1 .. n - 1
      BY <1>4
    <3>4. i + 1 \in 1 .. n - 1 => t[i + 1] = s[z]
      BY <1>5
    <3> QED
      BY <3>2, <3>3, <3>4 DEF At
  <2>5. m.prev[t[i]] = At(t, n - 1, i - 1)
    <3>1. m.prev[t[i]] = IF x = k + 1 THEN At(s, n, k - 1) ELSE At(s, n, x - 1)
      <4>1. m.prev[s[x]] = IF s[x] = l.next[b] THEN l.prev[b] ELSE l.prev[s[x]]
        BY <1>3, <2>1
      <4> QED
        BY <1>4, <2>1, <2>3, <4>1
    <3> DEFINE z == IF i - 1 < k THEN i - 1 ELSE i
    <3>2. m.prev[t[i]] = At(s, n, z)
      BY <1>2, <3>1
    <3>3. z \in 1 .. n <=> i - 1 \in 1 .. n - 1
      BY <1>4
    <3>4. i - 1 \in 1 .. n - 1 => t[i - 1] = s[z]
      BY <1>5
    <3> QED
      BY <3>2, <3>3, <3>4 DEF At
  <2> QED
    BY <2>4, <2>5
<1>12. IsList(m, t, n - 1)
  BY <1>3, <1>4, <1>5, <1>6, <1>9, <1>10, <1>11 DEF IsList
<1> QED
  BY <1>3, <1>12 DEF Linked, m

(* NULL is no block of a list. *)
LEMMA NotABlock ==
  ASSUME NEW l, Linked(l)
  PROVE  NULL \notin DOMAIN l.next
<1>1. PICK n, s : IsList(l, s, n)
  BY DEF Linked
<1>2. s \in [1 .. n -> Int] /\ DOMAIN l.next = {s[i] : i \in 1 .. n}
  BY <1>1 DEF IsList
<1>3. \A i \in 1 .. n : s[i] # NULL
  BY <1>2, ArenaAssumption
<1> QED
  BY <1>2, <1>3

(* A walk of the list ends: what holds of NULL, and of each block whose     *)
(* next has it, holds of every block.                                      *)
LEMMA WalkInduction ==
  ASSUME Linked(flist), NEW Good \in SUBSET (DOMAIN flist.next \cup {NULL}), NULL \in Good,
         \A b \in DOMAIN flist.next : flist.next[b] \in Good => b \in Good
  PROVE  DOMAIN flist.next \subseteq Good
<1>1. PICK n, s : IsList(flist, s, n)
  BY DEF Linked
<1>2. /\ n \in Nat /\ DOMAIN flist.next = {s[i] : i \in 1 .. n}
      /\ \A i \in 1 .. n : flist.next[s[i]] = At(s, n, i + 1)
  BY <1>1 DEF IsList
<1> DEFINE T == {k \in Nat : \E i \in 1 .. n : k = n - i /\ s[i] \notin Good}
<1>3. SUFFICES ASSUME T # {} PROVE FALSE
  <2> SUFFICES ASSUME NEW i \in 1 .. n, s[i] \notin Good PROVE T # {}
    BY <1>2
  <2> n - i \in Nat
    BY <1>2
  <2> n - i \in T
    OBVIOUS
  <2> QED
    OBVIOUS
<1>4. PICK k \in T : \A j \in T : k <= j
  <2> T \in SUBSET Nat
    OBVIOUS
  <2> HIDE DEF T
  <2> QED
    BY <1>3, LeastNumber
<1>5. PICK i \in 1 .. n : k = n - i /\ s[i] \notin Good
  BY <1>4
<1>6. flist.next[s[i]] \in Good
  <2>1. CASE i = n
    BY <1>2, <2>1 DEF At
  <2>2. CASE i # n
    <3>1. i + 1 \in 1 .. n /\ n - (i + 1) \in Nat /\ ~(k <= n - (i + 1))
      BY <1>2, <1>5, <2>2
    <3>2. s[i + 1] \in Good
      BY <1>4, <3>1
    <3>3. flist.next[s[i]] = s[i + 1]
      BY <1>2, <3>1 DEF At
    <3> QED
      BY <3>2, <3>3
  <2> QED
    BY <2>1, <2>2
<1> QED
  BY <1>2, <1>5, <1>6

(* What find is given is on the free list, and large enough. *)
LEMMA FirstFits ==
  ASSUME Linked(flist), NEW size, FirstFit(size) # NULL
  PROVE  /\ FirstFit(size) \in DOMAIN flist.next
         /\ head[FirstFit(size)].size >= size
         /\ ~(size < 0)
<1>1. PICK n, s : IsList(flist, s, n)
  BY DEF Linked
<1>2. /\ n \in Nat /\ s \in [1 .. n -> Int]
      /\ \A i, j \in 1 .. n : s[i] = s[j] => i = j
      /\ DOMAIN flist.next = {s[i] : i \in 1 .. n}
      /\ flist.first = At(s, n, 1)
      /\ \A i \in 1 .. n : flist.next[s[i]] = At(s, n, i + 1)
  BY <1>1 DEF IsList
<1> DEFINE D == DOMAIN flist.next
           Fit == {b \in D : head[b].size >= size}
           from == CHOOSE f : f = [b \in D \cup {NULL} |->
                     IF b = NULL THEN NULL
                     ELSE IF head[b].size >= size THEN b ELSE f[flist.next[b]]]
<1>3. NULL \notin D /\ \A i \in 1 .. n : s[i] \in D /\ s[i] # NULL
  <2>1. NULL \notin D
    BY NotABlock
  <2>2. \A i \in 1 .. n : s[i] \in D
    BY <1>2
  <2> QED
    BY <2>1, <2>2
<1>4. from = [b \in D \cup {NULL} |->
                IF b = NULL THEN NULL
                ELSE IF head[b].size >= size THEN b ELSE from[flist.next[b]]]
  <2> DEFINE fits(i) == {j \in i .. n : s[j] \in Fit}
             least(i) == CHOOSE m \in fits(i) : \A j \in fits(i) : m <= j
             answer(i) == IF fits(i) = {} THEN NULL ELSE s[least(i)]
             place(b) == CHOOSE i \in 1 .. n : s[i] = b
             g == [b \in D \cup {NULL} |-> IF b = NULL THEN NULL ELSE answer(place(b))]
             h == [b \in D \cup {NULL} |->
                     IF b = NULL THEN NULL
                     ELSE IF head[b].size >= size THEN b ELSE g[flist.next[b]]]
  <2>1. \A i \in 1 .. n : place(s[i]) = i
    BY <1>2
  <2>2. ASSUME NEW i \in 1 .. n, fits(i) # {}
        PROVE  least(i) \in fits(i) /\ \A j \in fits(i) : least(i) <= j
    <3>1. fits(i) \in SUBSET Nat
      BY <1>2
    <3> HIDE DEF fits
    <3>2. \E m \in fits(i) : \A j \in fits(i) : m <= j
      BY <2>2, <3>1, LeastNumber
    <3> QED
      BY <3>2
  <2> HIDE DEF least, place
  <2>3. ASSUME NEW i \in 1 .. n, s[i] \in Fit PROVE answer(i) = s[i]
    <3>1. i \in fits(i)
      BY <1>2, <2>3
    <3>2. least(i) \in i .. n /\ least(i) <= i
      BY <2>2, <3>1
    <3>3. least(i) = i
      BY <1>2, <3>2
    <3> QED
      BY <3>1, <3>3
  <2>4. ASSUME NEW i \in 1 .. n, s[i] \notin Fit, i + 1 \in 1 .. n PROVE answer(i) = answer(i + 1)
    <3>1. \A j \in i .. n : j = i \/ j \in i + 1 .. n
      BY <1>2
    <3>2. \A j \in i + 1 .. n : j \in i .. n
      BY <1>2
    <3>3. fits(i) = fits(i + 1)
      BY <2>4, <3>1, <3>2
    <3>4. least(i) = least(i + 1)
      <4> HIDE DEF fits
      <4> QED
        BY <3>3 DEF least
    <3> QED
      BY <3>3, <3>4
  <2>5. s[n] \notin Fit => fits(n) = {}
    BY <1>2
  <2>6. ASSUME NEW b \in D PROVE g[b] = h[b]
    <3>1. PICK i \in 1 .. n : b = s[i]
      BY <1>2
    <3>2. b # NULL /\ g[b] = answer(i)
      BY <1>3, <2>1, <3>1
    <3>3. head[b].size >= size <=> b \in Fit
      OBVIOUS
    <3>4. CASE b \in Fit
      <4>1. h[b] = b
        BY <3>2, <3>3, <3>4
      <4> QED
        BY <2>3, <3>1, <3>2, <3>4, <4>1
    <3>5. CASE b \notin Fit /\ i = n
      <4>1. answer(i) = NULL
        BY <2>5, <3>1, <3>5
      <4>2. flist.next[b] = NULL
        BY <1>2, <3>1, <3>5 DEF At
      <4>3. h[b] = NULL
        BY <3>2, <3>3, <3>5, <4>2
      <4> QED
        BY <3>2, <4>1, <4>3
    <3>6. CASE b \notin Fit /\ i # n
      <4>1. i + 1 \in 1 .. n
        BY <1>2, <3>6
      <4>2. flist.next[b] = s[i + 1] /\ s[i + 1] \in D /\ s[i + 1] # NULL
        BY <1>2, <1>3, <3>1, <4>1 DEF At
      <4>3. g[s[i + 1]] = answer(i + 1)
        BY <2>1, <4>1, <4>2
      <4>4. h[b] = g[s[i + 1]]
        BY <3>2, <3>3, <3>6, <4>2
      <4> QED
        BY <2>4, <3>1, <3>2, <3>6, <4>1, <4>3, <4>4
    <3> QED
      BY <3>4, <3>5, <3>6
  <2>7. g[NULL] = NULL /\ h[NULL] = NULL
    OBVIOUS
  <2>8. g = h
    <3>1. \A b \in D \cup {NULL} : g[b] = h[b]
      BY <2>6, <2>7
    <3>2. DOMAIN g = D \cup {NULL} /\ DOMAIN h = D \cup {NULL}
      OBVIOUS
    <3>3. g = [b \in D \cup {NULL} |-> g[b]] /\ h = [b \in D \cup {NULL} |-> h[b]]
      OBVIOUS
    <3> HIDE DEF g, h
    <3> QED
      BY <3>1, <3>3
  <2>9. \E f : f = [b \in D \cup {NULL} |->
                     IF b = NULL THEN NULL
                     ELSE IF head[b].size >= size THEN b ELSE f[flist.next[b]]]
    BY <2>8
  <2> QED
    BY <2>9
<1>5. FirstFit(size) = IF size < 0 THEN NULL ELSE from[flist.first]
  BY DEF FirstFit
<1> HIDE DEF from
<1> DEFINE Good == {b \in D \cup {NULL} : from[b] \in Fit \cup {NULL}}
<1>6. NULL \in Good
  BY <1>4
<1>7. ASSUME NEW b \in D, flist.next[b] \in Good PROVE b \in Good
  <2>1. b # NULL
    BY <1>3
  <2>2. from[b] = IF head[b].size >= size THEN b ELSE from[flist.next[b]]
    BY <1>4, <2>1
  <2>3. CASE b \in Fit
    BY <2>2, <2>3
  <2>4. CASE b \notin Fit
    <3>1. ~(head[b].size >= size)
      BY <2>4
    <3> QED
      BY <1>7, <2>2, <3>1
  <2> QED
    BY <2>3, <2>4
<1>8. D \subseteq Good
  <2>1. Good \in SUBSET (D \cup {NULL})
    OBVIOUS
  <2> HIDE DEF Good
  <2> QED
    BY <1>6, <1>7, <2>1, WalkInduction
<1>9. flist.first \in Good
  BY <1>2, <1>3, <1>6, <1>8 DEF At
<1> QED
  BY <1>5, <1>9

(* Following next from flist for as many steps as there are blocks meets   *)
(* every block, and prev leads back.                                       *)
LEMMA LinkedWalk ==
  ASSUME Linked(flist), Cardinality(DOMAIN flist.next) \in 0 .. ARENA
  PROVE  /\ Listed = DOMAIN flist.next
         /\ flist.first \in DOMAIN flist.next \cup {NULL}
         /\ DOMAIN flist.prev = DOMAIN flist.next
         /\ \A b \in DOMAIN flist.next :
              /\ flist.next[b] \in DOMAIN flist.next \cup {NULL}
              /\ flist.prev[b] = NULL <=> b = flist.first
              /\ flist.next[b] # NULL => flist.prev[flist.next[b]] = b
<1>1. PICK n, s : IsList(flist, s, n)
  BY DEF Linked
<1>2. /\ n \in Nat /\ s \in [1 .. n -> Int]
      /\ \A i, j \in 1 .. n : s[i] = s[j] => i = j
      /\ DOMAIN flist.next = {s[i] : i \in 1 .. n}
      /\ DOMAIN flist.prev = DOMAIN flist.next
      /\ flist.first = At(s, n, 1)
      /\ \A i \in 1 .. n : /\ flist.next[s[i]] = At(s, n, i + 1)
                           /\ flist.prev[s[i]] = At(s, n, i - 1)
  BY <1>1 DEF IsList
<1>3. \A i \in 1 .. n : s[i] \in Int /\ s[i] # NULL /\ s[i] \in DOMAIN flist.next
  <2>1. s \in [1 .. n -> Int]
    BY <1>2
  <2>3. \A i \in 1 .. n : s[i] \in Int /\ s[i] # NULL
    BY <2>1, ArenaAssumption
  <2>2. \A i \in 1 .. n : s[i] \in DOMAIN flist.next
    BY <1>2
  <2> QED
    BY <2>2, <2>3
<1>4. n = Cardinality(DOMAIN flist.next)
  <2>1. s \in [1 .. n -> DOMAIN flist.next]
    BY <1>2, <1>3
  <2>2. \A x \in DOMAIN flist.next : \E i \in 1 .. n : s[i] = x
    BY <1>2
  <2>3. IsInjective(s)
    BY <1>2, <2>1 DEF IsInjective
  <2>4. s \in Bijection(1 .. n, DOMAIN flist.next)
    BY <2>1, <2>2, <2>3 DEF Bijection, Injection, Surjection
  <2>5. ExistsBijection(1 .. n, DOMAIN flist.next)
    BY <2>4 DEF ExistsBijection
  <2> QED
    BY <1>2, <2>5, FS_CountingElements
<1>5. flist.first \in DOMAIN flist.next \cup {NULL}
  BY <1>2, <1>3 DEF At
<1>6. ASSUME NEW b \in DOMAIN flist.next
      PROVE  /\ flist.next[b] \in DOMAIN flist.next \cup {NULL}
             /\ flist.prev[b] = NULL <=> b = flist.first
             /\ flist.next[b] # NULL => flist.prev[flist.next[b]] = b
  <2>1. PICK i \in 1 .. n : b = s[i]
    BY <1>2
  <2>2. flist.next[b] \in DOMAIN flist.next \cup {NULL}
    BY <1>2, <1>3, <2>1 DEF At
  <2>3. flist.prev[b] = NULL <=> i = 1
    <3>1. i - 1 \in 1 .. n <=> i # 1
      BY <1>2
    <3> QED
      BY <1>2, <1>3, <2>1, <3>1 DEF At
  <2>4. b = flist.first <=> i = 1
    <3>1. 1 \in 1 .. n
      BY <1>2
    <3> QED
      BY <1>2, <2>1, <3>1 DEF At
  <2>5. flist.next[b] # NULL => flist.prev[flist.next[b]] = b
    <3> SUFFICES ASSUME flist.next[b] # NULL PROVE flist.prev[flist.next[b]] = b
      OBVIOUS
    <3>1. i + 1 \in 1 .. n /\ flist.next[b] = s[i + 1]
      BY <1>2, <2>1 DEF At
    <3>2. flist.prev[s[i + 1]] = At(s, n, i)
      BY <1>2, <3>1
    <3> QED
      BY <2>1, <3>1, <3>2 DEF At
  <2> QED
    BY <2>2, <2>3, <2>4, <2>5
<1> DEFINE upto(m) == {s[i] : i \in {j \in 1 .. n : j <= m + 1}}
           more(S) == {flist.next[b] : b \in S} \ {NULL}
           from == CHOOSE f : f = [m \in 0 .. ARENA |->
                     IF m = 0 THEN {flist.first} \ {NULL} ELSE f[m - 1] \cup more(f[m - 1])]
<1>7. upto(0) = {flist.first} \ {NULL}
  <2>1. CASE n = 0
    BY <1>2, <2>1 DEF At
  <2>2. CASE n # 0
    <3>1. 1 \in 1 .. n /\ \A j \in 1 .. n : j <= 0 + 1 <=> j = 1
      BY <1>2, <2>2
    <3>2. flist.first = s[1] /\ s[1] # NULL
      BY <1>2, <1>3, <3>1 DEF At
    <3> QED
      BY <3>1, <3>2
  <2> QED
    BY <2>1, <2>2
<1>8. ASSUME NEW m \in Nat PROVE upto(m + 1) = upto(m) \cup more(upto(m))
  <2>1. ASSUME NEW x \in upto(m + 1) PROVE x \in upto(m) \cup more(upto(m))
    <3>1. PICK i \in 1 .. n : i <= m + 2 /\ x = s[i]
      BY <2>1
    <3>2. CASE i <= m + 1
      BY <3>1, <3>2
    <3>3. CASE i = m + 2
      <4>1. i - 1 \in 1 .. n /\ i - 1 <= m + 1 /\ (i - 1) + 1 = i
        BY <1>2, <3>3
      <4>2. s[i - 1] \in upto(m)
        BY <4>1
      <4>3. flist.next[s[i - 1]] = s[i]
        BY <1>2, <4>1 DEF At
      <4> HIDE DEF upto
      <4> QED
        BY <1>3, <3>1, <4>2, <4>3
    <3> QED
      BY <1>2, <3>1, <3>2, <3>3
  <2>2. \A x \in upto(m) : x \in upto(m + 1)
    BY <1>2
  <2>3. ASSUME NEW x \in more(upto(m)) PROVE x \in upto(m + 1)
    <3>1. PICK i \in 1 .. n : i <= m + 1 /\ x = flist.next[s[i]] /\ x # NULL
      BY <2>3
    <3>2. i + 1 \in 1 .. n /\ x = s[i + 1]
      BY <1>2, <3>1 DEF At
    <3>3. i + 1 <= (m + 1) + 1
      BY <1>2, <3>1
    <3> QED
      BY <3>2, <3>3
  <2> HIDE DEF upto, more
  <2> QED
    BY <2>1, <2>2, <2>3
<1>9. from = [m \in 0 .. ARENA |->
                IF m = 0 THEN {flist.first} \ {NULL} ELSE from[m - 1] \cup more(from[m - 1])]
  <2> DEFINE g == [m \in 0 .. ARENA |-> upto(m)]
             h == [m \in 0 .. ARENA |->
                     IF m = 0 THEN {flist.first} \ {NULL} ELSE g[m - 1] \cup more(g[m - 1])]
  <2> HIDE DEF upto, more
  <2>1. ASSUME NEW m \in 0 .. ARENA PROVE g[m] = h[m]
    <3>1. CASE m = 0
      BY <1>7, <3>1
    <3>2. CASE m # 0
      <4>1. m - 1 \in 0 .. ARENA /\ m - 1 \in Nat /\ (m - 1) + 1 = m
        BY <3>2, ArenaAssumption
      <4>2. upto(m) = upto(m - 1) \cup more(upto(m - 1))
        BY <1>8, <4>1
      <4> QED
        BY <3>2, <4>1, <4>2
    <3> QED
      BY <3>1, <3>2
  <2>2. g = h
    BY <2>1
  <2>3. \E f : f = [m \in 0 .. ARENA |->
                     IF m = 0 THEN {flist.first} \ {NULL} ELSE f[m - 1] \cup more(f[m - 1])]
    BY <2>2
  <2> QED
    BY <2>3
<1>10. Listed = from[n]
  BY <1>4 DEF Listed
<1> HIDE DEF from, upto, more
<1>11. ASSUME NEW m \in 0 .. ARENA PROVE from[m] = upto(m)
  <2> DEFINE T == {k \in 0 .. ARENA : from[k] # upto(k)}
  <2> SUFFICES ASSUME T # {} PROVE FALSE
    OBVIOUS
  <2>1. PICK k \in T : \A j \in T : k <= j
    <3>1. T \in SUBSET Nat
      OBVIOUS
    <3> HIDE DEF T
    <3> QED
      BY <3>1, LeastNumber
  <2>2. k \in 0 .. ARENA /\ from[k] # upto(k) /\ 0 \in 0 .. ARENA
    BY <2>1, ArenaAssumption
  <2>7. from[0] = upto(0)
    BY <1>7, <1>9, <2>2
  <2>3. k # 0 /\ k - 1 \in 0 .. ARENA /\ k - 1 \in Nat /\ (k - 1) + 1 = k /\ ~(k <= k - 1)
    BY <2>2, <2>7, ArenaAssumption
  <2>4. from[k - 1] = upto(k - 1)
    BY <2>1, <2>3
  <2>5. from[k] = from[k - 1] \cup more(from[k - 1])
    BY <1>9, <2>2, <2>3
  <2>6. upto(k) = upto(k - 1) \cup more(upto(k - 1))
    BY <1>8, <2>3
  <2> QED
    BY <2>4, <2>5, <2>6
<1>12. upto(n) = DOMAIN flist.next
  BY <1>2 DEF upto
<1>13. n \in 0 .. ARENA
  BY <1>4
<1> QED
  BY <1>2, <1>5, <1>6, <1>10, <1>11, <1>12, <1>13

(* sanity looks at blocks of the list only. *)
LEMMA WalkedBlocks ==
  ASSUME Linked(flist), \A b \in DOMAIN flist.next : head[b].size # 0
  PROVE  Walked \subseteq DOMAIN flist.next
<1>1. PICK n, s : IsList(flist, s, n)
  BY DEF Linked
<1>2. /\ n \in Nat
      /\ \A i, j \in 1 .. n : s[i] = s[j] => i = j
      /\ DOMAIN flist.next = {s[i] : i \in 1 .. n}
      /\ flist.first = At(s, n, 1)
      /\ \A i \in 1 .. n : flist.next[s[i]] = At(s, n, i + 1)
  BY <1>1 DEF IsList
<1> DEFINE D == DOMAIN flist.next
           from == CHOOSE f : f = [b \in D \cup {NULL} |->
                     IF b = NULL THEN {}
                     ELSE IF head[b].size = 0 THEN {} ELSE {b} \cup f[flist.next[b]]]
<1>3. NULL \notin D /\ \A i \in 1 .. n : s[i] \in D /\ s[i] # NULL
  <2>1. NULL \notin D
    BY NotABlock
  <2>2. \A i \in 1 .. n : s[i] \in D
    BY <1>2
  <2> QED
    BY <2>1, <2>2
<1>4. from = [b \in D \cup {NULL} |->
                IF b = NULL THEN {}
                ELSE IF head[b].size = 0 THEN {} ELSE {b} \cup from[flist.next[b]]]
  <2> DEFINE rest(i) == {s[j] : j \in i .. n}
             place(b) == CHOOSE i \in 1 .. n : s[i] = b
             g == [b \in D \cup {NULL} |-> IF b = NULL THEN {} ELSE rest(place(b))]
             h == [b \in D \cup {NULL} |->
                     IF b = NULL THEN {}
                     ELSE IF head[b].size = 0 THEN {} ELSE {b} \cup g[flist.next[b]]]
  <2>1. \A i \in 1 .. n : place(s[i]) = i
    BY <1>2
  <2> HIDE DEF place
  <2>2. ASSUME NEW i \in 1 .. n, i # n PROVE i + 1 \in 1 .. n /\ rest(i) = {s[i]} \cup rest(i + 1)
    <3>1. i + 1 \in 1 .. n /\ i \in i .. n
      BY <1>2, <2>2
    <3>2. \A j \in i .. n : j = i \/ j \in i + 1 .. n
      BY <1>2
    <3>3. \A j \in i + 1 .. n : j \in i .. n
      BY <1>2
    <3> QED
      BY <3>1, <3>2, <3>3
  <2>3. n # 0 => rest(n) = {s[n]}
    <3>1. n .. n = {n}
      BY <1>2
    <3> QED
      BY <3>1
  <2> HIDE DEF rest
  <2>6. ASSUME NEW b \in D PROVE g[b] = h[b]
    <3>1. PICK i \in 1 .. n : b = s[i]
      BY <1>2
    <3>2. b # NULL /\ g[b] = rest(i)
      BY <1>3, <2>1, <3>1
    <3>3. h[b] = {b} \cup g[flist.next[b]]
      BY <3>2
    <3>5. CASE i = n
      <4>1. n # 0 /\ flist.next[b] = NULL
        BY <1>2, <3>1, <3>5 DEF At
      <4>2. g[NULL] = {}
        OBVIOUS
      <4> QED
        BY <2>3, <3>1, <3>2, <3>3, <3>5, <4>1, <4>2
    <3>6. CASE i # n
      <4>2. flist.next[b] = s[i + 1] /\ s[i + 1] \in D /\ s[i + 1] # NULL
        BY <1>2, <1>3, <2>2, <3>1, <3>6 DEF At
      <4>3. g[s[i + 1]] = rest(i + 1)
        BY <2>1, <2>2, <3>6, <4>2
      <4>4. h[b] = {b} \cup rest(i + 1)
        <5> HIDE DEF g, h
        <5> QED
          BY <3>3, <4>2, <4>3
      <4>5. rest(i) = {b} \cup rest(i + 1)
        BY <2>2, <3>1, <3>6
      <4> QED
        BY <3>2, <4>4, <4>5
    <3> QED
      BY <3>5, <3>6
  <2>7. g[NULL] = {} /\ h[NULL] = {}
    OBVIOUS
  <2>8. g = h
    <3>1. \A b \in D \cup {NULL} : g[b] = h[b]
      BY <2>6, <2>7
    <3>3. g = [b \in D \cup {NULL} |-> g[b]] /\ h = [b \in D \cup {NULL} |-> h[b]]
      OBVIOUS
    <3> HIDE DEF g, h
    <3> QED
      BY <3>1, <3>3
  <2>9. \E f : f = [b \in D \cup {NULL} |->
                     IF b = NULL THEN {}
                     ELSE IF head[b].size = 0 THEN {} ELSE {b} \cup f[flist.next[b]]]
    BY <2>8
  <2> QED
    BY <2>9
<1>5. Walked = from[flist.first]
  BY DEF Walked
<1> HIDE DEF from
<1> DEFINE Good == {b \in D \cup {NULL} : from[b] \subseteq D}
<1>6. NULL \in Good
  BY <1>4
<1>7. ASSUME NEW b \in D, flist.next[b] \in Good PROVE b \in Good
  <2>1. b # NULL
    BY <1>3
  <2>2. from[b] = IF head[b].size = 0 THEN {} ELSE {b} \cup from[flist.next[b]]
    BY <1>4, <2>1
  <2> QED
    BY <1>7, <2>2
<1>8. D \subseteq Good
  <2>1. Good \in SUBSET (D \cup {NULL})
    OBVIOUS
  <2> HIDE DEF Good
  <2> QED
    BY <1>6, <1>7, <2>1, WalkInduction
<1>9. flist.first \in Good
  BY <1>2, <1>3, <1>6, <1>8 DEF At
<1> QED
  BY <1>5, <1>9

-----------------------------------------------------------------------------
(* The blocks. *)

(* The headers h tile the arena and tell the truth about the block before, *)
(* except that the free flag of a block in X may not have been copied yet. *)
Tiled(h, X) ==
  /\ h \in [DOMAIN h -> Headers]
  /\ {0, Sentinel} \subseteq DOMAIN h
  /\ DOMAIN h \subseteq 0 .. Sentinel
  /\ h[Sentinel].size = 0 /\ ~h[Sentinel].free /\ ~h[0].bfree
  /\ \A b \in DOMAIN h \ {Sentinel} :
       /\ After(h, b) \in DOMAIN h
       /\ \A c \in DOMAIN h : b < c => After(h, b) <= c
       /\ h[After(h, b)].bsize = h[b].size
       /\ b \in X \/ h[After(h, b)].bfree = h[b].free

(* What an assignment to one field makes of a header. *)
LEMMA HeaderFields ==
  ASSUME NEW x \in Headers
  PROVE  /\ x.free \in BOOLEAN /\ x.bfree \in BOOLEAN /\ x.size \in Sizes /\ x.bsize \in Sizes
         /\ \A f \in BOOLEAN :
              /\ [x EXCEPT !.free = f] \in Headers /\ [x EXCEPT !.free = f].free = f
              /\ [x EXCEPT !.free = f].bfree = x.bfree
              /\ [x EXCEPT !.free = f].size = x.size /\ [x EXCEPT !.free = f].bsize = x.bsize
         /\ \A f \in BOOLEAN :
              /\ [x EXCEPT !.bfree = f] \in Headers /\ [x EXCEPT !.bfree = f].bfree = f
              /\ [x EXCEPT !.bfree = f].free = x.free
              /\ [x EXCEPT !.bfree = f].size = x.size /\ [x EXCEPT !.bfree = f].bsize = x.bsize
         /\ \A k \in Sizes :
              /\ [x EXCEPT !.size = k] \in Headers /\ [x EXCEPT !.size = k].size = k
              /\ [x EXCEPT !.size = k].bsize = x.bsize
              /\ [x EXCEPT !.size = k].free = x.free /\ [x EXCEPT !.size = k].bfree = x.bfree
         /\ \A k \in Sizes :
              /\ [x EXCEPT !.bsize = k] \in Headers /\ [x EXCEPT !.bsize = k].bsize = k
              /\ [x EXCEPT !.bsize = k].size = x.size
              /\ [x EXCEPT !.bsize = k].free = x.free /\ [x EXCEPT !.bsize = k].bfree = x.bfree
BY DEF Headers

(* A header is what it was made of. *)
LEMMA HeaderMade ==
  ASSUME NEW f \in BOOLEAN, NEW e \in BOOLEAN, NEW k \in Sizes, NEW i \in Sizes
  PROVE  /\ Header(e, i, f, k) \in Headers
         /\ Header(e, i, f, k).bfree = e /\ Header(e, i, f, k).bsize = i
         /\ Header(e, i, f, k).free = f /\ Header(e, i, f, k).size = k
BY DEF Headers, Header

(* The sizes that a header has, and where the sentinel is. *)
LEMMA Bounds ==
  /\ \A k : k \in Sizes <=> k \in Nat /\ k + 1 <= ShortSpan
  /\ ARENA \in Nat /\ 40 <= ARENA /\ ARENA <= ShortSpan /\ ShortSpan \in Nat
  /\ Sentinel \in Nat /\ Sentinel = ARENA - 8 /\ 32 <= Sentinel
<1>1. ARENA \in Nat /\ 40 <= ARENA /\ ARENA <= ShortSpan /\ ShortSpan \in Nat
  BY ArenaAssumption
<1>2. \A k : k \in Sizes <=> k \in Nat /\ k + 1 <= ShortSpan
  BY <1>1 DEF Sizes
<1>3. Sentinel \in Nat /\ Sentinel = ARENA - 8 /\ 32 <= Sentinel
  BY <1>1 DEF Sentinel, HEAD
<1> QED
  BY <1>1, <1>2, <1>3

(* Every block but the sentinel lies before it, and its after is farther on. *)
LEMMA Ordered ==
  ASSUME NEW h, NEW X, Tiled(h, X), NEW b \in DOMAIN h \ {Sentinel}
  PROVE  /\ b \in Nat /\ After(h, b) \in Nat /\ h[b].size \in Nat
         /\ After(h, b) = b + h[b].size + 8
         /\ b < After(h, b) /\ After(h, b) <= Sentinel
         /\ Sentinel = ARENA - 8 /\ ARENA <= ShortSpan
<1>1. h[b] \in Headers /\ b \in 0 .. Sentinel /\ After(h, b) \in 0 .. Sentinel
  BY DEF Tiled
<1>2. Sentinel = ARENA - 8 /\ ARENA <= ShortSpan /\ Sentinel \in Nat
  BY Bounds
<1>3. h[b].size \in Sizes /\ After(h, b) = b + h[b].size + 8
  BY <1>1, HeaderFields DEF After, HEAD
<1> QED
  BY <1>1, <1>2, <1>3, Bounds

(* Two blocks have different afters. *)
LEMMA AfterInjective ==
  ASSUME NEW h, NEW X, Tiled(h, X), NEW b \in DOMAIN h \ {Sentinel},
         NEW c \in DOMAIN h \ {Sentinel}, After(h, b) = After(h, c)
  PROVE  b = c
<1>1. b < c => After(h, b) <= c
  BY DEF Tiled
<1>2. c < b => After(h, c) <= b
  BY DEF Tiled
<1> QED
  BY <1>1, <1>2, Ordered

(* Every block but the first is the after of one, which before finds. *)
LEMMA Preceded ==
  ASSUME NEW h, NEW X, Tiled(h, X), NEW b \in DOMAIN h, b # 0
  PROVE  /\ Before(h, b) \in DOMAIN h \ {Sentinel}
         /\ After(h, Before(h, b)) = b
<1>1. DOMAIN h \subseteq Nat /\ 0 \in DOMAIN h /\ \A c \in DOMAIN h : c <= Sentinel
  BY Bounds DEF Tiled
<1> DEFINE T == {b - c : c \in {d \in DOMAIN h : d < b}}
<1>2. PICK m \in T : \A k \in T : m <= k
  <2>1. T \in SUBSET Nat
    BY <1>1
  <2>2. b - 0 \in T
    BY <1>1
  <2> HIDE DEF T
  <2> QED
    BY <2>1, <2>2, LeastNumber
<1>3. PICK p \in DOMAIN h : p < b /\ m = b - p
  BY <1>2
<1>4. p # Sentinel
  BY <1>1, <1>3, Bounds
<1>5. After(h, p) = b
  <2>1. After(h, p) \in DOMAIN h /\ After(h, p) <= b
    BY <1>3, <1>4 DEF Tiled
  <2>2. p < After(h, p)
    BY <1>4, Ordered
  <2>3. ~(After(h, p) < b)
    <3> SUFFICES ASSUME After(h, p) < b PROVE FALSE
      OBVIOUS
    <3>1. b - After(h, p) \in T
      BY <2>1
    <3>2. m <= b - After(h, p)
      BY <1>2, <3>1
    <3> QED
      BY <1>1, <1>3, <2>1, <2>2, <3>2
  <2> QED
    BY <1>1, <2>1, <2>3
<1>6. Before(h, b) = p
  <2>1. h[b].bsize = h[p].size
    BY <1>4, <1>5 DEF Tiled
  <2>2. b = p + h[p].size + 8 /\ p \in Nat /\ h[p].size \in Nat
    BY <1>4, <1>5, Ordered
  <2> QED
    BY <2>1, <2>2 DEF Before, HEAD
<1> QED
  BY <1>4, <1>5, <1>6

(* The headers g are h with the block b marked f in it and in its after a.   *)
FlagsSet(g, h, b, a, f) ==
  /\ g \in [DOMAIN h -> Headers]
  /\ \A c \in DOMAIN h : /\ g[c].size = h[c].size /\ g[c].bsize = h[c].bsize
                         /\ g[c].free = IF c = b THEN f ELSE h[c].free
                         /\ g[c].bfree = IF c = a THEN f ELSE h[c].bfree

(* A block that is not yet as its after says, marked in both. *)
LEMMA Marked ==
  ASSUME NEW h, NEW b \in DOMAIN h \ {Sentinel}, Tiled(h, {b}), NEW f, NEW g,
         FlagsSet(g, h, b, After(h, b), f)
  PROVE  Tiled(g, {})
<1>2. /\ g \in [DOMAIN h -> Headers]
      /\ \A c \in DOMAIN h : /\ g[c].size = h[c].size /\ g[c].bsize = h[c].bsize
                             /\ g[c].free = IF c = b THEN f ELSE h[c].free
                             /\ g[c].bfree = IF c = After(h, b) THEN f ELSE h[c].bfree
  BY DEF FlagsSet
<1>3. DOMAIN g = DOMAIN h /\ g \in [DOMAIN g -> Headers]
  BY <1>2
<1>4. \A c \in DOMAIN h : After(g, c) = After(h, c)
  BY <1>2 DEF After
<1>5. After(h, b) # 0 /\ b # Sentinel
  BY Ordered
<1>6. {0, Sentinel} \subseteq DOMAIN h /\ DOMAIN h \subseteq 0 .. Sentinel
      /\ h[Sentinel].size = 0 /\ ~h[Sentinel].free /\ ~h[0].bfree
  BY DEF Tiled
<1>7. /\ {0, Sentinel} \subseteq DOMAIN g /\ DOMAIN g \subseteq 0 .. Sentinel
      /\ g[Sentinel].size = 0 /\ ~g[Sentinel].free /\ ~g[0].bfree
  BY <1>2, <1>3, <1>5, <1>6
<1>8. ASSUME NEW c \in DOMAIN g \ {Sentinel}
      PROVE  /\ After(g, c) \in DOMAIN g
             /\ \A d \in DOMAIN g : c < d => After(g, c) <= d
             /\ g[After(g, c)].bsize = g[c].size
             /\ g[After(g, c)].bfree = g[c].free
  <2>1. /\ After(h, c) \in DOMAIN h
        /\ \A d \in DOMAIN h : c < d => After(h, c) <= d
        /\ h[After(h, c)].bsize = h[c].size
        /\ c = b \/ h[After(h, c)].bfree = h[c].free
    BY <1>3 DEF Tiled
  <2>2. c # b => After(h, c) # After(h, b)
    BY <1>3, AfterInjective
  <2>3. g[After(h, c)].bfree = g[c].free
    BY <1>2, <1>3, <2>1, <2>2
  <2> QED
    BY <1>2, <1>3, <1>4, <2>1, <2>3
<1> QED
  BY <1>3, <1>7, <1>8 DEF Tiled

(* The headers g are h with a block r of this size cut off the end of b. *)
IsSplit(g, h, b, size, r) ==
  /\ Tiled(g, {r})
  /\ r = b + h[b].size - size /\ r \notin DOMAIN h /\ r # Sentinel
  /\ DOMAIN g = DOMAIN h \cup {r}
  /\ g[b].size = h[b].size - size - 8 /\ g[b].size >= 16 /\ g[r].size = size
  /\ After(g, r) = After(h, b)
  /\ \A c \in DOMAIN h \ {b} : g[c].size = h[c].size
  /\ \A c \in DOMAIN h : g[c].free = h[c].free /\ g[c].bfree = h[c].bfree
  /\ g[r].free = FALSE /\ g[r].bfree = h[b].free

(* split leaves the arena tiled, with one more block, which is not free,   *)
(* though its after still says so.                                         *)
LEMMA SplitTiles ==
  ASSUME NEW h, Tiled(h, {}), NEW b \in DOMAIN h \ {Sentinel}, NEW size \in Nat,
         h[b].size >= LIMIT(size), NEW g, g = split(h, b, size), NEW r, r = After(g, b)
  PROVE  IsSplit(g, h, b, size, r)
<1> DEFINE a == After(h, b)
           k == h[b].size - size - 8
<1>1. /\ b \in Nat /\ h[b].size \in Sizes /\ a = b + h[b].size + 8
      /\ a \in DOMAIN h /\ a <= Sentinel /\ Sentinel \in Nat
      /\ h \in [DOMAIN h -> Headers]
      /\ h[b].size >= 24 + size
  <2>1. h[b] \in Headers /\ a \in DOMAIN h /\ h \in [DOMAIN h -> Headers]
    BY DEF Tiled
  <2> QED
    BY <2>1, Ordered, HeaderFields, Bounds DEF LIMIT, MIN, HEAD
<1>2. k \in Sizes /\ k >= 16 /\ size \in Sizes
  BY <1>1, Bounds
<1> DEFINE q == b + k + 8
<1>3. q \in Nat /\ b < q /\ q < a /\ q # b /\ q # a /\ a # b /\ q + size + 8 = a
  BY <1>1, <1>2, Bounds
<1>4. q \notin DOMAIN h
  <2>1. \A c \in DOMAIN h : b < c => a <= c
    BY DEF Tiled
  <2> QED
    BY <1>1, <1>3, <2>1
<1>5. /\ DOMAIN g = DOMAIN h \cup {q}
      /\ g[b] = [h[b] EXCEPT !.size = k]
      /\ g[q] = Header(h[b].free, k, FALSE, size)
      /\ g[a] = [h[a] EXCEPT !.bsize = size]
      /\ \A c \in DOMAIN h \ {a, b} : g[c] = h[c]
      /\ g = [c \in DOMAIN g |-> g[c]]
  <2> DEFINE h1 == [h EXCEPT ![b].size = k]
             h2 == Put(h1, q, Header(h[b].free, k, FALSE, size))
             h3 == Put(h2, a, [h[a] EXCEPT !.bsize = size])
  <2>1. g = h3
    BY DEF split, HEAD, After
  <2>2. /\ DOMAIN h1 = DOMAIN h /\ h1[b] = [h[b] EXCEPT !.size = k]
        /\ \A c \in DOMAIN h \ {b} : h1[c] = h[c]
    BY <1>1
  <2> HIDE DEF h1
  <2>3. /\ DOMAIN h2 = DOMAIN h \cup {q} /\ h2[q] = Header(h[b].free, k, FALSE, size)
        /\ \A c \in DOMAIN h : h2[c] = h1[c]
    BY <1>4, <2>2 DEF Put
  <2> HIDE DEF h2
  <2>4. /\ DOMAIN h3 = DOMAIN h2 \cup {a} /\ h3[a] = [h[a] EXCEPT !.bsize = size]
        /\ \A c \in DOMAIN h2 \ {a} : h3[c] = h2[c]
    BY DEF Put
  <2>5. h3 = [c \in DOMAIN h3 |-> h3[c]]
    BY DEF Put
  <2> HIDE DEF h3
  <2>6. g[b] = h1[b] /\ g[q] = h2[q] /\ g[a] = [h[a] EXCEPT !.bsize = size]
    <3>1. b \in DOMAIN h2 \ {a} /\ q \in DOMAIN h2 \ {a} /\ b \in DOMAIN h
      BY <1>3, <2>3
    <3>2. g[b] = h2[b] /\ g[q] = h2[q] /\ g[a] = [h[a] EXCEPT !.bsize = size]
      BY <2>1, <2>4, <3>1
    <3>3. h2[b] = h1[b]
      BY <2>3, <3>1
    <3> QED
      BY <3>2, <3>3
  <2>7. \A c \in DOMAIN h \ {a, b} : g[c] = h[c]
    BY <2>1, <2>2, <2>3, <2>4
  <2>8. DOMAIN g = DOMAIN h \cup {q}
    BY <1>1, <2>1, <2>3, <2>4
  <2>9. g = [c \in DOMAIN g |-> g[c]]
    BY <2>1, <2>5
  <2> QED
    BY <2>2, <2>3, <2>6, <2>7, <2>8, <2>9
<1> HIDE DEF a, k
<1>6. ASSUME NEW c \in DOMAIN h
      PROVE  /\ g[c] \in Headers
             /\ g[c].size = IF c = b THEN k ELSE h[c].size
             /\ g[c].bsize = IF c = a THEN size ELSE h[c].bsize
             /\ g[c].free = h[c].free /\ g[c].bfree = h[c].bfree
  <2>1. h[c] \in Headers
    BY <1>1
  <2>2. CASE c = b
    <3> DEFINE y == [h[b] EXCEPT !.size = k]
    <3>1. /\ y \in Headers /\ y.size = k /\ y.bsize = h[b].bsize
          /\ y.free = h[b].free /\ y.bfree = h[b].bfree
      BY <1>2, <2>1, <2>2, HeaderFields
    <3>2. g[c] = y
      BY <1>5, <2>2
    <3> HIDE DEF y
    <3> QED
      BY <1>3, <2>2, <3>1, <3>2
  <2>3. CASE c = a
    <3> DEFINE y == [h[a] EXCEPT !.bsize = size]
    <3>1. /\ y \in Headers /\ y.bsize = size /\ y.size = h[a].size
          /\ y.free = h[a].free /\ y.bfree = h[a].bfree
      BY <1>2, <2>1, <2>3, HeaderFields
    <3>2. g[c] = y
      BY <1>5, <2>3
    <3> HIDE DEF y
    <3> QED
      BY <1>3, <2>3, <3>1, <3>2
  <2>4. CASE c \notin {a, b}
    BY <1>5, <2>1, <2>4
  <2> QED
    BY <2>2, <2>3, <2>4
<1>7. /\ g[q] \in Headers /\ g[q].size = size /\ g[q].bsize = k
      /\ g[q].free = FALSE /\ g[q].bfree = h[b].free
  <2>1. h[b].free \in BOOLEAN
    BY <1>1, HeaderFields
  <2> DEFINE y == Header(h[b].free, k, FALSE, size)
  <2>3. y \in Headers /\ y.size = size /\ y.bsize = k /\ y.free = FALSE /\ y.bfree = h[b].free
    BY <1>2, <2>1 DEF Header, Headers
  <2>4. g[q] = y
    BY <1>5
  <2> HIDE DEF y
  <2> QED
    BY <2>3, <2>4
<1>8. r = q /\ q # Sentinel
  <2>1. r = b + g[b].size + 8
    BY DEF After, HEAD
  <2>2. g[b].size = k
    BY <1>6
  <2> QED
    BY <1>1, <1>2, <1>3, <2>1, <2>2
<1>9. After(g, q) = a
  BY <1>3, <1>7 DEF After, HEAD
<1>10. g \in [DOMAIN g -> Headers]
  <2>1. g = [c \in DOMAIN g |-> g[c]]
    BY <1>5
  <2> HIDE DEF q
  <2>2. \A c \in DOMAIN g : g[c] \in Headers
    BY <1>5, <1>6, <1>7
  <2> QED
    BY <2>1, <2>2
<1>11. /\ {0, Sentinel} \subseteq DOMAIN g /\ DOMAIN g \subseteq 0 .. Sentinel
       /\ g[Sentinel].size = 0 /\ ~g[Sentinel].free /\ ~g[0].bfree
  <2>1. /\ {0, Sentinel} \subseteq DOMAIN h /\ DOMAIN h \subseteq 0 .. Sentinel
        /\ h[Sentinel].size = 0 /\ ~h[Sentinel].free /\ ~h[0].bfree
    BY DEF Tiled
  <2>2. q \in 0 .. Sentinel
    BY <1>1, <1>3
  <2> QED
    BY <1>5, <1>6, <2>1, <2>2
<1>12. ASSUME NEW c \in DOMAIN g \ {Sentinel}
       PROVE  /\ After(g, c) \in DOMAIN g
              /\ \A d \in DOMAIN g : c < d => After(g, c) <= d
              /\ g[After(g, c)].bsize = g[c].size
              /\ c = q \/ g[After(g, c)].bfree = g[c].free
  <2>1. /\ \A d \in DOMAIN h : b < d => a <= d
        /\ h[a].bfree = h[b].free
    BY DEF Tiled, a
  <2>2. CASE c = q
    <3>1. \A d \in DOMAIN g : q < d => a <= d
      BY <1>1, <1>3, <1>5, <2>1, Ordered
    <3> QED
      BY <1>1, <1>5, <1>6, <1>7, <1>9, <2>2, <3>1
  <2>3. CASE c = b
    <3>1. After(g, c) = q
      BY <1>8, <2>3
    <3>2. \A d \in DOMAIN g : b < d => q <= d
      BY <1>1, <1>3, <1>5, <2>1, Ordered
    <3> QED
      BY <1>5, <1>6, <1>7, <2>3, <3>1, <3>2
  <2>4. CASE c # b /\ c # q
    <3>1. c \in DOMAIN h \ {Sentinel}
      BY <1>5, <2>4
    <3>2. /\ After(h, c) \in DOMAIN h
          /\ \A d \in DOMAIN h : c < d => After(h, c) <= d
          /\ h[After(h, c)].bsize = h[c].size
          /\ h[After(h, c)].bfree = h[c].free
      BY <3>1 DEF Tiled
    <3>3. After(g, c) = After(h, c)
      BY <1>6, <2>4, <3>1 DEF After
    <3>4. After(h, c) # a
      BY <2>4, <3>1, AfterInjective DEF a
    <3>5. c < q => After(h, c) <= q
      <4>1. c < b \/ b < c \/ c = b
        BY <1>1, <3>1, Ordered
      <4>2. b < c => a <= c
        BY <2>1, <3>1
      <4>3. c < b => After(h, c) <= b
        BY <3>2
      <4> QED
        BY <1>1, <1>3, <2>4, <3>1, <4>1, <4>2, <4>3, Ordered
    <3>6. /\ After(g, c) \in DOMAIN g
          /\ \A d \in DOMAIN g : c < d => After(g, c) <= d
      BY <1>5, <3>2, <3>3, <3>5
    <3>7. g[After(g, c)].bsize = g[c].size /\ g[After(g, c)].bfree = g[c].free
      BY <1>6, <2>4, <3>1, <3>2, <3>3, <3>4
    <3> QED
      BY <3>6, <3>7
  <2> QED
    BY <2>2, <2>3, <2>4
<1>13. Tiled(g, {q})
  BY <1>10, <1>11, <1>12 DEF Tiled
<1>14. q = b + h[b].size - size
  BY <1>1, <1>2, Bounds DEF k
<1> QED
  BY <1>2, <1>4, <1>5, <1>6, <1>7, <1>8, <1>9, <1>13, <1>14 DEF a, k, IsSplit

(* The headers g are h with the block c made part of the block b. *)
Merged(g, h, b, c) ==
  /\ Tiled(g, {b})
  /\ DOMAIN g = DOMAIN h \ {c}
  /\ After(g, b) = After(h, c)
  /\ g[b].size = h[b].size + h[c].size + 8
  /\ \A d \in DOMAIN g \ {b} : g[d].size = h[d].size
  /\ \A d \in DOMAIN g : g[d].free = h[d].free /\ g[d].bfree = h[d].bfree

(* A block and the one after it become one block, whose after has not been  *)
(* told whether it is free.                                                *)
LEMMA JoinedTiles ==
  ASSUME NEW h, NEW b \in DOMAIN h \ {Sentinel}, Tiled(h, {b}), NEW c, c = After(h, b),
         c # Sentinel, NEW g, g = Joined(h, b, c)
  PROVE  Merged(g, h, b, c)
<1> DEFINE a == After(h, c)
           k == h[b].size + h[c].size + 8
<1>1. /\ c \in DOMAIN h \ {Sentinel} /\ a \in DOMAIN h /\ h \in [DOMAIN h -> Headers]
      /\ \A d \in DOMAIN h : b < d => c <= d
      /\ \A d \in DOMAIN h : c < d => a <= d
      /\ h[c].bsize = h[b].size /\ h[a].bsize = h[c].size
      /\ c = b \/ h[a].bfree = h[c].free
  BY DEF Tiled
<1>2. /\ b \in Nat /\ c \in Nat /\ a \in Nat /\ h[b].size \in Nat /\ h[c].size \in Nat
      /\ c = b + h[b].size + 8 /\ a = c + h[c].size + 8 /\ b < c /\ c < a /\ a <= Sentinel
      /\ b # c /\ a # c /\ a # b
  BY <1>1, Ordered
<1>3. k \in Nat /\ k \in Sizes /\ a = b + k + 8
  BY <1>2, Bounds
<1> HIDE DEF k, a
<1> DEFINE h1 == [h EXCEPT ![b].size = k]
           h2 == Restrict(h1, DOMAIN h \ {c})
           h3 == [h2 EXCEPT ![After(h2, b)].bsize = k]
<1>4. /\ DOMAIN h1 = DOMAIN h /\ h1[b] = [h[b] EXCEPT !.size = k]
      /\ \A d \in DOMAIN h \ {b} : h1[d] = h[d]
  OBVIOUS
<1>5. /\ DOMAIN h2 = DOMAIN h \ {c}
      /\ \A d \in DOMAIN h \ {c} : h2[d] = h1[d]
  BY DEF Restrict
<1>6. g = h3
  BY DEF Joined, HEAD, k
<1> HIDE DEF h1, h2
<1>7. h2[b].size = k /\ After(h2, b) = a /\ a \in DOMAIN h2
  <2>1. h[b] \in Headers
    BY <1>1
  <2>2. h1[b].size = k
    BY <1>3, <1>4, <2>1, HeaderFields
  <2>3. h2[b].size = k
    BY <1>2, <1>5, <2>2
  <2> QED
    BY <1>1, <1>2, <1>3, <1>5, <2>3 DEF After, HEAD
<1>8. /\ DOMAIN g = DOMAIN h \ {c} /\ g[a] = [h2[a] EXCEPT !.bsize = k]
      /\ \A d \in DOMAIN g \ {a} : g[d] = h2[d]
      /\ g = [d \in DOMAIN g |-> g[d]]
  BY <1>5, <1>6, <1>7
<1> HIDE DEF h3
<1>9. ASSUME NEW d \in DOMAIN g
      PROVE  /\ g[d] \in Headers
             /\ g[d].size = IF d = b THEN k ELSE h[d].size
             /\ g[d].bsize = IF d = a THEN k ELSE h[d].bsize
             /\ g[d].free = h[d].free /\ g[d].bfree = h[d].bfree
  <2>1. d \in DOMAIN h /\ d # c /\ h[d] \in Headers
    BY <1>1, <1>8
  <2>2. CASE d = b
    <3> DEFINE y == [h[b] EXCEPT !.size = k]
    <3>1. /\ y \in Headers /\ y.size = k /\ y.bsize = h[b].bsize
          /\ y.free = h[b].free /\ y.bfree = h[b].bfree
      BY <1>3, <2>1, <2>2, HeaderFields
    <3>2. g[d] = h2[b] /\ h2[b] = h1[b]
      BY <1>2, <1>5, <1>8, <2>1, <2>2
    <3>3. h1[b] = y
      BY <1>4
    <3> HIDE DEF y
    <3> QED
      BY <1>2, <2>2, <3>1, <3>2, <3>3
  <2>3. CASE d = a
    <3> DEFINE y == [h[a] EXCEPT !.bsize = k]
    <3>1. /\ y \in Headers /\ y.bsize = k /\ y.size = h[a].size
          /\ y.free = h[a].free /\ y.bfree = h[a].bfree
      BY <1>3, <2>1, <2>3, HeaderFields
    <3>2. h2[a] = h[a]
      BY <1>1, <1>2, <1>4, <1>5
    <3>3. g[d] = y
      BY <1>8, <2>3, <3>2
    <3> HIDE DEF y
    <3> QED
      BY <1>2, <2>3, <3>1, <3>3
  <2>4. CASE d \notin {a, b}
    <3>1. g[d] = h[d]
      BY <1>4, <1>5, <1>8, <2>1, <2>4
    <3> QED
      BY <2>1, <2>4, <3>1
  <2> QED
    BY <2>2, <2>3, <2>4
<1>10. g \in [DOMAIN g -> Headers]
  BY <1>8, <1>9
<1>11. /\ {0, Sentinel} \subseteq DOMAIN g /\ DOMAIN g \subseteq 0 .. Sentinel
       /\ g[Sentinel].size = 0 /\ ~g[Sentinel].free /\ ~g[0].bfree
  <2>1. /\ {0, Sentinel} \subseteq DOMAIN h /\ DOMAIN h \subseteq 0 .. Sentinel
        /\ h[Sentinel].size = 0 /\ ~h[Sentinel].free /\ ~h[0].bfree
    BY DEF Tiled
  <2>2. c # 0 /\ c # Sentinel
    BY <1>1, <1>2
  <2> QED
    BY <1>8, <1>9, <2>1, <2>2
<1>12. After(g, b) = a /\ b \in DOMAIN g
  <2>1. b \in DOMAIN g
    BY <1>2, <1>8
  <2>2. g[b].size = k
    BY <1>9, <2>1
  <2> QED
    BY <1>3, <2>1, <2>2 DEF After, HEAD
<1>13. ASSUME NEW d \in DOMAIN g \ {Sentinel}
       PROVE  /\ After(g, d) \in DOMAIN g
              /\ \A e \in DOMAIN g : d < e => After(g, d) <= e
              /\ g[After(g, d)].bsize = g[d].size
              /\ d = b \/ g[After(g, d)].bfree = g[d].free
  <2>1. a \in DOMAIN g
    BY <1>1, <1>2, <1>8
  <2>2. CASE d = b
    <3>1. \A e \in DOMAIN g : b < e => a <= e
      <4> SUFFICES ASSUME NEW e \in DOMAIN g, b < e PROVE a <= e
        OBVIOUS
      <4>1. e \in Nat /\ e \in DOMAIN h /\ e # c
        BY <1>8, <1>11, Bounds
      <4>2. c <= e
        BY <1>1, <4>1
      <4> QED
        BY <1>1, <1>2, <4>1, <4>2
    <3> QED
      BY <1>9, <1>12, <2>1, <2>2, <3>1
  <2>3. CASE d # b
    <3>1. d \in DOMAIN h \ {Sentinel} /\ d # c
      BY <1>8
    <3>2. /\ After(h, d) \in DOMAIN h
          /\ \A e \in DOMAIN h : d < e => After(h, d) <= e
          /\ h[After(h, d)].bsize = h[d].size
          /\ h[After(h, d)].bfree = h[d].free
      BY <2>3, <3>1 DEF Tiled
    <3>3. After(g, d) = After(h, d)
      BY <1>9, <2>3 DEF After
    <3>4. After(h, d) # c
      BY <2>3, <3>1, AfterInjective
    <3>5. After(h, d) # a
      BY <1>1, <3>1, AfterInjective DEF a
    <3>6. After(g, d) \in DOMAIN g
      BY <1>8, <3>2, <3>3, <3>4
    <3>7. \A e \in DOMAIN g : d < e => After(g, d) <= e
      BY <1>8, <3>2, <3>3
    <3>8. g[After(g, d)].bsize = g[d].size /\ g[After(g, d)].bfree = g[d].free
      BY <1>9, <2>3, <3>2, <3>3, <3>5, <3>6
    <3> QED
      BY <3>6, <3>7, <3>8
  <2> QED
    BY <2>2, <2>3
<1>14. Tiled(g, {b})
  BY <1>10, <1>11, <1>13 DEF Tiled
<1> QED
  BY <1>8, <1>9, <1>12, <1>14 DEF a, k, Merged

(* What is true with more blocks exempt. *)
LEMMA Weaker ==
  ASSUME NEW h, Tiled(h, {}), NEW X
  PROVE  Tiled(h, X)
BY DEF Tiled

(* The assignments with which find and dfree mark a block. *)
LEMMA Assigned ==
  ASSUME NEW h, h \in [DOMAIN h -> Headers], NEW b \in DOMAIN h, NEW a \in DOMAIN h, a # b,
         NEW f \in BOOLEAN, NEW g,
         \/ g = [h EXCEPT ![b].free = f, ![a].bfree = f]
         \/ g = [h EXCEPT ![a].bfree = f, ![b].free = f]
  PROVE  FlagsSet(g, h, b, a, f)
<1> DEFINE x == [h[b] EXCEPT !.free = f]
           y == [h[a] EXCEPT !.bfree = f]
<1>1. /\ x \in Headers /\ x.free = f /\ x.bfree = h[b].bfree
      /\ x.size = h[b].size /\ x.bsize = h[b].bsize
  BY HeaderFields
<1>2. /\ y \in Headers /\ y.bfree = f /\ y.free = h[a].free
      /\ y.size = h[a].size /\ y.bsize = h[a].bsize
  BY HeaderFields
<1>3. g = [c \in DOMAIN h |-> IF c = b THEN x ELSE IF c = a THEN y ELSE h[c]]
  <2>1. CASE g = [h EXCEPT ![b].free = f, ![a].bfree = f]
    BY <2>1
  <2>2. CASE g = [h EXCEPT ![a].bfree = f, ![b].free = f]
    BY <2>2
  <2> QED
    BY <2>1, <2>2
<1> HIDE DEF x, y
<1>4. ASSUME NEW c \in DOMAIN h
      PROVE  /\ g[c] \in Headers
             /\ g[c].size = h[c].size /\ g[c].bsize = h[c].bsize
             /\ g[c].free = IF c = b THEN f ELSE h[c].free
             /\ g[c].bfree = IF c = a THEN f ELSE h[c].bfree
  <2>1. CASE c = b
    BY <1>1, <1>3, <2>1
  <2>2. CASE c = a
    BY <1>2, <1>3, <2>2
  <2>3. CASE c \notin {a, b}
    <3>1. g[c] = h[c]
      BY <1>3, <2>3
    <3> QED
      BY <2>3, <3>1
  <2> QED
    BY <2>1, <2>2, <2>3
<1> QED
  BY <1>3, <1>4 DEF FlagsSet

-----------------------------------------------------------------------------
(* The allocator. *)

Free(h) == {b \in DOMAIN h : h[b].free}

Taken(h) == {b \in DOMAIN h \ {Sentinel} : ~h[b].free}

NoTwoFree(h) == \A b \in DOMAIN h : ~(h[b].free /\ h[b].bfree)

(* Blocks that have room for the links when they are free. *)
Sized(h) ==
  \A b \in DOMAIN h : /\ b % 8 = 0 /\ h[b].size % 8 = 0
                      /\ b # Sentinel => h[b].size >= 16

(* Before init, and after it.  This is so also when the process has died:   *)
(* a step that would crash is not taken.                                   *)
Unstarted == DOMAIN head = {} /\ flist = EmptyList /\ DOMAIN held = {}

Started ==
  /\ Tiled(head, {})
  /\ Linked(flist)
  /\ DOMAIN flist.next = Free(head)
  /\ DOMAIN held = {b + HEAD : b \in Taken(head)}
  /\ merging => NoTwoFree(head)

DLInv ==
  /\ merging \in BOOLEAN
  /\ fault \in {"none", "null", "not ok", "overrun"}
  /\ Unstarted \/ Started

(* An empty list is in order. *)
LEMMA EmptyLinked == Linked(EmptyList)
<1> DEFINE s == [i \in 1 .. 0 |-> 0]
<1>1. IsList(EmptyList, s, 0)
  BY DEF IsList, EmptyList, At
<1> QED
  BY <1>1 DEF Linked

(* The arena that new makes is tiled by one free block. *)
LEMMA NewTiles ==
  ASSUME DOMAIN head = {}
  PROVE  /\ Tiled(new, {}) /\ Free(new) = {0} /\ Taken(new) = {} /\ NoTwoFree(new)
         /\ Sized(new)
<1> DEFINE size == ARENA - 2 * HEAD
           x == Header(FALSE, 0, TRUE, size)
           y == Header(TRUE, size, FALSE, 0)
<1>1. size \in Nat /\ size = Sentinel - 8 /\ size >= 24 /\ size \in Sizes /\ 0 \in Sizes
      /\ Sentinel \in Nat /\ Sentinel # 0
  BY Bounds DEF HEAD
<1>2. /\ x \in Headers /\ x.bfree = FALSE /\ x.bsize = 0 /\ x.free = TRUE /\ x.size = size
      /\ y \in Headers /\ y.bfree = TRUE /\ y.bsize = size /\ y.free = FALSE /\ y.size = 0
  BY <1>1 DEF Header, Headers
<1>3. new = [c \in {0, Sentinel} |-> IF c = 0 THEN x ELSE y]
  <2> HIDE DEF x, y
  <2>1. new = Put(Put(head, 0, x), Sentinel, y)
    BY DEF new, x, y
  <2>2. DOMAIN Put(head, 0, x) = {0} /\ Put(head, 0, x)[0] = x
    BY DEF Put
  <2>3. new = [c \in {0} \cup {Sentinel} |-> IF c = Sentinel THEN y ELSE Put(head, 0, x)[c]]
    BY <2>1, <2>2 DEF Put
  <2> QED
    BY <1>1, <2>2, <2>3
<1> HIDE DEF x, y, size
<1>4. DOMAIN new = {0, Sentinel} /\ new[0] = x /\ new[Sentinel] = y
      /\ new \in [DOMAIN new -> Headers]
  BY <1>1, <1>2, <1>3
<1>5. After(new, 0) = Sentinel
  BY <1>1, <1>2, <1>4 DEF After, HEAD
<1>6. Tiled(new, {})
  <2>1. /\ {0, Sentinel} \subseteq DOMAIN new /\ DOMAIN new \subseteq 0 .. Sentinel
        /\ new[Sentinel].size = 0 /\ ~new[Sentinel].free /\ ~new[0].bfree
    BY <1>1, <1>2, <1>4
  <2>2. /\ After(new, 0) \in DOMAIN new
        /\ \A c \in DOMAIN new : 0 < c => After(new, 0) <= c
        /\ new[After(new, 0)].bsize = new[0].size
        /\ new[After(new, 0)].bfree = new[0].free
    <3>1. \A c \in DOMAIN new : 0 < c => Sentinel <= c
      BY <1>1, <1>4
    <3>2. new[Sentinel].bfree = new[0].free
      BY <1>2, <1>4
    <3>3. new[Sentinel].bsize = new[0].size
      BY <1>2, <1>4
    <3> QED
      BY <1>4, <1>5, <3>1, <3>2, <3>3
  <2>3. \A b \in DOMAIN new \ {Sentinel} : b = 0
    BY <1>4
  <2> QED
    BY <1>4, <2>1, <2>2, <2>3 DEF Tiled
<1>7. ARENA % 8 = 0 /\ ARENA \in Nat
  BY ArenaAssumption
<1>8. Sized(new)
  <2>1. Sentinel % 8 = 0 /\ size % 8 = 0
    BY <1>7, Bounds DEF size, HEAD
  <2> QED
    BY <1>1, <1>2, <1>4, <2>1 DEF Sized
<1> QED
  BY <1>1, <1>2, <1>4, <1>6, <1>8 DEF Free, Taken, NoTwoFree

(* A step that changes none of the allocator's data. *)
LEMMA Unchanged ==
  ASSUME DLInv, UNCHANGED <<head, flist, held, merging>>,
         fault' \in {"none", "null", "not ok", "overrun"}
  PROVE  DLInv'
<1>1. Started => Started'
  BY DEF Started
<1>2. Unstarted => Unstarted'
  BY DEF Unstarted
<1> QED
  BY <1>1, <1>2 DEF DLInv

(* init makes one free block of the arena, or the process dies. *)
LEMMA InitStep ==
  ASSUME DLInv, init
  PROVE  /\ DLInv' /\ held' = held
         /\ fault' = fault \/ fault' = "null"
         /\ UNCHANGED <<head, flist>> \/ (head' = new /\ DOMAIN held = {} /\ DOMAIN head = {})
<1>1. CASE Die("null")
  BY <1>1, Unchanged DEF Die
<1>2. CASE DOMAIN head = {} /\ head' = new /\ flist' = insert(flist, 0) /\ UNCHANGED <<held, merging, fault>>
  <2>1. ~Started
    BY <1>2 DEF Started, Tiled
  <2>2. Unstarted
    BY <2>1 DEF DLInv
  <2>3. Linked(flist) /\ DOMAIN flist.next = {}
    BY <2>2, EmptyLinked DEF Unstarted, EmptyList
  <2>4. Linked(flist') /\ DOMAIN flist'.next = {0}
    BY <1>2, <2>3, Inserted
  <2>5. Tiled(head', {}) /\ Free(head') = {0} /\ Taken(head') = {} /\ NoTwoFree(head')
    BY <1>2, NewTiles
  <2>6. DOMAIN held' = {b + HEAD : b \in Taken(head')}
    BY <1>2, <2>2, <2>5 DEF Unstarted
  <2>7. Started'
    BY <2>4, <2>5, <2>6 DEF Started
  <2> QED
    BY <1>2, <2>2, <2>7 DEF DLInv, Unstarted
<1> QED
  BY <1>1, <1>2 DEF init

(* The block b is to be put on the free list l, which has the other free    *)
(* ones.                                                                   *)
Pending(h, l, b) ==
  /\ b \in DOMAIN h \ {Sentinel}
  /\ Tiled(h, {b})
  /\ Linked(l)
  /\ DOMAIN l.next = Free(h) \ {b}

(* From headers h with y to be freed to headers g with b to be freed. *)
Joins(g, h, b, y) ==
  /\ Taken(g) \ {b} = Taken(h) \ {y}
  /\ \A d \in Taken(h) \ {y} : g[d].size = h[d].size
  /\ \A d \in DOMAIN g : d \in DOMAIN h /\ g[d].free = h[d].free /\ g[d].bfree = h[d].bfree
  /\ Sized(h) => Sized(g)

(* A block is merged with the one after it, one of them, x, being free and   *)
(* the other, y, to be freed.                                               *)
LEMMA JoinStep ==
  ASSUME NEW h, NEW l, NEW b \in DOMAIN h \ {Sentinel}, Tiled(h, {b}), Linked(l),
         NEW c, c = After(h, b), c # Sentinel,
         NEW x \in {b, c}, NEW y \in {b, c}, x # y, h[x].free, DOMAIN l.next = Free(h) \ {y},
         NEW g, g = Joined(h, b, c)
  PROVE  Pending(g, detach(l, x), b) /\ Joins(g, h, b, y) /\ After(g, b) = After(h, c)
<1>0. Merged(g, h, b, c)
  BY JoinedTiles
<1>1. /\ Tiled(g, {b})
      /\ DOMAIN g = DOMAIN h \ {c}
      /\ After(g, b) = After(h, c)
      /\ g[b].size = h[b].size + h[c].size + 8
      /\ \A d \in DOMAIN g \ {b} : g[d].size = h[d].size
      /\ \A d \in DOMAIN g : g[d].free = h[d].free /\ g[d].bfree = h[d].bfree
  BY <1>0 DEF Merged
<1>2. c \in DOMAIN h /\ b # c /\ b \in DOMAIN g
  <2>1. c \in DOMAIN h
    BY DEF Tiled
  <2>2. b # c
    BY Ordered
  <2> QED
    BY <1>1, <2>1, <2>2
<1>3. x \in DOMAIN l.next /\ x \in {b, c} /\ y \in {b, c}
  BY <1>2 DEF Free
<1>4. Linked(detach(l, x)) /\ DOMAIN detach(l, x).next = DOMAIN l.next \ {x}
  BY <1>3, Detached
<1>5. Free(g) = Free(h) \ {c}
  BY <1>1 DEF Free
<1>6. (Free(h) \ {y}) \ {x} = (Free(h) \ {c}) \ {b}
  BY <1>3
<1>7. Pending(g, detach(l, x), b)
  BY <1>1, <1>2, <1>4, <1>5, <1>6 DEF Pending
<1>8. Taken(g) = Taken(h) \ {c}
  BY <1>1 DEF Taken
<1>9. x \notin Taken(h)
  BY DEF Taken
<1>10. Taken(g) \ {b} = Taken(h) \ {y}
  BY <1>3, <1>8, <1>9
<1>11. \A d \in Taken(h) \ {y} : d \in DOMAIN g \ {b}
  BY <1>10 DEF Taken
<1>12. Sized(h) => Sized(g)
  <2> SUFFICES ASSUME Sized(h), NEW d \in DOMAIN g
               PROVE  d % 8 = 0 /\ g[d].size % 8 = 0 /\ (d # Sentinel => g[d].size >= 16)
    BY DEF Sized
  <2>1. CASE d = b
    <3>1. h[b].size \in Nat /\ h[c].size \in Nat
      BY <1>2, Ordered
    <3>2. b % 8 = 0 /\ h[b].size % 8 = 0 /\ h[c].size % 8 = 0 /\ h[b].size >= 16
      BY <1>2 DEF Sized
    <3> QED
      BY <1>1, <2>1, <3>1, <3>2
  <2>2. CASE d # b
    BY <1>1, <2>2 DEF Sized
  <2> QED
    BY <2>1, <2>2
<1> QED
  BY <1>1, <1>7, <1>10, <1>11, <1>12 DEF Joins

(* merge takes the free neighbours of a block off the free list.            *)
LEMMA MergeStep ==
  ASSUME NEW h, NEW l, NEW b \in Taken(h), Tiled(h, {}), Linked(l), DOMAIN l.next = Free(h),
         NEW m, m = merge(h, l, b)
  PROVE  /\ Pending(m.head, m.flist, m.block) /\ Joins(m.head, h, m.block, b)
         /\ NoTwoFree(h) => /\ NoTwoFree(m.head) /\ ~m.head[m.block].bfree
                            /\ ~m.head[After(m.head, m.block)].free
<1> DEFINE m1 == MergeBefore(h, l, b)
           g == m1.head
           k == m1.block
           c == After(g, k)
<1>1. b \in DOMAIN h \ {Sentinel} /\ ~h[b].free /\ DOMAIN l.next = Free(h) \ {b}
  BY DEF Taken, Free
<1>2. /\ Pending(g, m1.flist, k) /\ Joins(g, h, k, b)
      /\ NoTwoFree(h) => NoTwoFree(g) /\ ~g[k].bfree
      /\ m1 = [block |-> k, head |-> g, flist |-> m1.flist]
  <2>1. CASE h[b].bfree
    <3> DEFINE p == Before(h, b)
    <3>1. b # 0
      BY <2>1 DEF Tiled
    <3>2. p \in DOMAIN h \ {Sentinel} /\ After(h, p) = b
      BY <1>1, <3>1, Preceded
    <3>3. h[p].free /\ p # b
      BY <1>1, <2>1, <3>2 DEF Tiled
    <3>4. m1 = [block |-> p, head |-> Joined(h, p, b), flist |-> detach(l, p)]
      BY <2>1 DEF MergeBefore
    <3> HIDE DEF p, m1
    <3>5. k = p /\ g = Joined(h, p, b) /\ m1.flist = detach(l, p)
      BY <3>4
    <3>6. Pending(g, detach(l, p), p) /\ Joins(g, h, p, b)
      <4>1. Tiled(h, {p})
        BY Weaker
      <4>2. b # Sentinel /\ p \in {p, b} /\ b \in {p, b}
        BY <1>1
      <4> HIDE DEF g, k
      <4> QED
        BY <1>1, <3>2, <3>3, <3>5, <4>1, <4>2, JoinStep
    <3>7. NoTwoFree(h) => NoTwoFree(g) /\ ~g[p].bfree
      BY <3>2, <3>3, <3>6 DEF NoTwoFree, Joins, Pending
    <3> QED
      BY <3>4, <3>5, <3>6, <3>7
  <2>2. CASE ~h[b].bfree
    <3>1. m1 = [block |-> b, head |-> h, flist |-> l]
      BY <2>2 DEF MergeBefore
    <3> HIDE DEF m1
    <3>2. k = b /\ g = h /\ m1.flist = l
      BY <3>1
    <3>3. Pending(h, l, b)
      BY <1>1, Weaker DEF Pending
    <3>4. Joins(h, h, b, b)
      BY DEF Joins
    <3> QED
      BY <2>2, <3>1, <3>2, <3>3, <3>4
  <2> QED
    BY <2>1, <2>2
<1>3. m = IF g[c].free THEN [m1 EXCEPT !.head = Joined(g, k, c), !.flist = detach(m1.flist, c)]
          ELSE m1
  BY DEF merge
<1> HIDE DEF m1
<1>4. CASE g[c].free
  <2>1. k \in DOMAIN g \ {Sentinel} /\ Tiled(g, {k}) /\ Linked(m1.flist)
        /\ DOMAIN m1.flist.next = Free(g) \ {k}
    BY <1>2 DEF Pending
  <2>2. c \in DOMAIN g /\ c # k
    <3>1. c \in DOMAIN g
      BY <2>1 DEF Tiled
    <3>2. c # k
      BY <2>1, Ordered
    <3> QED
      BY <3>1, <3>2
  <2>3. c # Sentinel
    BY <1>4, <2>1 DEF Tiled
  <2>4. /\ m.block = k /\ m.head = Joined(g, k, c) /\ m.flist = detach(m1.flist, c)
    BY <1>2, <1>3, <1>4
  <2>5. /\ Pending(m.head, m.flist, k) /\ Joins(m.head, g, k, k)
        /\ After(m.head, k) = After(g, c)
    BY <1>4, <2>1, <2>2, <2>3, <2>4, JoinStep
  <2>6. Joins(m.head, h, k, b)
    BY <1>2, <2>5 DEF Joins
  <2>7. NoTwoFree(h) => /\ NoTwoFree(m.head) /\ ~m.head[k].bfree
                        /\ ~m.head[After(m.head, k)].free
    <3> SUFFICES ASSUME NoTwoFree(h)
                 PROVE  /\ NoTwoFree(m.head) /\ ~m.head[k].bfree
                        /\ ~m.head[After(m.head, k)].free
      OBVIOUS
    <3>1. NoTwoFree(g) /\ ~g[k].bfree
      BY <1>2
    <3>2. NoTwoFree(m.head)
      BY <2>5, <3>1 DEF NoTwoFree, Joins
    <3>3. k \in DOMAIN m.head \ {Sentinel} /\ Tiled(m.head, {k})
      BY <2>5 DEF Pending
    <3>4. ~m.head[k].bfree
      BY <2>5, <3>1, <3>3 DEF Joins
    <3>5. After(g, c) \in DOMAIN g /\ g[After(g, c)].bfree = g[c].free
      BY <2>1, <2>2, <2>3 DEF Tiled
    <3>6. ~g[After(g, c)].free
      BY <1>4, <3>1, <3>5 DEF NoTwoFree
    <3>7. After(m.head, k) \in DOMAIN m.head
      BY <3>3 DEF Tiled
    <3>8. ~m.head[After(m.head, k)].free
      BY <2>5, <3>6, <3>7 DEF Joins
    <3> QED
      BY <3>2, <3>4, <3>8
  <2> QED
    BY <2>4, <2>5, <2>6, <2>7
<1>5. CASE ~g[c].free
  BY <1>2, <1>3, <1>5
<1> QED
  BY <1>4, <1>5

(* dfree gives up one block, and changes the size of no other that is taken. *)
LEMMA DfreeStep ==
  ASSUME DLInv, NEW p, dfree(p)
  PROVE  /\ DLInv'
         /\ p - HEAD \in Taken(head) /\ p \in Int
         /\ Taken(head') = Taken(head) \ {p - HEAD}
         /\ \A d \in Taken(head') : head'[d].size = head[d].size
         /\ held' = [q \in DOMAIN held \ {p} |-> held[q]]
         /\ Sized(head) => Sized(head') /\ fault' = "none"
         /\ fault' \in {"none", "overrun"}
<1> DEFINE b == p - HEAD
           m == IF merging THEN merge(head, flist, b)
                ELSE [block |-> b, head |-> head, flist |-> flist]
           h == m.head
           k == m.block
<1>1. /\ p \in DOMAIN held
      /\ held' = [q \in DOMAIN held \ {p} |-> held[q]]
      /\ head' = [h EXCEPT ![k].free = TRUE, ![After(h, k)].bfree = TRUE]
      /\ flist' = insert(m.flist, k)
      /\ fault' = IF LinksOverrun(h, k) THEN "overrun" ELSE "none"
      /\ merging' = merging
  BY DEF dfree, Restrict
<1>2. Started
  BY <1>1 DEF DLInv, Unstarted
<1>3. /\ Tiled(head, {}) /\ Linked(flist) /\ DOMAIN flist.next = Free(head)
      /\ DOMAIN held = {d + HEAD : d \in Taken(head)} /\ (merging => NoTwoFree(head))
  BY <1>2 DEF Started
<1>4. \A d \in DOMAIN head : d \in Nat
  BY <1>3, Bounds DEF Tiled
<1>5. b \in Taken(head) /\ p = b + HEAD /\ p \in Int
  <2>1. PICK d \in Taken(head) : p = d + HEAD
    BY <1>1, <1>3
  <2>2. d \in Nat
    BY <1>4 DEF Taken
  <2> QED
    BY <2>1, <2>2 DEF HEAD
<1>6. /\ Pending(h, m.flist, k) /\ Joins(h, head, k, b)
      /\ merging => /\ NoTwoFree(h) /\ ~h[k].bfree
                    /\ ~h[After(h, k)].free
  <2>1. CASE merging
    <3>1. m = merge(head, flist, b)
      BY <2>1
    <3> HIDE DEF m, b
    <3> QED
      BY <1>3, <1>5, <2>1, <3>1, MergeStep
  <2>2. CASE ~merging
    <3>1. h = head /\ k = b /\ m.flist = flist
      BY <2>2
    <3> HIDE DEF m, b
    <3>2. Pending(head, flist, b)
      BY <1>3, <1>5, Weaker DEF Pending, Taken, Free
    <3>3. Joins(head, head, b, b)
      BY DEF Joins
    <3> QED
      BY <2>2, <3>1, <3>2, <3>3
  <2> QED
    BY <2>1, <2>2
<1> HIDE DEF m, b
<1>7. /\ k \in DOMAIN h \ {Sentinel} /\ Tiled(h, {k}) /\ Linked(m.flist)
      /\ DOMAIN m.flist.next = Free(h) \ {k}
  BY <1>6 DEF Pending
<1>8. h \in [DOMAIN h -> Headers] /\ After(h, k) \in DOMAIN h /\ After(h, k) # k /\ k \in Int
  <2>1. h \in [DOMAIN h -> Headers] /\ After(h, k) \in DOMAIN h
    BY <1>7 DEF Tiled
  <2>2. After(h, k) # k /\ k \in Int
    BY <1>7, Ordered
  <2> QED
    BY <2>1, <2>2
<1>20. FlagsSet(head', h, k, After(h, k), TRUE)
  <2>1. k \in DOMAIN h /\ TRUE \in BOOLEAN
    BY <1>7
  <2> QED
    BY <1>1, <1>8, <2>1, Assigned
<1>9. /\ head' \in [DOMAIN h -> Headers]
      /\ \A c \in DOMAIN h : /\ head'[c].size = h[c].size /\ head'[c].bsize = h[c].bsize
                             /\ head'[c].free = IF c = k THEN TRUE ELSE h[c].free
                             /\ head'[c].bfree = IF c = After(h, k) THEN TRUE ELSE h[c].bfree
  BY <1>20 DEF FlagsSet
<1>10. Tiled(head', {})
  BY <1>7, <1>20, Marked
<1>11. Linked(flist') /\ DOMAIN flist'.next = (Free(h) \ {k}) \cup {k}
  BY <1>1, <1>7, <1>8, Inserted
<1>12. Free(head') = Free(h) \cup {k} /\ Taken(head') = Taken(h) \ {k}
  BY <1>7, <1>9 DEF Free, Taken
<1>13. Taken(head') = Taken(head) \ {b}
  BY <1>6, <1>12 DEF Joins
<1>14. DOMAIN held' = {d + HEAD : d \in Taken(head')}
  <2>1. \A d \in Taken(head) : d \in Nat
    BY <1>4 DEF Taken
  <2>2. \A d \in Taken(head) : d + HEAD = p <=> d = b
    BY <1>5, <2>1 DEF HEAD
  <2>3. DOMAIN held' = DOMAIN held \ {p}
    BY <1>1
  <2> QED
    BY <1>3, <1>13, <2>2, <2>3
<1>15. merging => NoTwoFree(head')
  <2> SUFFICES ASSUME merging, NEW c \in DOMAIN head' PROVE ~(head'[c].free /\ head'[c].bfree)
    BY DEF NoTwoFree
  <2> QED
    BY <1>6, <1>8, <1>9 DEF NoTwoFree
<1>16. Started'
  BY <1>1, <1>10, <1>11, <1>12, <1>14, <1>15 DEF Started
<1>17. \A d \in Taken(head') : head'[d].size = head[d].size
  <2>1. \A d \in Taken(head) \ {b} : h[d].size = head[d].size
    BY <1>6 DEF Joins
  <2>2. \A d \in Taken(head') : d \in DOMAIN h
    BY <1>12 DEF Taken
  <2> QED
    BY <1>9, <1>13, <2>1, <2>2
<1>18. Sized(head) => Sized(head') /\ fault' = "none"
  <2>1. Sized(head) => Sized(h)
    BY <1>6 DEF Joins
  <2>2. Sized(h) => Sized(head')
    <3>1. DOMAIN head' = DOMAIN h /\ \A c \in DOMAIN h : head'[c].size = h[c].size
      BY <1>9
    <3> QED
      BY <3>1 DEF Sized
  <2>3. h[k].size \in Nat
    BY <1>7, Ordered
  <2>4. Sized(h) => ~LinksOverrun(h, k)
    BY <1>7, <2>3 DEF Sized, LinksOverrun, LinkBytes
  <2> QED
    BY <1>1, <2>1, <2>2, <2>4
<1> QED
  BY <1>1, <1>5, <1>13, <1>16, <1>17, <1>18 DEF DLInv, b

(* adjust returns an integer. *)
LEMMA AdjustTyped ==
  ASSUME NEW r \in Nat
  PROVE  adjust(r) \in Int
<1>1. IntSpan \in Nat /\ IntSpan > 0
  BY ArenaAssumption
<1>2. \A n \in Int : ToInt(n) \in Int
  BY <1>1 DEF ToInt
<1>3. \A n \in Int : Remainder(n, 8) \in Int
  BY DEF Remainder
<1>4. MIN(r) \in Int
  BY DEF MIN
<1> QED
  BY <1>2, <1>3, <1>4 DEF adjust, ALIGN

(* With the block c the client is given what it asked for.                 *)
Gives(c, requested) ==
  /\ c \in DOMAIN head' \ {Sentinel} /\ c \in Nat
  /\ c \notin Taken(head)
  /\ Taken(head') = Taken(head) \cup {c}
  /\ head'[c].size >= adjust(requested)
  /\ Give(c, requested)

(* dalloc takes one block, and changes the size of no other that is taken.   *)
LEMMA DallocStep ==
  ASSUME DLInv, NEW r \in Requests, dalloc(r)
  PROVE  /\ DLInv' /\ fault' = fault /\ r > 0
         /\ \E c : Gives(c, r)
         /\ \A d \in Taken(head) : head'[d].size = head[d].size
         /\ Sized(head) /\ adjust(r) % 8 = 0 /\ adjust(r) >= 16 => Sized(head')
<1> DEFINE size == adjust(r)
           b == FirstFit(size)
<1>1. /\ fault = "none" /\ r > 0 /\ b # NULL /\ merging' = merging
      /\ FindSplits(b, size, r) \/ FindWhole(b, size, r)
  BY DEF dalloc, Alive
<1>2. size \in Int
  BY AdjustTyped, ArenaAssumption
<1>3. Started
  <2> SUFFICES ASSUME Unstarted PROVE FALSE
    BY DEF DLInv
  <2>1. Linked(flist) /\ DOMAIN flist.next = {}
    BY EmptyLinked DEF Unstarted, EmptyList
  <2> HIDE DEF size
  <2> QED
    BY <1>1, <2>1, FirstFits
<1>4. /\ Tiled(head, {}) /\ Linked(flist) /\ DOMAIN flist.next = Free(head)
      /\ DOMAIN held = {d + HEAD : d \in Taken(head)} /\ (merging => NoTwoFree(head))
  BY <1>3 DEF Started
<1>5. b \in Free(head) /\ head[b].size >= size /\ ~(size < 0)
  <2> HIDE DEF size
  <2> QED
    BY <1>1, <1>4, FirstFits
<1> HIDE DEF b, size
<1>6. size \in Nat
  BY <1>2, <1>5
<1>7. b \in DOMAIN head \ {Sentinel} /\ head[b].free /\ b \notin Taken(head)
  BY <1>4, <1>5 DEF Free, Taken, Tiled
<1>8. \A d \in DOMAIN head : d \in Nat
  BY <1>4, Bounds DEF Tiled
<1>9. head[b].size \in Nat /\ b \in Nat /\ After(head, b) # b
  BY <1>4, <1>7, Ordered
<1>10. ASSUME NEW c, Give(c, r), Taken(head') = Taken(head) \cup {c}
       PROVE  DOMAIN held' = {d + HEAD : d \in Taken(head')}
  <2>1. DOMAIN held' = DOMAIN held \cup {c + HEAD}
    BY <1>10 DEF Give
  <2> QED
    BY <1>4, <1>10, <2>1
<1>11. CASE FindWhole(b, size, r)
  <2>1. /\ head' = [head EXCEPT ![b].free = FALSE, ![After(head, b)].bfree = FALSE]
        /\ flist' = detach(flist, b) /\ Give(b, r) /\ fault' = fault
    BY <1>11 DEF FindWhole
  <2>2. FlagsSet(head', head, b, After(head, b), FALSE)
    <3>1. After(head, b) \in DOMAIN head /\ head \in [DOMAIN head -> Headers]
      BY <1>4, <1>7 DEF Tiled
    <3>2. b \in DOMAIN head /\ FALSE \in BOOLEAN
      BY <1>7
    <3> QED
      BY <1>9, <2>1, <3>1, <3>2, Assigned
  <2>3. Tiled(head', {})
    BY <1>4, <1>7, <2>2, Marked, Weaker
  <2>4. /\ DOMAIN head' = DOMAIN head
        /\ \A c \in DOMAIN head :
             /\ head'[c].size = head[c].size
             /\ head'[c].free = IF c = b THEN FALSE ELSE head[c].free
             /\ head'[c].bfree = IF c = After(head, b) THEN FALSE ELSE head[c].bfree
    BY <2>2 DEF FlagsSet
  <2>5. Free(head') = Free(head) \ {b} /\ Taken(head') = Taken(head) \cup {b}
    BY <1>7, <2>4 DEF Free, Taken
  <2>6. Linked(flist') /\ DOMAIN flist'.next = Free(head')
    BY <1>4, <1>5, <2>1, <2>5, Detached
  <2>7. NoTwoFree(head) => NoTwoFree(head')
    BY <2>4 DEF NoTwoFree
  <2>8. Started'
    BY <1>1, <1>4, <1>10, <2>1, <2>3, <2>5, <2>6, <2>7 DEF Started
  <2>9. Gives(b, r)
    BY <1>5, <1>7, <1>9, <2>1, <2>4, <2>5 DEF Gives, size
  <2>10. Sized(head) => Sized(head')
    BY <2>4 DEF Sized
  <2>11. \A d \in Taken(head) : head'[d].size = head[d].size
    BY <2>4 DEF Taken
  <2> QED
    BY <1>1, <2>1, <2>8, <2>9, <2>10, <2>11 DEF DLInv
<1>12. CASE FindSplits(b, size, r)
  <2> DEFINE g == split(head, b, size)
             k == After(g, b)
             a == After(g, k)
  <2>1. /\ head[b].size >= LIMIT(size)
        /\ head' = [g EXCEPT ![a].bfree = FALSE, ![k].free = FALSE]
        /\ flist' = insert(detach(flist, b), b)
        /\ fault' = IF LinksOverrun(g, b) THEN "overrun" ELSE "none"
        /\ Give(k, r)
    BY <1>12 DEF FindSplits
  <2>2. IsSplit(g, head, b, size, k)
    BY <1>4, <1>6, <1>7, <2>1, SplitTiles
  <2> HIDE DEF g, k
  <2>3. /\ Tiled(g, {k})
        /\ k = b + head[b].size - size /\ k \notin DOMAIN head /\ k # Sentinel
        /\ DOMAIN g = DOMAIN head \cup {k}
        /\ g[b].size = head[b].size - size - 8 /\ g[b].size >= 16 /\ g[k].size = size
        /\ \A c \in DOMAIN head \ {b} : g[c].size = head[c].size
        /\ \A c \in DOMAIN head : g[c].free = head[c].free /\ g[c].bfree = head[c].bfree
        /\ g[k].free = FALSE /\ g[k].bfree = head[b].free
    BY <2>2 DEF IsSplit
  <2>4. k \in DOMAIN g \ {Sentinel} /\ a \in DOMAIN g /\ g \in [DOMAIN g -> Headers]
    BY <2>3 DEF Tiled
  <2>5. a # k /\ k \in Nat
    BY <2>3, <2>4, Ordered
  <2>6. FlagsSet(head', g, k, a, FALSE)
    <3>1. k \in DOMAIN g /\ FALSE \in BOOLEAN
      BY <2>4
    <3> QED
      BY <2>1, <2>4, <2>5, <3>1, Assigned
  <2>7. Tiled(head', {})
    BY <2>3, <2>4, <2>6, Marked
  <2>8. /\ DOMAIN head' = DOMAIN head \cup {k}
        /\ \A c \in DOMAIN g :
             /\ head'[c].size = g[c].size
             /\ head'[c].free = IF c = k THEN FALSE ELSE g[c].free
             /\ head'[c].bfree = IF c = a THEN FALSE ELSE g[c].bfree
    BY <2>3, <2>6 DEF FlagsSet
  <2>9. Free(head') = Free(head) /\ Taken(head') = Taken(head) \cup {k}
    BY <2>3, <2>8 DEF Free, Taken
  <2>10. /\ Linked(flist')
         /\ DOMAIN flist'.next = (DOMAIN flist.next \ {b}) \cup {b}
    <3>1. Linked(detach(flist, b)) /\ DOMAIN detach(flist, b).next = DOMAIN flist.next \ {b}
      BY <1>4, <1>5, Detached
    <3> QED
      BY <1>9, <2>1, <3>1, Inserted
  <2>11. DOMAIN flist'.next = Free(head')
    BY <1>4, <1>5, <2>9, <2>10
  <2>12. NoTwoFree(head) => NoTwoFree(head')
    <3> SUFFICES ASSUME NoTwoFree(head), NEW c \in DOMAIN head' PROVE ~(head'[c].free /\ head'[c].bfree)
      BY DEF NoTwoFree
    <3>1. CASE c = k
      BY <2>4, <2>8, <3>1
    <3>2. CASE c # k
      <4>1. c \in DOMAIN head /\ c \in DOMAIN g
        BY <2>3, <2>8, <3>2
      <4>2. ~(g[c].free /\ g[c].bfree)
        BY <2>3, <4>1 DEF NoTwoFree
      <4> QED
        BY <2>8, <4>1, <4>2
    <3> QED
      BY <3>1, <3>2
  <2>13. Started'
    BY <1>1, <1>4, <1>10, <2>1, <2>7, <2>9, <2>10, <2>11, <2>12 DEF Started
  <2>14. Gives(k, r)
    <3>1. head'[k].size = size
      BY <2>3, <2>8
    <3>2. k \in DOMAIN head' \ {Sentinel} /\ k \notin Taken(head)
      BY <2>3, <2>8 DEF Taken
    <3>3. head'[k].size >= adjust(r)
      BY <1>2, <3>1 DEF size
    <3> QED
      BY <2>1, <2>5, <2>9, <3>2, <3>3 DEF Gives
  <2>15. fault' = "none"
    BY <1>6, <1>9, <2>1, <2>3 DEF LinksOverrun, LinkBytes
  <2>16. \A d \in Taken(head) : head'[d].size = head[d].size
    BY <1>7, <2>3, <2>8 DEF Taken
  <2>17. ASSUME Sized(head), size % 8 = 0, size >= 16 PROVE Sized(head')
    <3>1. b % 8 = 0 /\ head[b].size % 8 = 0
      BY <1>7, <2>17 DEF Sized
    <3>2. k % 8 = 0 /\ g[b].size % 8 = 0
      BY <1>6, <1>9, <2>3, <2>17, <3>1
    <3>3. \A c \in DOMAIN head \ {b} : c % 8 = 0 /\ g[c].size % 8 = 0 /\ (c # Sentinel => g[c].size >= 16)
      BY <2>3, <2>17 DEF Sized
    <3>4. \A c \in DOMAIN head' : head'[c].size = g[c].size /\ (c \in DOMAIN head \ {b} \/ c = b \/ c = k)
      BY <2>3, <2>8
    <3> QED
      BY <2>3, <2>17, <3>1, <3>2, <3>3, <3>4 DEF Sized
  <2> QED
    BY <1>1, <2>13, <2>14, <2>15, <2>16, <2>17 DEF DLInv, size
<1> QED
  BY <1>1, <1>11, <1>12

(* What is true of the allocator in every reachable state, whatever sizes   *)
(* the client asks for.                                                    *)
LEMMA DLInvariant == DLSpec => []DLInv
<1>1. Init => DLInv
  BY ArenaAssumption DEF Init, DLInv, Unstarted
<1>2. DLInv /\ [Next]_vars => DLInv'
  <2> SUFFICES ASSUME DLInv, [Next]_vars PROVE DLInv'
    OBVIOUS
  <2>1. CASE UNCHANGED vars
    BY <2>1, Unchanged DEF vars, DLInv
  <2>2. CASE init
    BY <2>2, InitStep
  <2>3. CASE sanity
    BY <2>3, Unchanged DEF sanity
  <2>4. ASSUME NEW r \in Requests, dalloc(r) PROVE DLInv'
    BY <2>4, DallocStep
  <2>5. ASSUME NEW p, dfree(p) PROVE DLInv'
    BY <2>5, DfreeStep
  <2> QED
    BY <2>1, <2>2, <2>3, <2>4, <2>5 DEF Next, Dead
<1> QED
  BY <1>1, <1>2, PTL DEF DLSpec

(* There are no more free blocks than bytes.                               *)
LEMMA FewBlocks ==
  ASSUME Started
  PROVE  Cardinality(DOMAIN flist.next) \in 0 .. ARENA
<1>1. DOMAIN flist.next \in SUBSET (0 .. Sentinel)
  BY DEF Started, Tiled, Free
<1>2. IsFiniteSet(0 .. Sentinel) /\ Cardinality(0 .. Sentinel) = Sentinel + 1
  BY Bounds, FS_Interval
<1>3. /\ IsFiniteSet(DOMAIN flist.next)
      /\ Cardinality(DOMAIN flist.next) <= Cardinality(0 .. Sentinel)
  BY <1>1, <1>2, FS_Subset
<1> QED
  BY <1>2, <1>3, Bounds, FS_CardinalityType

(* Before init the walk of the list is empty.                              *)
LEMMA EmptyWalk ==
  ASSUME Unstarted
  PROVE  /\ flist.first = NULL /\ DOMAIN flist.next = {} /\ DOMAIN flist.prev = {}
         /\ Listed = {}
<1>1. flist.first = NULL /\ DOMAIN flist.next = {} /\ DOMAIN flist.prev = {}
  BY DEF Unstarted, EmptyList
<1>2. Linked(flist)
  BY EmptyLinked DEF Unstarted
<1>3. Cardinality(DOMAIN flist.next) \in 0 .. ARENA
  BY <1>1, FS_EmptySet, Bounds
<1> QED
  BY <1>1, <1>2, <1>3, LinkedWalk

(* Every variable of dlmalloc.c has its type, for any arena, any requests   *)
(* and either variant: in particular every size fits its 16 bits.          *)
THEOREM DLTypeCorrect == DLSpec => []DLTypeOK
<1>1. DLInv => DLTypeOK
  <2> SUFFICES ASSUME DLInv PROVE DLTypeOK
    OBVIOUS
  <2>1. merging \in BOOLEAN /\ fault \in {"none", "null", "not ok", "overrun"}
    BY DEF DLInv
  <2>2. CASE Unstarted
    <3>1. DOMAIN head = {} /\ DOMAIN held = {}
      BY <2>2 DEF Unstarted
    <3> QED
      BY <2>1, <2>2, <3>1, EmptyWalk DEF DLTypeOK
  <2>3. CASE Started
    <3>1. /\ flist.first \in DOMAIN flist.next \cup {NULL}
          /\ DOMAIN flist.prev = DOMAIN flist.next
      BY <2>3, FewBlocks, LinkedWalk DEF Started
    <3>2. Tiled(head, {}) /\ DOMAIN held = {b + HEAD : b \in Taken(head)}
      BY <2>3 DEF Started
    <3>3. DOMAIN head \subseteq Addresses
      BY <3>2, Bounds DEF Tiled, Addresses
    <3>4. \A b \in DOMAIN head : head[b] \in Headers
      BY <3>2 DEF Tiled
    <3>5. ASSUME NEW b \in Taken(head) PROVE b + HEAD \in Addresses
      BY <3>2, Ordered, Bounds DEF Taken, HEAD, Addresses
    <3>6. DOMAIN held \subseteq Addresses
      BY <3>2, <3>5
    <3> QED
      BY <2>1, <3>1, <3>3, <3>4, <3>6 DEF DLTypeOK
  <2> QED
    BY <2>2, <2>3 DEF DLInv
<1> QED
  BY <1>1, DLInvariant, PTL

(* The boundary tags are right, for any arena, any requests and either      *)
(* variant: what before() and merge() read is what the block before is.     *)
THEOREM TagsTellTheTruth == DLSpec => []BoundaryTags
<1>1. DLInv => BoundaryTags
  <2> SUFFICES ASSUME DLInv, Ready PROVE BoundaryTags
    BY DEF BoundaryTags
  <2>1. Tiled(head, {})
    BY DEF DLInv, Unstarted, Started, Ready
  <2>2. \A b \in DOMAIN head : b \in Nat
    BY <2>1, Bounds DEF Tiled
  <2>3. ASSUME NEW b \in DOMAIN head \ {Sentinel}
        PROVE  DOMAIN head \cap ((b + 1) .. (After(head, b) - 1)) = {}
    <3> SUFFICES ASSUME NEW c \in DOMAIN head, c \in (b + 1) .. (After(head, b) - 1) PROVE FALSE
      OBVIOUS
    <3>1. After(head, b) \in Nat /\ b \in Nat /\ c \in Nat
      BY <2>1, <2>2, Ordered
    <3>2. b < c => After(head, b) <= c
      BY <2>1 DEF Tiled
    <3> QED
      BY <3>1, <3>2
  <2> QED
    BY <2>1, <2>3 DEF BoundaryTags, Tiled
<1> QED
  BY <1>1, DLInvariant, PTL

(* The free list holds every free block once and no other, linked both      *)
(* ways, for any arena, any requests and either variant.                   *)
THEOREM FreeListIsComplete == DLSpec => []FreeListComplete
<1>1. DLInv => FreeListComplete
  <2> SUFFICES ASSUME DLInv PROVE FreeListComplete
    OBVIOUS
  <2>1. CASE Unstarted
    <3>1. DOMAIN head = {}
      BY <2>1 DEF Unstarted
    <3> QED
      BY <2>1, <3>1, EmptyWalk DEF FreeListComplete
  <2>2. CASE Started
    <3>1. Linked(flist) /\ DOMAIN flist.next = {b \in DOMAIN head : head[b].free}
      BY <2>2 DEF Started, Free
    <3> QED
      BY <2>2, <3>1, FewBlocks, LinkedWalk DEF FreeListComplete
  <2> QED
    BY <2>1, <2>2 DEF DLInv
<1> QED
  BY <1>1, DLInvariant, PTL

(* With merge called no two free blocks are neighbours, for any arena and   *)
(* any requests.                                                           *)
THEOREM FreeNeighboursMerge == DLSpec => []Coalesced
<1>1. DLInv => Coalesced
  BY DEF DLInv, Unstarted, Started, Coalesced, Ready, NoTwoFree
<1> QED
  BY <1>1, DLInvariant, PTL

-----------------------------------------------------------------------------
(* What the client may ask for: sizes that an int holds with ALIGN more,    *)
(* and, for the links of a freed block to fit, no less than MIN bytes.      *)
(* Beyond them the code goes wrong: DLMallocSmall is a run of it.           *)
RequestsFitInt == \A r \in Requests : 2 * (r + ALIGN) < IntSpan

RequestsHoldLinks == \A r \in Requests : r = 0 \/ r >= LinkBytes

(* adjust never makes a request smaller.                                   *)
LEMMA AdjustUp ==
  ASSUME NEW r \in Nat, 2 * (r + ALIGN) < IntSpan
  PROVE  /\ adjust(r) \in Nat /\ adjust(r) >= r
         /\ r >= 16 => adjust(r) % 8 = 0
<1>1. IntSpan \in Nat /\ IntSpan > 80
  BY ArenaAssumption
<1>2. ASSUME NEW n \in Nat, 2 * n < IntSpan PROVE ToInt(n) = n
  <2>1. n % IntSpan = n
    BY <1>1, <1>2
  <2> QED
    BY <1>1, <1>2, <2>1 DEF ToInt
<1>3. /\ MIN(r) \in Nat /\ MIN(r) >= r /\ 2 * (MIN(r) + 8) < IntSpan
      /\ r >= 16 => MIN(r) = r
  BY <1>1 DEF MIN, ALIGN
<1>4. ToInt(MIN(r)) = MIN(r) /\ ToInt(r) = r
  BY <1>1, <1>2, <1>3 DEF ALIGN
<1> DEFINE adj == MIN(r) % 8
<1>5. Remainder(MIN(r), 8) = adj /\ adj \in 0 .. 7
  BY <1>3 DEF Remainder
<1>6. adjust(r) = IF adj = 0 THEN r ELSE ToInt(MIN(r) + 8 - adj)
  BY <1>4, <1>5 DEF adjust, ALIGN
<1>7. ToInt(MIN(r) + 8 - adj) = MIN(r) + 8 - adj
  <2>1. MIN(r) + 8 - adj \in Nat /\ 2 * (MIN(r) + 8 - adj) < IntSpan
    BY <1>1, <1>3, <1>5
  <2> QED
    BY <1>2, <2>1
<1>8. CASE adj = 0
  BY <1>3, <1>6, <1>8
<1>9. CASE adj # 0
  <2>1. (MIN(r) + 8 - adj) % 8 = 0
    BY <1>3
  <2> QED
    BY <1>3, <1>5, <1>6, <1>7, <1>9, <2>1
<1> QED
  BY <1>8, <1>9

(* Each block of the client is as large as what it asked for.               *)
Suffices == \A p \in DOMAIN held : held[p] \in Nat /\ head[p - HEAD].size >= held[p]

(* Nothing but the client's blocks is taken, and dalloc and dfree keep      *)
(* those of the others.                                                    *)
LEMMA SufficesStep ==
  ASSUME RequestsFitInt, DLInv, Suffices, [Next]_vars
  PROVE  Suffices'
<1>1. CASE UNCHANGED vars
  BY <1>1 DEF Suffices, vars
<1>2. CASE init
  <2>1. held' = held
    BY <1>2, InitStep
  <2>2. CASE UNCHANGED head
    BY <2>1, <2>2 DEF Suffices
  <2>3. CASE DOMAIN held = {}
    BY <2>1, <2>3 DEF Suffices
  <2> QED
    BY <1>2, <2>2, <2>3, InitStep
<1>3. CASE sanity
  BY <1>3 DEF sanity, Suffices
<1>4. ASSUME NEW p, dfree(p) PROVE Suffices'
  <2>1. /\ DLInv' /\ Taken(head') = Taken(head) \ {p - HEAD}
        /\ \A d \in Taken(head') : head'[d].size = head[d].size
        /\ held' = [q \in DOMAIN held \ {p} |-> held[q]]
    BY <1>4, DfreeStep
  <2> SUFFICES ASSUME NEW q \in DOMAIN held'
               PROVE  held'[q] \in Nat /\ head'[q - HEAD].size >= held'[q]
    BY DEF Suffices
  <2>2. q \in DOMAIN held /\ held'[q] = held[q]
    BY <2>1
  <2>3. q - HEAD \in Taken(head')
    <3>1. Started'
      BY <2>1 DEF DLInv, Unstarted
    <3>2. Tiled(head', {}) /\ DOMAIN held' = {d + HEAD : d \in Taken(head')}
      BY <3>1 DEF Started
    <3>3. PICK d \in Taken(head') : q = d + HEAD
      BY <3>2
    <3>4. d \in Nat
      BY <3>2, Ordered DEF Taken
    <3> QED
      BY <3>3, <3>4 DEF HEAD
  <2> QED
    BY <2>1, <2>2, <2>3 DEF Suffices
<1>5. ASSUME NEW r \in Requests, dalloc(r) PROVE Suffices'
  <2>1. /\ \E c : Gives(c, r)
        /\ \A d \in Taken(head) : head'[d].size = head[d].size
    BY <1>5, DallocStep
  <2>2. PICK c : Gives(c, r)
    BY <2>1
  <2>3. /\ c \in Nat /\ c \notin Taken(head) /\ head'[c].size >= adjust(r)
        /\ held' = [p \in DOMAIN held \cup {c + HEAD} |-> IF p = c + HEAD THEN r ELSE held[p]]
    BY <2>2 DEF Gives, Give
  <2>4. adjust(r) \in Nat /\ adjust(r) >= r /\ r \in Nat
    BY AdjustUp, ArenaAssumption DEF RequestsFitInt
  <2>5. head'[c].size \in Nat
    <3>1. DLInv' /\ c \in DOMAIN head'
      BY <1>5, <2>2, DallocStep DEF Gives
    <3>2. Tiled(head', {})
      BY <3>1 DEF DLInv, Unstarted, Started
    <3>3. c # Sentinel
      BY <2>2 DEF Gives
    <3> QED
      BY <3>1, <3>2, <3>3, Ordered
  <2> SUFFICES ASSUME NEW q \in DOMAIN held'
               PROVE  held'[q] \in Nat /\ head'[q - HEAD].size >= held'[q]
    BY DEF Suffices
  <2>6. CASE q = c + HEAD
    <3>1. q - HEAD = c /\ held'[q] = r
      BY <2>3, <2>6 DEF HEAD
    <3> QED
      BY <2>3, <2>4, <2>5, <3>1
  <2>7. CASE q # c + HEAD
    <3>1. q \in DOMAIN held /\ held'[q] = held[q]
      BY <2>3, <2>7
    <3>2. Started
      BY <3>1 DEF DLInv, Unstarted
    <3>3. Tiled(head, {}) /\ DOMAIN held = {d + HEAD : d \in Taken(head)}
      BY <3>2 DEF Started
    <3>4. PICK d \in Taken(head) : q = d + HEAD
      BY <3>1, <3>3
    <3>5. d \in Nat
      BY <3>3, Ordered DEF Taken
    <3>6. q - HEAD = d
      BY <3>4, <3>5 DEF HEAD
    <3> QED
      BY <2>1, <3>1, <3>4, <3>6 DEF Suffices
  <2> QED
    BY <2>6, <2>7
<1> QED
  BY <1>1, <1>2, <1>3, <1>4, <1>5 DEF Next, Dead

(* No block leaks, none is handed out twice, and each is as large as was     *)
(* asked for, for any arena and any requests that an int holds.             *)
THEOREM NothingLeaks == RequestsFitInt => (DLSpec => []NoLeak)
<1> SUFFICES ASSUME RequestsFitInt PROVE DLSpec => []NoLeak
  OBVIOUS
<1>1. Init => Suffices
  BY DEF Init, Suffices
<1>2. DLInv /\ Suffices /\ [Next]_vars => Suffices'
  BY SufficesStep
<1>3. DLInv /\ Suffices => NoLeak
  <2> SUFFICES ASSUME DLInv, Suffices, Ready PROVE NoLeak
    BY DEF NoLeak
  <2>1. DOMAIN held = {d + HEAD : d \in Taken(head)}
    BY DEF DLInv, Unstarted, Started, Ready
  <2>2. Taken(head) = {c \in DOMAIN head : ~head[c].free} \ {Sentinel}
    BY DEF Taken
  <2> QED
    BY <2>1, <2>2 DEF NoLeak, Suffices
<1> QED
  BY <1>1, <1>2, <1>3, DLInvariant, PTL DEF DLSpec

(* Every block has room for the links, and neither they nor sanity ever     *)
(* found fault with the free list.                                         *)
Spacious == Sized(head) /\ fault \notin {"overrun", "not ok"}

(* The walk of sanity finds each block in order.                            *)
LEMMA LooksSaneAlways ==
  ASSUME DLInv, Sized(head), flist.first # NULL
  PROVE  LooksSane
<1>1. Started
  BY EmptyWalk DEF DLInv
<1>2. Tiled(head, {}) /\ Linked(flist) /\ DOMAIN flist.next = Free(head)
  BY <1>1 DEF Started
<1>3. \A b \in DOMAIN flist.next : b \in DOMAIN head /\ head[b].free /\ head[b].size % 8 = 0
  BY <1>2 DEF Free, Sized
<1>4. \A b \in DOMAIN flist.next : head[b].size # 0
  <2> SUFFICES ASSUME NEW b \in DOMAIN flist.next PROVE head[b].size # 0
    OBVIOUS
  <2>1. b \in DOMAIN head \ {Sentinel}
    BY <1>2, <1>3 DEF Tiled
  <2> QED
    BY <2>1 DEF Sized
<1>5. Walked \subseteq DOMAIN flist.next
  BY <1>2, <1>4, WalkedBlocks
<1>6. NULL \notin DOMAIN flist.next
  BY <1>2, NotABlock
<1>7. \A b \in DOMAIN flist.next : flist.next[b] # NULL => flist.prev[flist.next[b]] = b
  BY <1>1, <1>2, FewBlocks, LinkedWalk
<1> QED
  BY <1>3, <1>5, <1>6, <1>7 DEF LooksSane, ALIGN

(* The sizes that adjust makes of such requests keep every block spacious.   *)
LEMMA SpaciousStep ==
  ASSUME RequestsFitInt, RequestsHoldLinks, DLInv, Spacious, [Next]_vars
  PROVE  Spacious'
<1>1. CASE UNCHANGED vars
  BY <1>1 DEF Spacious, vars
<1>2. CASE init
  <2>1. fault' = fault \/ fault' = "null"
    BY <1>2, InitStep
  <2>2. CASE UNCHANGED head
    BY <2>1, <2>2 DEF Spacious
  <2>3. CASE head' = new /\ DOMAIN head = {}
    BY <2>1, <2>3, NewTiles DEF Spacious
  <2> QED
    BY <1>2, <2>2, <2>3, InitStep
<1>3. CASE sanity
  <2>1. flist.first # NULL => LooksSane
    BY LooksSaneAlways DEF Spacious
  <2>2. fault' \in {"null", "none"} /\ head' = head
    BY <1>3, <2>1 DEF sanity
  <2> QED
    BY <2>2 DEF Spacious
<1>4. ASSUME NEW p, dfree(p) PROVE Spacious'
  BY <1>4, DfreeStep DEF Spacious
<1>5. ASSUME NEW r \in Requests, dalloc(r) PROVE Spacious'
  <2>1. /\ fault' = fault /\ r > 0
        /\ Sized(head) /\ adjust(r) % 8 = 0 /\ adjust(r) >= 16 => Sized(head')
    BY <1>5, DallocStep
  <2>2. r \in Nat /\ r >= 16 /\ 2 * (r + ALIGN) < IntSpan
    BY <2>1, ArenaAssumption DEF RequestsFitInt, RequestsHoldLinks, LinkBytes
  <2>3. adjust(r) % 8 = 0 /\ adjust(r) >= 16
    BY <2>2, AdjustUp
  <2> QED
    BY <2>1, <2>3 DEF Spacious
<1> QED
  BY <1>1, <1>2, <1>3, <1>4, <1>5 DEF Next, Dead

(* So it is in every reachable state. *)
LEMMA SpaciousInvariant == RequestsFitInt /\ RequestsHoldLinks => (DLSpec => []Spacious)
<1> SUFFICES ASSUME RequestsFitInt, RequestsHoldLinks PROVE DLSpec => []Spacious
  OBVIOUS
<1>1. Init => Spacious
  BY DEF Init, Spacious, Sized
<1>2. DLInv /\ Spacious /\ [Next]_vars => Spacious'
  BY SpaciousStep
<1> QED
  BY <1>1, <1>2, DLInvariant, PTL DEF DLSpec

(* The links of a freed block never reach the header after it, for any      *)
(* arena and any requests of MIN bytes or more.                            *)
THEOREM LinksAlwaysFit == RequestsFitInt /\ RequestsHoldLinks => (DLSpec => []LinksFit)
<1>1. Spacious => LinksFit
  BY DEF Spacious, LinksFit
<1> QED
  BY <1>1, SpaciousInvariant, PTL

(* sanity never finds the free list out of order.                           *)
THEOREM SanityAlwaysHolds == RequestsFitInt /\ RequestsHoldLinks => (DLSpec => []SanityHolds)
<1>1. Spacious => SanityHolds
  BY DEF Spacious, SanityHolds
<1> QED
  BY <1>1, SpaciousInvariant, PTL

(* A request that fits a block's size fits its payload, in the arena.       *)
LEMMA PayloadFits ==
  ASSUME NEW c \in Nat, NEW size \in Nat, NEW after, after = c + size + 8,
         after <= Sentinel, Sentinel + 8 = ARENA, ARENA \in Nat,
         NEW r \in Nat, r > 0, size >= r, NEW p, p = c + 8
  PROVE  /\ p \in Nat /\ p + r <= after /\ p < ARENA
         /\ \A x \in p .. (p + r - 1) : x \in 0 .. (ARENA - 1)
<1>1. ARENA = Sentinel + 8 /\ Sentinel \in Int
  BY DEF Sentinel, HEAD
<1> QED
  BY <1>1

(* What dalloc gives the client is in the arena, aligned, and shares no byte *)
(* with what the client has.                                               *)
LEMMA DallocAllocates ==
  ASSUME DLInv, Suffices, Spacious', NEW r \in Requests, dalloc(r), adjust(r) >= r, adjust(r) \in Nat
  PROVE  HeapOf!HNext
<1>1. DLInv' /\ \A d \in Taken(head) : head'[d].size = head[d].size
  BY DallocStep
<1>2. PICK c : Gives(c, r)
  BY DallocStep
<1>3. /\ c \in DOMAIN head' \ {Sentinel} /\ c \in Nat /\ c \notin Taken(head)
      /\ Taken(head') = Taken(head) \cup {c} /\ head'[c].size >= adjust(r)
      /\ held' = [p \in DOMAIN held \cup {c + HEAD} |-> IF p = c + HEAD THEN r ELSE held[p]]
  BY <1>2 DEF Gives, Give
<1>4. Started' /\ Started
  <2>1. Started'
    BY <1>1, <1>3 DEF DLInv, Unstarted
  <2>2. Started
    <3> SUFFICES ASSUME Unstarted PROVE FALSE
      BY DEF DLInv
    <3>1. DOMAIN flist.next = {} /\ Linked(flist)
      BY EmptyWalk, EmptyLinked DEF Unstarted
    <3>2. FirstFit(adjust(r)) # NULL
      BY DEF dalloc
    <3> QED
      BY <3>1, <3>2, FirstFits
  <2> QED
    BY <2>1, <2>2
<1>5. /\ Tiled(head', {}) /\ Tiled(head, {}) /\ DOMAIN held = {d + HEAD : d \in Taken(head)}
      /\ Sized(head')
  BY <1>4 DEF Started, Spacious
<1>6. r \in Nat /\ r > 0
  BY DallocStep, ArenaAssumption
<1> DEFINE p == c + HEAD
<1>7. /\ After(head', c) = c + head'[c].size + 8 /\ head'[c].size \in Nat
      /\ After(head', c) <= Sentinel /\ Sentinel + 8 = ARENA /\ ARENA \in Nat
  BY <1>3, <1>5, Ordered, Bounds
<1>8. /\ p \in Nat /\ p = c + 8 /\ p + r <= After(head', c) /\ p < ARENA
      /\ \A x \in p .. (p + r - 1) : x \in 0 .. (ARENA - 1)
  <2>1. p = c + 8
    BY DEF HEAD
  <2>2. head'[c].size >= r
    <3>1. adjust(r) \in Nat /\ adjust(r) >= r
      OBVIOUS
    <3> QED
      BY <1>3, <1>6, <1>7, <3>1
  <2> HIDE DEF p
  <2> DEFINE n == head'[c].size
             after == After(head', c)
  <2>3. /\ c \in Nat /\ n \in Nat /\ after = c + n + 8 /\ n >= r
        /\ after <= Sentinel /\ Sentinel + 8 = ARENA /\ ARENA \in Nat
    BY <1>3, <1>7, <2>2
  <2> HIDE DEF n, after
  <2>4. /\ p \in Nat /\ p + r <= after /\ p < ARENA
        /\ \A x \in p .. (p + r - 1) : x \in 0 .. (ARENA - 1)
    BY <1>6, <2>1, <2>3, PayloadFits
  <2> QED
    BY <2>1, <2>4 DEF after
<1> HIDE DEF p
<1>9. HeapOf!Bytes(p, r) \subseteq 0 .. (ARENA - 1)
  <2> SUFFICES ASSUME NEW x \in p .. (p + r - 1) PROVE x \in 0 .. (ARENA - 1)
    BY DEF HeapOf!Bytes
  <2> QED
    BY <1>8
<1>10. p % ALIGN = 0
  <2>1. c % 8 = 0
    BY <1>3, <1>5 DEF Sized
  <2> QED
    BY <1>3, <1>8, <2>1 DEF ALIGN
<1>11. ASSUME NEW q \in DOMAIN held
       PROVE  q # p /\ HeapOf!Bytes(p, r) \cap HeapOf!Bytes(q, held[q]) = {}
  <2>1. PICK d \in Taken(head) : q = d + HEAD
    BY <1>5
  <2>2. d # c /\ d \in DOMAIN head' \ {Sentinel} /\ d \in DOMAIN head \ {Sentinel}
    BY <1>3 DEF Taken
  <2>3. /\ d \in Nat /\ q = d + 8 /\ head'[d].size \in Nat
        /\ After(head', d) = d + head'[d].size + 8
    BY <1>5, <2>1, <2>2, Ordered DEF HEAD
  <2>4. head'[d].size >= held[q]
    <3>1. q - HEAD = d
      BY <2>3 DEF HEAD
    <3> QED
      BY <1>1, <2>1, <3>1 DEF Suffices
  <2>5. c < d => After(head', c) <= d
    BY <1>3, <1>5, <2>2 DEF Tiled
  <2>6. d < c => After(head', d) <= c
    BY <1>3, <1>5, <2>2 DEF Tiled
  <2>7. ASSUME NEW x \in HeapOf!Bytes(p, r), x \in HeapOf!Bytes(q, held[q]) PROVE FALSE
    <3>1. x \in Nat /\ p <= x /\ x < p + r
      BY <1>6, <1>8, <2>7 DEF HeapOf!Bytes
    <3>2. held[q] \in Nat
      BY DEF Suffices
    <3>3. q <= x /\ x < q + held[q]
      BY <2>3, <2>7, <3>2 DEF HeapOf!Bytes
    <3>4. c < d \/ d < c
      BY <1>3, <2>2, <2>3
    <3> QED
      BY <1>3, <1>6, <1>7, <1>8, <2>3, <2>4, <2>5, <2>6, <3>1, <3>2, <3>3, <3>4
  <2>8. q # p
    BY <1>3, <1>8, <2>2, <2>3
  <2> QED
    BY <2>7, <2>8
<1>12. HeapOf!Allocate(p, r)
  BY <1>3, <1>9, <1>10, <1>11 DEF HeapOf!Allocate, p
<1> QED
  BY <1>8, <1>7, <1>12 DEF HeapOf!HNext

(* The allocator is a heap, for any arena and any requests of MIN bytes or   *)
(* more: dalloc gives aligned blocks of the arena that overlap no other.    *)
THEOREM DLMallocImplementsHeap ==
  RequestsFitInt /\ RequestsHoldLinks => (DLSpec => ImplementsHeap)
<1> SUFFICES ASSUME RequestsFitInt, RequestsHoldLinks PROVE DLSpec => ImplementsHeap
  OBVIOUS
<1>1. Init => Suffices /\ HeapOf!HInit
  BY DEF Init, Suffices, HeapOf!HInit
<1>2. DLInv /\ Suffices /\ [Next]_vars => Suffices'
  BY SufficesStep
<1>3. DLInv /\ Suffices /\ Spacious' /\ [Next]_vars => [HeapOf!HNext]_held
  <2> SUFFICES ASSUME DLInv, Suffices, Spacious', [Next]_vars PROVE [HeapOf!HNext]_held
    OBVIOUS
  <2>1. CASE UNCHANGED vars
    BY <2>1 DEF vars
  <2>2. CASE init
    BY <2>2, InitStep
  <2>3. CASE sanity
    BY <2>3 DEF sanity
  <2>4. ASSUME NEW r \in Requests, dalloc(r) PROVE HeapOf!HNext
    <3>1. adjust(r) \in Nat /\ adjust(r) >= r
      BY AdjustUp, ArenaAssumption DEF RequestsFitInt
    <3> QED
      BY <2>4, <3>1, DallocAllocates
  <2>5. ASSUME NEW p \in DOMAIN held, dfree(p) PROVE HeapOf!HNext
    <3>1. held' = [q \in DOMAIN held \ {p} |-> held[q]]
      BY <2>5, DfreeStep
    <3> QED
      BY <2>5, <3>1 DEF HeapOf!HNext, HeapOf!Release
  <2> QED
    BY <2>1, <2>2, <2>3, <2>4, <2>5 DEF Next, Dead
<1>4. DLSpec => []Spacious
  BY SpaciousInvariant
<1> QED
  BY <1>1, <1>2, <1>3, <1>4, DLInvariant, PTL DEF DLSpec, ImplementsHeap, HeapOf!HSpec
=============================================================================
