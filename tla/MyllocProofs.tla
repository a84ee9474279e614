---------------------------- MODULE MyllocProofs ----------------------------
(* The free list of mhysa.c loses no chunk and hands out none twice, and   *)
(* both allocators are heaps, for any buffer, any requests and any limit;  *)
(* and the heap of mhysa.c stops growing.                                  *)
EXTENDS Mylloc, FiniteSetTheorems, TLAPS

(* The list without its k-th chunk has the others, each once. *)
LEMMA Unlinked ==
  ASSUME flist \in Seq(Nat), IsInjective(flist), NEW k \in DOMAIN flist
  PROVE  /\ Unlink(k) \in Seq(Nat) /\ IsInjective(Unlink(k))
         /\ Range(Unlink(k)) = Range(flist) \ {flist[k]}
<1> DEFINE n == Len(flist)
           u == Unlink(k)
<1>1. n \in Nat /\ DOMAIN flist = 1 .. n /\ k \in 1 .. n /\ n - 1 \in Nat
      /\ \A j \in 1 .. n : flist[j] \in Nat
  OBVIOUS
<1>2. /\ DOMAIN u = 1 .. n - 1
      /\ \A j \in 1 .. n - 1 : u[j] = IF j < k THEN flist[j] ELSE flist[j + 1]
  BY DEF Unlink
<1>3. u \in [1 .. n - 1 -> Nat]
  BY <1>1 DEF Unlink
<1>4. u \in Seq(Nat)
  BY <1>1, <1>3 
<1>5. \A i, j \in 1 .. n : flist[i] = flist[j] => i = j
  BY <1>1 DEF IsInjective
<1> HIDE DEF u, n
<1>6. \A i, j \in 1 .. n - 1 : u[i] = u[j] => i = j
  <2> SUFFICES ASSUME NEW i \in 1 .. n - 1, NEW j \in 1 .. n - 1, u[i] = u[j] PROVE i = j
    OBVIOUS
  <2> DEFINE a == IF i < k THEN i ELSE i + 1
             b == IF j < k THEN j ELSE j + 1
  <2>1. a \in 1 .. n /\ b \in 1 .. n /\ u[i] = flist[a] /\ u[j] = flist[b]
    BY <1>1, <1>2
  <2>2. a = b
    BY <1>5, <2>1
  <2> QED
    BY <1>1, <2>2
<1>7. \A j \in 1 .. n - 1 : \E i \in 1 .. n : i # k /\ u[j] = flist[i]
  <2> SUFFICES ASSUME NEW j \in 1 .. n - 1 PROVE \E i \in 1 .. n : i # k /\ u[j] = flist[i]
    OBVIOUS
  <2> DEFINE a == IF j < k THEN j ELSE j + 1
  <2> a \in 1 .. n /\ a # k /\ u[j] = flist[a]
    BY <1>1, <1>2
  <2> QED
    OBVIOUS
<1>8. \A i \in 1 .. n : i # k => \E j \in 1 .. n - 1 : u[j] = flist[i]
  <2> SUFFICES ASSUME NEW i \in 1 .. n, i # k PROVE \E j \in 1 .. n - 1 : u[j] = flist[i]
    OBVIOUS
  <2> DEFINE b == IF i < k THEN i ELSE i - 1
  <2>1. b \in 1 .. n - 1 /\ (IF b < k THEN b ELSE b + 1) = i
    BY <1>1
  <2>2. u[b] = flist[i]
    BY <1>2, <2>1
  <2> QED
    BY <2>1, <2>2
<1>9. IsInjective(u)
  BY <1>2, <1>6 DEF IsInjective
<1>10. Range(u) = Range(flist) \ {flist[k]}
  <2>1. \A x \in Range(u) : x \in Range(flist) /\ x # flist[k]
    <3> SUFFICES ASSUME NEW j \in 1 .. n - 1 PROVE u[j] \in Range(flist) /\ u[j] # flist[k]
      BY <1>2 DEF Range
    <3>1. PICK i \in 1 .. n : i # k /\ u[j] = flist[i]
      BY <1>7
    <3> QED
      BY <1>1, <1>5, <3>1 DEF Range
  <2>2. \A x \in Range(flist) : x = flist[k] \/ x \in Range(u)
    <3> SUFFICES ASSUME NEW i \in 1 .. n PROVE flist[i] = flist[k] \/ flist[i] \in Range(u)
      BY <1>1 DEF Range
    <3>1. i = k \/ \E j \in 1 .. n - 1 : u[j] = flist[i]
      BY <1>8
    <3> QED
      BY <1>2, <3>1 DEF Range
  <2> QED
    BY <2>1, <2>2
<1> QED
  BY <1>4, <1>9, <1>10 DEF u

(* The list with a new chunk in front of it. *)
LEMMA Freed ==
  ASSUME NEW list \in Seq(Nat), IsInjective(list), NEW c \in Nat, c \notin Range(list)
  PROVE  /\ <<c>> \o list \in Seq(Nat) /\ IsInjective(<<c>> \o list)
         /\ Range(<<c>> \o list) = Range(list) \cup {c}
<1> DEFINE s == <<c>> \o list
           n == Len(list)
<1>1. /\ n \in Nat /\ DOMAIN list = 1 .. n /\ DOMAIN s = 1 .. n + 1 /\ s \in Seq(Nat)
      /\ s[1] = c /\ \A j \in 1 .. n : s[j + 1] = list[j]
  OBVIOUS
<1>2. \A j \in 1 .. n + 1 : j = 1 \/ (j - 1 \in 1 .. n /\ s[j] = list[j - 1])
  OBVIOUS
<1> HIDE DEF s, n
<1>3. \A j \in 1 .. n : list[j] # c /\ list[j] \in Range(list)
  BY <1>1 DEF Range
<1>4. \A i, j \in 1 .. n : list[i] = list[j] => i = j
  BY <1>1 DEF IsInjective
<1>5. \A i, j \in 1 .. n + 1 : s[i] = s[j] => i = j
  <2> SUFFICES ASSUME NEW i \in 1 .. n + 1, NEW j \in 1 .. n + 1, s[i] = s[j] PROVE i = j
    OBVIOUS
  <2>1. CASE i = 1 \/ j = 1
    BY <1>1, <1>2, <1>3, <2>1
  <2>2. CASE i # 1 /\ j # 1
    <3>1. i - 1 \in 1 .. n /\ j - 1 \in 1 .. n /\ list[i - 1] = list[j - 1]
      BY <1>2, <2>2
    <3>2. i - 1 = j - 1
      BY <1>4, <3>1
    <3> QED
      BY <1>1, <3>2
  <2> QED
    BY <2>1, <2>2
<1>6. IsInjective(s)
  BY <1>1, <1>5 DEF IsInjective
<1>7. \A x : x \in Range(s) <=> x \in Range(list) \/ x = c
  <2>1. ASSUME NEW x \in Range(s) PROVE x \in Range(list) \/ x = c
    <3>1. PICK j \in 1 .. n + 1 : x = s[j]
      BY <1>1, <2>1 DEF Range
    <3> QED
      BY <1>1, <1>2, <1>3, <3>1
  <2>2. ASSUME NEW x \in Range(list) PROVE x \in Range(s)
    <3>1. PICK j \in 1 .. n : x = list[j]
      BY <1>1, <2>2 DEF Range
    <3>2. j + 1 \in 1 .. n + 1 /\ s[j + 1] = x
      BY <1>1, <3>1
    <3> QED
      BY <1>1, <3>2 DEF Range
  <2>3. c \in Range(s)
    <3>1. 1 \in 1 .. n + 1
      BY <1>1
    <3> QED
      BY <1>1, <3>1 DEF Range
  <2> QED
    BY <2>1, <2>2, <2>3
<1> QED
  BY <1>1, <1>6, <1>7 DEF s

-----------------------------------------------------------------------------
(* What holds in each reachable state of the two allocators: the chunks    *)
(* lie below the top of the heap, and mhysa.c accounts for each.           *)
MyllocInv ==
  /\ library \in Libraries
  /\ brk \in Nat
  /\ Chunks \subseteq 0 .. brk - 1
  /\ flist \in Seq(Nat)
  /\ buffer \in [Entries -> Nat \cup {NULL}]
  /\ Accounted

(* The block of an entry is a number, and in use. *)
LEMMA EntryTyped ==
  ASSUME buffer \in [Entries -> Nat \cup {NULL}]
  PROVE  /\ \A i \in Used : i \in Entries /\ buffer[i] \in Nat
         /\ \A i \in Entries : i \in Used \/ buffer[i] = NULL
BY DEF Used

(* What an entry freed leaves in use. *)
LEMMA UsedFreed ==
  ASSUME buffer \in [Entries -> Nat \cup {NULL}], NEW i \in Used,
         buffer' = [buffer EXCEPT ![i] = NULL]
  PROVE  /\ Used' = Used \ {i} /\ buffer' \in [Entries -> Nat \cup {NULL}]
         /\ \A j \in Used \ {i} : buffer'[j] = buffer[j]
<1>1. i \in Entries /\ buffer' \in [Entries -> Nat \cup {NULL}]
  BY DEF Used
<1>2. buffer'[i] = NULL /\ \A j \in Entries \ {i} : buffer'[j] = buffer[j]
  BY <1>1
<1> QED
  BY <1>1, <1>2 DEF Used

(* What an entry filled has in use. *)
LEMMA UsedFilled ==
  ASSUME buffer \in [Entries -> Nat \cup {NULL}], NEW i \in Entries, NEW block \in Nat,
         buffer' = [buffer EXCEPT ![i] = block]
  PROVE  /\ Used' = Used \cup {i} /\ buffer' \in [Entries -> Nat \cup {NULL}]
         /\ buffer'[i] = block
         /\ \A j \in Entries \ {i} : buffer'[j] = buffer[j]
<1>1. buffer' \in [Entries -> Nat \cup {NULL}] /\ block # NULL
  BY MyllocAssumption
<1>2. buffer'[i] = block /\ \A j \in Entries \ {i} : buffer'[j] = buffer[j]
  OBVIOUS
<1> QED
  BY <1>1, <1>2 DEF Used

(* free puts a chunk of the buffer on the list. *)
LEMMA FreeAccounts ==
  ASSUME MyllocInv, NEW i \in Entries, Free(i), UNCHANGED library
  PROVE  MyllocInv'
<1>1. i \in Used /\ buffer[i] \in Nat
  BY EntryTyped DEF Free, MyllocInv, Used
<1>2. /\ Used' = Used \ {i} /\ buffer' \in [Entries -> Nat \cup {NULL}]
      /\ \A j \in Used \ {i} : buffer'[j] = buffer[j]
  BY <1>1, UsedFreed DEF Free, MyllocInv
<1>3. UNCHANGED <<brk, size, Chunks>>
  BY DEF Free, free, Chunks
<1>4. CASE library # "mhysa"
  BY <1>2, <1>3, <1>4 DEF MyllocInv, Accounted, Free, free
<1>5. CASE library = "mhysa"
  <2> DEFINE c == buffer[i] - HEAD
  <2>1. c \in Chunks /\ c \notin Range(flist)
    BY <1>1, <1>5 DEF MyllocInv, Accounted
  <2>2. c \in Nat
    <3> HIDE DEF c
    <3>1. c \in 0 .. brk - 1
      BY <2>1 DEF MyllocInv
    <3> QED
      BY <3>1
  <2>3. /\ flist' \in Seq(Nat) /\ IsInjective(flist')
        /\ Range(flist') = Range(flist) \cup {c}
    BY <1>5, <2>1, <2>2, Freed DEF MyllocInv, Accounted, Free, free
  <2>4. Chunks' = Range(flist') \cup {buffer'[j] - HEAD : j \in Used'}
    <3>1. {buffer'[j] - HEAD : j \in Used'} = {buffer[j] - HEAD : j \in Used \ {i}}
      BY <1>2
    <3>2. {buffer[j] - HEAD : j \in Used} = {buffer[j] - HEAD : j \in Used \ {i}} \cup {c}
      BY <1>1
    <3> QED
      BY <1>3, <1>5, <2>3, <3>1, <3>2 DEF MyllocInv, Accounted
  <2>5. \A j \in Used' : buffer'[j] - HEAD \notin Range(flist')
    <3> SUFFICES ASSUME NEW j \in Used' PROVE buffer'[j] - HEAD \notin Range(flist')
      OBVIOUS
    <3>1. j \in Used /\ j # i /\ buffer'[j] = buffer[j] /\ buffer[j] \in Nat
      BY <1>2, EntryTyped DEF MyllocInv
    <3>2. buffer[j] # buffer[i] /\ buffer[j] - HEAD \notin Range(flist)
      BY <1>1, <1>5, <3>1 DEF MyllocInv, Accounted
    <3>3. buffer[j] - HEAD # c
      BY <1>1, <3>1, <3>2, MyllocAssumption
    <3> QED
      BY <2>3, <3>1, <3>2, <3>3
  <2>6. \A j, k \in Used' : buffer'[j] = buffer'[k] => j = k
    BY <1>2, <1>5 DEF MyllocInv, Accounted
  <2> QED
    BY <1>2, <1>3, <2>3, <2>4, <2>5, <2>6 DEF MyllocInv, Accounted, Free
<1> QED
  BY <1>4, <1>5

(* A chunk that goes to an entry comes from the list or from the kernel. *)
LEMMA FillAccounts ==
  ASSUME MyllocInv, library = "mhysa", NEW i \in Entries, buffer[i] = NULL,
         NEW c \in Nat, buffer' = [buffer EXCEPT ![i] = c + HEAD], UNCHANGED library,
         brk' \in Nat, Chunks' \subseteq 0 .. brk' - 1,
         flist' \in Seq(Nat), IsInjective(flist'),
         Range(flist') = Range(flist) \ {c}, Chunks' = Chunks \cup {c},
         c \notin {buffer[j] - HEAD : j \in Used}
  PROVE  MyllocInv'
<1>1. c + HEAD \in Nat
  BY MyllocAssumption
<1>2. i \notin Used
  BY DEF Used
<1>3. /\ Used' = Used \cup {i} /\ buffer' \in [Entries -> Nat \cup {NULL}]
      /\ buffer'[i] = c + HEAD
      /\ \A j \in Entries \ {i} : buffer'[j] = buffer[j]
  BY <1>1, UsedFilled DEF MyllocInv
<1>4. \A j \in Used : j \in Entries \ {i} /\ buffer'[j] = buffer[j] /\ buffer[j] \in Nat
  BY <1>2, <1>3, EntryTyped DEF MyllocInv
<1>5. buffer'[i] - HEAD = c
  BY <1>3, MyllocAssumption
<1>6. {buffer'[j] - HEAD : j \in Used'} = {buffer[j] - HEAD : j \in Used} \cup {c}
  BY <1>3, <1>4, <1>5
<1>7. Chunks' = Range(flist') \cup {buffer'[j] - HEAD : j \in Used'}
  BY <1>6 DEF MyllocInv, Accounted
<1>8. \A j \in Used : buffer[j] # c + HEAD
  BY <1>4, MyllocAssumption
<1>9. \A j, k \in Used' : buffer'[j] = buffer'[k] => j = k
  BY <1>3, <1>4, <1>8 DEF MyllocInv, Accounted
<1>10. \A j \in Used' : buffer'[j] - HEAD \notin Range(flist')
  BY <1>3, <1>4, <1>5 DEF MyllocInv, Accounted
<1> QED
  BY <1>3, <1>7, <1>9, <1>10 DEF MyllocInv, Accounted

(* malloc hands out a chunk that no entry has. *)
LEMMA AllocateAccounts ==
  ASSUME MyllocInv, NEW i \in Entries, NEW request \in Requests, Allocate(i, request),
         UNCHANGED library
  PROVE  MyllocInv'
<1>1. CASE Refused(request) /\ UNCHANGED <<brk, size, flist, buffer, asked>>
  BY <1>1 DEF MyllocInv, Accounted, Chunks, Used
<1>2. ASSUME NEW block \in 0 .. LIMIT, malloc(request, block),
             buffer[i] = NULL, buffer' = [buffer EXCEPT ![i] = block]
      PROVE  MyllocInv'
  <2>1. request \in Nat /\ HEAD \in Nat \ {0} /\ request > 0 /\ block \in Nat /\ brk \in Nat
    BY <1>2, MyllocAssumption DEF MyllocInv
  <2>2. CASE library = "mylloc"
    <3>1. /\ brk' = brk + request /\ UNCHANGED <<size, flist>>
      BY <1>2, <2>2 DEF malloc, NewMemory, Sbrk
    <3>2. brk' \in Nat /\ Chunks' \subseteq 0 .. brk' - 1
      BY <2>1, <3>1 DEF MyllocInv, Chunks
    <3>3. buffer' \in [Entries -> Nat \cup {NULL}]
      BY <1>2, <2>1, UsedFilled DEF MyllocInv
    <3> QED
      BY <2>2, <3>1, <3>2, <3>3 DEF MyllocInv, Accounted
  <2>3. CASE library = "mhysa" /\ FromList(request, block)
    <3>1. PICK k \in Fits(request) :
            block = flist[k] + HEAD /\ flist' = Unlink(k) /\ UNCHANGED <<brk, size>>
      BY <2>3 DEF FromList
    <3>2. k \in DOMAIN flist /\ flist[k] \in Nat /\ flist[k] \in Range(flist)
      BY <3>1 DEF Fits, MyllocInv, Range
    <3>3. /\ flist' \in Seq(Nat) /\ IsInjective(flist')
          /\ Range(flist') = Range(flist) \ {flist[k]}
      BY <2>3, <3>1, <3>2, Unlinked DEF MyllocInv, Accounted
    <3>4. Chunks' = Chunks \cup {flist[k]} /\ flist[k] \notin {buffer[j] - HEAD : j \in Used}
      BY <2>3, <3>1, <3>2 DEF MyllocInv, Accounted, Chunks
    <3>5. brk' \in Nat /\ Chunks' \subseteq 0 .. brk' - 1
      BY <3>1 DEF MyllocInv, Chunks
    <3> QED
      BY <1>2, <2>3, <3>1, <3>2, <3>3, <3>4, <3>5, FillAccounts
  <2>4. CASE library = "mhysa" /\ NewChunk(request, block)
    <3>1. /\ brk' = brk + (request + HEAD) /\ block = brk + HEAD /\ flist' = flist
          /\ Chunks' = Chunks \cup {brk}
      BY <2>4 DEF NewChunk, Sbrk, Chunks
    <3>2. brk' \in Nat /\ Chunks' \subseteq 0 .. brk' - 1
      BY <2>1, <3>1 DEF MyllocInv
    <3>3. brk \notin Chunks
      BY <2>1 DEF MyllocInv
    <3>4. brk \notin Range(flist) /\ brk \notin {buffer[j] - HEAD : j \in Used}
      BY <2>4, <3>3 DEF MyllocInv, Accounted
    <3> QED
      <4>1. /\ flist' \in Seq(Nat) /\ IsInjective(flist')
            /\ Range(flist') = Range(flist) \ {brk}
        BY <2>4, <3>1, <3>4 DEF MyllocInv, Accounted
      <4>2. buffer' = [buffer EXCEPT ![i] = brk + HEAD]
        BY <1>2, <3>1
      <4> QED
        BY <1>2, <2>1, <2>4, <3>1, <3>2, <3>4, <4>1, <4>2, FillAccounts
  <2> QED
    BY <1>2, <2>2, <2>3, <2>4 DEF malloc
<1> QED
  BY <1>1, <1>2 DEF Allocate

(* Each reachable state has it. *)
LEMMA MyllocInvariant == MSpec => []MyllocInv
<1>1. MInit => MyllocInv
  <2> SUFFICES ASSUME MInit PROVE MyllocInv
    OBVIOUS
  <2>1. Chunks = {} /\ Range(flist) = {} /\ flist \in Seq(Nat) /\ IsInjective(flist)
    BY DEF MInit, Chunks, Range, IsInjective
  <2>2. Used = {} /\ buffer \in [Entries -> Nat \cup {NULL}]
    BY DEF MInit, Used
  <2> QED
    BY <2>1, <2>2 DEF MInit, MyllocInv, Accounted
<1>2. MyllocInv /\ [MNext]_myllocVars => MyllocInv'
  <2>1. MyllocInv /\ UNCHANGED myllocVars => MyllocInv'
    BY DEF MyllocInv, Accounted, Chunks, Used, myllocVars, benchVars
  <2>2. MyllocInv /\ bench => MyllocInv'
    BY FreeAccounts, AllocateAccounts DEF bench
  <2> QED
    BY <2>1, <2>2 DEF MNext
<1> QED
  BY <1>1, <1>2, PTL DEF MSpec

(* Each chunk of mhysa.c is in one entry of the buffer or once on the free *)
(* list, for any number of entries, any sizes and any limit of the heap.   *)
THEOREM ChunksAreAccounted == MSpec => []Accounted
<1>1. MyllocInv => Accounted
  BY DEF MyllocInv
<1> QED
  BY <1>1, MyllocInvariant, PTL

-----------------------------------------------------------------------------
(* Where the blocks are: under mhysa.c a chunk ends before the next begins *)
(* and is as large as its entry asked for, under mylloc.c the blocks       *)
(* themselves are apart, and nothing is above the top.                     *)
Layout ==
  /\ brk <= LIMIT
  /\ asked \in [Entries -> Nat]
  /\ \A i \in Used : asked[i] \in Requests
  /\ library = "mhysa" =>
       /\ size \in [Chunks -> Nat]
       /\ \A c \in Chunks : c + HEAD + size[c] <= brk
       /\ \A c, d \in Chunks : c < d => c + HEAD + size[c] <= d
       /\ \A i \in Used : asked[i] <= size[buffer[i] - HEAD]
  /\ library = "mylloc" =>
       /\ \A i \in Used : buffer[i] + asked[i] <= brk
       /\ \A i, j \in Used :
            i # j => buffer[i] + asked[i] <= buffer[j] \/ buffer[j] + asked[j] <= buffer[i]

(* Two blocks in use are apart, and below the top. *)
LEMMA Apart ==
  ASSUME MyllocInv, Layout
  PROVE  /\ \A i \in Used : buffer[i] \in Nat /\ asked[i] \in Nat /\ asked[i] > 0
         /\ \A i \in Used : buffer[i] + asked[i] <= brk
         /\ \A i, j \in Used :
              i # j => buffer[i] + asked[i] <= buffer[j] \/ buffer[j] + asked[j] <= buffer[i]
         /\ \A i, j \in Used : buffer[i] = buffer[j] => i = j
<1>1. \A i \in Used : buffer[i] \in Nat /\ asked[i] \in Nat /\ asked[i] > 0
  BY EntryTyped, MyllocAssumption DEF Layout, MyllocInv
<1>2. CASE library = "mylloc"
  BY <1>1, <1>2 DEF Layout
<1>3. CASE library = "mhysa"
  <2>1. \A i \in Used : buffer[i] - HEAD \in Chunks
    BY <1>3 DEF MyllocInv, Accounted
  <2>2. /\ \A c \in Chunks : c \in Nat /\ size[c] \in Nat
        /\ HEAD \in Nat /\ brk \in Nat
    BY <1>3, MyllocAssumption DEF MyllocInv, Layout
  <2>3. ASSUME NEW i \in Used PROVE buffer[i] + asked[i] <= brk
    <3>1. /\ asked[i] <= size[buffer[i] - HEAD]
          /\ (buffer[i] - HEAD) + HEAD + size[buffer[i] - HEAD] <= brk
      BY <1>3, <2>1 DEF Layout
    <3> QED
      BY <1>1, <2>1, <2>2, <3>1
  <2>4. ASSUME NEW i \in Used, NEW j \in Used, buffer[i] - HEAD < buffer[j] - HEAD
        PROVE  buffer[i] + asked[i] <= buffer[j]
    <3>1. /\ asked[i] <= size[buffer[i] - HEAD]
          /\ (buffer[i] - HEAD) + HEAD + size[buffer[i] - HEAD] <= buffer[j] - HEAD
      BY <1>3, <2>1, <2>4 DEF Layout
    <3> QED
      BY <1>1, <2>1, <2>2, <3>1
  <2>5. \A i, j \in Used : buffer[i] = buffer[j] => i = j
    BY <1>3 DEF MyllocInv, Accounted
  <2>6. ASSUME NEW i \in Used, NEW j \in Used, i # j
        PROVE  buffer[i] + asked[i] <= buffer[j] \/ buffer[j] + asked[j] <= buffer[i]
    <3>1. buffer[i] # buffer[j]
      BY <2>5, <2>6
    <3>2. buffer[i] - HEAD < buffer[j] - HEAD \/ buffer[j] - HEAD < buffer[i] - HEAD
      BY <1>1, <2>2, <3>1
    <3> QED
      BY <2>4, <3>2
  <2> QED
    BY <1>1, <2>3, <2>5, <2>6
<1> QED
  BY <1>1, <1>2, <1>3, MyllocAssumption DEF MyllocInv

(* A request is stored in the int as it is. *)
LEMMA RequestFits == \A request \in Requests : ToInt(request) = request
<1> SUFFICES ASSUME NEW request \in Requests PROVE ToInt(request) = request
  OBVIOUS
<1>1. request \in Nat /\ IntSpan \in Nat /\ 2 * request < IntSpan
  BY MyllocAssumption
<1>2. request % IntSpan = request
  BY <1>1
<1> QED
  BY <1>1, <1>2 DEF ToInt

(* A block that malloc hands out lies apart from those in use. *)
LEMMA AllocatedApart ==
  ASSUME MyllocInv, Layout, NEW i \in Entries, NEW request \in Requests,
         NEW block \in 0 .. LIMIT, malloc(request, block), UNCHANGED library,
         buffer[i] = NULL, buffer' = [buffer EXCEPT ![i] = block],
         asked' = [asked EXCEPT ![i] = request]
  PROVE  /\ Layout'
         /\ block + request <= LIMIT
         /\ \A j \in Used : block + request <= buffer[j] \/ buffer[j] + asked[j] <= block
<1>1. /\ request \in Nat /\ HEAD \in Nat \ {0} /\ request > 0 /\ block \in Nat
      /\ brk \in Nat /\ LIMIT \in Nat
  BY MyllocAssumption DEF MyllocInv
<1>2. /\ i \notin Used /\ Used' = Used \cup {i} /\ buffer'[i] = block
      /\ \A j \in Used : buffer'[j] = buffer[j]
  <2>1. i \notin Used
    BY DEF Used
  <2> QED
    BY <1>1, <2>1, UsedFilled, EntryTyped DEF MyllocInv
<1>3. /\ asked' \in [Entries -> Nat] /\ asked'[i] = request
      /\ \A j \in Used : asked'[j] = asked[j]
  <2>1. asked \in [Entries -> Nat] /\ \A j \in Used : j \in Entries /\ j # i
    BY <1>2, EntryTyped DEF MyllocInv, Layout
  <2> QED
    BY <1>1, <2>1
<1>4. \A j \in Used' : asked'[j] \in Requests
  BY <1>2, <1>3 DEF Layout
<1>5. \A j \in Used : buffer[j] \in Nat /\ asked[j] \in Nat /\ buffer[j] + asked[j] <= brk
  BY Apart
<1>6. CASE library = "mylloc"
  <2>1. brk' = brk + request /\ block = brk /\ brk' <= LIMIT
    BY <1>6 DEF malloc, NewMemory, Sbrk
  <2>2. \A j \in Used' : buffer'[j] + asked'[j] <= brk'
    BY <1>1, <1>2, <1>3, <1>5, <2>1
  <2>3. \A j, k \in Used' :
          j # k => buffer'[j] + asked'[j] <= buffer'[k] \/ buffer'[k] + asked'[k] <= buffer'[j]
    <3>1. \A j, k \in Used :
            j # k => buffer[j] + asked[j] <= buffer[k] \/ buffer[k] + asked[k] <= buffer[j]
      BY Apart
    <3> QED
      BY <1>2, <1>3, <1>5, <2>1, <3>1
  <2> QED
    BY <1>1, <1>3, <1>4, <1>5, <1>6, <2>1, <2>2, <2>3 DEF Layout
<1>7. CASE library = "mhysa"
  <2>0. /\ \A c \in Chunks : c \in Nat /\ size[c] \in Nat /\ c < brk
        /\ \A c \in Chunks : c + HEAD + size[c] <= brk
        /\ \A c, d \in Chunks : c < d => c + HEAD + size[c] <= d
        /\ \A j \in Used : asked[j] <= size[buffer[j] - HEAD] /\ buffer[j] - HEAD \in Chunks
    BY <1>7 DEF MyllocInv, Layout, Accounted
  <2>1. CASE FromList(request, block)
    <3>1. PICK k \in Fits(request) :
            block = flist[k] + HEAD /\ UNCHANGED <<brk, size>>
      BY <2>1 DEF FromList
    <3> DEFINE c == flist[k]
    <3>2. c \in Chunks /\ \A j \in Used : buffer[j] - HEAD # c
      BY <1>7, <3>1 DEF Fits, MyllocInv, Accounted, Range
    <3>3. request <= size[c]
      BY <1>1, <2>0, <3>1, <3>2 DEF Fits
    <3> HIDE DEF c
    <3>4. block = c + HEAD /\ block - HEAD = c
      BY <1>1, <2>0, <3>1, <3>2 DEF c
    <3>5. \A j \in Used' : asked'[j] <= size'[buffer'[j] - HEAD]
      BY <1>2, <1>3, <2>0, <3>1, <3>3, <3>4
    <3>6. block + request <= LIMIT
      <4>1. c + HEAD + size[c] <= brk /\ size[c] \in Nat /\ c \in Nat /\ brk <= LIMIT
        BY <2>0, <3>2 DEF Layout
      <4> QED
        BY <1>1, <3>3, <3>4, <4>1
    <3>7. ASSUME NEW j \in Used
          PROVE  block + request <= buffer[j] \/ buffer[j] + asked[j] <= block
      <4> DEFINE d == buffer[j] - HEAD
      <4>1. /\ d \in Chunks /\ d \in Nat /\ c \in Nat /\ d # c
            /\ size[d] \in Nat /\ size[c] \in Nat /\ asked[j] <= size[d]
            /\ buffer[j] \in Nat /\ asked[j] \in Nat
        BY <1>5, <2>0, <3>2
      <4>2. c + HEAD + size[c] <= d \/ d + HEAD + size[d] <= c
        <5> HIDE DEF d
        <5>1. c < d \/ d < c
          BY <4>1
        <5> QED
          BY <2>0, <3>2, <4>1, <5>1
      <4> QED
        BY <1>1, <3>3, <3>4, <4>1, <4>2
    <3> QED
      BY <1>3, <1>4, <1>7, <3>1, <3>5, <3>6, <3>7 DEF Layout, Chunks
  <2>2. CASE NewChunk(request, block)
    <3>1. /\ brk' = brk + (request + HEAD) /\ block = brk + HEAD /\ brk' <= LIMIT
          /\ size' = [c \in Chunks \cup {brk} |-> IF c = brk THEN request ELSE size[c]]
          /\ Chunks' = Chunks \cup {brk}
      BY <2>2, RequestFits DEF NewChunk, Sbrk, Chunks
    <3>2. /\ brk \notin Chunks /\ size'[brk] = request
          /\ \A c \in Chunks : size'[c] = size[c]
      BY <1>1, <2>0, <3>1
    <3>3. size' \in [Chunks' -> Nat]
      BY <1>1, <2>0, <3>1
    <3>4. \A c \in Chunks' : c + HEAD + size'[c] <= brk'
      BY <1>1, <2>0, <3>1, <3>2
    <3>5. \A c, d \in Chunks' : c < d => c + HEAD + size'[c] <= d
      BY <1>1, <2>0, <3>1, <3>2
    <3>6. block - HEAD = brk
      BY <1>1, <3>1
    <3>7. \A j \in Used' : asked'[j] <= size'[buffer'[j] - HEAD]
      BY <1>1, <1>2, <1>3, <2>0, <3>2, <3>6
    <3>8. /\ block + request <= LIMIT
          /\ \A j \in Used : buffer[j] + asked[j] <= block
      BY <1>1, <1>5, <3>1
    <3> QED
      BY <1>3, <1>4, <1>7, <3>1, <3>3, <3>4, <3>5, <3>7, <3>8 DEF Layout
  <2> QED
    BY <1>7, <2>1, <2>2 DEF malloc
<1> QED
  BY <1>6, <1>7, MyllocAssumption DEF MyllocInv

(* What the client holds, by its entries: used, buf and ask stand for Used,*)
(* buffer and asked before a step or after it.                             *)
LEMMA HeldIs ==
  ASSUME NEW used, NEW buf, NEW ask, NEW h,
         \A i, j \in used : buf[i] = buf[j] => i = j,
         h = [b \in {buf[i] : i \in used} |-> ask[CHOOSE i \in used : buf[i] = b]]
  PROVE  /\ DOMAIN h = {buf[i] : i \in used}
         /\ \A i \in used : h[buf[i]] = ask[i]
<1> SUFFICES ASSUME NEW i \in used PROVE h[buf[i]] = ask[i]
  OBVIOUS
<1>1. (CHOOSE j \in used : buf[j] = buf[i]) = i
  OBVIOUS
<1> QED
  BY <1>1

(* A block freed is released. *)
LEMMA FreeReleases ==
  ASSUME MyllocInv, Layout, NEW i \in Entries, Free(i), UNCHANGED library
  PROVE  Layout' /\ HeapOf!HNext
<1>1. i \in Used
  BY DEF Free, Used
<1>2. /\ Used' = Used \ {i} /\ \A j \in Used \ {i} : buffer'[j] = buffer[j]
  BY <1>1, UsedFreed DEF Free, MyllocInv
<1>3. asked' \in [Entries -> Nat] /\ \A j \in Used \ {i} : asked'[j] = asked[j]
  BY EntryTyped DEF Free, Layout, MyllocInv
<1>4. Layout'
  <2>1. UNCHANGED <<brk, size, Chunks>>
    BY DEF Free, free, Chunks
  <2> QED
    BY <1>2, <1>3, <2>1 DEF Layout
<1>5. \A j, k \in Used : buffer[j] = buffer[k] => j = k
  BY Apart
<1>6. \A j, k \in Used' : buffer'[j] = buffer'[k] => j = k
  BY <1>2, <1>5
<1>7. /\ DOMAIN Held = {buffer[j] : j \in Used}
      /\ \A j \in Used : Held[buffer[j]] = asked[j]
  BY <1>5, HeldIs DEF Held
<1>8. /\ DOMAIN Held' = {buffer'[j] : j \in Used'}
      /\ \A j \in Used' : Held'[buffer'[j]] = asked'[j]
  BY <1>6, HeldIs DEF Held
<1>9. Held' = [q \in DOMAIN Held \ {buffer[i]} |-> Held[q]]
  <2>1. DOMAIN Held' = DOMAIN Held \ {buffer[i]}
    BY <1>1, <1>2, <1>5, <1>7, <1>8
  <2>2. \A q \in DOMAIN Held' : Held'[q] = Held[q]
    BY <1>2, <1>3, <1>7, <1>8
  <2>3. Held' = [q \in DOMAIN Held' |-> Held'[q]]
    BY DEF Held
  <2> HIDE DEF Held
  <2> QED
    BY <2>1, <2>2, <2>3
<1>10. HeapOf!Release(buffer[i])
  BY <1>1, <1>7, <1>9 DEF HeapOf!Release
<1> QED
  BY <1>1, <1>4, <1>7, <1>10 DEF HeapOf!HNext

(* A block allocated is one the heap may hand out. *)
LEMMA AllocateAllocates ==
  ASSUME MyllocInv, Layout, NEW i \in Entries, NEW request \in Requests,
         NEW block \in 0 .. LIMIT, malloc(request, block), UNCHANGED library,
         buffer[i] = NULL, buffer' = [buffer EXCEPT ![i] = block],
         asked' = [asked EXCEPT ![i] = request]
  PROVE  Layout' /\ HeapOf!HNext
<1>1. /\ Layout' /\ block + request <= LIMIT
      /\ \A j \in Used : block + request <= buffer[j] \/ buffer[j] + asked[j] <= block
  BY AllocatedApart
<1>2. /\ request \in Nat /\ request > 0 /\ block \in Nat /\ LIMIT \in Nat
      /\ \A j \in Used : /\ buffer[j] \in Nat /\ asked[j] \in Nat /\ asked[j] > 0
                         /\ j \in Entries /\ j # i
  BY Apart, EntryTyped, MyllocAssumption DEF MyllocInv, Used
<1>3. /\ Used' = Used \cup {i} /\ buffer'[i] = block
      /\ \A j \in Used : buffer'[j] = buffer[j]
      /\ asked'[i] = request /\ \A j \in Used : asked'[j] = asked[j]
  BY <1>2, UsedFilled DEF MyllocInv, Layout
<1>4. \A j, k \in Used : buffer[j] = buffer[k] => j = k
  BY Apart
<1>5. \A j \in Used : buffer[j] # block
  BY <1>1, <1>2
<1>6. \A j, k \in Used' : buffer'[j] = buffer'[k] => j = k
  BY <1>3, <1>4, <1>5
<1>7. /\ DOMAIN Held = {buffer[j] : j \in Used}
      /\ \A j \in Used : Held[buffer[j]] = asked[j]
  BY <1>4, HeldIs DEF Held
<1>8. /\ DOMAIN Held' = {buffer'[j] : j \in Used'}
      /\ \A j \in Used' : Held'[buffer'[j]] = asked'[j]
  BY <1>6, HeldIs DEF Held
<1>9. Held' = [q \in DOMAIN Held \cup {block} |-> IF q = block THEN request ELSE Held[q]]
  <2>1. DOMAIN Held' = DOMAIN Held \cup {block}
    BY <1>3, <1>7, <1>8
  <2>2. \A q \in DOMAIN Held' : Held'[q] = IF q = block THEN request ELSE Held[q]
    BY <1>3, <1>5, <1>7, <1>8
  <2>3. Held' = [q \in DOMAIN Held' |-> Held'[q]]
    BY DEF Held
  <2> HIDE DEF Held
  <2> QED
    BY <2>1, <2>2, <2>3
<1>10. block \notin DOMAIN Held
  BY <1>5, <1>7
<1>11. HeapOf!Bytes(block, request) \subseteq 0 .. (LIMIT - 1)
  BY <1>1, <1>2 DEF HeapOf!Bytes
<1>12. \A q \in DOMAIN Held :
         HeapOf!Bytes(block, request) \cap HeapOf!Bytes(q, Held[q]) = {}
  <2> SUFFICES ASSUME NEW j \in Used
               PROVE  HeapOf!Bytes(block, request) \cap HeapOf!Bytes(buffer[j], asked[j]) = {}
    BY <1>7
  <2> QED
    BY <1>1, <1>2 DEF HeapOf!Bytes
<1>13. block % 1 = 0 /\ block \in 0 .. (LIMIT - 1)
  BY <1>1, <1>2
<1>14. HeapOf!Allocate(block, request)
  BY <1>9, <1>10, <1>11, <1>12, <1>13 DEF HeapOf!Allocate
<1> QED
  BY <1>1, <1>13, <1>14 DEF HeapOf!HNext

(* Both allocators implement the heap: no block is handed out above the    *)
(* limit or over another, for any sequence of the client's calls.          *)
THEOREM MyllocImplementsHeap == MSpec => ImplementsHeap
<1>1. MInit => Layout /\ HeapOf!HInit
  <2> SUFFICES ASSUME MInit PROVE Layout /\ HeapOf!HInit
    OBVIOUS
  <2>1. Used = {} /\ Chunks = {} /\ size \in [Chunks -> Nat]
    BY DEF MInit, Used, Chunks
  <2>2. Held = [p \in {} |-> 0]
    BY <2>1 DEF Held
  <2> QED
    BY <2>1, <2>2, MyllocAssumption DEF MInit, Layout, HeapOf!HInit
<1>2. MyllocInv /\ Layout /\ [MNext]_myllocVars => Layout' /\ [HeapOf!HNext]_Held
  <2> SUFFICES ASSUME MyllocInv, Layout, [MNext]_myllocVars
               PROVE  Layout' /\ [HeapOf!HNext]_Held
    OBVIOUS
  <2>1. CASE UNCHANGED myllocVars
    <3>1. UNCHANGED <<Used, Chunks, Held>>
      BY <2>1 DEF Held, Used, Chunks, myllocVars, benchVars
    <3> QED
      BY <2>1, <3>1 DEF Layout, myllocVars, benchVars
  <2>2. ASSUME NEW i \in Entries, Free(i), UNCHANGED library
        PROVE  Layout' /\ HeapOf!HNext
    BY <2>2, FreeReleases
  <2>3. ASSUME NEW i \in Entries, NEW request \in Requests, Allocate(i, request),
               UNCHANGED library
        PROVE  Layout' /\ [HeapOf!HNext]_Held
    <3>1. CASE UNCHANGED <<brk, size, flist, buffer, asked>>
      <4>1. UNCHANGED <<Used, Chunks, Held>>
        BY <3>1 DEF Held, Used, Chunks
      <4> QED
        BY <2>3, <3>1, <4>1 DEF Layout
    <3>2. CASE \E block \in 0 .. LIMIT : /\ malloc(request, block)
                                        /\ buffer' = [buffer EXCEPT ![i] = block]
                                        /\ asked' = [asked EXCEPT ![i] = request]
      BY <2>3, <3>2, AllocateAllocates DEF Allocate
    <3> QED
      BY <2>3, <3>1, <3>2 DEF Allocate
  <2> QED
    BY <2>1, <2>2, <2>3 DEF MNext, bench
<1> QED
  BY <1>1, <1>2, MyllocInvariant, PTL DEF MSpec, ImplementsHeap, HeapOf!HSpec

-----------------------------------------------------------------------------
(* The heap stops growing: malloc asks the kernel for a chunk of some size *)
(* only while every chunk of that size is in the buffer, which then has an *)
(* entry to spare.                                                         *)

OfSize(s) == {c \in Chunks : size[c] = s}

(* The chunks that the client has are fewer than the entries of the buffer *)
(* when one of these is empty.                                             *)
LEMMA FewerThanEntries ==
  ASSUME NEW i \in Entries, i \notin Used, NEW S, S \subseteq {buffer[j] - HEAD : j \in Used}
  PROVE  IsFiniteSet(S) /\ Cardinality(S) \in 0 .. BUFFER - 1
<1> DEFINE T == {buffer[j] - HEAD : j \in Used}
           f == [j \in Used |-> buffer[j] - HEAD]
<1>1. IsFiniteSet(Entries) /\ Cardinality(Entries) = BUFFER /\ BUFFER \in Nat /\ BUFFER > 0
  <2>1. BUFFER \in Nat /\ BUFFER > 0
    BY MyllocAssumption DEF Entries
  <2> QED
    BY <2>1, FS_Interval DEF Entries
<1>2. IsFiniteSet(Entries \ {i}) /\ Cardinality(Entries \ {i}) = BUFFER - 1
  BY <1>1, FS_RemoveElement
<1>3. Used \subseteq Entries \ {i}
  BY DEF Used
<1>4. IsFiniteSet(Used) /\ Cardinality(Used) <= BUFFER - 1
  BY <1>2, <1>3, FS_Subset
<1>5. f \in Surjection(Used, T)
  BY DEF Surjection
<1> HIDE DEF f, T
<1>6. IsFiniteSet(T) /\ Cardinality(T) <= Cardinality(Used)
  BY <1>4, <1>5, FS_Surjection
<1>7. IsFiniteSet(S) /\ Cardinality(S) <= Cardinality(T)
  BY <1>6, FS_Subset DEF T
<1>8. /\ Cardinality(S) \in Nat /\ Cardinality(T) \in Nat /\ Cardinality(Used) \in Nat
  BY <1>4, <1>6, <1>7, FS_CardinalityType
<1> QED
  BY <1>1, <1>4, <1>6, <1>7, <1>8

(* A new chunk is made only if there are fewer of its size than entries.   *)
LEMMA NewChunkIsNeeded ==
  ASSUME MyllocInv, library = "mhysa", NEW i \in Entries, buffer[i] = NULL,
         NEW request \in Requests, NEW block \in 0 .. LIMIT, NewChunk(request, block),
         NEW s \in Requests, Cardinality(OfSize(s)) <= BUFFER
  PROVE  Cardinality(OfSize(s)') <= BUFFER
<1>1. /\ Chunks' = Chunks \cup {brk} /\ brk \notin Chunks
      /\ size' = [c \in Chunks \cup {brk} |-> IF c = brk THEN request ELSE size[c]]
  BY RequestFits DEF NewChunk, Chunks, MyllocInv
<1>2. CASE s # request
  <2>1. OfSize(s)' = OfSize(s)
    BY <1>1, <1>2 DEF OfSize
  <2> QED
    BY <2>1
<1>3. CASE s = request
  <2>1. OfSize(s)' = OfSize(s) \cup {brk}
    BY <1>1, <1>3 DEF OfSize
  <2>2. \A k \in DOMAIN flist : size[flist[k]] # s
    BY <1>3, MyllocAssumption DEF NewChunk, Fits
  <2>3. OfSize(s) \subseteq {buffer[j] - HEAD : j \in Used}
    BY <2>2 DEF OfSize, MyllocInv, Accounted, Range
  <2>4. i \notin Used
    BY DEF Used
  <2>5. IsFiniteSet(OfSize(s)) /\ Cardinality(OfSize(s)) \in 0 .. BUFFER - 1
    BY <2>3, <2>4, FewerThanEntries
  <2>6. Cardinality(OfSize(s) \cup {brk})
          = IF brk \in OfSize(s) THEN Cardinality(OfSize(s)) ELSE Cardinality(OfSize(s)) + 1
    BY <2>5, FS_AddElement
  <2> QED
    BY <2>1, <2>5, <2>6, MyllocAssumption
<1> QED
  BY <1>2, <1>3

(* Of any size mhysa.c never makes more chunks than the buffer has entries, *)
(* for any number of entries, any sizes and any limit of the heap.         *)
THEOREM TheHeapStopsGrowing == MSpec => []SizesAreReused
<1>1. MInit => SizesAreReused
  <2> SUFFICES ASSUME MInit, NEW s \in Requests PROVE Cardinality(OfSize(s)) <= BUFFER
    BY DEF SizesAreReused, OfSize
  <2>1. OfSize(s) = {}
    BY DEF MInit, OfSize, Chunks
  <2> QED
    BY <2>1, FS_EmptySet, MyllocAssumption
<1>2. MyllocInv /\ SizesAreReused /\ [MNext]_myllocVars => SizesAreReused'
  <2> SUFFICES ASSUME MyllocInv, SizesAreReused, [MNext]_myllocVars,
                      library' = "mhysa", NEW s \in Requests
               PROVE  Cardinality(OfSize(s)') <= BUFFER
    BY DEF SizesAreReused, OfSize
  <2>1. library = "mhysa" /\ Cardinality(OfSize(s)) <= BUFFER
    BY DEF SizesAreReused, OfSize, MNext, bench, myllocVars
  <2>2. CASE UNCHANGED size
    BY <2>1, <2>2 DEF OfSize, Chunks
  <2>3. ASSUME NEW i \in Entries, NEW request \in Requests, NEW block \in 0 .. LIMIT,
               buffer[i] = NULL, NewChunk(request, block)
        PROVE  Cardinality(OfSize(s)') <= BUFFER
    BY <2>1, <2>3, NewChunkIsNeeded
  <2>4. \/ UNCHANGED size
        \/ \E i \in Entries, request \in Requests, block \in 0 .. LIMIT :
             buffer[i] = NULL /\ NewChunk(request, block)
    BY <2>1 DEF MNext, bench, Free, free, Allocate, malloc, FromList, myllocVars
  <2> QED
    BY <2>2, <2>3, <2>4
<1> QED
  BY <1>1, <1>2, MyllocInvariant, PTL DEF MSpec
=============================================================================
