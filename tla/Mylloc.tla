-------------------------------- MODULE Mylloc --------------------------------
(* The allocators of mylloc-assignment, which extend the heap with sbrk,   *)
(* and bench.c, which allocates and frees at random through a buffer.      *)
(*   mylloc.c   hands out new memory always, and free does nothing         *)
(*   mhysa.c    puts a chunk header in front of each block, and keeps what *)
(*              is freed on a list, which malloc searches first            *)
(* Addresses count from the top of the heap at the start.  A header is at  *)
(* its chunk's first HEAD bytes and not in the block, so that no client    *)
(* that keeps to its blocks changes it.                                    *)
EXTENDS Integers, Sequences, FiniteSets, Functions

CONSTANTS
  BUFFER,       \* the entries of bench.c's buffer
  Requests,     \* what request() may return
  LIMIT,        \* the kernel lets the heap grow up to here
  HEAD,         \* sizeof(struct chunk)
  IntSpan,      \* the number of values of an int
  Libraries,    \* the allocators considered: "mylloc", "mhysa"
  NULL

ASSUME MyllocAssumption ==
  /\ BUFFER \in Nat /\ LIMIT \in Nat /\ HEAD \in Nat \ {0}
  /\ Requests \subseteq Nat \ {0}      \* request() returns 8 to 4000 bytes,
  /\ IntSpan \in Nat \ {0}             \* which an int can hold
  /\ \A request \in Requests : 2 * request < IntSpan
  /\ Libraries \subseteq {"mylloc", "mhysa"}
  /\ NULL \notin Int

VARIABLES
  library,
  brk,          \* sbrk(0): the top of the heap
  size,         \* the size field of each chunk, by its address
  flist,        \* the addresses of the free chunks, in the order of the list
  buffer,       \* bench.c's buffer
  asked,        \* what the client asked for, for the blocks in the buffer
  failed        \* bench.c has returned 1

benchVars == <<buffer, asked, failed>>
myllocVars == <<library, brk, size, flist, benchVars>>

Entries == 1 .. BUFFER

MInit ==
  /\ library \in Libraries
  /\ brk = 0
  /\ size = [c \in {} |-> 0]
  /\ flist = <<>>
  /\ buffer = [i \in Entries |-> NULL]
  /\ asked = [i \in Entries |-> 0]
  /\ failed = FALSE

-----------------------------------------------------------------------------
(* mhysa.c.  The field size is an int, which the comparison with a size_t  *)
(* makes unsigned: a negative one is larger than any request.              *)

ToInt(n) == LET m == n % IntSpan IN IF 2 * m >= IntSpan THEN m - IntSpan ELSE m

(* The positions of the list whose chunk is large enough, with the slip of *)
(* a strict comparison.                                                    *)
FitsStrictly(request) ==
  {k \in DOMAIN flist : size[flist[k]] < 0 \/ size[flist[k]] > request}

Fits(request) ==
  {k \in DOMAIN flist : size[flist[k]] < 0 \/ size[flist[k]] >= request}

(* The list without its k-th chunk, with the slips that the chunks before  *)
(* it are lost with it, and that it stays.                                 *)
UnlinkFromFront(k) == SubSeq(flist, k + 1, Len(flist))

UnlinkNothing(k) == flist

Unlink(k) ==
  [j \in 1 .. Len(flist) - 1 |-> IF j < k THEN flist[j] ELSE flist[j + 1]]

(* The first chunk that is large enough leaves the list; without one the   *)
(* heap grows by a chunk, which is at its old top.                         *)
FromList(request, block) ==
  \E k \in Fits(request) :
    /\ \A j \in Fits(request) : k <= j
    /\ block = flist[k] + HEAD
    /\ flist' = Unlink(k)
    /\ UNCHANGED <<brk, size>>

Sbrk(bytes) == brk + bytes <= LIMIT /\ brk' = brk + bytes

NewChunk(request, block) ==
  /\ Fits(request) = {}
  /\ Sbrk(request + HEAD)
  /\ block = brk + HEAD
  /\ size' = [c \in DOMAIN size \cup {brk} |-> IF c = brk THEN ToInt(request) ELSE size[c]]
  /\ UNCHANGED flist

(* mylloc.c *)
NewMemory(request, block) ==
  Sbrk(request) /\ block = brk /\ UNCHANGED <<size, flist>>

malloc(request, block) ==
  \/ library = "mhysa" /\ (FromList(request, block) \/ NewChunk(request, block))
  \/ library = "mylloc" /\ NewMemory(request, block)

(* sbrk fails, and malloc returns NULL.                                    *)
Refused(request) ==
  \/ library = "mhysa" /\ Fits(request) = {} /\ brk + request + HEAD > LIMIT
  \/ library = "mylloc" /\ brk + request > LIMIT

free(block) ==
  /\ flist' = IF library = "mhysa" THEN <<block - HEAD>> \o flist ELSE flist
  /\ UNCHANGED <<brk, size>>

-----------------------------------------------------------------------------
(* bench.c: one turn of its loop. *)

Free(i) ==
  /\ buffer[i] # NULL
  /\ free(buffer[i])
  /\ buffer' = [buffer EXCEPT ![i] = NULL]
  /\ asked' = [asked EXCEPT ![i] = 0]
  /\ UNCHANGED failed

Allocate(i, request) ==
  /\ buffer[i] = NULL
  /\ \/ \E block \in 0 .. LIMIT :
          /\ malloc(request, block)
          /\ buffer' = [buffer EXCEPT ![i] = block]
          /\ asked' = [asked EXCEPT ![i] = request]
          /\ UNCHANGED failed
     \/ /\ Refused(request)
        /\ failed' = TRUE
        /\ UNCHANGED <<brk, size, flist, buffer, asked>>

bench ==
  /\ ~failed
  /\ UNCHANGED library
  /\ \E i \in Entries : Free(i) \/ \E request \in Requests : Allocate(i, request)

MNext == bench \/ (failed /\ UNCHANGED myllocVars)

MSpec == MInit /\ [][MNext]_myllocVars

-----------------------------------------------------------------------------
Used == {i \in Entries : buffer[i] # NULL}

Chunks == DOMAIN size

(* Under mhysa.c each chunk is in one place: in one entry of the buffer or *)
(* once on the free list, which loses none when it is taken apart in its   *)
(* middle.                                                                 *)
Accounted ==
  library = "mhysa" =>
    /\ Chunks = Range(flist) \cup {buffer[i] - HEAD : i \in Used}
    /\ IsInjective(flist)
    /\ \A i, j \in Used : buffer[i] = buffer[j] => i = j
    /\ \A i \in Used : buffer[i] - HEAD \notin Range(flist)

(* Under mhysa.c the heap stops growing: of any size there are never more  *)
(* chunks than the client holds blocks at a time, which is why bench.c     *)
(* calls the kernel 184 times instead of 882424.                           *)
SizesAreReused ==
  library = "mhysa" =>
    \A s \in Requests : Cardinality({c \in Chunks : size[c] = s}) <= BUFFER

(* The client's blocks, with the sizes it asked for.                       *)
Held ==
  [b \in {buffer[i] : i \in Used} |-> asked[CHOOSE i \in Used : buffer[i] = b]]

(* Both allocators are heaps: a block lies below the top, is as large as   *)
(* asked for, and shares no byte with another that is in use.              *)
HeapOf == INSTANCE Heap WITH ARENA <- LIMIT, Align <- 1, held <- Held

ImplementsHeap == HeapOf!HSpec
=============================================================================
