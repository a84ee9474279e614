------------------------------ MODULE DLMalloc ------------------------------
(***************************************************************************)
(* The allocator of seminar2/dlmalloc.c: one arena cut into blocks with a  *)
(* header of HEAD bytes each, the free ones linked through the first 16    *)
(* bytes of their payload.  Addresses are byte offsets in the arena.       *)
(*                                                                         *)
(* A header is remembered at the address where one was written last; the   *)
(* links exist only while a block is on the free list, because its payload *)
(* is the client's otherwise.  The client calls init once or more, asks    *)
(* for any size of Requests and frees only what it was given.              *)
(***************************************************************************)
EXTENDS Integers, FiniteSets, Functions

CONSTANTS
  ARENA,      \* the bytes mapped for the arena
  Requests,   \* the sizes the client asks for
  IntSpan,    \* the number of values of an int
  ShortSpan,  \* the number of values of a uint16_t
  Merging,    \* whether dfree calls merge: FALSE is the code as it is, with the
              \* call commented out, TRUE the code with the call put back
  NULL

ASSUME ArenaAssumption ==
  /\ ShortSpan \in Nat
  /\ ARENA \in 40 .. ShortSpan /\ ARENA % 8 = 0    \* sizes fit a uint16_t
  /\ Requests \subseteq Nat
  /\ IntSpan \in Nat /\ IntSpan % 16 = 0 /\ IntSpan > 2 * ARENA
  /\ Merging \subseteq BOOLEAN
  /\ NULL \notin Int

HEAD == 8       \* sizeof(struct taken)
ALIGN == 8
LinkBytes == 16  \* next and prev in struct head
MIN(size) == IF size > 16 THEN size ELSE 16

(* Slips: a block may be split that leaves less than the smallest block, or *)
(* not even room for its header.                                           *)
LimitForgetsMin(size) == HEAD + size

LimitForgetsHead(size) == size

LIMIT(size) == MIN(0) + HEAD + size

VARIABLES
  head,     \* the header at each address where a block starts
  flist,    \* the free list: its first block and the blocks' next and prev
  held,     \* the client's blocks: from the payload's address to the request
  merging,  \* the variant of the code that runs
  fault     \* how the process died

vars == <<head, flist, held, merging, fault>>

EmptyList == [first |-> NULL, next |-> [b \in {} |-> NULL],
              prev |-> [b \in {} |-> NULL]]

Init ==
  /\ head = [b \in {} |-> NULL]
  /\ flist = EmptyList
  /\ held = [p \in {} |-> 0]
  /\ merging \in Merging
  /\ fault = "none"

-----------------------------------------------------------------------------
(* Blocks. *)

Sizes == 0 .. (ShortSpan - 1)

Headers == [bfree : BOOLEAN, bsize : Sizes, free : BOOLEAN, size : Sizes]

Header(bfree, bsize, free, size) ==
  [bfree |-> bfree, bsize |-> bsize, free |-> free, size |-> size]

After(h, b) == b + h[b].size + HEAD

Before(h, b) == b - h[b].bsize - HEAD

(* The headers h, with header r at address b. *)
Put(h, b, r) == [c \in DOMAIN h \cup {b} |-> IF c = b THEN r ELSE h[c]]

Sentinel == ARENA - HEAD

new ==
  LET size == ARENA - 2 * HEAD
  IN Put(Put(head, 0, Header(FALSE, 0, TRUE, size)),
         Sentinel, Header(TRUE, size, FALSE, 0))

(* Slip: the block after is not told. *)
SplitForgetsAfter(h, b, size) ==
  LET rsize == h[b].size - size - HEAD
  IN Put([h EXCEPT ![b].size = rsize],
         b + rsize + HEAD, Header(h[b].free, rsize, FALSE, size))

(* The block b keeps what is left in front of a new block of this size. *)
split(h, b, size) ==
  LET rsize == h[b].size - size - HEAD
      splt == b + rsize + HEAD
      aft == After(h, b)
  IN Put(Put([h EXCEPT ![b].size = rsize],
             splt, Header(h[b].free, rsize, FALSE, size)),
         aft, [h[aft] EXCEPT !.bsize = size])

-----------------------------------------------------------------------------
(* The free list. *)

(* Slip: the block after keeps its prev. *)
DetachForgetsPrev(l, b) ==
  LET rest == DOMAIN l.next \ {b}
  IN [first |-> IF l.prev[b] = NULL THEN l.next[b] ELSE l.first,
      next |-> [c \in rest |-> IF c = l.prev[b] THEN l.next[b] ELSE l.next[c]],
      prev |-> [c \in rest |-> l.prev[c]]]

detach(l, b) ==
  LET rest == DOMAIN l.next \ {b}
  IN [first |-> IF l.prev[b] = NULL THEN l.next[b] ELSE l.first,
      next |-> [c \in rest |-> IF c = l.prev[b] THEN l.next[b] ELSE l.next[c]],
      prev |-> [c \in rest |-> IF c = l.next[b] THEN l.prev[b] ELSE l.prev[c]]]

insert(l, b) ==
  LET all == DOMAIN l.next \cup {b}
  IN [first |-> b,
      next |-> [c \in all |-> IF c = b THEN l.first ELSE l.next[c]],
      prev |-> [c \in all |-> CASE c = b -> NULL
                                [] c = l.first /\ c # b -> b
                                [] OTHER -> l.prev[c]]]

(* The links of a block this small reach into the next block's header.     *)
LinksOverrun(h, b) == h[b].size < LinkBytes

(* The first block of the list that is large enough, or NULL.              *)
FirstFit(size) ==
  LET from[b \in DOMAIN flist.next \cup {NULL}] ==
        IF b = NULL THEN NULL
        ELSE IF head[b].size >= size THEN b ELSE from[flist.next[b]]
  IN IF size < 0 THEN NULL ELSE from[flist.first]    \* as size_t it is huge

-----------------------------------------------------------------------------
(* adjust.  A size_t becomes an int; % truncates towards zero.             *)

ToInt(n) == LET m == n % IntSpan IN IF 2 * m >= IntSpan THEN m - IntSpan ELSE m

Remainder(a, b) == IF a >= 0 THEN a % b ELSE -((-a) % b)

(* Slip: the request is rounded down. *)
AdjustDown(size) ==
  LET minsize == ToInt(MIN(size))
  IN IF Remainder(minsize, ALIGN) = 0 THEN ToInt(size)
     ELSE minsize - Remainder(minsize, ALIGN)

adjust(size) ==
  LET minsize == ToInt(MIN(size))
      adj == Remainder(minsize, ALIGN)
  IN IF adj = 0 THEN ToInt(size) ELSE ToInt(minsize + ALIGN - adj)

-----------------------------------------------------------------------------
(* merge, on the headers h and the free list l.  The header of a block     *)
(* that becomes part of another one is forgotten.                          *)

Joined(h, b, c) ==
  LET size == h[b].size + h[c].size + HEAD
      rest == Restrict([h EXCEPT ![b].size = size], DOMAIN h \ {c})
  IN [rest EXCEPT ![After(rest, b)].bsize = size]

MergeBefore(h, l, b) ==
  IF h[b].bfree
  THEN [block |-> Before(h, b), head |-> Joined(h, Before(h, b), b),
        flist |-> detach(l, Before(h, b))]
  ELSE [block |-> b, head |-> h, flist |-> l]

(* Slip: the block after is not looked at. *)
MergeOnlyBefore(h, l, b) == MergeBefore(h, l, b)

merge(h, l, b) ==
  LET m == MergeBefore(h, l, b)
      aft == After(m.head, m.block)
  IN IF m.head[aft].free
     THEN [m EXCEPT !.head = Joined(m.head, m.block, aft),
                    !.flist = detach(m.flist, aft)]
     ELSE m

-----------------------------------------------------------------------------
(* The calls. *)

Alive == fault = "none"

Die(how) == fault' = how /\ UNCHANGED <<head, flist, held, merging>>

(* init: new returns NULL when mmap fails or there is an arena already,    *)
(* and insert writes through it.                                           *)
init ==
  /\ Alive
  /\ \/ Die("null")
     \/ /\ DOMAIN head = {}
        /\ head' = new
        /\ flist' = insert(flist, 0)
        /\ UNCHANGED <<held, merging, fault>>

Give(b, requested) ==
  held' = [p \in DOMAIN held \cup {b + HEAD} |->
             IF p = b + HEAD THEN requested ELSE held[p]]

(* find, with the block b that fits, as dalloc calls it. *)
FindSplits(b, size, requested) ==
  LET h == split(head, b, size)
      block == After(h, b)
      aft == After(h, block)
  IN /\ head[b].size >= LIMIT(size)
     /\ head' = [h EXCEPT ![aft].bfree = FALSE, ![block].free = FALSE]
     /\ flist' = insert(detach(flist, b), b)
     /\ fault' = IF LinksOverrun(h, b) THEN "overrun" ELSE "none"
     /\ Give(block, requested)

(* Slip: the block stays on the free list. *)
FindWholeKeepsLinks(b, size, requested) ==
  /\ head[b].size < LIMIT(size)
  /\ head' = [head EXCEPT ![b].free = FALSE, ![After(head, b)].bfree = FALSE]
  /\ Give(b, requested)
  /\ UNCHANGED <<flist, fault>>

FindWhole(b, size, requested) ==
  /\ head[b].size < LIMIT(size)
  /\ head' = [head EXCEPT ![b].free = FALSE, ![After(head, b)].bfree = FALSE]
  /\ flist' = detach(flist, b)
  /\ Give(b, requested)
  /\ UNCHANGED fault

(* A request of 0 bytes, or that no block of the list fits, gets NULL. *)
dalloc(requested) ==
  LET size == adjust(requested)
      b == FirstFit(size)
  IN /\ Alive
     /\ requested > 0 /\ b # NULL
     /\ FindSplits(b, size, requested) \/ FindWhole(b, size, requested)
     /\ UNCHANGED merging

(* Slip: the block is put on the list and not marked. *)
DfreeForgetsFlag(p) ==
  LET b == p - HEAD
  IN /\ Alive
     /\ p \in DOMAIN held
     /\ held' = Restrict(held, DOMAIN held \ {p})
     /\ head' = [head EXCEPT ![After(head, b)].bfree = TRUE]
     /\ flist' = insert(flist, b)
     /\ UNCHANGED <<merging, fault>>

dfree(p) ==
  LET m == IF merging THEN merge(head, flist, p - HEAD)
           ELSE [block |-> p - HEAD, head |-> head, flist |-> flist]
      b == m.block
  IN /\ Alive
     /\ p \in DOMAIN held
     /\ held' = Restrict(held, DOMAIN held \ {p})
     /\ head' = [m.head EXCEPT ![b].free = TRUE, ![After(m.head, b)].bfree = TRUE]
     /\ flist' = insert(m.flist, b)
     /\ fault' = IF LinksOverrun(m.head, b) THEN "overrun" ELSE "none"
     /\ UNCHANGED merging

-----------------------------------------------------------------------------
(* sanity: it walks the free list up to its end or a block of size 0.      *)

Walked ==
  LET from[b \in DOMAIN flist.next \cup {NULL}] ==
        IF b = NULL THEN {}
        ELSE IF head[b].size = 0 THEN {} ELSE {b} \cup from[flist.next[b]]
  IN from[flist.first]

LooksSane ==
  \A b \in Walked :
    /\ head[b].free
    /\ head[b].size % ALIGN = 0
    /\ flist.next[b] \in Walked => flist.prev[flist.next[b]] = b

sanity ==
  /\ Alive
  /\ fault' = CASE flist.first = NULL -> "null"
                [] flist.first # NULL /\ ~LooksSane -> "not ok"
                [] OTHER -> "none"
  /\ UNCHANGED <<head, flist, held, merging>>

Dead == ~Alive /\ UNCHANGED vars

Next ==
  \/ init \/ sanity \/ Dead
  \/ \E requested \in Requests : dalloc(requested)
  \/ \E p \in DOMAIN held : dfree(p)

DLSpec == Init /\ [][Next]_vars

-----------------------------------------------------------------------------
Addresses == 0 .. (ARENA - 1)

(* Every variable has its type. *)
DLTypeOK ==
  /\ DOMAIN head \subseteq Addresses
  /\ \A b \in DOMAIN head : head[b] \in Headers
  /\ flist.first \in DOMAIN flist.next \cup {NULL}
  /\ DOMAIN flist.prev = DOMAIN flist.next
  /\ DOMAIN held \subseteq Addresses
  /\ merging \in BOOLEAN
  /\ fault \in {"none", "null", "not ok", "overrun"}

Ready == Alive /\ DOMAIN head # {}

(* The blocks tile the arena up to the sentinel, and each block's header   *)
(* tells the truth about the block before it, through every sequence of    *)
(* splits and frees: what before() and merge() rely on.                    *)
BoundaryTags ==
  Ready =>
    /\ {0, Sentinel} \subseteq DOMAIN head
    /\ head[Sentinel].size = 0 /\ ~head[Sentinel].free
    /\ ~head[0].bfree
    /\ \A b \in DOMAIN head \ {Sentinel} :
         LET aft == After(head, b)
         IN /\ aft \in DOMAIN head
            /\ DOMAIN head \cap ((b + 1) .. (aft - 1)) = {}
            /\ head[aft].bsize = head[b].size /\ head[aft].bfree = head[b].free

Listed ==
  LET from[n \in 0 .. ARENA] ==
        IF n = 0 THEN {flist.first} \ {NULL}
        ELSE from[n - 1] \cup
             ({flist.next[b] : b \in from[n - 1]} \ {NULL})
  IN from[Cardinality(DOMAIN flist.next)]

(* The free list holds every free block and no other, its prev links       *)
(* invert its next links, and walking it from flist meets all of it.       *)
FreeListComplete ==
  Alive =>
    /\ DOMAIN flist.next = {b \in DOMAIN head : head[b].free}
    /\ Listed = DOMAIN flist.next
    /\ \A b \in Listed :
         /\ flist.prev[b] = NULL <=> b = flist.first
         /\ flist.next[b] # NULL => flist.prev[flist.next[b]] = b

(* The blocks that are not free are the client's, each at least as large   *)
(* as what the client asked for: no block leaks, none is handed out twice. *)
NoLeak ==
  Ready =>
    /\ {b + HEAD : b \in {c \in DOMAIN head : ~head[c].free} \ {Sentinel}}
         = DOMAIN held
    /\ \A p \in DOMAIN held : head[p - HEAD].size >= held[p]

(* Writing the links of a freed block never reaches the next block's       *)
(* header, whatever split has cut off: a remainder below MIN is not made.  *)
(* Of the block that is handed out this is true only where the request     *)
(* holds the links itself: adjust does not raise a smaller one to MIN.     *)
LinksFit == fault # "overrun"

(* sanity never finds the free list out of order.                          *)
SanityHolds == fault # "not ok"

(* With merge called, no two free blocks are neighbours.                   *)
Coalesced ==
  Ready /\ merging => \A b \in DOMAIN head : ~(head[b].free /\ head[b].bfree)

(* The allocator is a heap: dalloc gives the client aligned blocks of the  *)
(* arena, as large as it asked for, that overlap no other.                 *)
HeapOf == INSTANCE Heap WITH Align <- ALIGN

ImplementsHeap == HeapOf!HSpec
=============================================================================
