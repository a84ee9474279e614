----------------------------- MODULE GreenQueue -----------------------------
(* enqueue and dequeue of seminar3/green.c, one load or store at a time.   *)
(* All lists link their threads by the one field green_t.next.  Callers    *)
(* have SIGVTALRM blocked: one operation runs at a time, to its end.       *)
EXTENDS Naturals, FiniteSets, Functions

CONSTANTS Lists, Threads, NULL

ASSUME ThreadsAssumption == IsFiniteSet(Threads) /\ NULL \notin Threads

VARIABLES
  head,       \* *list: the first thread of each list
  nxt,        \* green_t.next
  pc,         \* the point the operation in progress is at
  list,       \* its parameter list
  thread,     \* enqueue's parameter and dequeue's local variable
  susp        \* enqueue's local variable

gqVars == <<head, nxt, pc, list, thread, susp>>

GQInit ==
  /\ head = [l \in Lists |-> NULL]
  /\ nxt = [t \in Threads |-> NULL]
  /\ pc = "idle"
  /\ list \in Lists
  /\ thread = NULL /\ susp = NULL

(* The nodes met from the head of l on, NULL at the end.  A chain that     *)
(* does not end among the first Cardinality(Threads) has a cycle.          *)
Node(l) ==
  LET node[i \in 0 .. Cardinality(Threads)] ==
        IF i = 0 THEN head[l]
        ELSE IF node[i - 1] = NULL THEN NULL ELSE nxt[node[i - 1]]
  IN node

Chain(l) ==
  LET length == Cardinality({i \in DOMAIN Node(l) : Node(l)[i] # NULL})
  IN [i \in 1 .. length |-> Node(l)[i - 1]]

(* The calls: green_cond_wait also enqueues the NULL it may have dequeued. *)
CallEnqueue(l, t) ==
  /\ pc = "idle"
  /\ \A k \in Lists : t \notin Range(Chain(k))
  /\ pc' = "enqueue" /\ list' = l /\ thread' = t
  /\ UNCHANGED <<head, nxt, susp>>

CallDequeue(l) ==
  /\ pc = "idle"
  /\ pc' = "dequeue" /\ list' = l
  /\ UNCHANGED <<head, nxt, thread, susp>>

EnqueueFirst ==
  /\ pc = "enqueue" /\ head[list] = NULL
  /\ head' = [head EXCEPT ![list] = thread]
  /\ pc' = "idle"
  /\ UNCHANGED <<nxt, list, thread, susp>>

EnqueueWalk ==
  /\ \/ pc = "enqueue" /\ head[list] # NULL /\ susp' = head[list]
     \/ pc = "walk" /\ nxt[susp] # NULL /\ susp' = nxt[susp]
  /\ pc' = "walk"
  /\ UNCHANGED <<head, nxt, list, thread>>

(* Slip: the thread is linked after the first one. *)
EnqueueSecond ==
  /\ pc = "walk" /\ nxt[susp] = NULL
  /\ nxt' = IF thread = NULL THEN nxt
            ELSE [nxt EXCEPT ![head[list]] = thread, ![thread] = nxt[head[list]]]
  /\ pc' = "idle"
  /\ UNCHANGED <<head, list, thread, susp>>

EnqueueLast ==
  /\ pc = "walk" /\ nxt[susp] = NULL
  /\ nxt' = [nxt EXCEPT ![susp] = thread]
  /\ pc' = "idle"
  /\ UNCHANGED <<head, list, thread, susp>>

DequeueNone ==
  /\ pc = "dequeue" /\ head[list] = NULL
  /\ pc' = "idle"
  /\ UNCHANGED <<head, nxt, list, thread, susp>>

(* Slip: the empty list is not told from the others. *)
DequeueLoadUnchecked ==
  /\ pc = "dequeue"
  /\ thread' = head[list]
  /\ pc' = "advance"
  /\ UNCHANGED <<head, nxt, list, susp>>

DequeueLoad ==
  /\ pc = "dequeue" /\ head[list] # NULL
  /\ thread' = head[list]
  /\ pc' = "advance"
  /\ UNCHANGED <<head, nxt, list, susp>>

DequeueAdvance ==
  /\ pc = "advance"
  /\ head' = [head EXCEPT ![list] = nxt[head[list]]]
  /\ pc' = "clear"
  /\ UNCHANGED <<nxt, list, thread, susp>>

(* Slip: the thread keeps its link. *)
DequeueForgetsClear ==
  /\ pc = "clear"
  /\ pc' = "idle"
  /\ UNCHANGED <<head, nxt, list, thread, susp>>

DequeueClear ==
  /\ pc = "clear"
  /\ nxt' = [nxt EXCEPT ![thread] = NULL]
  /\ pc' = "idle"
  /\ UNCHANGED <<head, list, thread, susp>>

GQNext ==
  \/ \E l \in Lists : CallDequeue(l) \/ \E t \in Threads \cup {NULL} : CallEnqueue(l, t)
  \/ EnqueueFirst \/ EnqueueWalk \/ EnqueueLast
  \/ DequeueNone \/ DequeueLoad \/ DequeueAdvance \/ DequeueClear

GQSpec ==
  /\ GQInit /\ [][GQNext]_gqVars
  /\ WF_gqVars(EnqueueFirst \/ EnqueueWalk \/ EnqueueLast \/ DequeueNone
               \/ DequeueLoad \/ DequeueAdvance \/ DequeueClear)

-----------------------------------------------------------------------------
(* Every variable has its type, and no statement dereferences NULL: the    *)
(* walk is at a thread, and dequeue has one when it looks at a next.       *)
GQTypeOK ==
  /\ head \in [Lists -> Threads \cup {NULL}]
  /\ nxt \in [Threads -> Threads \cup {NULL}]
  /\ pc \in {"idle", "enqueue", "walk", "dequeue", "advance", "clear"}
  /\ list \in Lists
  /\ thread \in Threads \cup {NULL} /\ susp \in Threads \cup {NULL}
  /\ pc = "walk" => susp # NULL
  /\ pc \in {"advance", "clear"} => thread # NULL

(* One field serves all lists: no thread is the next of two threads, the   *)
(* head of two lists, or both, so no list runs into another or into itself.*)
OnePredecessor ==
  \A t \in Threads :
    Cardinality({l \in Lists : head[l] = t}) + Cardinality({u \in Threads : nxt[u] = t})
      <= IF pc = "clear" /\ nxt[thread] = t THEN 2 ELSE 1

(* enqueue's walk along the links ends, and with it the call.              *)
WalkEnds == pc # "idle" ~> pc = "idle"

(* The links are the FIFO queues the scheduler relies on: the store of     *)
(* *list or of the last next puts a thread in, the store of *list takes    *)
(* the oldest out, and no other step changes a queue.                      *)
Queues == INSTANCE ThreadQueues WITH
  queue <- [l \in Lists |-> Chain(l)],
  out <- IF pc = "clear" THEN thread ELSE NULL

ImplementsQueues == Queues!QueuesSpec
=============================================================================
