---------------------------- MODULE ThreadQueues ----------------------------
(* What enqueue and dequeue of seminar3/green.c promise the scheduler:     *)
(* every list is a FIFO queue, and a thread is in at most one of them.     *)
EXTENDS Sequences, Functions

CONSTANTS
  Lists,      \* ready_queue, and the lists of the conditions and the mutexes
  Threads,
  NULL

VARIABLES
  queue,      \* the threads of each list, oldest first
  out         \* the thread a dequeue has taken and not returned yet

queuesVars == <<queue, out>>

QueuesInit == queue = [l \in Lists |-> <<>>] /\ out = NULL

Enqueue(l, t) ==
  /\ out = NULL
  /\ \A k \in Lists : t \notin Range(queue[k])
  /\ queue' = [queue EXCEPT ![l] = Append(@, t)]
  /\ UNCHANGED out

Dequeue(l) ==
  /\ out = NULL
  /\ queue[l] # <<>>
  /\ queue' = [queue EXCEPT ![l] = Tail(@)]
  /\ out' = Head(queue[l])

Return == out # NULL /\ out' = NULL /\ UNCHANGED queue

QueuesNext ==
  \/ \E l \in Lists : Dequeue(l) \/ \E t \in Threads : Enqueue(l, t)
  \/ Return

QueuesSpec == QueuesInit /\ [][QueuesNext]_queuesVars
=============================================================================
