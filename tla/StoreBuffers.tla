---------------------------- MODULE StoreBuffers ----------------------------
(* The memory the programs of locks-assignment run on.  A processor of the *)
(* x86 puts its stores in a buffer of its own, from which they reach the   *)
(* memory in order and some time later; it reads its own stores before     *)
(* that, and a locked instruction waits until its buffer is empty.  A      *)
(* machine that is not buffered has a sequentially consistent memory.      *)
EXTENDS Naturals, Sequences

CONSTANTS
  Cpus,
  Buffered    \* the machines considered: a set of values of buffered

ASSUME BufferedAssumption == Buffered \subseteq BOOLEAN

VARIABLES
  memory,     \* the value of each location
  buffer,     \* the stores of each processor on their way, oldest first
  buffered    \* whether the machine has store buffers

memoryVars == <<memory, buffer, buffered>>

NoStores == buffer = [c \in Cpus |-> <<>>] /\ buffered \in Buffered

Pending(c, loc) == {i \in DOMAIN buffer[c] : buffer[c][i].loc = loc}

(* The value c reads: of its newest pending store, or of the memory. *)
Read(c, loc) ==
  IF Pending(c, loc) = {} THEN memory[loc]
  ELSE buffer[c][CHOOSE i \in Pending(c, loc) : \A j \in Pending(c, loc) : j <= i].val

Store(c, loc, v) ==
  /\ UNCHANGED buffered
  /\ \/ /\ buffered
        /\ buffer' = [buffer EXCEPT ![c] = Append(@, [loc |-> loc, val |-> v])]
        /\ UNCHANGED memory
     \/ /\ ~buffered
        /\ memory' = [memory EXCEPT ![loc] = v]
        /\ UNCHANGED buffer

(* The oldest store of c reaches the memory. *)
Drain(c) ==
  /\ buffer[c] # <<>>
  /\ memory' = [memory EXCEPT ![Head(buffer[c]).loc] = Head(buffer[c]).val]
  /\ buffer' = [buffer EXCEPT ![c] = Tail(@)]
  /\ UNCHANGED buffered

(* A compare-and-swap of the expected value with v. *)
CompareAndSwap(c, loc, expected, v) ==
  /\ buffer[c] = <<>>
  /\ memory' = IF memory[loc] = expected THEN [memory EXCEPT ![loc] = v] ELSE memory
  /\ UNCHANGED <<buffer, buffered>>
=============================================================================
