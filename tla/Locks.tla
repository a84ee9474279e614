-------------------------------- MODULE Locks --------------------------------
(* The programs of locks-assignment: threads increment a counter under     *)
(* Peterson's lock (peterson.c, two threads) or under one that is taken    *)
(* with compare-and-swap and released with a plain store (swap.c), all on  *)
(* volatile variables.  A statement that loads or stores is a step.        *)
EXTENDS StoreBuffers

CONSTANTS
  Rounds,      \* the increments of each thread, argv[1]
  Programs     \* the programs considered: "peterson", "swap"

ASSUME LocksAssumption ==
  /\ {0, 1} \subseteq Cpus /\ Cpus \subseteq Nat
  /\ Rounds \in Nat
  /\ Programs \subseteq {"peterson", "swap"}

VARIABLES
  program,
  pc,          \* the statement each thread is at
  rounds,      \* the increments it has still to make
  register,    \* what it has loaded of count
  overtaken    \* history: how often the other has taken Peterson's lock since
               \* this thread began to spin

countVars == <<rounds, register, overtaken>>
lockVars == <<memoryVars, program, pc, countVars>>

Request(id) == IF id = 0 THEN "request[0]" ELSE "request[1]"

Other(id) == 1 - id

Locations == {"request[0]", "request[1]", "turn", "mutex", "count"}

(* main starts two threads; the lock of swap.c takes any number.           *)
Threads == IF program = "peterson" THEN {0, 1} ELSE Cpus

LInit ==
  /\ program \in Programs
  /\ memory = [loc \in Locations |-> 0]
  /\ NoStores
  /\ pc = [id \in Cpus |-> IF id \in Threads THEN "for" ELSE "end"]
  /\ rounds = [id \in Cpus |-> IF id \in Threads THEN Rounds ELSE 0]
  /\ register = [id \in Cpus |-> 0]
  /\ overtaken = [id \in Cpus |-> 0]

Step(id, from, to) ==
  pc[id] = from /\ pc' = [pc EXCEPT ![id] = to] /\ UNCHANGED program

Quiet == UNCHANGED <<memoryVars, countVars>>

(* for(int i = 0; i < inc; i++) *)
ForLoop(id) ==
  /\ Step(id, "for", IF rounds[id] = 0 THEN "end"
                     ELSE IF program = "peterson" THEN "request" ELSE "try")
  /\ Quiet

-----------------------------------------------------------------------------
(* peterson.c: lock. *)

SetRequest(id) ==
  /\ Step(id, "request", "turn")
  /\ Store(id, Request(id), 1)
  /\ UNCHANGED countVars

(* Slips: the thread gives itself the turn, or no turn is given. *)
SetOwnTurn(id) ==
  /\ Step(id, "turn", "spin request")
  /\ Store(id, "turn", id)
  /\ overtaken' = [overtaken EXCEPT ![id] = 0]
  /\ UNCHANGED <<rounds, register>>

SetNoTurn(id) ==
  /\ Step(id, "turn", "spin request")
  /\ overtaken' = [overtaken EXCEPT ![id] = 0]
  /\ UNCHANGED <<memoryVars, rounds, register>>

SetTurn(id) ==
  /\ Step(id, "turn", "spin request")
  /\ Store(id, "turn", Other(id))
  /\ overtaken' = [overtaken EXCEPT ![id] = 0]
  /\ UNCHANGED <<rounds, register>>

(* One operand of the spin loop's condition: while it holds the thread     *)
(* goes on to the given statement, otherwise lock returns.                 *)
Spin(id, from, holds, to) ==
  /\ Step(id, from, IF holds THEN to ELSE "load")
  /\ overtaken' =
       IF ~holds /\ pc[Other(id)] \in {"spin request", "spin turn"}
       THEN [overtaken EXCEPT ![Other(id)] = @ + 1] ELSE overtaken
  /\ UNCHANGED <<memoryVars, rounds, register>>

SpinRequest(id) ==
  Spin(id, "spin request", Read(id, Request(Other(id))) = 1, "spin turn")

SpinTurn(id) == Spin(id, "spin turn", Read(id, "turn") = Other(id), "spin request")

-----------------------------------------------------------------------------
(* swap.c: one turn of while(try(mutex) != 0), with the slip of a load and *)
(* a store instead of the compare-and-swap.                                *)

TryNotAtomically(id) ==
  /\ Step(id, "try", IF Read(id, "mutex") = 0 THEN "load" ELSE "try")
  /\ IF Read(id, "mutex") = 0 THEN Store(id, "mutex", 1) ELSE UNCHANGED memoryVars
  /\ UNCHANGED countVars

Try(id) ==
  /\ Step(id, "try", IF memory["mutex"] = 0 THEN "load" ELSE "try")
  /\ CompareAndSwap(id, "mutex", 0, 1)
  /\ UNCHANGED countVars

-----------------------------------------------------------------------------
(* count++ *)
LoadCount(id) ==
  /\ Step(id, "load", "store")
  /\ register' = [register EXCEPT ![id] = Read(id, "count")]
  /\ UNCHANGED <<memoryVars, rounds, overtaken>>

StoreCount(id) ==
  /\ Step(id, "store", "unlock")
  /\ Store(id, "count", register[id] + 1)
  /\ UNCHANGED countVars

(* unlock, and i++.                                                        *)
Release(id, loc) ==
  /\ Step(id, "unlock", "for")
  /\ Store(id, loc, 0)
  /\ rounds' = [rounds EXCEPT ![id] = @ - 1]
  /\ UNCHANGED <<register, overtaken>>

(* Slip: unlock clears the turn. *)
UnlockTurn(id) == program = "peterson" /\ Release(id, "turn")

UnlockRequest(id) == program = "peterson" /\ Release(id, Request(id))

UnlockMutex(id) == program = "swap" /\ Release(id, "mutex")

Peterson(id) ==
  SetRequest(id) \/ SetTurn(id) \/ SpinRequest(id) \/ SpinTurn(id) \/ UnlockRequest(id)

Swap(id) == Try(id) \/ UnlockMutex(id)

Thread(id) ==
  ForLoop(id) \/ LoadCount(id) \/ StoreCount(id) \/ Peterson(id) \/ Swap(id)

DrainStep(id) == Drain(id) /\ UNCHANGED <<program, pc, countVars>>

Finished == \A id \in Cpus : pc[id] = "end" /\ buffer[id] = <<>>

LNext ==
  \/ \E id \in Cpus : Thread(id) \/ DrainStep(id)
  \/ Finished /\ UNCHANGED lockVars

(* The operating system runs every thread, and stores do not stay in a     *)
(* buffer forever.  A thread of swap.c may find the lock taken at each of  *)
(* its tries, but the others make finitely many rounds.                    *)
LSpec ==
  /\ LInit /\ [][LNext]_lockVars
  /\ \A id \in Cpus : WF_lockVars(Thread(id)) /\ WF_lockVars(DrainStep(id))

-----------------------------------------------------------------------------
Locking == {"request", "turn", "spin request", "spin turn", "try"}

Critical == {"load", "store", "unlock"}

(* Every variable has its type; no thread makes more rounds than asked.    *)
LTypeOK ==
  /\ program \in Programs /\ buffered \in BOOLEAN
  /\ memory \in [Locations -> Nat]
  /\ buffer \in [Cpus -> Seq([loc : Locations, val : Nat])]
  /\ pc \in [Cpus -> {"for", "end"} \cup Locking \cup Critical]
  /\ rounds \in [Cpus -> 0 .. Rounds]
  /\ register \in [Cpus -> Nat]
  /\ overtaken \in [Cpus -> Nat]

(* "protect": no two threads are between lock and unlock.                  *)
MutualExclusion ==
  \A i, j \in Cpus : pc[i] \in Critical /\ pc[j] \in Critical => i = j

(* Peterson's lock is for a machine that performs the accesses in order.   *)
TooWeak == program = "peterson" /\ buffered

(* Peterson's lock excludes on a machine without store buffers, and the    *)
(* lock of swap.c on both, although the store that unlocks it is neither a *)
(* locked instruction nor fenced.                                          *)
Excludes == ~TooWeak => MutualExclusion

(* In order, while a thread spins at Peterson's lock, the other gets the   *)
(* lock before it at most once.                                            *)
OvertakenOnce == ~TooWeak => \A id \in Cpus : overtaken[id] <= 1

(* The count as the thread that incremented it last has stored it.         *)
Newest ==
  LET storing == {id \in Cpus : Pending(id, "count") # {}}
  IN IF storing = {} THEN memory["count"]
     ELSE Read(CHOOSE id \in storing : TRUE, "count")

ToMake(id) == rounds[id] - (IF pc[id] = "unlock" THEN 1 ELSE 0)

(* The increments Peterson's two threads have made. *)
Made == 2 * Rounds - ToMake(0) - ToMake(1)

(* No increment is lost, under contention and with stores on their way to  *)
(* the memory.  Where Peterson's lock does not exclude only the number of  *)
(* increments is meant, not the count.                                     *)
Counter == INSTANCE AtomicCounter WITH
  Incrementers <- Cpus,
  total <- IF TooWeak THEN Made ELSE Newest,
  left <- [id \in Cpus |-> ToMake(id)]

ImplementsCounter == Counter!CounterSpec

(* All increments are made whichever thread waits for which: the spin      *)
(* loops end whatever the order in which the stores become visible.        *)
AllCounted == <>Counter!AllMade
=============================================================================
