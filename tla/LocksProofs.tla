----------------------------- MODULE LocksProofs -----------------------------
(* The locks exclude and lose no increment, for any number of rounds and,  *)
(* for the lock of swap.c, of threads.                                     *)
EXTENDS Locks, SequenceTheorems, WellFoundedInduction, TLAPS

-----------------------------------------------------------------------------
(* What is read is a number: the newest of a thread's pending stores to a  *)
(* location exists.                                                        *)
LEMMA ReadIsNat ==
  ASSUME NEW id \in Cpus, NEW loc \in Locations,
         memory \in [Locations -> Nat],
         buffer \in [Cpus -> Seq([loc : Locations, val : Nat])]
  PROVE  Read(id, loc) \in Nat
<1> DEFINE S == Pending(id, loc)
           n == Len(buffer[id])
           T == {n - i : i \in S}
<1>1. /\ n \in Nat /\ S \subseteq 1 .. n
      /\ \A i \in S : buffer[id][i].val \in Nat
  <2>1. buffer[id] \in Seq([loc : Locations, val : Nat])
    OBVIOUS
  <2>2. /\ n \in Nat /\ DOMAIN buffer[id] = 1 .. n
        /\ \A i \in 1 .. n : buffer[id][i] \in [loc : Locations, val : Nat]
    BY <2>1, LenProperties, ElementOfSeq
  <2> QED
    BY <2>2 DEF Pending
<1>2. CASE S = {}
  BY <1>2 DEF Read
<1>3. CASE S # {}
  <2>1. T \subseteq Nat /\ T # {}
    BY <1>1, <1>3
  <2>2. PICK x \in T : \A y \in T : <<y, x>> \notin OpToRel(<, Nat)
    BY <2>1, WFMin, NatLessThanWellFounded
  <2>3. \A y \in T : ~(y < x)
    BY <2>1, <2>2 DEF OpToRel
  <2>4. \E i \in S : \A j \in S : j <= i
    <3>1. PICK i \in S : x = n - i
      BY <2>2
    <3>2. \A j \in S : n - j \in T
      OBVIOUS
    <3> HIDE DEF S, T, n
    <3>3. \A j \in S : j <= i
      BY <1>1, <2>3, <3>1, <3>2
    <3> QED
      BY <3>3
  <2>5. (CHOOSE i \in S : \A j \in S : j <= i) \in S
    BY <2>4
  <2> QED
    BY <1>1, <1>3, <2>5 DEF Read
<1> QED
  BY <1>2, <1>3

-----------------------------------------------------------------------------
(* Types. *)

(* Each program's threads are at its own statements, only two threads run  *)
(* peterson.c, and a thread in the body of its loop has a round to make.   *)
Placed ==
  \A id \in Cpus :
    /\ pc[id] \in Locking \ {"try"} => program = "peterson"
    /\ pc[id] = "try" => program = "swap"
    /\ program = "peterson" /\ id \notin {0, 1} => pc[id] = "end"
    /\ pc[id] \notin {"for", "end"} => rounds[id] > 0

Typed == LTypeOK /\ Placed

MemoryTyped ==
  /\ buffered \in BOOLEAN
  /\ memory \in [Locations -> Nat]
  /\ buffer \in [Cpus -> Seq([loc : Locations, val : Nat])]

(* Stores of numbers leave numbers in the memory and in the buffers. *)
LEMMA StoreTyped ==
  ASSUME NEW id \in Cpus, NEW loc \in Locations, NEW v \in Nat,
         MemoryTyped, Store(id, loc, v)
  PROVE  MemoryTyped'
<1>1. CASE buffered
  <2>1. [loc |-> loc, val |-> v] \in [loc : Locations, val : Nat]
    OBVIOUS
  <2>2. buffer[id] \in Seq([loc : Locations, val : Nat])
    BY DEF MemoryTyped
  <2>3. Append(buffer[id], [loc |-> loc, val |-> v]) \in Seq([loc : Locations, val : Nat])
    BY <2>1, <2>2, AppendProperties
  <2> QED
    BY <1>1, <2>3 DEF MemoryTyped, Store
<1>2. CASE ~buffered
  BY <1>2 DEF MemoryTyped, Store
<1> QED
  BY <1>1, <1>2

(* So does a store that leaves its buffer. *)
LEMMA DrainTyped ==
  ASSUME NEW id \in Cpus, MemoryTyped, Drain(id)
  PROVE  MemoryTyped'
<1>1. buffer[id] \in Seq([loc : Locations, val : Nat]) /\ buffer[id] # <<>>
  BY DEF MemoryTyped, Drain
<1>2. /\ Head(buffer[id]) \in [loc : Locations, val : Nat]
      /\ Tail(buffer[id]) \in Seq([loc : Locations, val : Nat])
  BY <1>1, HeadTailProperties
<1> QED
  BY <1>2 DEF MemoryTyped, Drain

(* Counting one more of anything keeps a vector of numbers. *)
LEMMA Incremented ==
  ASSUME NEW S, NEW f \in [S -> Nat], NEW x
  PROVE  [f EXCEPT ![x] = @ + 1] \in [S -> Nat]
<1>1. CASE x \in S
  BY <1>1
<1>2. CASE x \notin S
  <2>1. [f EXCEPT ![x] = @ + 1] = f
    BY <1>2, Zenon
  <2> QED
    BY <2>1
<1> QED
  BY <1>1, <1>2

(* A step of a thread from one statement to another that is the program's. *)
LEMMA StepTyped ==
  ASSUME Typed, MemoryTyped', NEW id \in Cpus, NEW from, NEW to, Step(id, from, to),
         from # "end", to \in {"for", "end"} \cup Locking \cup Critical,
         to \in Locking \ {"try"} => program = "peterson",
         to = "try" => program = "swap",
         to \notin {"for", "end"} => rounds'[id] > 0,
         \A i \in Cpus \ {id} : rounds'[i] = rounds[i],
         rounds' \in [Cpus -> 0 .. Rounds],
         register' \in [Cpus -> Nat], overtaken' \in [Cpus -> Nat]
  PROVE  Typed'
<1>1. /\ pc \in [Cpus -> {"for", "end"} \cup Locking \cup Critical]
      /\ pc[id] = from /\ pc' = [pc EXCEPT ![id] = to] /\ program' = program
      /\ program \in Programs
  BY DEF Typed, LTypeOK, Step
<1>2. LTypeOK'
  BY <1>1 DEF LTypeOK, MemoryTyped
<1>3. ASSUME NEW i \in Cpus
      PROVE  /\ pc'[i] \in Locking \ {"try"} => program = "peterson"
             /\ pc'[i] = "try" => program = "swap"
             /\ program = "peterson" /\ i \notin {0, 1} => pc'[i] = "end"
             /\ pc'[i] \notin {"for", "end"} => rounds'[i] > 0
  <2>1. CASE i = id
    BY <1>1, <2>1 DEF Typed, Placed
  <2>2. CASE i # id
    BY <1>1, <2>2 DEF Typed, Placed
  <2> QED
    BY <2>1, <2>2
<1> QED
  BY <1>1, <1>2, <1>3 DEF Typed, Placed

(* Every step leaves Typed true. *)
LEMMA TypedStep ==
  ASSUME Typed, LNext
  PROVE  Typed'
<1> USE LocksAssumption
<1>1. MemoryTyped /\ Placed /\ LTypeOK
  BY DEF Typed, LTypeOK, MemoryTyped
<1>2. /\ rounds \in [Cpus -> 0 .. Rounds]
      /\ register \in [Cpus -> Nat] /\ overtaken \in [Cpus -> Nat]
      /\ program \in {"peterson", "swap"}
      /\ \A id \in Cpus : pc[id] \notin {"for", "end"} => rounds[id] > 0
      /\ \A id \in Cpus : pc[id] \in Locking \ {"try"} => program = "peterson"
  BY <1>1 DEF LTypeOK, Placed
<1>3. ASSUME NEW id \in Cpus, ForLoop(id)
      PROVE  Typed'
  <2> DEFINE to == IF rounds[id] = 0 THEN "end"
                   ELSE IF program = "peterson" THEN "request" ELSE "try"
  <2>1. /\ Step(id, "for", to) /\ UNCHANGED <<memory, buffer, buffered>>
        /\ UNCHANGED <<rounds, register, overtaken>>
    BY <1>3 DEF ForLoop, Quiet, memoryVars, countVars
  <2>2. MemoryTyped'
    BY <1>1, <2>1 DEF MemoryTyped
  <2>3. to \notin {"for", "end"} => rounds[id] > 0
    BY <1>2
  <2> QED
    BY <1>1, <1>2, <2>1, <2>2, <2>3, StepTyped DEF Locking, Critical
<1>4. ASSUME NEW id \in Cpus, LoadCount(id)
      PROVE  Typed'
  <2>1. Read(id, "count") \in Nat
    BY <1>1, ReadIsNat DEF MemoryTyped, Locations
  <2>2. /\ Step(id, "load", "store") /\ UNCHANGED <<memory, buffer, buffered>>
        /\ register' \in [Cpus -> Nat] /\ UNCHANGED <<rounds, overtaken>>
    BY <1>2, <1>4, <2>1 DEF LoadCount, memoryVars
  <2>3. MemoryTyped' /\ rounds[id] > 0
    BY <1>1, <1>2, <2>2 DEF MemoryTyped, Step
  <2> QED
    BY <1>1, <1>2, <2>2, <2>3, StepTyped DEF Critical, Locking
<1>5. ASSUME NEW id \in Cpus, StoreCount(id)
      PROVE  Typed'
  <2>1. register[id] + 1 \in Nat /\ "count" \in Locations
    BY <1>2 DEF Locations
  <2>2. MemoryTyped'
    BY <1>1, <1>5, <2>1, StoreTyped DEF StoreCount
  <2>3. /\ Step(id, "store", "unlock") /\ UNCHANGED <<rounds, register, overtaken>>
        /\ rounds[id] > 0
    BY <1>2, <1>5 DEF StoreCount, countVars, Step
  <2> QED
    BY <1>1, <1>2, <2>2, <2>3, StepTyped DEF Critical, Locking
<1>6. ASSUME NEW id \in Cpus, NEW loc \in Locations, Release(id, loc)
      PROVE  Typed'
  <2>1. MemoryTyped'
    BY <1>1, <1>6, StoreTyped DEF Release
  <2>2. /\ Step(id, "unlock", "for") /\ UNCHANGED <<register, overtaken>>
        /\ rounds[id] > 0 /\ rounds' = [rounds EXCEPT ![id] = @ - 1]
    BY <1>2, <1>6 DEF Release, Step
  <2>3. rounds' \in [Cpus -> 0 .. Rounds]
    BY <1>2, <2>2
  <2> QED
    BY <1>1, <1>2, <2>1, <2>2, <2>3, StepTyped DEF Critical, Locking
<1>7. ASSUME NEW id \in Cpus, Peterson(id)
      PROVE  Typed'
  <2>1. Request(id) \in Locations /\ "turn" \in Locations
    BY DEF Request, Locations
  <2>2. CASE SetRequest(id)
    <3>1. MemoryTyped'
      BY <1>1, <2>1, <2>2, StoreTyped DEF SetRequest
    <3>2. /\ Step(id, "request", "turn") /\ UNCHANGED <<rounds, register, overtaken>>
          /\ rounds[id] > 0 /\ program = "peterson"
      BY <1>2, <2>2 DEF SetRequest, countVars, Step, Locking
    <3> QED
      BY <1>1, <1>2, <3>1, <3>2, StepTyped DEF Locking
  <2>3. CASE SetTurn(id)
    <3>1. /\ Step(id, "turn", "spin request") /\ UNCHANGED <<rounds, register>>
          /\ rounds[id] > 0 /\ program = "peterson"
          /\ overtaken' \in [Cpus -> Nat]
      BY <1>2, <2>3 DEF SetTurn, Step, Locking
    <3>2. Other(id) \in Nat
      <4>1. id \in {0, 1}
        BY <1>1, <3>1 DEF Placed, Step
      <4> QED
        BY <4>1 DEF Other
    <3>3. MemoryTyped'
      BY <1>1, <2>1, <2>3, <3>2, StoreTyped DEF SetTurn
    <3> QED
      BY <1>1, <1>2, <3>1, <3>3, StepTyped DEF Locking
  <2>4. ASSUME NEW from \in {"spin request", "spin turn"}, NEW holds,
               NEW to \in {"spin request", "spin turn"}, Spin(id, from, holds, to)
        PROVE  Typed'
    <3>1. /\ Step(id, from, IF holds THEN to ELSE "load")
          /\ UNCHANGED <<rounds, register, memory, buffer, buffered>>
          /\ rounds[id] > 0 /\ program = "peterson"
      BY <1>2, <2>4 DEF Spin, Step, Locking, memoryVars
    <3>2. overtaken' \in [Cpus -> Nat]
      <4>1. \/ overtaken' = overtaken
            \/ overtaken' = [overtaken EXCEPT ![Other(id)] = @ + 1]
        BY <2>4 DEF Spin
      <4>2. overtaken \in [Cpus -> Nat]
        BY <1>2
      <4> QED
        <5>1. [overtaken EXCEPT ![Other(id)] = @ + 1] \in [Cpus -> Nat]
          BY <4>2, Incremented, Zenon
        <5> QED
          BY <4>1, <4>2, <5>1, Zenon
    <3>3. MemoryTyped'
      BY <1>1, <3>1 DEF MemoryTyped
    <3> QED
      BY <1>1, <1>2, <3>1, <3>2, <3>3, StepTyped DEF Locking, Critical
  <2>5. CASE SpinRequest(id) \/ SpinTurn(id)
    BY <2>4, <2>5 DEF SpinRequest, SpinTurn
  <2>6. CASE UnlockRequest(id)
    BY <1>6, <2>1, <2>6 DEF UnlockRequest
  <2> QED
    BY <1>7, <2>2, <2>3, <2>5, <2>6 DEF Peterson
<1>8. ASSUME NEW id \in Cpus, Swap(id)
      PROVE  Typed'
  <2>1. CASE Try(id)
    <3>1. MemoryTyped'
      BY <1>1, <2>1 DEF Try, CompareAndSwap, MemoryTyped, Locations
    <3>2. /\ Step(id, "try", IF memory["mutex"] = 0 THEN "load" ELSE "try")
          /\ UNCHANGED <<rounds, register, overtaken>> /\ rounds[id] > 0
          /\ program = "swap"
      BY <1>1, <1>2, <2>1 DEF Try, countVars, Step, Placed
    <3> QED
      BY <1>1, <1>2, <3>1, <3>2, StepTyped DEF Locking, Critical
  <2>2. CASE UnlockMutex(id)
    BY <1>6, <2>2 DEF UnlockMutex, Locations
  <2> QED
    BY <1>8, <2>1, <2>2 DEF Swap
<1>9. ASSUME NEW id \in Cpus, DrainStep(id)
      PROVE  Typed'
  <2>1. MemoryTyped'
    BY <1>1, <1>9, DrainTyped DEF DrainStep
  <2> QED
    BY <1>1, <1>9, <2>1 DEF Typed, LTypeOK, MemoryTyped, Placed, DrainStep, countVars
<1>10. CASE UNCHANGED lockVars
  BY <1>1, <1>10 DEF Typed, LTypeOK, Placed, lockVars, memoryVars, countVars
<1> QED
  BY <1>3, <1>4, <1>5, <1>7, <1>8, <1>9, <1>10 DEF LNext, Thread

(* The initial states have their types. *)
LEMMA TypedInit ==
  ASSUME LInit
  PROVE  Typed
<1> USE LocksAssumption, BufferedAssumption
<1>1. buffer \in [Cpus -> Seq([loc : Locations, val : Nat])]
  BY DEF LInit, NoStores
<1> QED
  BY <1>1 DEF LInit, NoStores, Typed, LTypeOK, Placed, Threads, Locking, Critical

(* The types hold for any number of threads and of rounds. *)
THEOREM LocksTypeCorrect == LSpec => []LTypeOK
<1>1. Typed /\ UNCHANGED lockVars => Typed'
  BY DEF Typed, LTypeOK, Placed, lockVars, memoryVars, countVars
<1>2. Typed /\ [LNext]_lockVars => Typed'
  BY <1>1, TypedStep
<1>3. Typed => LTypeOK
  BY DEF Typed
<1> QED
  BY <1>2, <1>3, TypedInit, PTL DEF LSpec

-----------------------------------------------------------------------------
(* swap.c.  A thread holds the mutex from its compare-and-swap until its   *)
(* unlocking store reaches the memory, which may be long after it has left *)
(* the critical section.                                                   *)

Mutex(id) == Pending(id, "mutex")

Holds(id) == pc[id] \in Critical \/ Mutex(id) # {}

(* Only one thread holds the mutex, and then it is not 0; the unlocking    *)
(* store is the last in its buffer, because nothing but a compare-and-swap *)
(* follows, which waits for it.                                            *)
Held ==
  /\ \A id \in Cpus : Holds(id) => memory["mutex"] # 0
  /\ \A i, j \in Cpus : Holds(i) /\ Holds(j) => i = j
  /\ \A id \in Cpus : pc[id] \in Critical => Mutex(id) = {}
  /\ \A id \in Cpus : Mutex(id) \subseteq {Len(buffer[id])}
  /\ \A id \in Cpus : overtaken[id] = 0

(* A step that gives nobody the mutex and does not touch it. *)
LEMMA HeldKept ==
  ASSUME Held, memory'["mutex"] = memory["mutex"], overtaken' = overtaken,
         \A id \in Cpus : /\ pc'[id] \in Critical => pc[id] \in Critical
                          /\ Mutex(id)' # {} => Mutex(id) # {}
                          /\ Mutex(id)' \subseteq {Len(buffer'[id])}
  PROVE  Held'
BY DEF Held, Holds

(* What Store does to the buffers. *)
LEMMA StorePending ==
  ASSUME MemoryTyped, NEW id \in Cpus, NEW loc \in Locations, NEW v \in Nat,
         Store(id, loc, v)
  PROVE  /\ \A l \in Locations \ {loc} : memory'[l] = memory[l]
         /\ loc # "mutex" => \A i \in Cpus : Mutex(i)' = Mutex(i)
         /\ \A i \in Cpus \ {id} : buffer'[i] = buffer[i]
         /\ Mutex(id)' \subseteq Mutex(id) \cup {Len(buffer'[id])}
         /\ ~buffered => memory'[loc] = v /\ Mutex(id)' = Mutex(id)
         /\ buffered => memory' = memory
<1> DEFINE S == [loc |-> loc, val |-> v]
           T == [loc : Locations, val : Nat]
<1>1. S \in T /\ buffer[id] \in Seq(T)
  BY DEF MemoryTyped
<1>2. CASE ~buffered
  BY <1>2 DEF Store, Mutex, Pending, MemoryTyped
<1>3. CASE buffered
  <2>1. /\ buffer' = [buffer EXCEPT ![id] = Append(@, S)] /\ memory' = memory
    BY <1>3 DEF Store
  <2>2. buffer'[id] = Append(buffer[id], S) /\ \A i \in Cpus \ {id} : buffer'[i] = buffer[i]
    BY <2>1 DEF MemoryTyped
  <2>3. /\ Len(buffer[id]) \in Nat /\ DOMAIN buffer[id] = 1 .. Len(buffer[id])
        /\ Len(buffer'[id]) = Len(buffer[id]) + 1
        /\ DOMAIN buffer'[id] = 1 .. Len(buffer[id]) + 1
        /\ \A k \in 1 .. Len(buffer[id]) : buffer'[id][k] = buffer[id][k]
        /\ buffer'[id][Len(buffer[id]) + 1].loc = loc
    BY <1>1, <2>2, AppendProperties, LenProperties
  <2>4. /\ Mutex(id)' \subseteq Mutex(id) \cup {Len(buffer'[id])}
        /\ loc # "mutex" => Mutex(id)' = Mutex(id)
    BY <2>3 DEF Mutex, Pending
  <2>5. \A i \in Cpus \ {id} : Mutex(i)' = Mutex(i)
    BY <2>2 DEF Mutex, Pending
  <2> QED
    BY <1>3, <2>1, <2>2, <2>4, <2>5
<1> QED
  BY <1>2, <1>3

(* What Drain does to them. *)
LEMMA DrainPending ==
  ASSUME MemoryTyped, NEW id \in Cpus, Drain(id), Mutex(id) \subseteq {Len(buffer[id])}
  PROVE  /\ \A i \in Cpus \ {id} : buffer'[i] = buffer[i]
         /\ Mutex(id)' \subseteq {Len(buffer'[id])}
         /\ Mutex(id)' # {} => Mutex(id) # {}
         /\ \/ memory'["mutex"] = memory["mutex"]
            \/ Mutex(id) # {} /\ Mutex(id)' = {}
<1> DEFINE T == [loc : Locations, val : Nat]
           n == Len(buffer[id])
<1>1. buffer[id] \in Seq(T) /\ buffer[id] # <<>>
  BY DEF MemoryTyped, Drain
<1>2. /\ buffer'[id] = Tail(buffer[id])
      /\ \A i \in Cpus \ {id} : buffer'[i] = buffer[i]
      /\ memory' = [memory EXCEPT ![Head(buffer[id]).loc] = Head(buffer[id]).val]
  BY DEF MemoryTyped, Drain
<1>3. /\ n \in Nat \ {0} /\ DOMAIN buffer[id] = 1 .. n /\ Head(buffer[id]) = buffer[id][1]
      /\ Len(buffer'[id]) = n - 1 /\ DOMAIN buffer'[id] = 1 .. n - 1
      /\ \A k \in 1 .. n - 1 : buffer'[id][k] = buffer[id][k + 1]
  BY <1>1, <1>2, EmptySeq, LenProperties, HeadTailProperties
<1>4. \A k \in Mutex(id)' : k \in 1 .. n - 1 /\ k + 1 \in Mutex(id)
  BY <1>3 DEF Mutex, Pending
<1>5. Mutex(id)' \subseteq {Len(buffer'[id])} /\ (Mutex(id)' # {} => Mutex(id) # {})
  BY <1>3, <1>4
<1>6. CASE Head(buffer[id]).loc = "mutex"
  <2>1. 1 \in Mutex(id)
    BY <1>3, <1>6 DEF Mutex, Pending
  <2>2. n = 1
    BY <2>1
  <2> QED
    BY <1>2, <1>3, <1>4, <1>5, <2>1, <2>2
<1>7. CASE Head(buffer[id]).loc # "mutex"
  <2>1. memory'["mutex"] = memory["mutex"]
    BY <1>2, <1>7 DEF MemoryTyped, Locations
  <2> QED
    BY <1>2, <1>5, <2>1
<1> QED
  BY <1>6, <1>7

(* Every step of swap.c leaves Held true. *)
LEMMA HeldStep ==
  ASSUME Typed, program = "swap", Held, LNext
  PROVE  Held'
<1>1. MemoryTyped /\ Placed /\ pc \in [Cpus -> {"for", "end"} \cup Locking \cup Critical]
  BY DEF Typed, LTypeOK, MemoryTyped
<1>2. \A id \in Cpus : Mutex(id) \subseteq {Len(buffer[id])}
  BY DEF Held
<1>3. ASSUME NEW id \in Cpus, ForLoop(id) \/ LoadCount(id)
      PROVE  Held'
  <2>1. UNCHANGED <<memory, buffer, overtaken>>
    BY <1>3 DEF ForLoop, LoadCount, Quiet, memoryVars, countVars
  <2>2. \A i \in Cpus : pc'[i] \in Critical => pc[i] \in Critical
    BY <1>1, <1>3 DEF ForLoop, LoadCount, Step, Critical
  <2>3. \A i \in Cpus : Mutex(i)' = Mutex(i)
    BY <2>1 DEF Mutex, Pending
  <2> QED
    BY <1>2, <2>1, <2>2, <2>3, HeldKept
<1>4. ASSUME NEW id \in Cpus, StoreCount(id)
      PROVE  Held'
  <2>1. register[id] + 1 \in Nat /\ {"count", "mutex"} \subseteq Locations
    BY DEF Typed, LTypeOK, Locations
  <2>2. /\ memory'["mutex"] = memory["mutex"]
        /\ \A i \in Cpus : Mutex(i)' = Mutex(i)
        /\ \A i \in Cpus \ {id} : buffer'[i] = buffer[i]
    BY <1>1, <1>4, <2>1, StorePending DEF StoreCount
  <2>3. /\ \A i \in Cpus : pc'[i] \in Critical => pc[i] \in Critical
        /\ pc[id] \in Critical /\ overtaken' = overtaken
    BY <1>1, <1>4 DEF StoreCount, Step, Critical, countVars
  <2>4. Mutex(id) = {}
    BY <2>3 DEF Held
  <2> QED
    BY <1>2, <2>2, <2>3, <2>4, HeldKept
<1>5. ASSUME NEW id \in Cpus, Try(id)
      PROVE  Held'
  <2>1. /\ buffer[id] = <<>> /\ buffer' = buffer /\ overtaken' = overtaken
    BY <1>5 DEF Try, CompareAndSwap, countVars
  <2>2. /\ \A i \in Cpus : Mutex(i)' = Mutex(i)
        /\ Mutex(id) = {}
    BY <2>1 DEF Mutex, Pending
  <2>3. CASE memory["mutex"] = 0
    <3>1. /\ pc'[id] = "load" /\ \A i \in Cpus \ {id} : pc'[i] = pc[i]
          /\ memory'["mutex"] = 1
      BY <1>1, <1>5, <2>3 DEF Try, CompareAndSwap, Step, MemoryTyped, Locations
    <3>2. \A i \in Cpus : ~Holds(i)
      BY <2>3 DEF Held
    <3> QED
      BY <1>2, <2>1, <2>2, <3>1, <3>2 DEF Held, Holds
  <2>4. CASE memory["mutex"] # 0
    <3>1. pc' = pc /\ memory' = memory
      BY <1>1, <1>5, <2>4 DEF Try, CompareAndSwap, Step
    <3> QED
      BY <1>2, <2>1, <2>2, <3>1, HeldKept
  <2> QED
    BY <2>3, <2>4
<1>6. ASSUME NEW id \in Cpus, UnlockMutex(id)
      PROVE  Held'
  <2>1. /\ pc[id] = "unlock" /\ pc'[id] = "for"
        /\ \A i \in Cpus \ {id} : pc'[i] = pc[i]
        /\ Store(id, "mutex", 0) /\ overtaken' = overtaken
    BY <1>1, <1>6 DEF UnlockMutex, Release, Step
  <2>2. Holds(id) /\ Mutex(id) = {} /\ \A i \in Cpus \ {id} : ~Holds(i)
    BY <2>1 DEF Held, Holds, Critical
  <2>3. \A i \in Cpus \ {id} : buffer'[i] = buffer[i] /\ Mutex(i)' = Mutex(i)
    BY <1>1, <2>1, StorePending DEF Mutex, Pending, Locations
  <2>4. \A i \in Cpus \ {id} : ~Holds(i)' /\ Mutex(i)' = {}
    BY <2>1, <2>2, <2>3 DEF Holds
  <2>5. /\ Mutex(id)' \subseteq {Len(buffer'[id])} /\ pc'[id] \notin Critical
        /\ Holds(id)' => memory'["mutex"] # 0
    <3>1. /\ Mutex(id)' \subseteq {Len(buffer'[id])}
          /\ ~buffered => Mutex(id)' = {}
          /\ buffered => memory' = memory
      BY <1>1, <2>1, <2>2, StorePending DEF Locations
    <3> QED
      BY <2>1, <2>2, <3>1 DEF Held, Holds, Critical
  <2> QED
    BY <2>1, <2>4, <2>5 DEF Held, Holds
<1>7. ASSUME NEW id \in Cpus, DrainStep(id)
      PROVE  Held'
  <2>1. pc' = pc /\ overtaken' = overtaken /\ Drain(id)
    BY <1>7 DEF DrainStep, countVars
  <2>2. /\ \A i \in Cpus \ {id} : buffer'[i] = buffer[i]
        /\ Mutex(id)' \subseteq {Len(buffer'[id])}
        /\ Mutex(id)' # {} => Mutex(id) # {}
        /\ \/ memory'["mutex"] = memory["mutex"]
           \/ Mutex(id) # {} /\ Mutex(id)' = {}
    BY <1>1, <1>2, <2>1, DrainPending
  <2>3. \A i \in Cpus \ {id} : Mutex(i)' = Mutex(i)
    BY <2>2 DEF Mutex, Pending
  <2>4. CASE memory'["mutex"] = memory["mutex"]
    BY <1>2, <2>1, <2>2, <2>3, <2>4, HeldKept
  <2>5. CASE Mutex(id) # {} /\ Mutex(id)' = {}
    <3>1. \A i \in Cpus : ~Holds(i)'
      BY <2>1, <2>3, <2>5 DEF Held, Holds
    <3> QED
      BY <1>2, <2>1, <2>2, <2>3, <3>1 DEF Held, Holds
  <2> QED
    BY <2>2, <2>4, <2>5
<1>8. CASE UNCHANGED lockVars
  BY <1>8 DEF Held, Holds, Mutex, Pending, lockVars, memoryVars, countVars
<1>9. ASSUME NEW id \in Cpus
      PROVE  ~Peterson(id)
  BY <1>1 DEF Peterson, SetRequest, SetTurn, SpinRequest, SpinTurn, Spin, Step,
     UnlockRequest, Placed, Locking
<1> QED
  BY <1>3, <1>4, <1>5, <1>6, <1>7, <1>8, <1>9 DEF LNext, Thread, Swap

-----------------------------------------------------------------------------
(* peterson.c on a machine without store buffers. *)

Spinning == {"spin request", "spin turn"}

(* The thread id, the other being o: past the store of its request it has  *)
(* it set; in the critical section while the other is past the store of    *)
(* turn it has the turn; so it has when it was overtaken and still spins   *)
(* and the other spins too, which has given it the turn on its way back.   *)
Side(id, o) ==
  /\ pc[id] \in {"turn"} \cup Spinning \cup Critical => memory[Request(id)] = 1
  /\ pc[id] \in Critical /\ pc[o] \in Spinning \cup Critical => memory["turn"] = id
  /\ pc[id] \in Spinning /\ pc[o] \in Spinning /\ overtaken[id] # 0 => memory["turn"] = id

InTurn ==
  /\ \A id \in Cpus : buffer[id] = <<>> /\ overtaken[id] \in {0, 1}
  /\ memory["turn"] \in {0, 1}
  /\ Side(0, 1) /\ Side(1, 0)

(* Without store buffers a load reads the memory and a store writes it. *)
LEMMA Unbuffered ==
  ASSUME MemoryTyped, ~buffered, \A i \in Cpus : buffer[i] = <<>>, NEW id \in Cpus
  PROVE  /\ \A loc : Read(id, loc) = memory[loc]
         /\ \A loc, v : Store(id, loc, v) =>
              buffer' = buffer /\ memory' = [memory EXCEPT ![loc] = v]
<1>1. \A loc : Pending(id, loc) = {}
  BY DEF Pending
<1> QED
  BY <1>1 DEF Read, Store

(* Every step of peterson.c leaves InTurn true. *)
LEMMA InTurnStep ==
  ASSUME Typed, program = "peterson", ~buffered, InTurn, LNext
  PROVE  InTurn'
<1> USE LocksAssumption
<1>1. /\ MemoryTyped /\ Placed
      /\ pc \in [Cpus -> {"for", "end"} \cup Locking \cup Critical]
      /\ overtaken \in [Cpus -> Nat] /\ memory \in [Locations -> Nat]
  BY DEF Typed, LTypeOK, MemoryTyped
<1>2. ASSUME NEW id \in Cpus
      PROVE  /\ \A loc : Read(id, loc) = memory[loc]
             /\ \A loc, v : Store(id, loc, v) =>
                  buffer' = buffer /\ memory' = [memory EXCEPT ![loc] = v]
  BY <1>1, Unbuffered DEF InTurn
<1>3. ASSUME NEW id \in Cpus, pc[id] # "end"
      PROVE  /\ id \in {0, 1} /\ Other(id) \in Cpus /\ Other(id) # id
             /\ Side(id, Other(id)) /\ Side(Other(id), id)
             /\ Side(id, Other(id))' /\ Side(Other(id), id)' => Side(0, 1)' /\ Side(1, 0)'
             /\ memory["turn"] \in {id, Other(id)} /\ Other(id) \in {0, 1}
             /\ Request(id) # Request(Other(id))
             /\ {Request(id), Request(Other(id)), "turn"} \subseteq Locations
             /\ {Request(id), Request(Other(id))} \cap {"turn", "count"} = {}
  <2>1. id \in {0, 1}
    BY <1>1, <1>3 DEF Placed
  <2>2. (id = 0 /\ Other(id) = 1) \/ (id = 1 /\ Other(id) = 0)
    BY <2>1 DEF Other
  <2>3. Side(id, Other(id)) /\ Side(Other(id), id)
    BY <2>2 DEF InTurn
  <2>4. Side(id, Other(id))' /\ Side(Other(id), id)' => Side(0, 1)' /\ Side(1, 0)'
    BY <2>2
  <2>5. memory["turn"] \in {id, Other(id)}
    BY <2>2 DEF InTurn
  <2> QED
    BY <2>1, <2>2, <2>3, <2>4, <2>5 DEF Request, Locations
<1>4. ASSUME NEW id \in Cpus, ForLoop(id) \/ LoadCount(id) \/ StoreCount(id)
      PROVE  InTurn'
  <2> DEFINE o == Other(id)
  <2>1. /\ pc[id] # "end" /\ overtaken' = overtaken
        /\ \A k \in Cpus \ {id} : pc'[k] = pc[k]
        /\ pc'[id] \notin {"turn"} \cup Spinning
        /\ pc'[id] \in Critical => pc[id] \in Critical
    BY <1>1, <1>4 DEF ForLoop, LoadCount, StoreCount, Step, Quiet, countVars,
       Spinning, Critical
  <2>2. /\ buffer' = buffer
        /\ \A loc \in Locations \ {"count"} : memory'[loc] = memory[loc]
    BY <1>1, <1>2, <1>4 DEF ForLoop, LoadCount, StoreCount, Quiet, memoryVars
  <2>3. Side(id, o)' /\ Side(o, id)'
    <3>1. /\ o \in Cpus \ {id} /\ Side(id, o) /\ Side(o, id)
          /\ memory'[Request(id)] = memory[Request(id)]
          /\ memory'[Request(o)] = memory[Request(o)] /\ memory'["turn"] = memory["turn"]
      <4>1. /\ o \in Cpus \ {id} /\ Side(id, o) /\ Side(o, id)
            /\ {Request(id), Request(o), "turn"} \subseteq Locations
            /\ "count" \notin {Request(id), Request(o), "turn"}
        BY <1>3, <2>1
      <4> QED
        BY <2>2, <4>1
    <3> HIDE DEF o
    <3> QED
      BY <3>1, <2>1 DEF Side
  <2> QED
    BY <1>3, <2>1, <2>2, <2>3 DEF InTurn
<1>5. ASSUME NEW id \in Cpus, SetRequest(id)
      PROVE  InTurn'
  <2> DEFINE o == Other(id)
  <2>1. /\ pc[id] # "end" /\ overtaken' = overtaken
        /\ \A k \in Cpus \ {id} : pc'[k] = pc[k]
        /\ pc'[id] = "turn"
    BY <1>1, <1>5 DEF SetRequest, Step, countVars
  <2>2. buffer' = buffer /\ memory' = [memory EXCEPT ![Request(id)] = 1]
    BY <1>2, <1>5 DEF SetRequest
  <2>3. /\ memory'[Request(id)] = 1 /\ memory'["turn"] = memory["turn"]
        /\ memory'[Request(o)] = memory[Request(o)]
    BY <1>1, <1>3, <2>1, <2>2
  <2>4. Side(id, o)' /\ Side(o, id)'
    <3>1. o \in Cpus \ {id} /\ Side(id, o) /\ Side(o, id) /\ memory["turn"] \in {id, o}
      BY <1>3, <2>1
    <3> HIDE DEF o
    <3> QED
      BY <3>1, <2>1, <2>3 DEF Side, Spinning, Critical
  <2> QED
    BY <1>3, <2>1, <2>2, <2>3, <2>4 DEF InTurn
<1>6. ASSUME NEW id \in Cpus, SetTurn(id)
      PROVE  InTurn'
  <2> DEFINE o == Other(id)
  <2>1. /\ pc[id] = "turn" /\ overtaken'[id] = 0
        /\ \A k \in Cpus \ {id} : pc'[k] = pc[k] /\ overtaken'[k] = overtaken[k]
        /\ pc'[id] = "spin request"
    BY <1>1, <1>6 DEF SetTurn, Step
  <2>2. buffer' = buffer /\ memory' = [memory EXCEPT !["turn"] = o]
    BY <1>2, <1>6 DEF SetTurn
  <2>3. /\ memory'[Request(id)] = memory[Request(id)] /\ memory'["turn"] = o
        /\ memory'[Request(o)] = memory[Request(o)]
    BY <1>1, <1>3, <2>1, <2>2
  <2>4. Side(id, o)' /\ Side(o, id)'
    <3>1. o \in Cpus \ {id} /\ Side(id, o) /\ Side(o, id)
      BY <1>3, <2>1
    <3> HIDE DEF o
    <3> QED
      BY <3>1, <2>1, <2>3 DEF Side, Spinning, Critical
  <2> QED
    BY <1>3, <2>1, <2>2, <2>3, <2>4 DEF InTurn
<1>7. ASSUME NEW id \in Cpus, SpinRequest(id) \/ SpinTurn(id)
      PROVE  InTurn'
  <2> DEFINE o == Other(id)
  <2>1. /\ pc[id] \in Spinning /\ memory' = memory /\ buffer' = buffer
        /\ \A k \in Cpus \ {id} : pc'[k] = pc[k]
        /\ \/ pc'[id] \in Spinning /\ overtaken' = overtaken
           \/ /\ pc'[id] = "load"
              /\ memory[Request(o)] # 1 \/ memory["turn"] # o
              /\ overtaken' = IF pc[o] \in Spinning THEN [overtaken EXCEPT ![o] = @ + 1]
                              ELSE overtaken
    BY <1>1, <1>2, <1>7 DEF SpinRequest, SpinTurn, Spin, Step, Spinning, memoryVars
  <2>2. pc[id] # "end"
    BY <2>1 DEF Spinning
  <2>3. CASE pc'[id] \in Spinning /\ overtaken' = overtaken
    <3>1. Side(id, o)' /\ Side(o, id)'
      <4>1. o \in Cpus \ {id} /\ Side(id, o) /\ Side(o, id) /\ memory["turn"] \in {id, o}
        BY <1>3, <2>2
      <4> HIDE DEF o
      <4> QED
        BY <4>1, <2>1, <2>3 DEF Side, Spinning, Critical
    <3> QED
      BY <1>3, <2>1, <2>2, <2>3, <3>1 DEF InTurn
  <2>4. CASE /\ pc'[id] = "load"
             /\ memory[Request(o)] # 1 \/ memory["turn"] # o
             /\ overtaken' = IF pc[o] \in Spinning THEN [overtaken EXCEPT ![o] = @ + 1]
                             ELSE overtaken
    <3>1. pc[o] \in Spinning \cup Critical => memory["turn"] = id
      BY <1>3, <2>1, <2>2, <2>4 DEF Side
    <3>2. pc[o] \notin Critical
      BY <1>3, <2>1, <2>2, <3>1 DEF Side
    <3>3. pc[o] \in Spinning => overtaken[o] = 0
      BY <1>1, <1>3, <2>1, <2>2, <3>1 DEF Side
    <3>4. \A k \in Cpus : overtaken'[k] \in {0, 1}
      BY <1>1, <1>3, <2>2, <2>4, <3>3 DEF InTurn
    <3>5. Side(id, o)' /\ Side(o, id)'
      <4>1. o \in Cpus \ {id} /\ Side(id, o) /\ Side(o, id) /\ memory["turn"] \in {id, o}
        BY <1>3, <2>2
      <4> HIDE DEF o
      <4> QED
        BY <4>1, <2>1, <2>4, <3>1, <3>2 DEF Side, Spinning, Critical
    <3> QED
      BY <1>3, <2>1, <2>2, <2>4, <3>4, <3>5 DEF InTurn
  <2> QED
    BY <2>1, <2>3, <2>4
<1>8. ASSUME NEW id \in Cpus, UnlockRequest(id)
      PROVE  InTurn'
  <2> DEFINE o == Other(id)
  <2>1. /\ pc[id] = "unlock" /\ overtaken' = overtaken
        /\ \A k \in Cpus \ {id} : pc'[k] = pc[k]
        /\ pc'[id] = "for"
    BY <1>1, <1>8 DEF UnlockRequest, Release, Step
  <2>2. buffer' = buffer /\ memory' = [memory EXCEPT ![Request(id)] = 0]
    BY <1>2, <1>8 DEF UnlockRequest, Release
  <2>3. memory'["turn"] = memory["turn"] /\ memory'[Request(o)] = memory[Request(o)]
    BY <1>1, <1>3, <2>1, <2>2
  <2>4. Side(id, o)' /\ Side(o, id)'
    <3>1. o \in Cpus \ {id} /\ Side(id, o) /\ Side(o, id) /\ memory["turn"] \in {id, o}
      BY <1>3, <2>1
    <3> HIDE DEF o
    <3> QED
      BY <3>1, <2>1, <2>3 DEF Side, Spinning, Critical
  <2> QED
    BY <1>3, <2>1, <2>2, <2>3, <2>4 DEF InTurn
<1>9. ASSUME NEW id \in Cpus
      PROVE  ~Swap(id) /\ ~DrainStep(id)
  BY <1>1 DEF Swap, Try, UnlockMutex, Step, Placed, DrainStep, Drain, InTurn
<1>10. CASE UNCHANGED lockVars
  BY <1>10 DEF InTurn, Side, lockVars, memoryVars, countVars
<1> QED
  BY <1>4, <1>5, <1>6, <1>7, <1>8, <1>9, <1>10 DEF LNext, Thread, Peterson

-----------------------------------------------------------------------------
(* The inductive invariant: each program's own. *)
LocksInv ==
  /\ Typed
  /\ program = "swap" => Held
  /\ program = "peterson" /\ ~buffered => InTurn

(* The program and its machine stay what they are. *)
LEMMA SameProgram == [LNext]_lockVars => program' = program /\ buffered' = buffered
BY DEF LNext, Thread, Peterson, Swap, ForLoop, LoadCount, StoreCount,
   SetRequest, SetTurn, SpinRequest, SpinTurn, Spin, UnlockRequest, UnlockMutex,
   Release, Try, Step, Quiet, Store, CompareAndSwap, DrainStep, Drain, lockVars, memoryVars

(* It holds at the start and is kept by every step. *)
LEMMA LocksInductive == (LInit => LocksInv) /\ (LocksInv /\ [LNext]_lockVars => LocksInv')
<1>1. LInit => LocksInv
  <2> SUFFICES ASSUME LInit PROVE LocksInv
    OBVIOUS
  <2>1. /\ \A id \in Cpus : buffer[id] = <<>> /\ pc[id] \in {"for", "end"}
        /\ \A id \in Cpus : overtaken[id] = 0 /\ Mutex(id) = {}
        /\ memory["turn"] = 0
    BY DEF LInit, NoStores, Mutex, Pending, Locations
  <2>2. {0, 1} \subseteq Cpus
    BY LocksAssumption
  <2>3. Held
    BY <2>1 DEF Held, Holds, Critical
  <2>4. InTurn
    BY <2>1, <2>2 DEF InTurn, Side, Spinning, Critical
  <2> QED
    BY <2>3, <2>4, TypedInit DEF LocksInv
<1>2. LocksInv /\ [LNext]_lockVars => LocksInv'
  <2> SUFFICES ASSUME LocksInv, [LNext]_lockVars PROVE LocksInv'
    OBVIOUS
  <2>1. CASE UNCHANGED lockVars
    <3>1. Typed'
      BY <2>1 DEF LocksInv, Typed, LTypeOK, Placed, lockVars, memoryVars, countVars
    <3>2. Held => Held'
      BY <2>1 DEF Held, Holds, Mutex, Pending, lockVars, memoryVars, countVars
    <3>3. InTurn => InTurn'
      BY <2>1 DEF InTurn, Side, lockVars, memoryVars, countVars
    <3> QED
      BY <2>1, <3>1, <3>2, <3>3 DEF LocksInv, lockVars, memoryVars
  <2>2. CASE LNext
    <3>1. program' = program /\ buffered' = buffered
      BY SameProgram
    <3> QED
      BY <2>2, <3>1, TypedStep, HeldStep, InTurnStep DEF LocksInv
  <2> QED
    BY <2>1, <2>2
<1> QED
  BY <1>1, <1>2

LEMMA LocksInvariant == LSpec => []LocksInv
BY LocksInductive, PTL DEF LSpec

LEMMA InvExcludes == LocksInv => Excludes
<1> SUFFICES ASSUME LocksInv, ~TooWeak, NEW i \in Cpus, NEW j \in Cpus,
                    pc[i] \in Critical, pc[j] \in Critical
             PROVE  i = j
  BY DEF Excludes, MutualExclusion
<1>1. program \in {"peterson", "swap"}
  BY LocksAssumption DEF LocksInv, Typed, LTypeOK
<1>2. CASE program = "swap"
  BY <1>2 DEF LocksInv, Held, Holds
<1>3. CASE program = "peterson"
  <2>1. InTurn /\ i \in {0, 1} /\ j \in {0, 1}
    BY <1>3 DEF LocksInv, TooWeak, Typed, Placed, Critical
  <2> QED
    BY <2>1 DEF InTurn, Side
<1> QED
  BY <1>1, <1>2, <1>3

(* The lock of swap.c excludes on both machines and Peterson's on one      *)
(* without store buffers, for any number of rounds and of swap.c's         *)
(* threads.                                                                *)
THEOREM LocksExclude == LSpec => []Excludes
BY InvExcludes, LocksInvariant, PTL

(* Peterson's lock lets a thread that waits be overtaken at most once,     *)
(* however many rounds the other makes.                                    *)
THEOREM LocksAreFair == LSpec => []OvertakenOnce
<1>1. LocksInv => OvertakenOnce
  <2> SUFFICES ASSUME LocksInv, ~TooWeak, NEW id \in Cpus
               PROVE  overtaken[id] <= 1
    BY DEF OvertakenOnce
  <2>1. program \in {"peterson", "swap"}
    BY LocksAssumption DEF LocksInv, Typed, LTypeOK
  <2> QED
    BY <2>1 DEF LocksInv, Held, InTurn, TooWeak
<1> QED
  BY <1>1, LocksInvariant, PTL

-----------------------------------------------------------------------------
(* The count.  Where the lock excludes, a thread holds it from the load of *)
(* count until its last store has reached the memory, and its buffer has   *)
(* what it has stored since: the count, the unlocking of the mutex.        *)

CountOf(v) == [loc |-> "count", val |-> v]

Unlocking == [loc |-> "mutex", val |-> 0]

Shape(id) ==
  /\ pc[id] \in {"load", "store"} => buffer[id] = <<>>
  /\ pc[id] = "unlock" =>
       buffer[id] = <<>> \/ \E v \in Nat : buffer[id] = <<CountOf(v)>>
  /\ pc[id] \notin Critical =>
       \/ buffer[id] = <<>> \/ buffer[id] = <<Unlocking>>
       \/ \E v \in Nat : buffer[id] = <<CountOf(v), Unlocking>>

Storing(id) == buffer[id] # <<>> /\ buffer[id][1].loc = "count"

(* At most one thread has a count on its way to the memory. *)
Alone ==
  /\ \A id \in Cpus : Shape(id)
  /\ \A i, j \in Cpus : Storing(i) /\ Storing(j) => i = j

Shaped ==
  ~TooWeak => \A id \in Cpus : Shape(id) /\ (~buffered => buffer[id] = <<>>)

(* What a thread has loaded is the newest count until it stores its own. *)
Loaded ==
  ~TooWeak => \A id \in Cpus : pc[id] = "store" => register[id] = Newest

(* The newest value of the count is the one on its way, or in memory. *)
NewestKnown ==
  Alone => /\ (\A i \in Cpus : ~Storing(i)) => Newest = memory["count"]
           /\ \A i \in Cpus : Storing(i) => Newest = buffer[i][1].val

LEMMA NewestIs == NewestKnown
<1> SUFFICES ASSUME Alone
             PROVE  /\ (\A i \in Cpus : ~Storing(i)) => Newest = memory["count"]
                    /\ \A i \in Cpus : Storing(i) => Newest = buffer[i][1].val
  BY DEF NewestKnown
<1>1. ASSUME NEW i \in Cpus
      PROVE  Pending(i, "count") = IF Storing(i) THEN {1} ELSE {}
  <2>1. \/ buffer[i] = <<>> \/ buffer[i] = <<Unlocking>>
        \/ \E v \in Nat : buffer[i] = <<CountOf(v)>>
        \/ \E v \in Nat : buffer[i] = <<CountOf(v), Unlocking>>
    BY DEF Alone, Shape, Critical
  <2>2. CASE buffer[i] = <<>>
    BY <2>2 DEF Pending, Storing
  <2>3. CASE buffer[i] = <<Unlocking>>
    BY <2>3 DEF Pending, Storing, Unlocking
  <2>4. ASSUME NEW v \in Nat, buffer[i] = <<CountOf(v)>>
        PROVE  Pending(i, "count") = IF Storing(i) THEN {1} ELSE {}
    BY <2>4 DEF Pending, Storing, CountOf
  <2>5. ASSUME NEW v \in Nat, buffer[i] = <<CountOf(v), Unlocking>>
        PROVE  Pending(i, "count") = IF Storing(i) THEN {1} ELSE {}
    BY <2>5 DEF Pending, Storing, CountOf, Unlocking
  <2> QED
    BY <2>1, <2>2, <2>3, <2>4, <2>5
<1> DEFINE storing == {i \in Cpus : Pending(i, "count") # {}}
<1>2. ASSUME \A i \in Cpus : ~Storing(i) PROVE Newest = memory["count"]
  <2>1. storing = {}
    BY <1>1, <1>2
  <2> QED
    BY <2>1 DEF Newest
<1>3. ASSUME NEW i \in Cpus, Storing(i) PROVE Newest = buffer[i][1].val
  <2>1. storing = {i} /\ Pending(i, "count") = {1}
    BY <1>1, <1>3 DEF Alone
  <2>2. Newest = Read(i, "count")
    <3>1. (CHOOSE id \in {i} : TRUE) = i
      OBVIOUS
    <3> QED
      BY <2>1, <3>1 DEF Newest
  <2>3. (CHOOSE k \in {1} : \A j \in {1} : j <= k) = 1
    OBVIOUS
  <2> QED
    BY <2>1, <2>2, <2>3 DEF Read
<1> QED
  BY <1>2, <1>3

(* Who has a count on its way holds the mutex. *)
HoldersStore ==
  LocksInv /\ ~TooWeak /\ Shaped =>
    /\ Alone
    /\ \A i, j \in Cpus : pc[i] \in Critical /\ Storing(j) => i = j

LEMMA StoringAlone == HoldersStore
<1> SUFFICES ASSUME LocksInv, ~TooWeak, Shaped
             PROVE  /\ Alone
                    /\ \A i, j \in Cpus : pc[i] \in Critical /\ Storing(j) => i = j
  BY DEF HoldersStore
<1>1. program \in {"peterson", "swap"} /\ \A i \in Cpus : Shape(i)
  BY LocksAssumption DEF LocksInv, Typed, LTypeOK, Shaped
<1>2. CASE program = "peterson"
  BY <1>1, <1>2 DEF TooWeak, Shaped, Alone, Storing
<1>3. CASE program = "swap"
  <2>1. ASSUME NEW i \in Cpus, Storing(i) PROVE Holds(i)
    <3>1. CASE pc[i] \in Critical
      BY <3>1 DEF Holds
    <3>2. CASE pc[i] \notin Critical
      <4>1. PICK v \in Nat : buffer[i] = <<CountOf(v), Unlocking>>
        BY <1>1, <2>1, <3>2 DEF Shape, Storing, Unlocking
      <4>2. 2 \in Pending(i, "mutex")
        BY <4>1 DEF Pending, Unlocking
      <4> QED
        BY <4>2 DEF Holds, Mutex
    <3> QED
      BY <3>1, <3>2
  <2> QED
    BY <1>1, <1>3, <2>1 DEF LocksInv, Held, Holds, Alone
<1> QED
  BY <1>1, <1>2, <1>3

(* Where the lock excludes, peterson.c runs without store buffers. *)
LEMMA PetersonOrdered ==
  ASSUME LocksInv, Shaped, ~TooWeak, NEW id \in Cpus, Peterson(id)
  PROVE  /\ program = "peterson" /\ ~buffered /\ buffer' = buffer
         /\ \A i \in Cpus : buffer[i] = <<>>
<1>1. program = "peterson"
  BY DEF Peterson, SetRequest, SetTurn, SpinRequest, SpinTurn, Spin, UnlockRequest, Step,
     LocksInv, Typed, Placed, Locking
<1>2. ~buffered /\ \A i \in Cpus : buffer[i] = <<>>
  BY <1>1 DEF TooWeak, Shaped
<1>3. buffer' = buffer
  BY <1>2 DEF Peterson, SetRequest, SetTurn, SpinRequest, SpinTurn, Spin, UnlockRequest,
     Release, Store, memoryVars
<1> QED
  BY <1>1, <1>2, <1>3

LEMMA AppendPair ==
  ASSUME NEW x, NEW y
  PROVE  Append(<<x>>, y) = <<x, y>>
<1>1. <<x>> \in Seq({x, y}) /\ <<x, y>> \in Seq({x, y}) /\ Len(<<x>>) = 1
  OBVIOUS
<1>2. /\ Append(<<x>>, y) \in Seq({x, y}) /\ Len(Append(<<x>>, y)) = 2
      /\ Append(<<x>>, y)[1] = x /\ Append(<<x>>, y)[2] = y
  BY <1>1, AppendProperties
<1>3. Len(<<x, y>>) = 2 /\ \A i \in 1 .. 2 : Append(<<x>>, y)[i] = <<x, y>>[i]
  BY <1>2
<1> QED
  BY <1>1, <1>2, <1>3, SeqEqual

(* The buffers keep their shape. *)
LEMMA ShapeStep ==
  ASSUME LocksInv, Shaped, ~TooWeak, LNext
  PROVE  \A id \in Cpus : Shape(id)' /\ (~buffered' => buffer'[id] = <<>>)
<1>1. /\ pc \in [Cpus -> {"for", "end"} \cup Locking \cup Critical]
      /\ buffer \in [Cpus -> Seq([loc : Locations, val : Nat])]
      /\ register \in [Cpus -> Nat]
      /\ buffered' = buffered
      /\ \A i \in Cpus : Shape(i) /\ (~buffered => buffer[i] = <<>>)
  BY SameProgram DEF LocksInv, Typed, LTypeOK, Shaped
<1>2. ASSUME NEW id \in Cpus, \A i \in Cpus \ {id} : pc'[i] = pc[i] /\ buffer'[i] = buffer[i],
             Shape(id)', ~buffered => buffer'[id] = <<>>
      PROVE  \A i \in Cpus : Shape(i)' /\ (~buffered' => buffer'[i] = <<>>)
  <2>1. \A i \in Cpus \ {id} : Shape(i)'
    BY <1>1, <1>2 DEF Shape
  <2> QED
    BY <1>1, <1>2, <2>1
<1>3. ASSUME NEW id \in Cpus, ForLoop(id)
      PROVE  \A i \in Cpus : Shape(i)' /\ (~buffered' => buffer'[i] = <<>>)
  <2>1. /\ buffer' = buffer /\ pc[id] = "for" /\ pc'[id] \notin Critical
        /\ \A i \in Cpus \ {id} : pc'[i] = pc[i]
    BY <1>1, <1>3 DEF ForLoop, Step, Quiet, memoryVars, Critical
  <2> QED
    BY <1>1, <1>2, <2>1 DEF Shape, Critical
<1>4. ASSUME NEW id \in Cpus, LoadCount(id)
      PROVE  \A i \in Cpus : Shape(i)' /\ (~buffered' => buffer'[i] = <<>>)
  <2>1. /\ buffer' = buffer /\ pc[id] = "load" /\ pc'[id] = "store"
        /\ \A i \in Cpus \ {id} : pc'[i] = pc[i]
    BY <1>1, <1>4 DEF LoadCount, Step, memoryVars
  <2> QED
    BY <1>1, <1>2, <2>1 DEF Shape, Critical
<1>5. ASSUME NEW id \in Cpus, Try(id)
      PROVE  \A i \in Cpus : Shape(i)' /\ (~buffered' => buffer'[i] = <<>>)
  <2>1. /\ buffer' = buffer /\ buffer[id] = <<>>
        /\ \A i \in Cpus \ {id} : pc'[i] = pc[i]
    BY <1>1, <1>5 DEF Try, CompareAndSwap, Step
  <2>2. Shape(id)'
    BY <2>1 DEF Shape
  <2> QED
    BY <1>1, <1>2, <2>1, <2>2
<1>6. ASSUME NEW id \in Cpus, Peterson(id)
      PROVE  \A i \in Cpus : Shape(i)' /\ (~buffered' => buffer'[i] = <<>>)
  BY <1>6, PetersonOrdered DEF Shape
<1>7. ASSUME NEW id \in Cpus, StoreCount(id)
      PROVE  \A i \in Cpus : Shape(i)' /\ (~buffered' => buffer'[i] = <<>>)
  <2>1. /\ pc[id] = "store" /\ pc'[id] = "unlock" /\ buffer[id] = <<>>
        /\ \A i \in Cpus \ {id} : pc'[i] = pc[i]
        /\ Store(id, "count", register[id] + 1) /\ register[id] + 1 \in Nat
    BY <1>1, <1>7 DEF StoreCount, Step, Shape
  <2>2. CASE ~buffered
    BY <1>1, <1>2, <2>1, <2>2 DEF Store, Shape, Critical
  <2>3. CASE buffered
    <3>1. buffer' = [buffer EXCEPT ![id] = <<CountOf(register[id] + 1)>>]
      BY <1>1, <2>1, <2>3 DEF Store, CountOf
    <3> QED
      BY <1>1, <1>2, <2>1, <2>3, <3>1 DEF Shape, Critical
  <2> QED
    BY <2>2, <2>3
<1>8. ASSUME NEW id \in Cpus, UnlockMutex(id)
      PROVE  \A i \in Cpus : Shape(i)' /\ (~buffered' => buffer'[i] = <<>>)
  <2>1. /\ pc[id] = "unlock" /\ pc'[id] = "for"
        /\ \A i \in Cpus \ {id} : pc'[i] = pc[i]
        /\ Store(id, "mutex", 0)
    BY <1>1, <1>8 DEF UnlockMutex, Release, Step
  <2>2. CASE ~buffered
    BY <1>1, <1>2, <2>1, <2>2 DEF Store, Shape, Critical
  <2>3. CASE buffered
    <3>1. buffer' = [buffer EXCEPT ![id] = Append(@, Unlocking)]
      BY <2>1, <2>3 DEF Store, Unlocking
    <3>2. \/ buffer[id] = <<>>
          \/ \E v \in Nat : buffer[id] = <<CountOf(v)>>
      BY <1>1, <2>1 DEF Shape
    <3>3. \A v \in Nat : Append(<<CountOf(v)>>, Unlocking) = <<CountOf(v), Unlocking>>
      BY AppendPair DEF CountOf, Unlocking
    <3>4. Append(<<>>, Unlocking) = <<Unlocking>>
      OBVIOUS
    <3>5. \/ buffer'[id] = <<Unlocking>>
          \/ \E v \in Nat : buffer'[id] = <<CountOf(v), Unlocking>>
      BY <1>1, <3>1, <3>2, <3>3, <3>4
    <3> QED
      BY <1>1, <1>2, <2>1, <2>3, <3>1, <3>5 DEF Shape, Critical
  <2> QED
    BY <2>2, <2>3
<1>9. ASSUME NEW id \in Cpus, DrainStep(id)
      PROVE  \A i \in Cpus : Shape(i)' /\ (~buffered' => buffer'[i] = <<>>)
  <2>1. /\ buffer[id] # <<>> /\ buffer' = [buffer EXCEPT ![id] = Tail(@)] /\ pc' = pc
    BY <1>9 DEF DrainStep, Drain
  <2>2. buffer'[id] = Tail(buffer[id])
    BY <1>1, <2>1
  <2>3. \A v : Tail(<<CountOf(v), Unlocking>>) = <<Unlocking>> /\ Tail(<<CountOf(v)>>) = <<>>
    OBVIOUS
  <2>4. Tail(<<Unlocking>>) = <<>>
    OBVIOUS
  <2>5. Shape(id)' /\ buffered
    BY <1>1, <2>1, <2>2, <2>3, <2>4 DEF Shape
  <2> QED
    BY <1>1, <1>2, <2>1, <2>5
<1>10. CASE UNCHANGED lockVars
  BY <1>1, <1>10 DEF Shape, lockVars, memoryVars
<1> QED
  BY <1>3, <1>4, <1>5, <1>6, <1>7, <1>8, <1>9, <1>10 DEF LNext, Thread, Swap

(* Steps that neither load nor store the count nor let it reach the memory *)
(* leave the newest one.                                                   *)
LEMMA SameNewest ==
  /\ Alone /\ Alone' /\ memory'["count"] = memory["count"]
  /\ \A i \in Cpus : Storing(i)' <=> Storing(i)
  /\ \A i \in Cpus : Storing(i) => buffer'[i][1].val = buffer[i][1].val
  => Newest' = Newest
<1>1. NewestKnown'
  BY NewestIs, PTL
<1> QED
  BY <1>1, NewestIs DEF NewestKnown

(* The state after a step. *)
LEMMA After == HoldersStore' /\ NewestKnown' /\ (LocksInv => Excludes)'
BY StoringAlone, NewestIs, InvExcludes, PTL

(* The newest count changes only when a thread stores the one it computed. *)
LEMMA NewestStep ==
  ASSUME LocksInv, Shaped, ~TooWeak, LNext, LocksInv', Shaped', ~TooWeak'
  PROVE  \/ \E id \in Cpus : StoreCount(id) /\ Newest' = register[id] + 1
         \/ /\ \A id \in Cpus : ~StoreCount(id)
            /\ Newest' = Newest
<1>1. Alone /\ Alone'
  BY StoringAlone, After DEF HoldersStore
<1>2. /\ pc \in [Cpus -> {"for", "end"} \cup Locking \cup Critical]
      /\ buffer \in [Cpus -> Seq([loc : Locations, val : Nat])]
      /\ memory \in [Locations -> Nat] /\ "count" \in Locations
      /\ \A i \in Cpus : Shape(i) /\ Shape(i)'
  BY DEF LocksInv, Typed, LTypeOK, Shaped, Locations
<1>3. ASSUME memory'["count"] = memory["count"], buffer' = buffer
      PROVE  Newest' = Newest
  BY <1>1, <1>3, SameNewest DEF Storing
<1>4. ASSUME NEW id \in Cpus, StoreCount(id)
      PROVE  Newest' = register[id] + 1
  <2>1. /\ pc[id] = "store" /\ buffer[id] = <<>>
        /\ Store(id, "count", register[id] + 1)
    BY <1>2, <1>4 DEF StoreCount, Step, Shape
  <2>2. \A j \in Cpus : ~Storing(j)
    BY <2>1, StoringAlone DEF HoldersStore, Storing, Critical
  <2>3. CASE ~buffered
    <3>1. memory'["count"] = register[id] + 1 /\ buffer' = buffer
      BY <1>2, <2>1, <2>3 DEF Store
    <3>2. \A j \in Cpus : ~Storing(j)'
      BY <2>2, <3>1 DEF Storing
    <3> QED
      BY <1>1, <3>1, <3>2, After DEF NewestKnown
  <2>4. CASE buffered
    <3>1. buffer'[id] = <<CountOf(register[id] + 1)>>
      BY <1>2, <2>1, <2>4 DEF Store, CountOf
    <3>2. Storing(id)' /\ buffer'[id][1].val = register[id] + 1
      BY <3>1 DEF Storing, CountOf
    <3> QED
      BY <1>1, <3>2, After DEF NewestKnown
  <2> QED
    BY <2>3, <2>4
<1>5. ASSUME NEW id \in Cpus, UnlockMutex(id)
      PROVE  Newest' = Newest
  <2>1. pc[id] = "unlock" /\ Store(id, "mutex", 0)
    BY <1>5 DEF UnlockMutex, Release, Step
  <2>2. CASE ~buffered
    BY <1>2, <1>3, <2>1, <2>2 DEF Store, Locations
  <2>3. CASE buffered
    <3>1. buffer' = [buffer EXCEPT ![id] = Append(@, Unlocking)] /\ memory' = memory
      BY <2>1, <2>3 DEF Store, Unlocking
    <3>2. \/ buffer[id] = <<>> /\ buffer'[id] = <<Unlocking>>
          \/ \E v \in Nat : /\ buffer[id] = <<CountOf(v)>>
                            /\ buffer'[id] = <<CountOf(v), Unlocking>>
      <4>1. Append(<<>>, Unlocking) = <<Unlocking>>
        OBVIOUS
      <4>2. \A v \in Nat : Append(<<CountOf(v)>>, Unlocking) = <<CountOf(v), Unlocking>>
        BY AppendPair
      <4> QED
        BY <1>2, <2>1, <3>1, <4>1, <4>2 DEF Shape
    <3>3. /\ Storing(id)' <=> Storing(id)
          /\ Storing(id) => buffer'[id][1].val = buffer[id][1].val
      <4>1. CASE buffer[id] = <<>> /\ buffer'[id] = <<Unlocking>>
        BY <4>1 DEF Storing, Unlocking
      <4>2. ASSUME NEW v \in Nat, buffer[id] = <<CountOf(v)>>,
                   buffer'[id] = <<CountOf(v), Unlocking>>
            PROVE  buffer[id][1] = CountOf(v) /\ buffer'[id][1] = CountOf(v)
        BY <4>2
      <4> QED
        BY <3>2, <4>1, <4>2 DEF Storing
    <3>4. \A i \in Cpus \ {id} : buffer'[i] = buffer[i]
      BY <1>2, <3>1
    <3>5. /\ \A i \in Cpus : Storing(i)' <=> Storing(i)
          /\ \A i \in Cpus : Storing(i) => buffer'[i][1].val = buffer[i][1].val
      BY <3>3, <3>4 DEF Storing
    <3> QED
      BY <1>1, <3>1, <3>5, SameNewest
  <2> QED
    BY <2>2, <2>3
<1>6. ASSUME NEW id \in Cpus, DrainStep(id)
      PROVE  Newest' = Newest
  <2>1. /\ buffer[id] # <<>> /\ buffer' = [buffer EXCEPT ![id] = Tail(@)]
        /\ memory' = [memory EXCEPT ![Head(buffer[id]).loc] = Head(buffer[id]).val]
    BY <1>6 DEF DrainStep, Drain
  <2>2. buffer'[id] = Tail(buffer[id]) /\ \A i \in Cpus \ {id} : buffer'[i] = buffer[i]
    BY <1>2, <2>1
  <2>3. Head(buffer[id]) = buffer[id][1] /\ buffer[id][1].loc \in Locations
    <3>1. buffer[id] \in Seq([loc : Locations, val : Nat])
      BY <1>2
    <3>2. Head(buffer[id]) = buffer[id][1]
      BY <3>1
    <3>3. Head(buffer[id]) \in [loc : Locations, val : Nat]
      BY <2>1, <3>1, HeadTailProperties
    <3> QED
      BY <3>2, <3>3
  <2>4. \/ buffer'[id] = <<>> \/ buffer'[id] = <<Unlocking>>
    <3>1. \A v \in Nat : Tail(<<CountOf(v), Unlocking>>) = <<Unlocking>>
      OBVIOUS
    <3>2. \A v \in Nat : Tail(<<CountOf(v)>>) = <<>>
      OBVIOUS
    <3>3. Tail(<<Unlocking>>) = <<>>
      OBVIOUS
    <3>4. \/ buffer[id] = <<Unlocking>>
          \/ \E v \in Nat : buffer[id] = <<CountOf(v)>>
          \/ \E v \in Nat : buffer[id] = <<CountOf(v), Unlocking>>
      BY <1>2, <2>1 DEF Shape, Critical
    <3> QED
      BY <2>2, <3>1, <3>2, <3>3, <3>4
  <2>5. ~Storing(id)'
    BY <2>4 DEF Storing, Unlocking
  <2>6. CASE Storing(id)
    <3>1. Newest = buffer[id][1].val
      BY <1>1, <2>6, NewestIs DEF NewestKnown
    <3>2. \A j \in Cpus : ~Storing(j)'
      BY <1>1, <2>2, <2>5, <2>6 DEF Alone, Storing
    <3>3. memory'["count"] = buffer[id][1].val
      BY <1>2, <2>1, <2>3, <2>6 DEF Storing
    <3> QED
      BY <1>1, <3>1, <3>2, <3>3, After DEF NewestKnown
  <2>7. CASE ~Storing(id)
    <3>1. memory'["count"] = memory["count"]
      BY <1>2, <2>1, <2>3, <2>7 DEF Storing
    <3>2. /\ \A i \in Cpus : Storing(i)' <=> Storing(i)
          /\ \A i \in Cpus : Storing(i) => buffer'[i][1].val = buffer[i][1].val
      BY <2>2, <2>5, <2>7 DEF Storing
    <3> QED
      BY <1>1, <3>1, <3>2, SameNewest
  <2> QED
    BY <2>6, <2>7
<1>7. ASSUME NEW id \in Cpus, Peterson(id)
      PROVE  Newest' = Newest
  <2>1. buffer' = buffer /\ ~buffered
    BY <1>7, PetersonOrdered
  <2>2. memory'["count"] = memory["count"]
    BY <1>2, <1>7, <2>1 DEF Peterson, SetRequest, SetTurn, SpinRequest, SpinTurn, Spin,
       UnlockRequest, Release, Store, memoryVars, Request
  <2> QED
    BY <1>3, <2>1, <2>2
<1>8. ASSUME NEW id \in Cpus, Try(id) \/ ForLoop(id) \/ LoadCount(id)
      PROVE  Newest' = Newest
  BY <1>2, <1>3, <1>8 DEF Try, CompareAndSwap, ForLoop, LoadCount, Quiet, memoryVars
<1>9. CASE \E id \in Cpus : StoreCount(id)
  BY <1>4, <1>9
<1>10. CASE \A id \in Cpus : ~StoreCount(id)
  BY <1>3, <1>5, <1>6, <1>7, <1>8, <1>10 DEF LNext, Thread, Swap, lockVars, memoryVars
<1> QED
  BY <1>9, <1>10

(* The count a thread has loaded stays the newest: nobody else stores.     *)
LEMMA LoadedStep ==
  ASSUME LocksInv, Shaped, Loaded, ~TooWeak, LNext, LocksInv', Shaped', ~TooWeak'
  PROVE  Loaded'
<1>1. /\ pc \in [Cpus -> {"for", "end"} \cup Locking \cup Critical]
      /\ register \in [Cpus -> Nat]
  BY DEF LocksInv, Typed, LTypeOK
<1>2. SUFFICES ASSUME NEW j \in Cpus, pc'[j] = "store" PROVE register'[j] = Newest'
  BY DEF Loaded
<1>3. ASSUME NEW id \in Cpus, StoreCount(id)
      PROVE  register'[j] = Newest'
  <2>1. pc[id] = "store" /\ pc'[id] = "unlock" /\ \A i \in Cpus \ {id} : pc'[i] = pc[i]
    BY <1>1, <1>3 DEF StoreCount, Step
  <2>2. j # id /\ pc[j] = "store"
    BY <1>2, <2>1
  <2> QED
    BY <2>1, <2>2, InvExcludes DEF Excludes, MutualExclusion, Critical
<1>4. ASSUME NEW id \in Cpus, LoadCount(id), Newest' = Newest
      PROVE  register'[j] = Newest'
  <2>1. /\ pc[id] = "load" /\ pc'[id] = "store" /\ \A i \in Cpus \ {id} : pc'[i] = pc[i]
        /\ register' = [register EXCEPT ![id] = Read(id, "count")]
    BY <1>1, <1>4 DEF LoadCount, Step
  <2>2. CASE j # id
    BY <1>1, <1>2, <1>4, <2>1, <2>2 DEF Loaded
  <2>3. CASE j = id
    <3>1. buffer[id] = <<>>
      BY <2>1 DEF Shaped, Shape
    <3>2. Read(id, "count") = memory["count"]
      BY <3>1 DEF Read, Pending
    <3>3. Alone /\ \A i \in Cpus : ~Storing(i)
      BY <2>1, <3>1, StoringAlone DEF HoldersStore, Storing, Critical
    <3>4. Newest = memory["count"]
      BY <3>3, NewestIs DEF NewestKnown
    <3> QED
      BY <1>1, <1>4, <2>1, <2>3, <3>2, <3>4
  <2> QED
    BY <2>2, <2>3
<1>5. ASSUME NEW id \in Cpus,
             ForLoop(id) \/ Peterson(id) \/ Swap(id) \/ DrainStep(id)
      PROVE  register' = register /\ (pc'[j] = "store" => pc[j] = "store")
  <2>1. register' = register
    BY <1>5 DEF ForLoop, Quiet, Peterson, SetRequest, SetTurn, SpinRequest,
       SpinTurn, Spin, UnlockRequest, Swap, Try, UnlockMutex, Release, DrainStep, countVars
  <2>2. pc'[j] = "store" => pc[j] = "store"
    BY <1>1, <1>5 DEF ForLoop, Peterson, SetRequest, SetTurn, SpinRequest,
       SpinTurn, Spin, UnlockRequest, Swap, Try, UnlockMutex, Release, DrainStep, Step
  <2> QED
    BY <2>1, <2>2
<1>6. CASE \E id \in Cpus : StoreCount(id)
  BY <1>3, <1>6
<1>7. CASE \A id \in Cpus : ~StoreCount(id)
  <2>1. Newest' = Newest
    BY <1>7, NewestStep
  <2>2. CASE UNCHANGED lockVars
    BY <1>2, <2>1, <2>2 DEF Loaded, lockVars, countVars
  <2>3. CASE \E id \in Cpus : LoadCount(id)
    BY <1>4, <2>1, <2>3
  <2>4. CASE \E id \in Cpus : ForLoop(id) \/ Peterson(id) \/ Swap(id) \/ DrainStep(id)
    BY <1>2, <1>5, <2>1, <2>4 DEF Loaded
  <2> QED
    BY <1>7, <2>2, <2>3, <2>4 DEF LNext, Thread
<1> QED
  BY <1>6, <1>7

-----------------------------------------------------------------------------
(* The increments still to make. *)

LEMMA ToMakeStep ==
  ASSUME LocksInv, LNext
  PROVE  \/ \E id \in Cpus : /\ StoreCount(id) /\ ToMake(id) \in Nat \ {0}
                            /\ ToMake(id)' = ToMake(id) - 1
                            /\ \A i \in Cpus \ {id} : ToMake(i)' = ToMake(i)
         \/ /\ \A id \in Cpus : ~StoreCount(id)
            /\ \A i \in Cpus : ToMake(i)' = ToMake(i)
<1>1. /\ pc \in [Cpus -> {"for", "end"} \cup Locking \cup Critical]
      /\ rounds \in [Cpus -> 0 .. Rounds] /\ Rounds \in Nat
      /\ \A id \in Cpus : pc[id] \notin {"for", "end"} => rounds[id] > 0
  BY LocksAssumption DEF LocksInv, Typed, LTypeOK, Placed
<1>2. ASSUME NEW id \in Cpus, StoreCount(id)
      PROVE  /\ ToMake(id) \in Nat \ {0} /\ ToMake(id)' = ToMake(id) - 1
             /\ \A i \in Cpus \ {id} : ToMake(i)' = ToMake(i)
  <2>1. /\ pc[id] = "store" /\ pc' = [pc EXCEPT ![id] = "unlock"] /\ rounds' = rounds
    BY <1>2 DEF StoreCount, Step, countVars
  <2> QED
    BY <1>1, <2>1 DEF ToMake
<1>3. ASSUME NEW id \in Cpus, NEW loc, Release(id, loc)
      PROVE  \A i \in Cpus : ToMake(i)' = ToMake(i)
  <2>1. /\ pc[id] = "unlock" /\ pc' = [pc EXCEPT ![id] = "for"]
        /\ rounds' = [rounds EXCEPT ![id] = @ - 1]
    BY <1>3 DEF Release, Step
  <2> QED
    BY <1>1, <2>1 DEF ToMake
<1>4. ASSUME NEW id \in Cpus,
             \/ ForLoop(id) \/ LoadCount(id) \/ SetRequest(id) \/ SetTurn(id)
             \/ SpinRequest(id) \/ SpinTurn(id) \/ Try(id) \/ DrainStep(id)
      PROVE  \A i \in Cpus : ToMake(i)' = ToMake(i)
  <2>1. rounds' = rounds
    BY <1>4 DEF ForLoop, Quiet, LoadCount, SetRequest, SetTurn, SpinRequest,
       SpinTurn, Spin, Try, DrainStep, countVars
  <2>2. \A i \in Cpus : pc'[i] = "unlock" <=> pc[i] = "unlock"
    BY <1>1, <1>4 DEF ForLoop, LoadCount, SetRequest, SetTurn, SpinRequest,
       SpinTurn, Spin, Try, DrainStep, Step
  <2> QED
    BY <2>1, <2>2 DEF ToMake
<1>5. ASSUME UNCHANGED lockVars
      PROVE  \A i \in Cpus : ToMake(i)' = ToMake(i)
  BY <1>5 DEF ToMake, lockVars, countVars
<1>6. CASE \E id \in Cpus : StoreCount(id)
  BY <1>2, <1>6
<1>7. CASE \A id \in Cpus : ~StoreCount(id)
  BY <1>3, <1>4, <1>5, <1>7 DEF LNext, Thread, Peterson, Swap, UnlockRequest, UnlockMutex
<1> QED
  BY <1>6, <1>7

-----------------------------------------------------------------------------
CountInv == LocksInv /\ Shaped /\ Loaded

LEMMA CountInit == LInit => CountInv /\ Counter!CounterInit
<1> SUFFICES ASSUME LInit PROVE CountInv /\ Counter!CounterInit
  OBVIOUS
<1>1. /\ \A id \in Cpus : buffer[id] = <<>> /\ pc[id] \in {"for", "end"}
      /\ \A id \in Cpus : rounds[id] \in {0, Rounds}
      /\ memory["count"] = 0 /\ program \in {"peterson", "swap"}
      /\ {0, 1} \subseteq Cpus /\ Rounds \in Nat
  BY LocksAssumption DEF LInit, NoStores, Locations
<1>2. Shaped /\ Loaded
  BY <1>1 DEF Shaped, Loaded, Shape, Critical
<1>3. Newest = 0
  BY <1>1 DEF Newest, Pending
<1>4. TooWeak => Made = 0
  <2>1. TooWeak => rounds[0] = Rounds /\ rounds[1] = Rounds
    BY <1>1 DEF TooWeak, LInit, Threads
  <2>2. TooWeak => ToMake(0) = Rounds /\ ToMake(1) = Rounds
    BY <1>1, <2>1 DEF ToMake
  <2> QED
    BY <1>1, <2>2 DEF Made
<1>5. [id \in Cpus |-> ToMake(id)] \in [Cpus -> {0, Rounds}]
  BY <1>1 DEF ToMake
<1> QED
  BY <1>2, <1>3, <1>4, <1>5, LocksInductive DEF CountInv, Counter!CounterInit

(* CountInv is kept, and every step of the programs is an increment of the *)
(* counter or leaves it alone.                                             *)
LEMMA CountStep ==
  CountInv /\ [LNext]_lockVars => CountInv' /\ [Counter!CounterNext]_Counter!counterVars
<1> SUFFICES ASSUME CountInv, [LNext]_lockVars
             PROVE  CountInv' /\ [Counter!CounterNext]_Counter!counterVars
  OBVIOUS
<1>1. LocksInv /\ LocksInv' /\ Shaped /\ Loaded /\ (TooWeak' <=> TooWeak)
  BY LocksInductive, SameProgram DEF CountInv, TooWeak
<1> DEFINE total == IF TooWeak THEN Made ELSE Newest
           left == [id \in Cpus |-> ToMake(id)]
<1>2. CASE UNCHANGED lockVars
  <2>1. \A i, loc : Pending(i, loc)' = Pending(i, loc)
    BY <1>2 DEF Pending, lockVars, memoryVars
  <2>2. \A i : Read(i, "count")' = Read(i, "count")
    BY <1>2 DEF Read, Pending, lockVars, memoryVars
  <2>3. Newest' = Newest
    BY <1>2, <2>1, <2>2 DEF Newest, lockVars, memoryVars
  <2>4. \A i : ToMake(i)' = ToMake(i)
    BY <1>2 DEF ToMake, lockVars, countVars
  <2>5. total' = total /\ left' = left
    BY <1>1, <2>3, <2>4 DEF Made
  <2>6. Shaped' /\ Loaded'
    BY <1>1, <1>2, <2>3 DEF Shaped, Shape, Loaded, lockVars, memoryVars, countVars
  <2> QED
    BY <1>1, <2>5, <2>6 DEF CountInv, Counter!counterVars
<1>3. CASE LNext
  <2>1. Shaped'
    BY <1>1, <1>3, ShapeStep DEF Shaped
  <2>2. Loaded'
    BY <1>1, <1>3, <2>1, LoadedStep DEF Loaded
  <2>3. ASSUME NEW id \in Cpus, StoreCount(id), ToMake(id) \in Nat \ {0},
               ToMake(id)' = ToMake(id) - 1,
               \A i \in Cpus \ {id} : ToMake(i)' = ToMake(i),
               total' = total + 1
        PROVE  Counter!CounterNext
    <3>1. left[id] > 0 /\ left' = [left EXCEPT ![id] = @ - 1]
      <4>1. left[id] = ToMake(id) /\ left'[id] = ToMake(id) - 1
        BY <2>3
      <4>2. \A i \in Cpus \ {id} : left'[i] = left[i]
        BY <2>3
      <4>3. left = [i \in Cpus |-> left[i]] /\ left' = [i \in Cpus |-> left'[i]]
        OBVIOUS
      <4>4. left[id] > 0
        BY <2>3, <4>1
      <4> HIDE DEF left
      <4> QED
        BY <4>1, <4>2, <4>3, <4>4
    <3> HIDE DEF total, left
    <3>2. Counter!Increment(id)
      BY <2>3, <3>1 DEF Counter!Increment, total, left
    <3> QED
      BY <3>2 DEF Counter!CounterNext
  <2>4. ASSUME \A i \in Cpus : ToMake(i)' = ToMake(i), total' = total
        PROVE  UNCHANGED Counter!counterVars
    BY <2>4 DEF Counter!counterVars
  <2>5. CASE TooWeak
    <3>1. /\ {0, 1} \subseteq Cpus /\ Rounds \in Nat
          /\ \A i \in Cpus : rounds[i] \in Nat
      BY <1>1, LocksAssumption DEF LocksInv, Typed, LTypeOK
    <3>2. \A i \in Cpus : ToMake(i) \in Int
      BY <3>1 DEF ToMake
    <3>3. ASSUME NEW id \in Cpus, StoreCount(id), ToMake(id)' = ToMake(id) - 1,
                 \A i \in Cpus \ {id} : ToMake(i)' = ToMake(i)
          PROVE  total' = total + 1
      <4>1. id \in {0, 1}
        BY <1>1, <2>5, <3>3 DEF LocksInv, Typed, Placed, TooWeak, StoreCount, Step
      <4> QED
        BY <1>1, <2>5, <3>1, <3>2, <3>3, <4>1 DEF Made
    <3>4. (\A i \in Cpus : ToMake(i)' = ToMake(i)) => total' = total
      BY <1>1, <2>5, <3>1 DEF Made
    <3> HIDE DEF total
    <3> QED
      BY <1>1, <1>3, <2>1, <2>2, <2>3, <2>4, <3>3, <3>4, ToMakeStep DEF CountInv
  <2>6. CASE ~TooWeak
    <3>1. \/ \E id \in Cpus : StoreCount(id) /\ Newest' = register[id] + 1
          \/ /\ \A id \in Cpus : ~StoreCount(id)
             /\ Newest' = Newest
      BY <1>1, <1>3, <2>1, <2>6, NewestStep
    <3>2. \A i, j \in Cpus : StoreCount(i) /\ StoreCount(j) => i = j
      BY <1>1, <2>6, InvExcludes DEF Excludes, MutualExclusion, StoreCount, Step, Critical
    <3>3. \A id \in Cpus : StoreCount(id) => register[id] = Newest
      BY <1>1, <2>6 DEF Loaded, StoreCount, Step
    <3>4. \A id \in Cpus : StoreCount(id) => total' = total + 1
      BY <1>1, <2>6, <3>1, <3>2, <3>3
    <3>5. (\A id \in Cpus : ~StoreCount(id)) => total' = total
      BY <1>1, <2>6, <3>1
    <3> HIDE DEF total
    <3> QED
      BY <1>1, <1>3, <2>1, <2>2, <2>3, <2>4, <3>4, <3>5, ToMakeStep DEF CountInv
  <2> QED
    BY <2>5, <2>6
<1> QED
  BY <1>2, <1>3

(* No increment of locks-assignment's programs is lost: where the lock     *)
(* excludes, the count is that of the indivisible counter, with any number *)
(* of rounds, any stores on their way, and any number of swap.c's threads. *)
THEOREM CountIsRight == LSpec => ImplementsCounter
BY CountInit, CountStep, PTL DEF LSpec, ImplementsCounter, Counter!CounterSpec

=============================================================================
