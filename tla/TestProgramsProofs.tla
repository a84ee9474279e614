------------------------- MODULE TestProgramsProofs -------------------------
(* test_mutex.c and test_green.c use the library as its most general       *)
(* client may, main gets the result of test_B, and no increment is lost:   *)
(* for any number of threads and of iterations, if the timer spares the    *)
(* end of green_thread.                                                    *)
EXTENDS TestPrograms, GreenThreadsProofs

-----------------------------------------------------------------------------
(* What the programs do whatever the timer does. *)

Iterating == {"lock", "load", "store", "unlock"}

(* Where the workers are, and that one in the body of its loop has an      *)
(* iteration left.                                                         *)
Flow ==
  /\ program \in {"test_mutex", "test_green"}
  /\ line \in [Workers -> IF program = "test_mutex"
                          THEN {"for", "return", "returned"} \cup Iterating
                          ELSE {"while", "yield", "return", "returned"}]
  /\ program = "test_green" => line[B] \in {"while", "returned"}
  /\ loop \in [Workers -> Nat]
  /\ \A w \in Workers : line[w] \in Iterating => loop[w] > 0
  /\ shared \in Nat /\ register \in [Workers -> Nat]

(* test_B is the only thread function that returns something. *)
Answers(w) == program = "test_green" /\ w = B

Agreed ==
  /\ Flow
  /\ \A w \in Workers : ~Answers(w) => result[w] = NULL
  /\ \A u \in Threads : target[u] \in Workers /\ Answers(target[u]) => slot[u]

(* The mutex.  A worker that is about to load the counter has it or waits  *)
(* for it in green_mutex_lock; one that has loaded the counter holds it    *)
(* and knows its value; all others have nothing to do with it.             *)
CriticalSection == {"load", "store", "unlock"}

Entering(w) == w \in created /\ (w \in holds \/ PointOf(w) = "locked")

Counting ==
  fault = "none" =>
    /\ \A w \in Workers : line[w] = "load" => Entering(w)
    /\ \A w \in Workers : line[w] \in {"store", "unlock"} => w \in holds
    /\ \A w \in Workers : line[w] = "store" => register[w] = shared

Outside(w) == w \notin holds /\ PointOf(w) # "locked"

Kept ==
  fault = "none" =>
    \A w \in created \ zombie : line[w] \notin CriticalSection => Outside(w)

(* There is a last worker, and none is among those before it. *)
LEMMA LastWorker ==
  /\ B \in Workers
  /\ \A w \in Workers : w \notin 0 .. w - 1
<1>1. Cardinality(Workers) \in Nat /\ Cardinality(Workers) # 0
  BY ProgramsAssumption, FS_CardinalityType, FS_EmptySet
<1> QED
  BY <1>1, ProgramsAssumption DEF B

(* The steps that are no call leave the client's side of the calls alone.  *)
LEMMA NoCall ==
  ASSUME Library \/ TimerHandler \/ Halted \/ Exit
  PROVE  UNCHANGED <<created, target, slot, result>>
  BY DEF Library, ThreadEnds, Start, Collect, Locked, CondReacquire, WakeJoiner, SaveResult,
     BecomeZombie, PickNext, SetRunning, SetContext, TimerHandler, Halted, Exit, vars,
     localVars, clientVars

(* green_mutex_lock takes the mutex or joins its queue. *)
LEMMA LockIsStep ==
  ASSUME Typed, MutexLock
  PROVE  ~UNCHANGED queueVars
<1>1. mutexq \in Seq(Threads)
  BY DEF Typed, TypeOK
<1>2. running \in Threads
  BY DEF MutexLock, At, Typed
<1>3. Len(Append(mutexq, running)) = Len(mutexq) + 1
  BY <1>1, <1>2
<1>4. Append(mutexq, running) # mutexq
  BY <1>1, <1>3
<1> QED
  BY <1>4 DEF MutexLock, queueVars

(* A worker's step: what it does to the library, to where the worker is    *)
(* and to the counter.                                                     *)
LEMMA WorkerSteps ==
  ASSUME Flow, NEW w \in Workers, Worker(w)
  PROVE  /\ fault = "none" /\ cpu.at = "user" /\ cpu.stk = w /\ program' = program
         /\ \/ UNCHANGED vars
            \/ MutexLock /\ line[w] = "lock"
            \/ MutexUnlock /\ line[w] = "unlock"
            \/ Yield /\ line[w] = "yield"
            \/ FunctionReturns(NULL) /\ ~Answers(w) /\ line[w] = "return"
            \/ \E v \in Values : FunctionReturns(v) /\ Answers(w) /\ line[w] = "while"
  BY DEF Flow, Worker, Increment, EndLoop, TestA, TestB, ReturnNull, Statement, Silent, At, Answers

(* Every step is one that the library's general client may take. *)
LEMMA CallsAgreed ==
  ASSUME IInv, Agreed, Counting, Kept, TestNext
  PROVE  [Next]_vars
<1>1. ASSUME NEW w \in Workers, Worker(w) PROVE [Next]_vars
  <2>1. /\ fault = "none" /\ cpu.at = "user" /\ cpu.stk = w
        /\ \/ UNCHANGED vars
           \/ MutexLock /\ line[w] = "lock"
           \/ MutexUnlock /\ line[w] = "unlock"
           \/ Yield
           \/ FunctionReturns(NULL) /\ ~Answers(w) /\ line[w] = "return"
           \/ \E v \in Values : FunctionReturns(v) /\ Answers(w) /\ line[w] = "while"
    BY <1>1, WorkerSteps DEF Agreed
  <2>2. w \in created \ zombie
    BY <2>1, Caller, ConstantsAssumption DEF IInv, Alive, TailPoints
  <2>3. /\ line[w] = "unlock" => cpu.stk \in holds
        /\ line[w] \in {"lock", "return", "while"} => cpu.stk \notin holds
    BY <2>1, <2>2 DEF Counting, Kept, CriticalSection, Outside
  <2>4. ASSUME NEW v \in Values, FunctionReturns(v), Answers(w), line[w] = "while" PROVE Call
    <3>1. ~NoPlaceFor(cpu.stk)
      BY <2>1, <2>4 DEF Agreed, NoPlaceFor
    <3> QED
      BY <2>3, <2>4, <3>1 DEF Call
  <2>5. ASSUME FunctionReturns(NULL), line[w] = "return" PROVE Call
    BY <2>3, <2>5 DEF Call
  <2>6. CASE MutexLock /\ line[w] = "lock"
    BY <2>3, <2>6 DEF Next, Call
  <2>7. CASE MutexUnlock /\ line[w] = "unlock"
    BY <2>3, <2>7 DEF Next, Call
  <2>8. CASE Yield
    BY <2>8 DEF Next, Call
  <2> QED
    BY <2>1, <2>4, <2>5, <2>6, <2>7, <2>8 DEF Next
<1>2. ASSUME main PROVE Next
  <2>1. ASSUME NEW w \in Workers, created = Workers, claimed = 0 .. w - 1, cpu.stk = Main,
               Join(w, program = "test_green" /\ w = B)
        PROVE  Call
    <3>1. w \in created \ (claimed \cup {cpu.stk})
      BY <2>1, LastWorker, ConstantsAssumption
    <3>2. CASE Answers(w)
      <4>1. Join(w, TRUE)
        BY <2>1, <3>2 DEF Answers
      <4> QED
        BY <3>1, <4>1 DEF Call
    <3>3. CASE ~Answers(w)
      <4>1. Join(w, FALSE) /\ result[w] = NULL
        BY <2>1, <3>3 DEF Answers, Agreed
      <4> QED
        BY <3>1, <4>1 DEF Call
    <3> QED
      BY <3>2, <3>3
  <2>2. ASSUME NEW w \in Workers, created = 0 .. w - 1, Create(w) PROVE Call
    BY <2>2, LastWorker DEF Call
  <2> QED
    BY <1>2, <2>1, <2>2 DEF main, Next
<1> QED
  BY <1>1, <1>2 DEF TestNext, Step, Next

(* main creates threads in order and gives a place for one result. *)
LEMMA MainAgrees ==
  ASSUME Typed, Agreed, main, UNCHANGED <<flowVars, counterVars>>
  PROVE  Agreed'
<1>1. /\ cpu.stk \in Threads
      /\ slot \in [Threads -> BOOLEAN] /\ target \in [Threads -> Workers \cup {NULL}]
  BY DEF Typed, TypeOK, Stacks
<1>2. Flow'
  BY DEF Agreed, Flow, flowVars, counterVars
<1>3. \A w : Answers(w)' <=> Answers(w)
  BY DEF Answers, flowVars
<1>4. ASSUME UNCHANGED <<target, slot, result>> PROVE Agreed'
  BY <1>2, <1>3, <1>4 DEF Agreed
<1>5. ASSUME NEW w \in Workers, Create(w) PROVE Agreed'
  BY <1>4, <1>5 DEF Create, localVars
<1>6. CASE Exit
  BY <1>4, <1>6, NoCall
<1>7. ASSUME NEW w \in Workers, Join(w, program = "test_green" /\ w = B) PROVE Agreed'
  <2>1. /\ result' = result
        /\ target' = [target EXCEPT ![cpu.stk] = w]
        /\ slot' = [slot EXCEPT ![cpu.stk] = (program = "test_green" /\ w = B)]
    BY <1>7 DEF Join
  <2>3. ASSUME NEW u \in Threads, target'[u] \in Workers, Answers(target'[u])
        PROVE  slot'[u]
    <3>1. CASE u = cpu.stk
      BY <1>1, <2>1, <2>3, <3>1 DEF Answers
    <3>2. CASE u # cpu.stk
      BY <1>1, <2>1, <2>3, <3>2 DEF Agreed
    <3> QED
      BY <3>1, <3>2
  <2> QED
    BY <1>2, <1>3, <2>1, <2>3 DEF Agreed
<1> QED
  BY <1>5, <1>6, <1>7 DEF main

(* A worker goes from statement to statement of its own program. *)
LEMMA WorkerFlows ==
  ASSUME Flow, NEW w \in Workers, Worker(w)
  PROVE  Flow'
<1>1. /\ program' = program
      /\ \E to : line' = [line EXCEPT ![w] = to]
      /\ loop \in [Workers -> Nat] /\ loop[w] \in Nat
      /\ register[w] \in Nat
  BY DEF Worker, Increment, EndLoop, TestA, TestB, ReturnNull, Statement, Flow
<1>2. CASE program = "test_mutex" /\ Increment(w)
  <2>1. /\ line'[w] \in {"for", "return", "returned"} \cup Iterating
        /\ line'[w] \in Iterating => loop'[w] > 0
    <3>1. line[w] \in Iterating => loop[w] > 0
      BY DEF Flow
    <3>2. line' = [line EXCEPT ![w] = line'[w]] /\ line[w] \in {"for"} \cup Iterating
      BY <1>1, <1>2 DEF Increment, EndLoop, Statement, Flow, Iterating
    <3> QED
      BY <1>1, <1>2, <3>1, <3>2 DEF Increment, EndLoop, Statement, Flow, Iterating, CountDown, counterVars
  <2>2. /\ loop' \in [Workers -> Nat]
        /\ \A u \in Workers \ {w} : loop'[u] = loop[u] /\ line'[u] = line[u]
    <3>1. \/ loop' = loop
          \/ line[w] \in Iterating /\ loop' = [loop EXCEPT ![w] = loop[w] - 1]
      BY <1>2 DEF Increment, EndLoop, Statement, CountDown, Iterating
    <3>2. line[w] \in Iterating => loop[w] - 1 \in Nat
      BY <1>1 DEF Flow
    <3> QED
      BY <1>1, <3>1, <3>2 DEF Flow
  <2>3. shared' \in Nat /\ register' \in [Workers -> Nat]
    BY <1>1, <1>2 DEF Increment, EndLoop, Flow, counterVars
  <2> QED
    BY <1>1, <1>2, <2>1, <2>2, <2>3 DEF Flow
<1>3. CASE UNCHANGED counterVars /\ (ReturnNull(w) \/ program = "test_green")
  <2>1. /\ line' \in [Workers -> IF program = "test_mutex"
                                 THEN {"for", "return", "returned"} \cup Iterating
                                 ELSE {"while", "yield", "return", "returned"}]
        /\ program = "test_green" => line'[B] \in {"while", "returned"}
    BY <1>1, <1>3, LastWorker DEF Flow, Worker, TestA, TestB, ReturnNull, Statement
  <2>2. \/ loop' = loop
        \/ loop[w] > 0 /\ loop' = [loop EXCEPT ![w] = @ - 1]
    <3>1. ReturnNull(w) \/ TestA(w) \/ TestB
      BY <1>3 DEF Worker
    <3> QED
      BY <1>1, <3>1 DEF TestA, TestB, ReturnNull, CountDown
  <2>3. loop' \in [Workers -> Nat]
    BY <1>1, <2>2
  <2>4. program = "test_mutex" => loop' = loop /\ line'[w] = "returned"
    BY <1>1, <1>3 DEF Flow, ReturnNull, Statement
  <2>5. \A u \in Workers \ {w} : line'[u] = line[u]
    BY <1>1 DEF Flow
  <2> QED
    BY <1>1, <1>3, <2>1, <2>3, <2>4, <2>5 DEF Flow, counterVars, Iterating
<1> QED
  BY <1>2, <1>3 DEF Worker, Flow

(* What the programs agree to is kept by every step. *)
LEMMA AgreedStep ==
  ASSUME Typed, Agreed, [TestNext]_allVars
  PROVE  Agreed'
<1>1. ASSUME UNCHANGED <<flowVars, target, slot, result, counterVars>> PROVE Agreed'
  BY <1>1 DEF Agreed, Flow, Answers, flowVars, counterVars
<1>2. CASE UNCHANGED allVars
  BY <1>1, <1>2 DEF allVars, vars, localVars, clientVars
<1>3. CASE (TimerHandler \/ Halted \/ Library) /\ UNCHANGED <<flowVars, counterVars>>
  BY <1>1, <1>3, NoCall DEF flowVars, counterVars
<1>4. CASE main /\ UNCHANGED <<flowVars, counterVars>>
  BY <1>4, MainAgrees
<1>5. ASSUME NEW w \in Workers, Worker(w) PROVE Agreed'
  <2>1. /\ result \in [Threads -> Values \cup {NULL}] /\ w \in Threads
        /\ cpu.stk = w /\ program' = program
    BY <1>5, WorkerSteps DEF Typed, TypeOK, Threads, Agreed
  <2>2. /\ UNCHANGED <<target, slot>>
        /\ \/ result' = result
           \/ result' = [result EXCEPT ![w] = NULL]
           \/ Answers(w) /\ \E v : result' = [result EXCEPT ![w] = v]
    BY <1>5, <2>1, WorkerSteps
    DEF Agreed, MutexLock, MutexUnlock, Yield, FunctionReturns, vars, localVars, clientVars
  <2>3. Flow'
    BY <1>5, WorkerFlows DEF Agreed
  <2>4. \A u \in Workers : ~Answers(u) => result'[u] = NULL
    BY <2>1, <2>2 DEF Agreed, Threads
  <2> QED
    BY <2>1, <2>2, <2>3, <2>4 DEF Agreed, Answers
<1> QED
  BY <1>2, <1>3, <1>4, <1>5 DEF TestNext, Step

(* The programs begin as agreed. *)
LEMMA AgreedInit == TestInit => Init /\ Typed /\ Agreed
<1> SUFFICES ASSUME TestInit PROVE Init /\ Typed /\ Agreed
  OBVIOUS
<1>1. Init /\ Typed
  BY TypedInit, ConstantsAssumption DEF TestInit
<1>2. Flow
  BY LastWorker, ProgramsAssumption DEF TestInit, Init, Flow, Iterating
<1>3. /\ \A w \in Workers : result[w] = NULL
      /\ \A u \in Threads : target[u] \notin Workers
  BY ConstantsAssumption DEF TestInit, Init, Threads
<1> QED
  BY <1>1, <1>2, <1>3 DEF Agreed

-----------------------------------------------------------------------------
(* The result of test_B.  Only main joins; test_B has its result when it   *)
(* is on its way to the end, main has it when the context is freed; and    *)
(* main exits when it has freed them all.                                  *)
Answered ==
  /\ \A u \in Threads : u # Main => target[u] = NULL
  /\ program = "test_green" =>
       /\ B \in zombie => result[B] \in Values
       /\ cpu.stk = B /\ cpu.at \in TailPoints => result[B] \in Values
       /\ B \in freed => retval_b \in Values
  /\ cpu.at = "exit" => freed = created /\ created = Workers

(* The calls the programs make, besides the end of a thread function. *)
Calls ==
  \/ Yield \/ MutexLock \/ MutexUnlock
  \/ \E w \in Workers \ created : Create(w)
  \/ \E w \in Workers : Join(w, program = "test_green" /\ w = B)

(* What a switch of threads continues with is a stack the library parked.  *)
LEMMA DispatchParks ==
  ASSUME Typed, Safe, NEW q \in Seq(Threads), NEW point \in Parked, NEW onEmpty,
         fault = "none", cpu.at = "user", Dispatch(running, q, point, onEmpty)
  PROVE  cpu' = cpu \/ cpu'.at \in Parked
<1>1. ctx \in [Threads -> Stacks] /\ running \in Threads
  BY DEF Typed, TypeOK
<1>2. CASE q = <<>> \/ UNCHANGED cpu
  BY <1>2 DEF Dispatch, Die
<1>3. CASE q # <<>> /\ ctx' = [ctx EXCEPT ![running] = [stk |-> cpu.stk, at |-> point]]
           /\ cpu' = ctx'[Head(q)]
  <2>1. Head(q) \in Threads
    BY <1>3, HeadTailRange
  <2>2. ctx[Head(q)].at \in Parked
    BY <2>1 DEF Safe, Stacked
  <2> QED
    BY <1>1, <1>3, <2>1, <2>2
<1> QED
  BY <1>2, <1>3 DEF Dispatch, Die, Load

(* Where the processor is after a step: at a parked stack, or further on   *)
(* in the end of the same thread.                                          *)
LEMMA WhereNext ==
  ASSUME Typed, Safe, Disciplined, fault = "none", Library \/ TimerHandler \/ Calls
  PROVE  \/ cpu' = cpu
         \/ cpu'.at \in Parked
         \/ cpu'.stk = cpu.stk /\ {cpu.at, cpu'.at} \subseteq TailPoints
<1>1. /\ cpu \in Stacks /\ ready \in Seq(Threads) /\ running \in Threads
      /\ Append(ready, running) \in Seq(Threads)
      /\ next \in [Threads -> Threads \cup {NULL}]
  <2>1. ready \in Seq(Threads) /\ running \in Threads
    BY DEF Typed, TypeOK
  <2> QED
    BY <2>1, AppendRange DEF Typed, TypeOK
<1>2. {"user", "collect", "locked"} \subseteq Parked
  BY DEF Parked
<1>3. ASSUME NEW point, Goto(point) PROVE cpu'.stk = cpu.stk /\ cpu'.at = point
  BY <1>1, <1>3 DEF Goto, Stacks
<1>4. CASE Start \/ Collect \/ Locked \/ CondReacquire
  <2>1. ~CondReacquire
    BY DEF CondReacquire, At, Safe, Stacked
  <2> QED
    BY <1>2, <1>3, <1>4, <2>1 DEF Start, Collect, Locked, StepTo, Return, Die
<1>5. CASE ThreadEnds
  <2>1. CASE SetContext
    <3>1. next[cpu.stk] \in Threads
      BY <2>1 DEF SetContext, At, Typed, Sound
    <3>2. ctx[next[cpu.stk]].at \in Parked
      BY <3>1 DEF Safe, Stacked
    <3> QED
      BY <2>1, <3>2 DEF SetContext, Load, Die
  <2>2. CASE ~SetContext
    BY <1>3, <1>5, <2>2 DEF ThreadEnds, WakeJoiner, SaveResult, BecomeZombie, PickNext,
       SetRunning, StepTo, Die, At, TailPoints
  <2> QED
    BY <2>1, <2>2
<1>6. CASE Yield \/ TimerHandler
  <2>1. cpu.at = "user" /\ Dispatch(running, Append(ready, running), "user", "null")
    BY <1>6, ConstantsAssumption DEF Yield, TimerHandler, At, Disciplined, Preemptible
  <2> QED
    BY <1>1, <1>2, <2>1, DispatchParks
<1>7. CASE MutexLock
  BY <1>1, <1>2, <1>3, <1>7, DispatchParks DEF MutexLock, Return, At
<1>8. CASE MutexUnlock
  BY <1>2, <1>3, <1>8 DEF MutexUnlock, Return
<1>9. ASSUME NEW w \in Workers, Create(w) PROVE cpu'.at \in Parked
  BY <1>2, <1>3, <1>9 DEF Create, Return
<1>10. ASSUME NEW w \in Workers, NEW res, Join(w, res)
       PROVE  cpu' = cpu \/ cpu'.at \in Parked
  BY <1>1, <1>2, <1>3, <1>10, DispatchParks DEF Join, At
<1> QED
  BY <1>4, <1>5, <1>6, <1>7, <1>8, <1>9, <1>10 DEF Library, Calls

(* A thread becomes a zombie at its end, and its context is freed by who   *)
(* joined it.                                                              *)
LEMMA WhoEnds ==
  ASSUME Library \/ TimerHandler \/ Calls
  PROVE  /\ \A w \in zombie' \ zombie : cpu.stk = w /\ cpu.at \in TailPoints
         /\ \A w \in freed' \ freed : Collect /\ target[cpu.stk] = w
         /\ fault = "none" /\ cpu.at # "exit"
<1>1. CASE Library
  BY <1>1 DEF Library, ThreadEnds, Start, Collect, Locked, CondReacquire, WakeJoiner,
     SaveResult, BecomeZombie, PickNext, SetRunning, SetContext, StepTo, At, threadVars,
     TailPoints
<1>3. CASE TimerHandler
  BY <1>3, ConstantsAssumption DEF TimerHandler, Preemptible, threadVars, TailPoints
<1>2. CASE Calls
  BY <1>2 DEF Calls, Yield, MutexLock, MutexUnlock, Create, Join, At, threadVars
<1> QED
  BY <1>1, <1>2, <1>3

(* main has the result of test_B when green_join frees its context. *)
LEMMA ResultReceived ==
  ASSUME IInv, Agreed, Answered, Collect, Receive, program = "test_green",
         target[cpu.stk] = B
  PROVE  retval_b' \in Values
<1>1. /\ cpu.stk \in Threads /\ cpu.at = "collect" /\ fault = "none"
      /\ B \in Workers /\ NULL \notin Workers /\ NULL \notin Values
  BY LastWorker, ConstantsAssumption DEF Collect, At, IInv, Typed, TypeOK, Stacks
<1>2. cpu.stk = Main
  BY <1>1 DEF Answered
<1>3. slot[Main]
  BY <1>1, <1>2 DEF Agreed, Answers
<1>4. B \in zombie /\ retval[B] = result[B]
  BY <1>1, SafeMeans DEF IInv, JoinAfterTermination
<1>5. retval[target[Main]] \in Values
  BY <1>2, <1>4 DEF Answered
<1> QED
  BY <1>1, <1>3, <1>5 DEF Receive

(* The steps of the library and the calls keep Answered. *)
LEMMA AnsweredMoves ==
  ASSUME Disciplined, IInv, Agreed, Answered, Library \/ TimerHandler \/ Calls,
         UNCHANGED program, cpu.stk = Main \/ UNCHANGED target,
         Receive \/ (UNCHANGED retval_b /\ ~Collect)
  PROVE  Answered'
<1>1. /\ fault = "none" /\ cpu.at # "exit" /\ Typed /\ Safe
      /\ target \in [Threads -> Workers \cup {NULL}]
      /\ retval \in [Threads -> Values \cup {NULL}]
      /\ cpu.stk \in Threads
  BY WhoEnds DEF IInv, Typed, TypeOK, Stacks
<1>2. /\ result' = result
      /\ \A u \in Threads \ {cpu.stk} : target'[u] = target[u]
  <2>1. CASE Library \/ TimerHandler
    BY <2>1, NoCall
  <2>2. CASE Calls
    BY <1>1, <2>2 DEF Calls, Yield, MutexLock, MutexUnlock, Create, Join, localVars
  <2> QED
    BY <2>1, <2>2
<1>3. \/ cpu' = cpu
      \/ cpu'.at \in Parked
      \/ cpu'.stk = cpu.stk /\ {cpu.at, cpu'.at} \subseteq TailPoints
  BY <1>1, WhereNext
<1>4. Parked \cap TailPoints = {} /\ "exit" \notin Parked \cup TailPoints
  BY DEF Parked, TailPoints
<1>5. \A u \in Threads : u # Main => target'[u] = NULL
  BY <1>2 DEF Answered
<1>6. ASSUME program = "test_green", B \in zombie' PROVE result'[B] \in Values
  BY <1>2, <1>6, WhoEnds DEF Answered
<1>7. ASSUME program = "test_green", cpu'.stk = B, cpu'.at \in TailPoints
      PROVE  result'[B] \in Values
  BY <1>2, <1>3, <1>4, <1>7 DEF Answered
<1>8. ASSUME program = "test_green", B \in freed' PROVE retval_b' \in Values
  <2>1. CASE B \in freed
    <3>1. retval_b \in Values
      BY <1>8, <2>1 DEF Answered
    <3>2. cpu.at = "collect" /\ slot[Main] /\ retval[target[Main]] # NULL
            => retval[target[Main]] \in Values
      <4>1. SUFFICES ASSUME cpu.at = "collect" PROVE target[Main] \in Workers
        BY <1>1 DEF Threads
      <4>2. target[cpu.stk] \in Workers
        BY <1>1, <4>1 DEF Typed, Sound
      <4>3. cpu.stk = Main
        BY <1>1, <4>2, ConstantsAssumption DEF Answered
      <4> QED
        BY <4>2, <4>3
    <3> QED
      BY <3>1, <3>2 DEF Receive
  <2>2. CASE B \notin freed
    <3>1. Collect /\ target[cpu.stk] = B
      BY <1>8, <2>2, WhoEnds
    <3> QED
      BY <1>8, <3>1, ResultReceived
  <2> QED
    BY <2>1, <2>2
<1>9. cpu'.at # "exit"
  BY <1>1, <1>3, <1>4
<1>10. B' = B
  OBVIOUS
<1> QED
  BY <1>5, <1>6, <1>7, <1>8, <1>9 DEF Answered

(* So does every step of the programs. *)
LEMMA AnsweredStep ==
  ASSUME Disciplined, IInv, Agreed, Answered, [TestNext]_allVars
  PROVE  Answered'
<1>1. ASSUME UNCHANGED <<vars, program, retval_b>> PROVE Answered'
  BY <1>1 DEF Answered, vars, threadVars, localVars, clientVars
<1>2. CASE UNCHANGED allVars \/ (Halted /\ UNCHANGED <<flowVars, retval_b>>)
  BY <1>1, <1>2 DEF allVars, Halted, flowVars
<1>3. CASE TimerHandler /\ UNCHANGED <<flowVars, retval_b>>
  <2>1. UNCHANGED target /\ UNCHANGED program /\ UNCHANGED retval_b
    BY <1>3, NoCall DEF flowVars
  <2>2. ~Collect
    BY <1>3, ConstantsAssumption DEF TimerHandler, Collect, At, Preemptible, Disciplined, TailPoints
  <2> QED
    BY <1>3, <2>1, <2>2, AnsweredMoves
<1>4. CASE Library /\ Receive /\ UNCHANGED flowVars
  BY <1>4, AnsweredMoves, NoCall DEF flowVars
<1>5. CASE main /\ Receive /\ UNCHANGED flowVars
  <2>1. CASE Exit
    <3>1. /\ freed = created /\ created = Workers /\ cpu.at = "user" /\ cpu'.at = "exit"
          /\ UNCHANGED <<freed, created, zombie, target, result, program, retval_b>>
      BY <1>5, <2>1 DEF main, Exit, Create, Join, StepTo, At, Goto, Receive, IInv, Typed,
         TypeOK, Stacks, threadVars, localVars, clientVars, flowVars
    <3> QED
      BY <3>1 DEF Answered, TailPoints
  <2>2. CASE ~Exit
    <3>1. Calls /\ cpu.stk = Main
      BY <1>5, <2>2, LastWorker DEF main, Calls
    <3> QED
      BY <1>5, <3>1, AnsweredMoves DEF flowVars
  <2> QED
    BY <2>1, <2>2
<1>6. ASSUME NEW w \in Workers, Worker(w) PROVE Answered'
  <2>1. /\ fault = "none" /\ cpu.at = "user" /\ cpu.stk = w /\ program' = program
        /\ retval_b' = retval_b /\ ~Collect
        /\ \/ UNCHANGED vars
           \/ MutexLock \/ MutexUnlock \/ Yield
           \/ FunctionReturns(NULL) /\ ~Answers(w)
           \/ \E v \in Values : FunctionReturns(v) /\ Answers(w)
    BY <1>6, WorkerSteps DEF Agreed, Worker, Collect, At
  <2>2. CASE UNCHANGED vars
    BY <1>1, <2>1, <2>2
  <2>3. CASE MutexLock \/ MutexUnlock \/ Yield
    <3>1. UNCHANGED target
      BY <2>3 DEF MutexLock, MutexUnlock, Yield, localVars
    <3> QED
      BY <2>1, <2>3, <3>1, AnsweredMoves DEF Calls
  <2>4. ASSUME NEW v, FunctionReturns(v), Answers(w) <=> v \in Values
        PROVE  Answered'
    <3>1. /\ UNCHANGED <<target, zombie, freed, created>> /\ cpu'.at = "wakeJoiner"
          /\ cpu'.stk = w /\ result' = [result EXCEPT ![w] = v]
          /\ result \in [Threads -> Values \cup {NULL}] /\ w \in Threads
      BY <2>1, <2>4 DEF FunctionReturns, StepTo, Goto, IInv, Typed, TypeOK, Stacks, threadVars,
         clientVars, Threads
    <3>2. program = "test_green" => (v \in Values <=> w = B)
      BY <2>4 DEF Answers
    <3>3. B \in Threads
      BY LastWorker DEF Threads
    <3> QED
      BY <2>1, <3>1, <3>2, <3>3 DEF Answered
  <2> QED
    BY <2>1, <2>2, <2>3, <2>4, ConstantsAssumption
<1> QED
  BY <1>2, <1>3, <1>4, <1>5, <1>6 DEF TestNext, Step

-----------------------------------------------------------------------------
(* The mutex and the counter. *)
Moves ==
  \/ Library \/ TimerHandler \/ Calls \/ Exit
  \/ \E v \in Values \cup {NULL} : FunctionReturns(v)

(* Only the thread that runs gives the mutex away, in green_mutex_unlock.  *)
LEMMA HoldsStay ==
  /\ Moves => holds \ {cpu.stk} \subseteq holds' /\ created \subseteq created'
  /\ Moves /\ ~MutexUnlock => holds \subseteq holds'
  /\ Library \/ TimerHandler => holds \subseteq holds'
<1>1. ASSUME Library \/ TimerHandler \/ Exit
      PROVE  holds \subseteq holds' /\ created \subseteq created'
  BY <1>1 DEF Library, ThreadEnds, Start, Collect, Locked, CondReacquire, WakeJoiner,
     SaveResult, BecomeZombie, PickNext, SetRunning, SetContext, TimerHandler, Exit,
     clientVars
<1>2. ASSUME Calls \/ \E v \in Values \cup {NULL} : FunctionReturns(v)
      PROVE  /\ holds \ {cpu.stk} \subseteq holds' /\ created \subseteq created'
             /\ ~MutexUnlock => holds \subseteq holds'
  BY <1>2 DEF Calls, Yield, MutexLock, MutexUnlock, Create, Join, FunctionReturns, clientVars
<1> QED
  BY <1>1, <1>2 DEF Moves

(* Where a step leaves the stack of a thread that does not run. *)
LEMMA OthersStay ==
  ASSUME Typed, Safe, Disciplined, Moves, fault' = "none",
         NEW w \in Workers, w \in created, w # cpu.stk
  PROVE  /\ ctx'[w] = ctx[w]
         /\ \/ cpu'.stk = cpu.stk
            \/ \E h \in Threads : cpu' = ctx'[h]
<1>1. /\ ctx \in [Threads -> Stacks] /\ cpu \in Stacks /\ ready \in Seq(Threads)
      /\ next \in [Threads -> Threads \cup {NULL}] /\ w \in Threads
  BY DEF Typed, TypeOK, Threads
<1>2. cpu.at = "user" /\ fault = "none" =>
        /\ running \in Threads /\ running = cpu.stk
        /\ Append(ready, running) \in Seq(Threads)
  BY <1>1, Caller, AppendRange DEF TailPoints
<1>3. ASSUME NEW q \in Seq(Threads), NEW point, NEW onEmpty \in {"assert", "null"},
             cpu.at = "user", fault = "none", Dispatch(running, q, point, onEmpty)
      PROVE  ctx'[w] = ctx[w] /\ \E h \in Threads : cpu' = ctx'[h]
  <2>1. /\ q # <<>> /\ ctx' = [ctx EXCEPT ![running] = [stk |-> cpu.stk, at |-> point]]
        /\ cpu' = ctx'[Head(q)]
    BY <1>3 DEF Dispatch, Die, Load
  <2>2. Head(q) \in Threads
    BY <2>1, HeadTailRange
  <2> QED
    BY <1>1, <1>2, <1>3, <2>1, <2>2
<1>4. ASSUME NEW point, Goto(point) PROVE cpu'.stk = cpu.stk
  BY <1>1, <1>4 DEF Goto, Stacks
<1>5. CASE Library
  <2>1. ~CondReacquire
    BY DEF CondReacquire, At, Safe, Stacked
  <2>2. CASE SetContext
    <3>1. next[cpu.stk] \in Threads
      BY <2>2 DEF SetContext, At, Typed, Sound
    <3> QED
      BY <2>2, <3>1 DEF SetContext, Load, Die
  <2>3. CASE ~SetContext
    BY <1>4, <1>5, <2>1, <2>3 DEF Library, ThreadEnds, Start, Collect, Locked, WakeJoiner,
       SaveResult, BecomeZombie, PickNext, SetRunning, StepTo, Return, Die
  <2> QED
    BY <2>2, <2>3
<1>6. CASE Yield \/ TimerHandler
  <2>1. /\ cpu.at = "user" /\ fault = "none"
        /\ Dispatch(running, Append(ready, running), "user", "null")
    BY <1>6, ConstantsAssumption DEF Yield, TimerHandler, At, Disciplined, Preemptible
  <2> QED
    BY <1>2, <1>3, <2>1
<1>7. CASE MutexLock
  BY <1>1, <1>3, <1>4, <1>7 DEF MutexLock, Return, At
<1>8. CASE MutexUnlock
  BY <1>4, <1>8 DEF MutexUnlock, Return
<1>9. ASSUME NEW t \in Workers \ created, Create(t) PROVE ctx'[w] = ctx[w] /\ cpu'.stk = cpu.stk
  BY <1>1, <1>4, <1>9 DEF Create, Return
<1>10. ASSUME NEW t \in Workers, NEW res, Join(t, res)
       PROVE  /\ ctx'[w] = ctx[w]
              /\ \/ cpu'.stk = cpu.stk
                 \/ \E h \in Threads : cpu' = ctx'[h]
  BY <1>1, <1>3, <1>4, <1>10 DEF Join, At
<1>11. CASE Exit \/ \E v \in Values \cup {NULL} : FunctionReturns(v)
  BY <1>4, <1>11 DEF Exit, FunctionReturns, StepTo
<1> QED
  BY <1>5, <1>6, <1>7, <1>8, <1>9, <1>10, <1>11 DEF Moves, Calls

(* A worker that waits in green_mutex_lock goes on waiting there or gets   *)
(* the mutex.                                                              *)
LEMMA EnteringStays ==
  ASSUME Typed, Safe, Safe', Disciplined, Moves, fault' = "none",
         NEW w \in Workers, Entering(w), w \in holds => w \in holds'
  PROVE  Entering(w)'
<1>1. w \in created' /\ w \in Threads /\ cpu \in Stacks
  BY HoldsStay DEF Entering, Typed, TypeOK, Threads
<1>2. CASE w \in holds
  BY <1>1, <1>2 DEF Entering
<1>3. CASE PointOf(w) = "locked" /\ w = cpu.stk
  <2>1. cpu.at = "locked"
    BY <1>3 DEF PointOf
  <2>2. Locked
    BY <2>1, ConstantsAssumption DEF Moves, Library, ThreadEnds, Start, Collect, CondReacquire,
       WakeJoiner, SaveResult, BecomeZombie, PickNext, SetRunning, SetContext, TimerHandler,
       Preemptible, Disciplined, Calls, Yield, MutexLock, MutexUnlock, Create, Join, Exit,
       FunctionReturns, StepTo, At
  <2> QED
    BY <1>1, <1>3, <2>2 DEF Locked, Entering
<1>4. CASE PointOf(w) = "locked" /\ w # cpu.stk
  <2>1. /\ ctx'[w] = ctx[w] /\ ctx[w].at = "locked"
        /\ \/ cpu'.stk = cpu.stk
           \/ \E h \in Threads : cpu' = ctx'[h]
    BY <1>4, OthersStay DEF PointOf, Entering
  <2>2. \A h \in Threads : ctx'[h].stk = h
    BY DEF Safe, Stacked
  <2>3. PointOf(w)' = "locked"
    BY <1>1, <1>4, <2>1, <2>2 DEF PointOf
  <2> QED
    BY <1>1, <2>3 DEF Entering
<1> QED
  BY <1>2, <1>3, <1>4 DEF Entering

(* The steps that are not a worker's leave the counter and its owner alone. *)
LEMMA CountingMoves ==
  ASSUME Typed, Safe, Safe', Disciplined, Counting, Moves, fault = "none",
         UNCHANGED <<line, shared, register>>,
         \A w \in Workers : line[w] \in Iterating /\ w \in holds => w \in holds'
  PROVE  Counting'
<1> SUFFICES ASSUME fault' = "none"
             PROVE  /\ \A w \in Workers : line[w] = "load" => Entering(w)'
                    /\ \A w \in Workers : line[w] \in {"store", "unlock"} => w \in holds'
                    /\ \A w \in Workers : line[w] = "store" => register[w] = shared
  BY DEF Counting, Entering
<1>1. ASSUME NEW w \in Workers, line[w] = "load" PROVE Entering(w)'
  <2>1. Entering(w) /\ (w \in holds => w \in holds')
    BY <1>1 DEF Counting, Iterating
  <2> QED
    BY <2>1, EnteringStays
<1> QED
  BY <1>1 DEF Counting, Iterating

(* The statements of test_mutex.c's workers that concern the counter:      *)
(* nobody else has the mutex from the load to the call of unlock.          *)
LEMMA CountingWorker ==
  ASSUME IInv, Safe', Disciplined, Agreed, Counting, fault' = "none",
         NEW w \in Workers, program = "test_mutex", Increment(w), UNCHANGED retval_b
  PROVE  Counting'
<1>1. /\ fault = "none" /\ cpu.at = "user" /\ cpu.stk = w /\ Typed /\ Safe
      /\ line \in [Workers -> {"for", "return", "returned"} \cup Iterating]
      /\ register \in [Workers -> Nat]
  BY DEF Increment, EndLoop, Statement, At, IInv, Agreed, Flow
<1>2. /\ w \in created /\ PointOf(w) = "user"
      /\ line[w] = "load" => w \in holds
      /\ \A u, v \in holds : u = v
  <2>1. w \in Alive /\ w # Main
    BY <1>1, Caller, ConstantsAssumption DEF TailPoints
  <2> QED
    BY <1>1, <2>1, SafeMeans DEF Alive, PointOf, Counting, Entering, MutualExclusion
<1>3. CASE UNCHANGED vars
  <2>1. PICK to : line' = [line EXCEPT ![w] = to]
    BY DEF Increment, EndLoop, Statement
  <2>2. \A u \in Workers : Entering(u)' <=> Entering(u)
    BY <1>3 DEF Entering, PointOf, vars, clientVars
  <2>3. holds' = holds
    BY <1>3 DEF vars, clientVars
  <2>4. CASE line[w] = "load"
    <3>1. line'[w] = "store" /\ register' = [register EXCEPT ![w] = shared] /\ shared' = shared
      BY <1>1, <2>4 DEF Increment, EndLoop, Statement
    <3> QED
      BY <1>1, <1>2, <2>1, <2>2, <2>3, <2>4, <3>1 DEF Counting
  <2>5. CASE line[w] = "store"
    <3>1. line'[w] = "unlock" /\ register' = register
      BY <1>1, <2>5 DEF Increment, EndLoop, Statement
    <3>2. \A u \in Workers \ {w} : line[u] # "store"
      BY <1>1, <1>2, <2>5 DEF Counting
    <3> QED
      BY <1>1, <2>1, <2>2, <2>3, <2>5, <3>1, <3>2 DEF Counting
  <2>6. CASE line[w] \notin {"load", "store"}
    <3>1. UNCHANGED <<shared, register>>
      BY <2>6 DEF Increment, EndLoop, Statement, counterVars
    <3>2. line'[w] \notin {"load", "store", "unlock"}
      BY <1>1, <1>3, <2>6, LockIsStep DEF Increment, EndLoop, Statement, vars
    <3> QED
      BY <1>1, <2>1, <2>2, <2>3, <3>1, <3>2 DEF Counting
  <2> QED
    BY <2>4, <2>5, <2>6
<1>4. CASE MutexLock /\ line[w] = "lock"
  <2>1. line' = [line EXCEPT ![w] = "load"] /\ UNCHANGED <<shared, register>>
    BY <1>1, <1>4 DEF Increment, EndLoop, Statement, counterVars
  <2>2. Moves /\ holds \subseteq holds' /\ created' = created
    BY <1>4 DEF Moves, Calls, MutexLock
  <2>3. Entering(w)'
    <3>1. CASE ~taken
      BY <1>1, <1>2, <1>4, <2>2, <3>1 DEF MutexLock, Entering
    <3>2. CASE taken
      <4>1. Dispatch(running, ready, "locked", "assert") /\ ready \in Seq(Threads)
            /\ IsInjective(ready) /\ "locked" \in Parked
        BY <1>1, <1>4, <3>2 DEF MutexLock, Typed, TypeOK, Safe, Placed, Parked
      <4>2. running = w /\ w \in Threads
        BY <1>1, Caller DEF TailPoints
      <4>3. PointOf(w)' = "locked"
        BY <1>1, <4>1, <4>2, Dispatched
      <4> QED
        BY <1>2, <2>2, <4>3 DEF Entering
    <3> QED
      BY <3>1, <3>2
  <2>4. ASSUME NEW u \in Workers, u # w, line[u] = "load" PROVE Entering(u)'
    BY <1>1, <2>2, <2>4, EnteringStays DEF Counting
  <2> QED
    BY <1>1, <2>1, <2>2, <2>3, <2>4 DEF Counting, Entering
<1>5. CASE MutexUnlock /\ line[w] = "unlock"
  <2>1. line' = [line EXCEPT ![w] = "for"] /\ UNCHANGED <<shared, register>>
    BY <1>1, <1>5 DEF Increment, EndLoop, Statement, counterVars
  <2>2. Moves /\ holds' = holds \ {w}
    BY <1>1, <1>5 DEF Moves, Calls, MutexUnlock
  <2>3. ASSUME NEW u \in Workers, u # w, line[u] = "load" PROVE Entering(u)'
    BY <1>1, <2>2, <2>3, EnteringStays DEF Counting
  <2> QED
    BY <1>1, <2>1, <2>2, <2>3 DEF Counting, Entering
<1> QED
  BY <1>1, <1>3, <1>4, <1>5 DEF Increment, EndLoop, Statement, Silent

(* Every step keeps what is known of the counter. *)
LEMMA CountingStep ==
  ASSUME Disciplined, IInv, IInv', Agreed, Counting, [TestNext]_allVars
  PROVE  Counting'
<1>1. SUFFICES ASSUME fault' = "none" PROVE Counting'
  BY DEF Counting
<1>2. Safe'
  BY <1>1 DEF IInv
<1>3. ASSUME UNCHANGED <<vars, line, shared, register>> PROVE Counting'
  BY <1>3 DEF Counting, Entering, PointOf, vars, clientVars
<1>4. CASE UNCHANGED allVars \/ (Halted /\ UNCHANGED <<flowVars, counterVars>>)
  BY <1>3, <1>4 DEF allVars, Halted, flowVars, counterVars
<1>5. ASSUME Library \/ TimerHandler \/ main, UNCHANGED <<flowVars, counterVars>>
      PROVE  Counting'
  <2>1. Moves
    BY <1>5, LastWorker DEF Moves, Calls, main
  <2>2. fault = "none" /\ Typed /\ Safe
    BY <1>5, WhoEnds DEF main, Create, Join, Exit, StepTo, At, IInv
  <2>3. ASSUME NEW w \in Workers, w \in holds PROVE w \in holds'
    BY <1>5, <2>1, <2>3, HoldsStay, ConstantsAssumption DEF main
  <2> QED
    BY <1>2, <1>5, <2>1, <2>2, <2>3, CountingMoves DEF flowVars, counterVars
<1>6. ASSUME NEW w \in Workers, Worker(w) PROVE Counting'
  <2>1. CASE program = "test_mutex" /\ Increment(w)
    BY <1>1, <1>2, <1>6, <2>1, CountingWorker DEF Worker
  <2>2. CASE UNCHANGED counterVars /\ ReturnNull(w)
    <3>1. /\ Moves /\ line' = [line EXCEPT ![w] = "returned"] /\ holds' = holds
          /\ fault = "none"
      BY <2>2 DEF ReturnNull, Statement, At, FunctionReturns, Moves, clientVars
    <3>2. /\ Typed /\ Safe /\ \E S : line \in [Workers -> S]
      BY <3>1 DEF IInv, Agreed, Flow
    <3>3. ASSUME NEW u \in Workers, line[u] = "load" PROVE Entering(u)'
      BY <1>1, <1>2, <3>1, <3>2, <3>3, EnteringStays DEF Counting
    <3> QED
      BY <2>2, <3>1, <3>2, <3>3 DEF Counting, Entering, counterVars
  <2>3. CASE program = "test_green" /\ UNCHANGED counterVars
    <3>1. Flow'
      BY AgreedStep DEF IInv, Agreed
    <3>2. program' = program
      BY <1>6, WorkerSteps DEF Agreed
    <3>3. \A u \in Workers : line'[u] \in {"while", "yield", "return", "returned"}
      BY <2>3, <3>1, <3>2 DEF Flow
    <3> QED
      BY <3>3 DEF Counting
  <2> QED
    BY <1>6, <2>1, <2>2, <2>3 DEF Worker
<1> QED
  BY <1>4, <1>5, <1>6 DEF TestNext, Step

(* Who neither holds the mutex nor waits for it gets to do so only by a    *)
(* call of green_mutex_lock.                                               *)
LEMMA OutsideStays ==
  ASSUME Typed, Safe, Safe', Disciplined, Moves, fault = "none", fault' = "none",
         NEW w \in Workers, w \in created \ zombie, Outside(w),
         MutexLock => w # cpu.stk
  PROVE  Outside(w)'
<1>1. /\ w \in Threads /\ cpu \in Stacks /\ ready \in Seq(Threads)
      /\ running \in Threads /\ IsInjective(ready)
      /\ Parked = {"start", "user", "collect", "locked"}
  BY DEF Typed, TypeOK, Threads, Safe, Placed, Parked
<1>2. cpu.at = "user" =>
        /\ running = cpu.stk /\ Append(ready, running) \in Seq(Threads)
        /\ IsInjective(Append(ready, running))
  BY <1>1, Caller, AppendRange, AppendDistinct DEF TailPoints, Queued
<1>3. ~CondReacquire
  BY DEF CondReacquire, At, Safe, Stacked
<1>4. w \notin holds'
  <2>1. CASE Locked
    <3>1. w # cpu.stk
      BY <2>1 DEF Locked, At, Outside, PointOf
    <3> QED
      BY <2>1, <3>1 DEF Locked, Outside
  <2>2. CASE ~Locked
    BY <1>3, <2>2 DEF Moves, Library, ThreadEnds, Start, Collect, WakeJoiner, SaveResult,
       BecomeZombie, PickNext, SetRunning, SetContext, TimerHandler, Calls, Yield, MutexLock,
       MutexUnlock, Create, Join, Exit, FunctionReturns, Outside, clientVars
  <2> QED
    BY <2>1, <2>2
<1>5. CASE w # cpu.stk
  <2>1. /\ ctx'[w] = ctx[w] /\ ctx[w].at # "locked"
        /\ \/ cpu'.stk = cpu.stk
           \/ \E h \in Threads : cpu' = ctx'[h]
    BY <1>5, OthersStay DEF PointOf, Outside
  <2>2. \A h \in Threads : ctx'[h].stk = h
    BY DEF Safe, Stacked
  <2>3. PointOf(w)' # "locked"
    BY <1>1, <1>5, <2>1, <2>2 DEF PointOf
  <2> QED
    BY <1>4, <2>3 DEF Outside
<1>6. CASE w = cpu.stk
  <2>1. ASSUME NEW point, Goto(point), point # "locked" PROVE Outside(w)'
    <3>1. cpu' = [stk |-> w, at |-> point]
      BY <1>1, <1>6, <2>1 DEF Goto, Stacks
    <3> QED
      BY <1>4, <2>1, <3>1 DEF Outside, PointOf
  <2>2. ASSUME NEW q \in Seq(Threads), IsInjective(q), NEW point \in {"user", "collect"},
               cpu.at = "user", Dispatch(running, q, point, "null")
        PROVE  Outside(w)'
    <3>1. PointOf(w)' = point
      BY <1>1, <1>2, <1>6, <2>2, Dispatched
    <3> QED
      BY <1>4, <2>2, <3>1 DEF Outside
  <2>3. CASE Library
    <3>1. ~SetContext
      BY <1>6 DEF SetContext, At, Safe, Ended
    <3> QED
      BY <1>3, <2>1, <2>3, <3>1 DEF Library, ThreadEnds, Start, Collect, Locked, WakeJoiner,
         SaveResult, BecomeZombie, PickNext, SetRunning, StepTo, Return, Die
  <2>4. CASE Yield \/ TimerHandler
    <3>1. cpu.at = "user" /\ Dispatch(running, Append(ready, running), "user", "null")
      BY <2>4, ConstantsAssumption DEF Yield, TimerHandler, At, Disciplined, Preemptible
    <3> QED
      BY <1>2, <2>2, <3>1
  <2>5. CASE MutexUnlock \/ \E t \in Workers : Create(t)
    BY <2>1, <2>5 DEF MutexUnlock, Create, Return
  <2>6. ASSUME NEW t \in Workers, NEW res, Join(t, res) PROVE Outside(w)'
    BY <1>1, <2>1, <2>2, <2>6 DEF Join, At
  <2>7. CASE Exit \/ \E v \in Values \cup {NULL} : FunctionReturns(v)
    BY <2>1, <2>7 DEF Exit, FunctionReturns, StepTo
  <2> QED
    BY <1>6, <2>3, <2>4, <2>5, <2>6, <2>7 DEF Moves, Calls
<1> QED
  BY <1>5, <1>6

(* A thread that has been created and lives did so before, unless it has   *)
(* just been created: then it is at its start.                             *)
LEMMA NewThreads ==
  ASSUME Typed, Safe, Moves, fault = "none", NEW w \in (created \ zombie)'
  PROVE  w \in created \ zombie \/ Outside(w)'
<1>1. CASE \E t \in Workers \ created : Create(t)
  <2>1. PICK t \in Workers \ created : Create(t)
    BY <1>1
  <2>2. CASE w = t
    <3>1. /\ ctx \in [Threads -> Stacks] /\ t \in Threads /\ cpu \in Stacks
          /\ holds' = holds /\ ctx' = [ctx EXCEPT ![t] = [stk |-> t, at |-> "start"]]
          /\ cpu' = [cpu EXCEPT !.at = "user"]
      BY <2>1 DEF Typed, TypeOK, Threads, Create, Return, Goto
    <3>2. t \notin holds
      BY <2>1, ConstantsAssumption DEF Safe, Owned, Alive
    <3>3. PointOf(t)' \in {"start", "user"}
      BY <3>1 DEF PointOf, Stacks
    <3> QED
      BY <2>2, <3>1, <3>2, <3>3 DEF Outside
  <2> QED
    BY <2>1, <2>2 DEF Create
<1>2. CASE ~\E t \in Workers \ created : Create(t)
  <2>1. created' = created /\ zombie \subseteq zombie'
    BY <1>2 DEF Moves, Library, ThreadEnds, Start, Collect, Locked, CondReacquire, WakeJoiner,
       SaveResult, BecomeZombie, PickNext, SetRunning, SetContext, TimerHandler, Calls, Yield,
       MutexLock, MutexUnlock, Join, Exit, FunctionReturns, clientVars, threadVars
  <2> QED
    BY <2>1
<1> QED
  BY <1>1, <1>2

(* Every step leaves the mutex to those that are in the loop's body. *)
LEMMA KeptStep ==
  ASSUME Disciplined, IInv, IInv', Agreed, Kept, [TestNext]_allVars
  PROVE  Kept'
<1> SUFFICES ASSUME fault' = "none", NEW w \in (created \ zombie)',
                    line'[w] \notin CriticalSection
             PROVE  Outside(w)'
  BY DEF Kept, CriticalSection, Outside
<1>1. /\ Safe' /\ w \in Workers
      /\ \E S : line \in [Workers -> S]
  BY DEF IInv, Typed, TypeOK, Agreed, Flow
<1>2. CASE UNCHANGED <<vars, line>>
  BY <1>2 DEF Kept, Outside, PointOf, vars, threadVars, clientVars
<1>3. ASSUME fault = "none", Moves, line[w] \notin CriticalSection, MutexLock => w # cpu.stk
      PROVE  Outside(w)'
  BY <1>1, <1>3, NewThreads, OutsideStays DEF IInv, Kept
<1>4. CASE UNCHANGED allVars \/ (Halted /\ UNCHANGED flowVars)
  BY <1>2, <1>4 DEF allVars, Halted, flowVars
<1>5. ASSUME Library \/ TimerHandler \/ main, UNCHANGED flowVars PROVE Outside(w)'
  <2>1. Moves
    BY <1>5, LastWorker DEF Moves, Calls, main
  <2>2. fault = "none"
    BY <1>5, WhoEnds DEF main, Create, Join, Exit, StepTo, At
  <2>3. ~MutexLock \/ w # cpu.stk
    <3>1. CASE Library
      BY <3>1 DEF Library, ThreadEnds, Start, Collect, Locked, CondReacquire, WakeJoiner,
         SaveResult, BecomeZombie, PickNext, SetRunning, SetContext, MutexLock, StepTo, At
    <3>2. CASE TimerHandler
      BY <3>2, LockIsStep DEF TimerHandler, IInv
    <3>3. CASE main
      BY <1>1, <3>3, ConstantsAssumption DEF main
    <3> QED
      BY <1>5, <3>1, <3>2, <3>3
  <2> QED
    BY <1>3, <1>5, <2>1, <2>2, <2>3 DEF flowVars
<1>6. ASSUME NEW u \in Workers, Worker(u) PROVE Outside(w)'
  <2>1. /\ fault = "none" /\ cpu.at = "user" /\ cpu.stk = u
        /\ \/ UNCHANGED vars
           \/ MutexLock /\ line[u] = "lock"
           \/ MutexUnlock /\ line[u] = "unlock"
           \/ Yield /\ line[u] = "yield"
           \/ FunctionReturns(NULL) /\ ~Answers(u) /\ line[u] = "return"
           \/ \E v \in Values : FunctionReturns(v) /\ Answers(u) /\ line[u] = "while"
    BY <1>6, WorkerSteps DEF Agreed
  <2>2. PICK to : line' = [line EXCEPT ![u] = to]
    BY <1>6 DEF Worker, Increment, EndLoop, TestA, TestB, ReturnNull, Statement
  <2>3. CASE MutexUnlock /\ w = u
    <3>1. cpu' = [stk |-> u, at |-> "user"] /\ holds' = holds \ {u}
      BY <2>1, <2>3 DEF MutexUnlock, Return, Goto, IInv, Typed, TypeOK, Stacks
    <3> QED
      BY <2>3, <3>1 DEF Outside, PointOf
  <2>4. CASE UNCHANGED vars /\ (~MutexUnlock \/ w # u)
    <3>1. w \in created \ zombie
      BY <2>4 DEF vars, threadVars, clientVars
    <3>2. line[w] \notin CriticalSection
      <4>1. CASE w # u
        BY <1>1, <2>2, <4>1
      <4>2. CASE w = u
        BY <1>1, <1>6, <2>4, <4>2 DEF Worker, Increment, EndLoop, TestA, TestB, ReturnNull,
           Statement, CriticalSection
      <4> QED
        BY <4>1, <4>2
    <3> QED
      BY <2>1, <2>4, <3>1, <3>2 DEF Kept, Outside, PointOf, vars, clientVars
  <2>5. CASE ~UNCHANGED vars /\ (~MutexUnlock \/ w # u)
    <3>1. Moves
      BY <2>1, <2>5 DEF Moves, Calls
    <3>2. CASE w # u
      <4>1. line[w] \notin CriticalSection
        BY <1>1, <2>2, <3>2
      <4> QED
        BY <1>3, <2>1, <3>1, <3>2, <4>1
    <3>3. CASE w = u
      <4>1. line[u] # "lock"
        BY <1>1, <1>6, <3>3 DEF Worker, Increment, EndLoop, TestA, TestB, ReturnNull, Statement,
           CriticalSection
      <4>2. line[u] \notin CriticalSection
        BY <2>1, <2>5, <3>3, <4>1 DEF CriticalSection
      <4>3. ~MutexLock
        BY <2>1, <2>5, <3>3, <4>1, LockIsStep DEF Yield, FunctionReturns, IInv
      <4> QED
        BY <1>3, <2>1, <3>1, <3>3, <4>2, <4>3
    <3> QED
      BY <3>2, <3>3
  <2> QED
    BY <2>3, <2>4, <2>5
<1> QED
  BY <1>4, <1>5, <1>6 DEF TestNext, Step

(* The programs keep all of it. *)
LEMMA TestInvariant ==
  ASSUME Disciplined
  PROVE  TestSpec => [](IInv /\ Agreed /\ Answered /\ Counting /\ Kept)
<1>1. TestInit => IInv /\ Agreed /\ Answered /\ Counting /\ Kept
  <2> SUFFICES ASSUME TestInit PROVE Answered /\ Counting /\ Kept
    BY AgreedInit, IInvInit
  <2>1. Answered
    BY DEF TestInit, Init, Answered, TailPoints
  <2>2. Counting
    BY DEF TestInit, Counting
  <2>3. Kept
    BY DEF TestInit, Init, Kept
  <2> QED
    BY <2>1, <2>2, <2>3
<1>2. IInv /\ Agreed /\ Answered /\ Counting /\ Kept /\ [TestNext]_allVars
        => (IInv /\ Agreed /\ Answered /\ Counting /\ Kept)'
  <2> SUFFICES ASSUME IInv, Agreed, Answered, Counting, Kept, [TestNext]_allVars
               PROVE  IInv' /\ Agreed' /\ Answered' /\ Counting' /\ Kept'
    OBVIOUS
  <2>1. IInv'
    BY CallsAgreed, IInvStep DEF allVars
  <2> QED
    BY <2>1, AgreedStep, AnsweredStep, CountingStep, KeptStep DEF IInv
<1> QED
  BY <1>1, <1>2, PTL DEF TestSpec

(* test_mutex.c and test_green.c use the library as agreed: what is proved *)
(* of its general client holds of both, for any number of threads and      *)
(* iterations.  That no worker asks for a mutex it has, or unlocks one it  *)
(* lacks, rests in turn on what is proved of the library.                  *)
THEOREM TestsUseAsAgreed == Disciplined => (TestSpec => UsesAsAgreed)
<1> SUFFICES ASSUME Disciplined PROVE TestSpec => UsesAsAgreed
  OBVIOUS
<1>1. TestInit => Init
  BY DEF TestInit
<1>2. IInv /\ Agreed /\ Counting /\ Kept /\ [TestNext]_allVars => [Next]_vars
  BY CallsAgreed DEF allVars
<1> QED
  BY <1>1, <1>2, TestInvariant, PTL DEF TestSpec, UsesAsAgreed, Spec

(* When test_green.c prints "retval = %d" main has the number test_B       *)
(* returned, whether test_B ended before or after the call of green_join.  *)
THEOREM ResultIsThere == Disciplined => (TestSpec => []ResultArrives)
<1> SUFFICES ASSUME Disciplined PROVE TestSpec => []ResultArrives
  OBVIOUS
<1>1. Answered => ResultArrives
  BY LastWorker DEF Answered, ResultArrives, Done
<1> QED
  BY <1>1, TestInvariant, PTL

(* The increments a worker has still to make: shared++ counts as made when *)
(* it has stored.                                                          *)
ToMake(w) ==
  IF program = "test_mutex"
  THEN loop[w] - (IF line[w] = "unlock" THEN 1 ELSE 0) ELSE 0

(* A step of the programs is an increment of one worker or changes neither *)
(* the counter nor what is still to be made.                               *)
LEMMA CounterStep ==
  ASSUME Disciplined, IInv, Agreed, Counting, [TestNext]_allVars
  PROVE  [Counter!CounterNext]_Counter!counterVars
<1> DEFINE Left == [w \in Workers |-> ToMake(w)]
<1>1. ASSUME shared' = shared, \A w \in Workers : ToMake(w)' = ToMake(w)
      PROVE  [Counter!CounterNext]_Counter!counterVars
  <2>1. Left' = Left
    BY <1>1
  <2> QED
    BY <1>1, <2>1 DEF Counter!counterVars, ToMake
<1>2. ASSUME UNCHANGED <<flowVars, counterVars>>
      PROVE  [Counter!CounterNext]_Counter!counterVars
  BY <1>1, <1>2 DEF flowVars, counterVars, ToMake
<1>3. ASSUME NEW w \in Workers, program = "test_mutex", Increment(w)
      PROVE  [Counter!CounterNext]_Counter!counterVars
  <2>1. /\ fault = "none" /\ cpu.at = "user" /\ cpu.stk = w /\ Typed /\ Safe
        /\ program' = program
        /\ line \in [Workers -> {"for", "return", "returned"} \cup Iterating]
        /\ loop \in [Workers -> Nat] /\ register \in [Workers -> Nat]
        /\ line[w] \in Iterating => loop[w] > 0
    BY <1>3 DEF Increment, EndLoop, Statement, At, IInv, Agreed, Flow
  <2>3. PICK to : line' = [line EXCEPT ![w] = to]
    BY <1>3 DEF Increment, EndLoop, Statement
  <2>4. CASE line[w] = "store"
    <3>1. /\ line' = [line EXCEPT ![w] = "unlock"] /\ loop' = loop
          /\ shared' = register[w] + 1
      BY <1>3, <2>4 DEF Increment, EndLoop, Statement
    <3>2. shared' = shared + 1
      BY <2>1, <2>4, <3>1 DEF Counting
    <3>3. ToMake(w) > 0 /\ ToMake(w)' = ToMake(w) - 1
      BY <1>3, <2>1, <2>4, <3>1 DEF ToMake, Iterating
    <3>4. \A u \in Workers \ {w} : ToMake(u)' = ToMake(u)
      BY <2>1, <3>1 DEF ToMake
    <3>5. Left' = [Left EXCEPT ![w] = @ - 1] /\ Left[w] > 0
      BY <3>3, <3>4
    <3>6. Counter!Increment(w)
      BY <3>2, <3>5 DEF Counter!Increment, ToMake
    <3> QED
      BY <3>6 DEF Counter!CounterNext
  <2>5. CASE line[w] = "unlock"
    <3>1. /\ line' = [line EXCEPT ![w] = "for"] /\ loop' = [loop EXCEPT ![w] = @ - 1]
          /\ shared' = shared
      BY <1>3, <2>5 DEF Increment, EndLoop, Statement, CountDown, counterVars
    <3>2. \A u \in Workers : ToMake(u)' = ToMake(u)
      BY <2>1, <2>5, <3>1 DEF ToMake
    <3> QED
      BY <1>1, <3>1, <3>2
  <2>6. CASE line[w] \notin {"store", "unlock"}
    <3>1. /\ loop' = loop /\ shared' = shared /\ line'[w] # "unlock"
      BY <1>3, <2>1, <2>6 DEF Increment, EndLoop, Statement, counterVars
    <3>2. \A u \in Workers : ToMake(u)' = ToMake(u)
      BY <2>1, <2>3, <2>6, <3>1 DEF ToMake
    <3> QED
      BY <1>1, <3>1, <3>2
  <2> QED
    BY <2>4, <2>5, <2>6
<1>4. ASSUME NEW w \in Workers, UNCHANGED counterVars, program' = program,
             program = "test_green" \/ ReturnNull(w)
      PROVE  [Counter!CounterNext]_Counter!counterVars
  <2>1. CASE program = "test_green"
    <3>1. \A u \in Workers : ToMake(u)' = ToMake(u)
      BY <1>4, <2>1 DEF ToMake
    <3> QED
      BY <1>1, <1>4, <3>1 DEF counterVars
  <2>2. CASE ReturnNull(w)
    <3>1. /\ loop' = loop /\ line[w] = "return" /\ line' = [line EXCEPT ![w] = "returned"]
          /\ \E S : line \in [Workers -> S]
      BY <2>2 DEF ReturnNull, Statement, Agreed, Flow
    <3>2. \A u \in Workers : line'[u] = "unlock" <=> line[u] = "unlock"
      BY <3>1
    <3>3. \A u \in Workers : ToMake(u)' = ToMake(u)
      BY <1>4, <3>1, <3>2 DEF ToMake
    <3> QED
      BY <1>1, <1>4, <3>3 DEF counterVars
  <2> QED
    BY <1>4, <2>1, <2>2
<1>5. ASSUME NEW w \in Workers, Worker(w)
      PROVE  [Counter!CounterNext]_Counter!counterVars
  <2>1. program' = program
    BY <1>5, WorkerSteps DEF Agreed
  <2> QED
    BY <1>3, <1>4, <1>5, <2>1 DEF Worker
<1> QED
  BY <1>2, <1>5 DEF TestNext, Step, allVars

(* test_mutex.c loses no increment: with any number of threads and of      *)
(* iterations, wherever the timer interrupts shared++ or the calls around  *)
(* it, the counter is one that each thread increments at once.             *)
THEOREM NoIncrementIsLost == Disciplined => (TestSpec => ImplementsCounter)
<1> SUFFICES ASSUME Disciplined PROVE TestSpec => ImplementsCounter
  OBVIOUS
<1>1. TestInit => Counter!CounterInit
  <2> SUFFICES ASSUME TestInit PROVE Counter!CounterInit
    OBVIOUS
  <2>2. \A w \in Workers : ToMake(w) \in {0, Loops}
    BY ProgramsAssumption DEF TestInit, ToMake
  <2>3. [w \in Workers |-> ToMake(w)] \in [Workers -> {0, Loops}]
    BY <2>2
  <2> QED
    BY <2>3 DEF TestInit, ToMake, Counter!CounterInit
<1>2. IInv /\ Agreed /\ Counting /\ [TestNext]_allVars
        => [Counter!CounterNext]_Counter!counterVars
  BY CounterStep
<1> QED
  BY <1>1, <1>2, TestInvariant, PTL DEF TestSpec, ImplementsCounter, Counter!CounterSpec
=============================================================================
