------------------------- MODULE GreenThreadsProofs -------------------------
(* The green-thread library is correct for any number of threads.  First,  *)
(* type correctness, whatever clients and timer do; then, when clients     *)
(* wait for conditions without a mutex and the timer expires only in their *)
(* code, that every step that does not kill the process keeps Safe, one    *)
(* lemma per action or group of actions; last, the invariant and the       *)
(* theorems.                                                               *)
EXTENDS GreenThreadsInvariant, QueueLemmas, FiniteSetTheorems

-----------------------------------------------------------------------------
(* Typed in two parts: what Dispatch may change, and the rest. *)
SchedulerTyped ==
  /\ running \in Threads \cup {NULL} /\ ready \in Seq(Threads)
  /\ masked \in BOOLEAN /\ fault \in Faults
  /\ fault = "none" => running \in Threads
  /\ ctx \in [Threads -> Stacks] /\ cpu \in Stacks
  /\ Sound(cpu) /\ \A t \in Threads : Sound(ctx[t])

RestTyped ==
  /\ condq \in Seq(Threads) /\ mutexq \in Seq(Threads) /\ taken \in BOOLEAN
  /\ join \in [Threads -> Threads \cup {NULL}]
  /\ retval \in [Threads -> Values \cup {NULL}]
  /\ result \in [Threads -> Values \cup {NULL}]
  /\ zombie \subseteq Workers /\ freed \subseteq Workers
  /\ target \in [Threads -> Workers \cup {NULL}]
  /\ slot \in [Threads -> BOOLEAN]
  /\ next \in [Threads -> Threads \cup {NULL}]
  /\ created \subseteq Workers /\ claimed \subseteq created
  /\ holds \subseteq Threads

(* Typed falls into what a switch of threads changes and the rest. *)
LEMMA TypedParts ==
  /\ Typed <=> SchedulerTyped /\ RestTyped
  /\ Typed' <=> SchedulerTyped' /\ RestTyped'
  BY DEF Typed, TypeOK, SchedulerTyped, RestTyped

(* In the initial state every stack is sound and every variable typed. *)
LEMMA TypedInit == ASSUME ConstantsAssumption PROVE Init => Typed
<1> SUFFICES ASSUME Init PROVE Typed
  OBVIOUS
<1> USE DEF Threads
<1>1. ctx \in [Threads -> Stacks] /\ cpu \in Stacks /\ fault \in Faults
  BY DEF Init, Stacks, Points, Internal, Faults
<1>2. TypeOK
  <2>1. <<>> \in Seq(Threads)
    OBVIOUS
  <2>2. /\ join \in [Threads -> Threads \cup {NULL}]
        /\ retval \in [Threads -> Values \cup {NULL}]
        /\ result \in [Threads -> Values \cup {NULL}]
        /\ target \in [Threads -> Workers \cup {NULL}]
        /\ slot \in [Threads -> BOOLEAN]
        /\ next \in [Threads -> Threads \cup {NULL}]
    BY DEF Init
  <2> HIDE DEF Threads
  <2>3. running \in Threads
    BY DEF Init, Threads
  <2> QED
    BY <1>1, <2>1, <2>2, <2>3 DEF Init, TypeOK
<1>3. Sound(cpu) /\ \A t \in Threads : Sound(ctx[t])
  BY DEF Init, Sound, TailPoints
<1> QED
  BY <1>2, <1>3 DEF Init, Typed

(* A call that ends in Dispatch saves the caller's stack, or no stack, and *)
(* continues with a saved one or, when it dies, where it is.               *)
LEMMA DispatchTyped ==
  ASSUME Typed, fault = "none", NEW q \in Seq(Threads), NEW point \in Points,
         NEW onEmpty \in {"assert", "null"}, Dispatch(running, q, point, onEmpty),
         \A c \in Stacks : Sound(c) => Sound(c)',
         \A c : c = [stk |-> cpu.stk, at |-> point] => Sound(c)'
  PROVE  SchedulerTyped'
<1> USE DEF SchedulerTyped
<1>0. PICK saved : saved = [stk |-> cpu.stk, at |-> point] /\ Sound(saved)'
  OBVIOUS
<1>1. /\ running \in Threads /\ ready \in Seq(Threads) /\ ctx \in [Threads -> Stacks]
      /\ cpu \in Stacks /\ saved \in Stacks /\ masked \in BOOLEAN
  BY <1>0 DEF Typed, TypeOK, Stacks
<1>2. q # <<>> => Head(q) \in Threads /\ Tail(q) \in Seq(Threads)
  BY HeadTailRange
<1>3. ASSUME UNCHANGED <<ctx, cpu>>
      PROVE  Sound(cpu)' /\ \A t \in Threads : Sound(ctx[t])'
  <2>1. \A c \in Stacks : Sound(c) => Sound(c)'
    OBVIOUS
  <2>2. Sound(cpu) /\ \A t \in Threads : Sound(ctx[t])
    BY DEF Typed
  <2>3. \A c \in Stacks : cpu = c => Sound(cpu)'
    BY <1>3, <2>1, <2>2 DEF Sound
  <2>4. \A t \in Threads, c \in Stacks : ctx[t] = c => Sound(ctx[t])'
    BY <1>3, <2>1, <2>2 DEF Sound
  <2> QED
    BY <1>1, <2>3, <2>4
<1>4. CASE q = <<>>
  BY <1>1, <1>3, <1>4 DEF Dispatch, Die, Faults
<1>5. CASE q # <<>> /\ {running, Head(q)} \cap freed # {}
  BY <1>1, <1>2, <1>3, <1>5 DEF Dispatch, Die, Faults
<1>6. CASE q # <<>> /\ {running, Head(q)} \cap freed = {}
  <2>1. /\ ready' = Tail(q) /\ running' = Head(q) /\ fault' = fault
        /\ ctx' = [ctx EXCEPT ![running] = saved]
        /\ cpu' = ctx'[Head(q)] /\ masked' = (cpu'.at \in Internal)
    BY <1>0, <1>6 DEF Dispatch, Load
  <2>2. /\ ctx' \in [Threads -> Stacks]
        /\ \A t \in Threads : ctx'[t] = IF t = running THEN saved ELSE ctx[t]
    BY <1>1, <2>1
  <2>3. ASSUME NEW t \in Threads PROVE Sound(ctx[t])'
    <3>1. CASE t = running
      BY <1>0, <2>2, <3>1 DEF Sound
    <3>2. CASE t # running
      <4>1. ctx'[t] = ctx[t] /\ ctx[t] \in Stacks /\ Sound(ctx[t])
        BY <1>1, <2>2, <3>2 DEF Typed
      <4>2. \A c \in Stacks : c = ctx[t] /\ Sound(c) => Sound(c)'
        OBVIOUS
      <4>3. \A c \in Stacks : c = ctx[t] /\ Sound(c)' => Sound(ctx[t])'
        BY <4>1 DEF Sound
      <4> QED
        BY <4>1, <4>2, <4>3
    <3> QED
      BY <3>1, <3>2
  <2>4. Sound(cpu)'
    <3>1. PICK u \in Threads : cpu' = ctx'[u]
      BY <1>2, <1>6, <2>1
    <3>2. Sound(ctx[u])'
      BY <2>3
    <3> QED
      BY <3>1, <3>2 DEF Sound
  <2> QED
    BY <1>1, <1>2, <1>6, <2>1, <2>2, <2>3, <2>4 DEF Faults
<1> QED
  BY <1>4, <1>5, <1>6

(* What the steps that are not a Dispatch do to the stack that executes.   *)
LEMMA GotoTyped ==
  ASSUME Typed, fault = "none", NEW point \in Points, UNCHANGED <<ctx, fault>>,
         cpu' = [cpu EXCEPT !.at = point], masked' \in BOOLEAN,
         running' \in Threads, ready' \in Seq(Threads),
         \A c \in Stacks : Sound(c) => Sound(c)',
         \A c : c = [stk |-> cpu.stk, at |-> point] => Sound(c)'
  PROVE  SchedulerTyped'
<1>1. /\ ctx \in [Threads -> Stacks] /\ cpu \in Stacks /\ fault \in Faults
      /\ \A t \in Threads : Sound(ctx[t])
  BY DEF Typed, TypeOK
<1>2. cpu' = [stk |-> cpu.stk, at |-> point] /\ cpu' \in Stacks
  BY <1>1 DEF Stacks
<1>3. Sound(cpu)'
  <2>1. PICK c : c = [stk |-> cpu.stk, at |-> point] /\ Sound(c)'
    OBVIOUS
  <2> QED
    BY <1>2, <2>1 DEF Sound
<1>4. ASSUME NEW t \in Threads PROVE Sound(ctx[t])'
  <2>1. PICK c \in Stacks : c = ctx[t] /\ Sound(c)'
    BY <1>1
  <2> QED
    BY <2>1 DEF Sound
<1> QED
  BY <1>1, <1>2, <1>3, <1>4 DEF SchedulerTyped

(* Every action keeps the types: one step per action.                      *)
LEMMA TypedStep ==
  ASSUME ConstantsAssumption, Typed, Next
  PROVE  Typed'
<1> USE DEF queueVars, threadVars, localVars, clientVars, At
<1> DEFINE Plain == {"user", "exit", "locked", "recheck"}
<1>1. /\ Plain \subseteq Points /\ "collect" \in Points
      /\ \A point \in Plain : \A s, c : c = [stk |-> s, at |-> point] => Sound(c)'
  BY DEF Points, Internal, TailPoints, Sound
<1>2. ASSUME UNCHANGED localVars
      PROVE  \A c \in Stacks : Sound(c) => Sound(c)'
  BY <1>2 DEF Sound
<1>3. SchedulerTyped /\ RestTyped /\ (SchedulerTyped' /\ RestTyped' => Typed')
  BY TypedParts
<1>4. /\ fault = "none" => running \in Threads
      /\ cpu.stk \in Threads /\ holds \subseteq Threads /\ ready \in Seq(Threads)
      /\ condq \in Seq(Threads) /\ mutexq \in Seq(Threads) /\ taken \in BOOLEAN
      /\ <<>> \in Seq(Threads)
      /\ \A q \in Seq(Threads), u \in Threads : Append(q, u) \in Seq(Threads)
  BY <1>3 DEF SchedulerTyped, RestTyped, Stacks
<1>5. ASSUME NEW t \in Workers, Create(t) PROVE Typed'
  <2>1. cpu' = [stk |-> cpu.stk, at |-> "user"] /\ cpu' \in Stacks
    BY <1>1, <1>3, <1>5 DEF Create, Return, Goto, SchedulerTyped, Stacks
  <2>2. ctx' \in [Threads -> Stacks] /\ \A u \in Threads : Sound(ctx[u])'
    BY <1>3, <1>5 DEF Create, SchedulerTyped, Sound, Stacks, Points, Internal,
                      TailPoints, Threads
  <2>3. Sound(cpu)'
    BY <2>1 DEF Sound, TailPoints
  <2>4. ready' \in Seq(Threads)
    BY <1>3, <1>5 DEF Create, SchedulerTyped, Threads
  <2>5. SchedulerTyped'
    BY <1>3, <1>4, <1>5, <2>1, <2>2, <2>3, <2>4 DEF Create, Return, SchedulerTyped
  <2>6. RestTyped'
    BY <1>3, <1>5 DEF Create, RestTyped
  <2> QED
    BY <1>3, <2>5, <2>6
<1>6. ASSUME Yield PROVE Typed'
  <2>1. Append(ready, running) \in Seq(Threads)
    BY <1>3, <1>6 DEF Yield, SchedulerTyped
  <2>2. SchedulerTyped'
    BY <1>1, <1>2, <1>6, <2>1, DispatchTyped DEF Yield
  <2> QED
    BY <1>3, <1>6, <2>2 DEF Yield, RestTyped
<1>7. ASSUME NEW t \in created, NEW res \in BOOLEAN, Join(t, res)
      PROVE  Typed'
  <2>1. RestTyped'
    <3>1. cpu.stk \in Threads /\ running \in Threads /\ t \in Workers /\ t \in Threads
      BY <1>3, <1>4, <1>7 DEF Join, SchedulerTyped, RestTyped, Stacks, Threads
    <3>2. join' \in [Threads -> Threads \cup {NULL}]
      BY <1>3, <1>7, <3>1 DEF Join, RestTyped
    <3>3. target' \in [Threads -> Workers \cup {NULL}] /\ slot' \in [Threads -> BOOLEAN]
      BY <1>3, <1>7, <3>1 DEF Join, RestTyped
    <3>4. created' \subseteq Workers /\ claimed' \subseteq created'
      BY <1>3, <1>7 DEF Join, RestTyped
    <3> QED
      BY <1>3, <1>7, <3>2, <3>3, <3>4 DEF Join, RestTyped
  <2>2. /\ target' = [target EXCEPT ![cpu.stk] = t] /\ t \in Workers
        /\ slot' = [slot EXCEPT ![cpu.stk] = res]
        /\ next' = next /\ fault = "none" /\ cpu.stk \in Threads
    BY <1>3, <1>7 DEF Join, SchedulerTyped, RestTyped, Stacks
  <2>3. \A c \in Stacks : Sound(c) => Sound(c)'
    BY <1>3, <1>7, <2>2 DEF RestTyped, Sound, Stacks
  <2>4. \A c : c = [stk |-> cpu.stk, at |-> "collect"] => Sound(c)'
    BY <1>3, <1>7, <2>2 DEF RestTyped, Sound, TailPoints
  <2>5. CASE t \in zombie
    BY <1>1, <1>3, <1>4, <1>7, <2>1, <2>2, <2>3, <2>4, <2>5, GotoTyped
    DEF Join, Goto, SchedulerTyped
  <2>6. CASE t \notin zombie
    <3>1. Dispatch(running, ready, "collect", "null") /\ ready \in Seq(Threads)
      BY <1>3, <1>7, <2>6 DEF Join, SchedulerTyped
    <3> QED
      BY <1>1, <1>3, <2>1, <2>2, <2>3, <2>4, <3>1, DispatchTyped
  <2> QED
    BY <2>5, <2>6
<1>8. ASSUME Collect PROVE Typed'
  <2>1. /\ fault = "none" /\ cpu.at = "collect" /\ UNCHANGED localVars
        /\ target[cpu.stk] \in Workers
    BY <1>3, <1>8 DEF Collect, SchedulerTyped, Sound
  <2>2. RestTyped'
    BY <1>3, <1>8, <2>1 DEF Collect, RestTyped
  <2>3. CASE Die("null")
    BY <1>3, <1>8, <2>1, <2>2, <2>3 DEF Collect, Die, SchedulerTyped, Faults, Sound
  <2>4. CASE Return /\ UNCHANGED <<ctx, fault>>
    BY <1>1, <1>2, <1>3, <1>4, <1>8, <2>1, <2>2, <2>4, GotoTyped
    DEF Collect, Return, Goto, SchedulerTyped
  <2> QED
    BY <1>8, <2>3, <2>4 DEF Collect
<1>9. ASSUME MutexLock PROVE Typed'
  <2>1. RestTyped'
    <3>1. mutexq' \in Seq(Threads) /\ taken' \in BOOLEAN /\ holds' \subseteq Threads
      BY <1>4, <1>9 DEF MutexLock
    <3> QED
      BY <1>3, <1>9, <3>1 DEF MutexLock, RestTyped
  <2>2. CASE taken
    BY <1>1, <1>2, <1>3, <1>9, <2>1, <2>2, DispatchTyped DEF MutexLock, SchedulerTyped
  <2>3. CASE ~taken
    BY <1>1, <1>2, <1>3, <1>4, <1>9, <2>1, <2>3, GotoTyped
    DEF MutexLock, Return, Goto, SchedulerTyped
  <2> QED
    BY <2>2, <2>3
<1>10. ASSUME Locked PROVE Typed'
  <2>1. RestTyped'
    BY <1>3, <1>10 DEF Locked, RestTyped, SchedulerTyped, Stacks
  <2> QED
    BY <1>1, <1>2, <1>3, <1>4, <1>10, <2>1, GotoTyped
    DEF Locked, Return, Goto, SchedulerTyped
<1>11. ASSUME MutexUnlock PROVE Typed'
  <2>1. mutexq # <<>> => Head(mutexq) \in Threads /\ Tail(mutexq) \in Seq(Threads)
    BY <1>3, HeadTailRange DEF RestTyped
  <2>2. RestTyped' /\ ready' \in Seq(Threads)
    <3>1. /\ mutexq' \in Seq(Threads) /\ taken' \in BOOLEAN /\ holds' \subseteq Threads
          /\ ready' \in Seq(Threads)
      BY <1>4, <1>11, <2>1 DEF MutexUnlock
    <3> QED
      BY <1>3, <1>11, <3>1 DEF MutexUnlock, RestTyped
  <2> QED
    BY <1>1, <1>2, <1>3, <1>4, <1>11, <2>2, GotoTyped
    DEF MutexUnlock, Return, Goto, SchedulerTyped
<1>12. ASSUME CondWait PROVE Typed'
  <2>1. RestTyped'
    BY <1>3, <1>4, <1>12 DEF CondWait, RestTyped
  <2> QED
    BY <1>1, <1>2, <1>3, <1>12, <2>1, DispatchTyped DEF CondWait, SchedulerTyped
<1>13. ASSUME CondWaitMutex PROVE Typed'
  <2>1. RestTyped'
    <3>1. /\ condq' \in Seq(Threads) /\ mutexq' \in Seq(Threads) /\ taken' \in BOOLEAN
          /\ holds' \subseteq Threads
      BY <1>4, <1>13 DEF CondWaitMutex
    <3> QED
      BY <1>3, <1>13, <3>1 DEF CondWaitMutex, RestTyped
  <2>2. (IF mutexq = <<>> THEN ready ELSE Append(ready, Head(mutexq))) \in Seq(Threads)
    BY <1>3, HeadTailRange DEF RestTyped, SchedulerTyped
  <2> QED
    BY <1>1, <1>2, <1>3, <1>13, <2>1, <2>2, DispatchTyped DEF CondWaitMutex
<1>14. ASSUME CondReacquire PROVE Typed'
  <2>1. RestTyped'
    <3>1. mutexq' \in Seq(Threads) /\ taken' \in BOOLEAN /\ holds' \subseteq Threads
      BY <1>4, <1>14 DEF CondReacquire
    <3> QED
      BY <1>3, <1>14, <3>1 DEF CondReacquire, RestTyped
  <2>2. CASE taken
    BY <1>1, <1>2, <1>3, <1>14, <2>1, <2>2, DispatchTyped
    DEF CondReacquire, SchedulerTyped
  <2>3. CASE ~taken
    BY <1>1, <1>2, <1>3, <1>4, <1>14, <2>1, <2>3, GotoTyped
    DEF CondReacquire, Return, Goto, SchedulerTyped
  <2> QED
    BY <2>2, <2>3
<1>15. ASSUME CondSignal PROVE Typed'
  <2>1. condq # <<>> => Head(condq) \in Threads /\ Tail(condq) \in Seq(Threads)
    BY <1>3, HeadTailRange DEF RestTyped
  <2>2. RestTyped' /\ ready' \in Seq(Threads)
    <3>1. condq' \in Seq(Threads) /\ ready' \in Seq(Threads)
      BY <1>4, <1>15, <2>1 DEF CondSignal
    <3> QED
      BY <1>3, <1>15, <3>1 DEF CondSignal, RestTyped
  <2>3. CASE condq = <<>>
    BY <1>3, <1>15, <2>2, <2>3 DEF CondSignal, SchedulerTyped, Sound
  <2>4. CASE condq # <<>>
    BY <1>1, <1>2, <1>3, <1>4, <1>15, <2>2, <2>4, GotoTyped
    DEF CondSignal, Return, Goto
  <2> QED
    BY <2>3, <2>4
<1>16. ASSUME Start PROVE Typed'
  BY <1>1, <1>2, <1>3, <1>4, <1>16, GotoTyped
  DEF Start, StepTo, Goto, SchedulerTyped, RestTyped
<1>17. ASSUME NEW v \in Values \cup {NULL}, FunctionReturns(v) PROVE Typed'
  <2>1. /\ cpu.stk \in Workers /\ fault = "none" /\ next' = next /\ target' = target
        /\ slot' = slot
    BY <1>17 DEF FunctionReturns, StepTo
  <2>2. \A c \in Stacks : Sound(c) => Sound(c)'
    BY <2>1 DEF Sound
  <2>3. \A c : c = [stk |-> cpu.stk, at |-> "wakeJoiner"] => Sound(c)'
    BY <2>1 DEF Sound
  <2>4. RestTyped'
    BY <1>3, <1>17, <2>1 DEF FunctionReturns, RestTyped, Threads
  <2> QED
    BY <1>3, <1>4, <1>17, <2>1, <2>2, <2>3, <2>4, GotoTyped
    DEF FunctionReturns, StepTo, Goto, SchedulerTyped, Points, TailPoints
<1>18. \A from, to \in TailPoints :
         /\ from \in Points /\ to \in Points
         /\ StepTo(from, to) => cpu.stk \in Workers /\ fault = "none"
  BY <1>3 DEF StepTo, SchedulerTyped, Sound, Points
<1>19. ASSUME NEW from \in TailPoints, NEW to \in TailPoints, StepTo(from, to),
              to \in {"setRunning", "setContext"} => next'[cpu.stk] \in Threads,
              target' = target, slot' = slot,
              next' = next \/ \E u \in Threads : next' = [next EXCEPT ![cpu.stk] = u],
              running' \in Threads, ready' \in Seq(Threads)
       PROVE  SchedulerTyped'
  <2>1. cpu.stk \in Workers /\ fault = "none" /\ from \in Points /\ to \in Points
    BY <1>18, <1>19
  <2>2. \A c \in Stacks : Sound(c) => Sound(c)'
    BY <1>3, <1>19 DEF Sound, RestTyped, Stacks
  <2>3. \A c : c = [stk |-> cpu.stk, at |-> to] => Sound(c)'
    BY <1>19, <2>1 DEF Sound, TailPoints
  <2> QED
    BY <1>3, <1>19, <2>1, <2>2, <2>3, GotoTyped DEF StepTo, Goto, SchedulerTyped
<1>20. ASSUME WakeJoiner PROVE Typed'
  <2>1. cpu.stk \in Workers /\ running \in Threads /\ StepTo("wakeJoiner", "saveResult")
    BY <1>4, <1>18, <1>20 DEF WakeJoiner, TailPoints
  <2>2. ready' \in Seq(Threads)
    BY <1>3, <1>20, <2>1 DEF WakeJoiner, RestTyped, SchedulerTyped, Threads
  <2>3. SchedulerTyped'
    BY <1>19, <1>20, <2>1, <2>2 DEF WakeJoiner, TailPoints
  <2> QED
    BY <1>3, <1>20, <2>3 DEF WakeJoiner, RestTyped
<1>21. ASSUME SaveResult PROVE Typed'
  <2>1. cpu.stk \in Workers /\ running \in Threads /\ StepTo("saveResult", "becomeZombie")
    BY <1>4, <1>18, <1>21 DEF SaveResult, TailPoints
  <2>2. SchedulerTyped'
    BY <1>3, <1>19, <1>21, <2>1 DEF SaveResult, TailPoints, SchedulerTyped
  <2> QED
    BY <1>3, <1>21, <2>1, <2>2 DEF SaveResult, RestTyped, Threads
<1>22. ASSUME BecomeZombie PROVE Typed'
  <2>1. cpu.stk \in Workers /\ running \in Threads /\ StepTo("becomeZombie", "pickNext")
    BY <1>4, <1>18, <1>22 DEF BecomeZombie, TailPoints
  <2>2. SchedulerTyped'
    BY <1>3, <1>19, <1>22, <2>1 DEF BecomeZombie, TailPoints, SchedulerTyped
  <2> QED
    BY <1>3, <1>22, <2>1, <2>2 DEF BecomeZombie, RestTyped
<1>23. ASSUME PickNext PROVE Typed'
  <2>1. cpu.stk \in Workers /\ cpu.stk \in Threads /\ running \in Threads /\ fault = "none"
    BY <1>3, <1>4, <1>23 DEF PickNext, StepTo, SchedulerTyped, Sound, TailPoints, Threads
  <2>2. CASE ready = <<>>
    BY <1>3, <1>23, <2>1, <2>2 DEF PickNext, Die, SchedulerTyped, RestTyped, Faults, Sound
  <2>3. CASE ready # <<>>
    <3>1. Head(ready) \in Threads /\ Tail(ready) \in Seq(Threads)
      BY <1>3, <2>3, HeadTailRange DEF SchedulerTyped
    <3>2. next' = [next EXCEPT ![cpu.stk] = Head(ready)] /\ next'[cpu.stk] = Head(ready)
      BY <1>3, <1>23, <2>1, <2>3 DEF PickNext, RestTyped
    <3>3. SchedulerTyped'
      BY <1>19, <1>23, <2>1, <2>3, <3>1, <3>2 DEF PickNext, TailPoints
    <3> QED
      BY <1>3, <1>23, <2>1, <2>3, <3>1, <3>2, <3>3 DEF PickNext, RestTyped
  <2> QED
    BY <2>2, <2>3
<1>24. ASSUME SetRunning PROVE Typed'
  <2>1. next[cpu.stk] \in Threads
    BY <1>3, <1>24 DEF SetRunning, StepTo, SchedulerTyped, Sound
  <2>2. SchedulerTyped'
    BY <1>3, <1>19, <1>24, <2>1 DEF SetRunning, TailPoints, SchedulerTyped
  <2> QED
    BY <1>3, <1>24, <2>2 DEF SetRunning, RestTyped
<1>25. ASSUME SetContext PROVE Typed'
  <2>1. next[cpu.stk] \in Threads
    BY <1>3, <1>25 DEF SetContext, SchedulerTyped, Sound
  <2>2. RestTyped' /\ UNCHANGED <<running, ready, ctx, next, target, slot>>
    BY <1>3, <1>25 DEF SetContext, Die, RestTyped
  <2>3. \A u \in Threads : Sound(ctx[u])'
    BY <1>3, <2>2 DEF SchedulerTyped, Sound
  <2>4. CASE next[cpu.stk] \in freed
    BY <1>3, <1>25, <2>2, <2>3, <2>4 DEF SetContext, Die, SchedulerTyped, Faults, Sound
  <2>5. CASE next[cpu.stk] \notin freed
    <3>1. /\ cpu' = ctx[next[cpu.stk]] /\ masked' = (cpu'.at \in Internal)
          /\ fault' = fault
      BY <1>25, <2>5 DEF SetContext, Load
    <3>2. Sound(cpu)'
      BY <1>3, <2>1, <2>2, <3>1 DEF SchedulerTyped, Sound
    <3> QED
      BY <1>3, <2>1, <2>2, <2>3, <3>1, <3>2 DEF SchedulerTyped
  <2> QED
    BY <2>4, <2>5
<1>26. ASSUME TimerHandler PROVE Typed'
  <2>1. Append(ready, running) \in Seq(Threads)
    BY <1>3, <1>4, <1>26 DEF TimerHandler, SchedulerTyped
  <2>2. cpu \in Stacks /\ Sound(cpu) /\ cpu.at \in Points
    BY <1>3 DEF SchedulerTyped, Stacks
  <2>3. \A c : c = [stk |-> cpu.stk, at |-> cpu.at] => Sound(c)'
    BY <1>26, <2>2 DEF TimerHandler, Sound
  <2>4. SchedulerTyped'
    BY <1>2, <1>26, <2>1, <2>2, <2>3, DispatchTyped DEF TimerHandler
  <2> QED
    BY <1>3, <1>26, <2>4 DEF TimerHandler, RestTyped
<1>27. ASSUME Exit PROVE Typed'
  BY <1>1, <1>2, <1>3, <1>4, <1>27, GotoTyped
  DEF Exit, StepTo, Goto, SchedulerTyped, RestTyped
<1>28. ASSUME Halted PROVE Typed'
  BY <1>3, <1>28 DEF Halted, vars, SchedulerTyped, RestTyped, Sound
<1> QED
  BY <1>5, <1>6, <1>7, <1>8, <1>9, <1>10, <1>11, <1>12, <1>13, <1>14, <1>15, <1>16,
     <1>17, <1>20, <1>21, <1>22, <1>23, <1>24, <1>25, <1>26, <1>27, <1>28
  DEF Next, Call, Library, ThreadEnds

(* A thread that is joined without a place for its result returns NULL:    *)
(* only green_join and the end of a thread function concern this.          *)
LEMMA ResultsWantedStep ==
  ASSUME Typed, ResultsWanted, Next
  PROVE  ResultsWanted'
<1>1. ASSUME UNCHANGED <<target, slot, result>> PROVE ResultsWanted'
  BY <1>1 DEF ResultsWanted, NoPlaceFor
<1>2. /\ cpu.stk \in Threads /\ result \in [Threads -> Values \cup {NULL}]
      /\ slot \in [Threads -> BOOLEAN] /\ target \in [Threads -> Workers \cup {NULL}]
  BY DEF Typed, TypeOK, Stacks
<1>3. ASSUME NEW t \in created, NEW res \in BOOLEAN, res \/ result[t] = NULL, Join(t, res)
      PROVE  ResultsWanted'
  <2>1. /\ target' = [target EXCEPT ![cpu.stk] = t]
        /\ slot' = [slot EXCEPT ![cpu.stk] = res] /\ result' = result
    BY <1>3 DEF Join
  <2>2. ASSUME NEW u \in Workers, NEW s \in Threads, target'[s] = u, ~slot'[s]
        PROVE  result'[u] = NULL
    <3>1. CASE s = cpu.stk
      BY <1>2, <1>3, <2>1, <2>2, <3>1
    <3>2. CASE s # cpu.stk
      BY <1>2, <2>1, <2>2, <3>2 DEF ResultsWanted, NoPlaceFor
    <3> QED
      BY <3>1, <3>2
  <2> QED
    BY <2>2 DEF ResultsWanted, NoPlaceFor
<1>4. ASSUME NEW v \in Values \cup {NULL}, v = NULL \/ ~NoPlaceFor(cpu.stk),
             FunctionReturns(v)
      PROVE  ResultsWanted'
  <2>1. /\ result' = [result EXCEPT ![cpu.stk] = v]
        /\ UNCHANGED <<target, slot>> /\ cpu.stk \in Workers
    BY <1>4 DEF FunctionReturns
  <2>2. ASSUME NEW u \in Workers PROVE NoPlaceFor(u)' <=> NoPlaceFor(u)
    BY <2>1 DEF NoPlaceFor
  <2>3. ASSUME NEW u \in Workers, NoPlaceFor(u) PROVE result'[u] = NULL
    BY <1>2, <1>4, <2>1, <2>3 DEF ResultsWanted, Threads
  <2> QED
    BY <2>2, <2>3 DEF ResultsWanted
<1>5. CASE Library
  BY <1>1, <1>5 DEF Library, ThreadEnds, Start, Collect, Locked, CondReacquire, WakeJoiner,
     SaveResult, BecomeZombie, PickNext, SetRunning, SetContext, localVars
<1>6. CASE TimerHandler \/ Exit \/ Halted
  BY <1>1, <1>6 DEF TimerHandler, Exit, Halted, vars, localVars
<1>7. ASSUME \/ Yield \/ MutexLock \/ MutexUnlock
             \/ CondWait \/ CondWaitMutex \/ CondSignal
             \/ \E t \in Workers : Create(t)
      PROVE  ResultsWanted'
  BY <1>1, <1>7 DEF Yield, MutexLock, MutexUnlock, CondWait, CondWaitMutex, CondSignal,
     Create, localVars
<1> QED
  BY <1>3, <1>4, <1>5, <1>6, <1>7 DEF Next, Call

(* Typed is an invariant. *)
LEMMA TypedInvariant == Spec => []Typed
<1>1. Init => Typed
  BY TypedInit, ConstantsAssumption
<1>2. Typed /\ [Next]_vars => Typed'
  <2> SUFFICES ASSUME Typed, [Next]_vars PROVE Typed'
    OBVIOUS
  <2>1. CASE Next
    BY <2>1, TypedStep, ConstantsAssumption
  <2>2. CASE UNCHANGED vars
    BY <2>2, TypedParts
    DEF vars, queueVars, threadVars, localVars, clientVars, SchedulerTyped,
        RestTyped, Sound
  <2> QED
    BY <2>1, <2>2
<1> QED
  BY <1>1, <1>2, PTL DEF Spec

(* Every variable keeps its type: a queue never holds NULL, an ended       *)
(* thread always finds a next one to run or dies, and main never becomes a *)
(* zombie, for any number of threads and any client.                       *)
THEOREM TypeCorrect == Spec => []TypeOK
<1>1. Typed => TypeOK
  BY DEF Typed
<1> QED
  BY <1>1, TypedInvariant, PTL

-----------------------------------------------------------------------------
(* The thread that runs the client's or the library's code, outside the    *)
(* end of green_thread.                                                    *)
LEMMA Caller ==
  ASSUME Typed, Safe, fault = "none", cpu.at \notin TailPoints
  PROVE  /\ running \in Threads /\ cpu.stk = running /\ Active = running
         /\ running \in Alive /\ running \notin Queued
         /\ running \notin zombie /\ running \notin freed
         /\ PointOf(running) = cpu.at
         /\ \A t \in Threads : t # running => PointOf(t) = ctx[t].at
         /\ \A t \in Awaited : join[t] # running
<1>1. cpu.at \notin {"pickNext", "setRunning", "setContext"}
  BY DEF TailPoints
<1>2. Active = running /\ cpu.stk = running /\ running \in Threads
  BY <1>1 DEF Active, Safe, Stacked, Typed
<1>3. running \in Alive /\ running \notin Queued
  BY <1>1, <1>2 DEF Safe, Placed
<1>4. running \notin zombie /\ running \notin freed
  BY <1>3 DEF Alive, Safe, Ended
<1>5. \A t \in Awaited : join[t] # running
  BY <1>2 DEF Safe, Joined
<1> QED
  BY <1>2, <1>3, <1>4, <1>5 DEF PointOf

(* The joiner of a thread still waits after a step that leaves the threads *)
(* off the processor where they are.                                       *)
LEMMA JoinersStay ==
  ASSUME Typed, Safe, fault = "none", NEW u \in Awaited, join' = join,
         \A t \in Alive : t # Active /\ PointOf(t) = "collect" => PointOf(t)' = "collect"
  PROVE  /\ join[u] \in Alive \ (Queued \cup {Active}) /\ join[u] \in Threads
         /\ target[join[u]] = u
         /\ PointOf(join[u]) = "collect" /\ PointOf(join[u])' = "collect"
<1>1. /\ join[u] \in Alive \ (Queued \cup {Active})
      /\ PointOf(join[u]) = "collect" /\ target[join[u]] = u
  BY DEF Safe, Joined
<1>2. PICK j \in Alive : j = join[u] /\ j \in Threads
  BY <1>1 DEF Alive, Typed, TypeOK, Threads
<1>3. PointOf(j)' = "collect"
  BY <1>1, <1>2
<1>4. PointOf(join[u])' = "collect"
  BY <1>2, <1>3 DEF PointOf
<1> QED
  BY <1>1, <1>2, <1>4

(* What a Dispatch does when the process survives it: a thread h leaves    *)
(* the queue and runs, and the caller's stack is left at the given point.  *)
LEMMA Dispatched ==
  ASSUME Typed, Safe, fault = "none", cpu.at = "user", NEW q \in Seq(Threads),
         IsInjective(q), NEW point \in Parked, NEW onEmpty \in {"assert", "null"},
         Dispatch(running, q, point, onEmpty), fault' = "none"
  PROVE  /\ Stacked'
         /\ Active' \in Range(q) /\ cpu'.at \in Parked /\ cpu'.stk = Active'
         /\ Range(ready') = Range(q) \ {Active'} /\ IsInjective(ready')
         /\ \A t \in Threads : PointOf(t)' = IF t = running THEN point ELSE PointOf(t)
<1>1. /\ running \in Threads /\ cpu.stk = running
      /\ \A t \in Threads : t # running => PointOf(t) = ctx[t].at
      /\ ctx \in [Threads -> Stacks]
  BY Caller DEF TailPoints, Typed, TypeOK
<1> DEFINE h == Head(q)
           saved == [stk |-> running, at |-> point]
<1>2. /\ q # <<>> /\ ready' = Tail(q) /\ running' = h
      /\ ctx' = [ctx EXCEPT ![running] = saved] /\ cpu' = ctx'[h]
  BY <1>1 DEF Dispatch, Die, Load
<1>3. h \in Threads /\ h \notin Range(ready') /\ Range(q) = Range(ready') \cup {h}
      /\ IsInjective(ready')
  BY <1>2, HeadTailRange, TailDistinct
<1> HIDE DEF h
<1>4. \A t \in Threads : ctx'[t] = IF t = running THEN saved ELSE ctx[t]
  BY <1>1, <1>2
<1>5. \A t \in Threads : ctx'[t].stk = t /\ ctx'[t].at \in Parked
  BY <1>4 DEF Safe, Stacked
<1>6. cpu'.stk = h /\ cpu'.at \in Parked
  BY <1>2, <1>3, <1>5
<1>7. Stacked' /\ Active' = h
  BY <1>2, <1>5, <1>6 DEF Stacked, Active, Parked
<1>8. \A t \in Threads : PointOf(t)' = ctx'[t].at
  BY <1>2, <1>6 DEF PointOf
<1> QED
  BY <1>1, <1>3, <1>4, <1>6, <1>7, <1>8

(* Safe after a call that gave up the processor, except for what the       *)
(* joiners have to do with it: the caller and the threads queued before    *)
(* make up the queues and the thread that runs.                            *)
LEMMA HandedOver ==
  ASSUME Typed, Safe, fault = "none", cpu.at = "user", NEW q \in Seq(Threads),
         IsInjective(q), NEW point \in Parked, NEW onEmpty \in {"assert", "null"},
         Dispatch(running, q, point, onEmpty), fault' = "none",
         UNCHANGED <<taken, retval, zombie, freed, result, created, holds>>,
         IsInjective(condq'), IsInjective(mutexq'),
         Range(q) \cap Range(condq') = {}, Range(q) \cap Range(mutexq') = {},
         Range(condq') \cap Range(mutexq') = {},
         Range(q) \in {Range(ready), Range(ready) \cup {running}},
         Range(condq') \in {Range(condq), Range(condq) \cup {running}},
         Range(mutexq') \in {Range(mutexq), Range(mutexq) \cup {running}},
         running \in Range(q) \cup Range(condq') => point = "user",
         running \in Range(mutexq') <=> point = "locked",
         point = "locked" => running \notin holds,
         mutexq' # <<>> => taken,
         \A t \in Threads \ {running} : target'[t] = target[t]
  PROVE  /\ Stacked' /\ Placed' /\ Ended' /\ Collectable' /\ Suspended' /\ Owned'
         /\ Alive' = Alive
         /\ Queued' \cup {Active'} = Range(q) \cup Range(condq') \cup Range(mutexq')
         /\ \A t \in Threads : PointOf(t)' = IF t = running THEN point ELSE PointOf(t)
<1> DEFINE A == Active'
<1>1. /\ Stacked'
      /\ A \in Range(q) /\ cpu'.at \in Parked /\ cpu'.stk = A
      /\ Range(ready') = Range(q) \ {A} /\ IsInjective(ready')
      /\ \A t \in Threads : PointOf(t)' = IF t = running THEN point ELSE PointOf(t)
  BY Dispatched
<1> HIDE DEF A
<1>2. /\ running \in Threads /\ running \in Alive /\ running \notin Queued
      /\ Active = running /\ PointOf(running) = "user" /\ cpu.stk = running
  BY Caller DEF TailPoints
<1>3. Alive' = Alive /\ Alive \subseteq Threads
  BY <1>2 DEF Alive, Typed, TypeOK, Threads
<1>4. Queued' \cup {A} = Range(q) \cup Range(condq') \cup Range(mutexq')
  BY <1>1 DEF Queued
<1>5. cpu'.at \notin TailPoints /\ cpu'.at # "recheck"
  BY <1>1 DEF Parked, TailPoints
<1>6. /\ Range(q) \subseteq Alive /\ Range(condq') \subseteq Alive
      /\ Range(mutexq') \subseteq Alive
  BY <1>2 DEF Safe, Placed, Queued
<1>7. Placed'
  BY <1>1, <1>3, <1>4, <1>5, <1>6 DEF Placed, Queued, A
<1>8. Ended'
  BY <1>5 DEF Safe, Ended, TailPoints
<1>9. Collectable'
  <2> SUFFICES ASSUME NEW t \in Range(q), PointOf(t)' = "collect"
               PROVE  target'[t] \in zombie
    BY <1>1 DEF Collectable, A
  <2>1. t \in Threads /\ t # running /\ t \in Range(ready) /\ PointOf(t) = "collect"
    BY <1>1, <1>3, <1>6
  <2>2. target[t] \in zombie \/ Ending(target[t])
    BY <2>1 DEF Safe, Collectable
  <2> QED
    BY <2>1, <2>2 DEF Ending
<1>10. Suspended'
  <2>1. ASSUME NEW t \in Range(condq') PROVE PointOf(t)' = "user"
    BY <1>1, <1>2, <1>3, <1>6 DEF Safe, Suspended
  <2>2. ASSUME NEW t \in Range(mutexq') PROVE PointOf(t)' = "locked"
    BY <1>1, <1>2, <1>3, <1>6 DEF Safe, Suspended
  <2> QED
    BY <2>1, <2>2 DEF Suspended
<1>11. Owned'
  <2>1. Granted' = Granted
    <3>1. ASSUME NEW t \in Alive
          PROVE  PointOf(t)' = "locked" /\ t \notin Range(mutexq')
                 <=> PointOf(t) = "locked" /\ t \notin Range(mutexq)
      BY <1>1, <1>2, <1>3 DEF Queued
    <3> QED
      BY <1>3, <3>1 DEF Granted
  <2>2. \A t \in holds : PointOf(t)' # "locked"
    BY <1>1, <1>3 DEF Safe, Owned
  <2> QED
    BY <1>3, <1>5, <2>1, <2>2 DEF Safe, Owned, Owners
<1> QED
  BY <1>1, <1>3, <1>4, <1>7, <1>8, <1>9, <1>10, <1>11 DEF A

(* Joined and Found after such a call, unless the call is green_join.      *)
LEMMA JoinersWait ==
  ASSUME Typed, Safe, fault = "none", cpu.at = "user", NEW point \in Parked,
         UNCHANGED <<join, claimed>>, Alive' = Alive,
         \A t \in Threads \ {running} : target'[t] = target[t],
         Queued' \cup {Active'} = Queued \cup {running},
         \A t \in Threads : PointOf(t)' = IF t = running THEN point ELSE PointOf(t)
  PROVE  Joined' /\ Found'
<1>1. /\ running \in Threads /\ Active = running /\ PointOf(running) = "user"
      /\ \A t \in Awaited : join[t] # running
  BY Caller DEF TailPoints
<1>2. Alive \subseteq Threads
  BY DEF Alive, Typed, TypeOK, Threads
<1>3. Awaited' = Awaited /\ Joiners' = Joiners
  BY <1>1, <1>2 DEF Awaited, Joiners, Parked
<1>4. Joined'
  BY <1>1, <1>2, <1>3 DEF Safe, Joined
<1>5. Found'
  BY <1>1, <1>3 DEF Safe, Found
<1> QED
  BY <1>4, <1>5

-----------------------------------------------------------------------------
(* One lemma per action, or per group of actions with one effect: a step   *)
(* that does not kill the process keeps Safe.                              *)

(* green_yield, called by a client or by timer_handler. *)
LEMMA YieldSafe ==
  ASSUME Typed, Safe, Disciplined, Yield \/ TimerHandler, fault' = "none"
  PROVE  Safe'
<1> USE DEF queueVars, threadVars, localVars, clientVars
<1>1. /\ fault = "none" /\ cpu.at = "user"
      /\ Dispatch(running, Append(ready, running), "user", "null")
      /\ UNCHANGED <<queueVars, threadVars, localVars, clientVars>>
  BY ConstantsAssumption DEF Yield, TimerHandler, At, Disciplined, Preemptible
<1>2. running \in Threads /\ running \notin Queued /\ ready \in Seq(Threads)
  BY <1>1, Caller DEF TailPoints, Typed, TypeOK
<1>3. /\ Append(ready, running) \in Seq(Threads)
      /\ Range(Append(ready, running)) = Range(ready) \cup {running}
      /\ IsInjective(Append(ready, running))
  BY <1>2, AppendRange, AppendDistinct DEF Safe, Placed, Queued
<1> DEFINE q == Append(ready, running)
<1> HIDE DEF q
<1>4. /\ IsInjective(condq') /\ IsInjective(mutexq')
      /\ Range(q) \cap Range(condq') = {} /\ Range(q) \cap Range(mutexq') = {}
      /\ Range(condq') \cap Range(mutexq') = {}
      /\ running \notin Range(mutexq')
      /\ mutexq' # <<>> => taken
  BY <1>1, <1>2, <1>3 DEF Safe, Placed, Owned, Queued, q
<1>5. /\ Stacked' /\ Placed' /\ Ended' /\ Collectable' /\ Suspended' /\ Owned'
      /\ Alive' = Alive
      /\ Queued' \cup {Active'} = Range(q) \cup Range(condq') \cup Range(mutexq')
      /\ \A t \in Threads : PointOf(t)' = IF t = running THEN "user" ELSE PointOf(t)
  BY <1>1, <1>3, <1>4, HandedOver DEF q, Parked
<1>6. Queued' \cup {Active'} = Queued \cup {running}
  BY <1>1, <1>3, <1>5 DEF q, Queued
<1>7. Joined' /\ Found'
  BY <1>1, <1>5, <1>6, JoinersWait DEF Parked
<1> QED
  BY <1>5, <1>7 DEF Safe

(* green_cond_wait without a mutex. *)
LEMMA CondWaitSafe ==
  ASSUME Typed, Safe, CondWait, fault' = "none"
  PROVE  Safe'
<1> USE DEF queueVars, threadVars, localVars, clientVars
<1>1. /\ fault = "none" /\ cpu.at = "user"
      /\ condq' = Append(condq, running)
      /\ Dispatch(running, ready, "user", "assert")
      /\ UNCHANGED <<taken, mutexq, threadVars, localVars, clientVars>>
  BY DEF CondWait, At
<1>2. /\ running \in Threads /\ running \notin Queued /\ ready \in Seq(Threads)
      /\ condq \in Seq(Threads)
  BY <1>1, Caller DEF TailPoints, Typed, TypeOK
<1>3. Range(condq') = Range(condq) \cup {running} /\ IsInjective(condq')
  BY <1>1, <1>2, AppendRange, AppendDistinct DEF Safe, Placed, Queued
<1>4. /\ IsInjective(ready) /\ IsInjective(mutexq')
      /\ Range(ready) \cap Range(condq') = {} /\ Range(ready) \cap Range(mutexq') = {}
      /\ Range(condq') \cap Range(mutexq') = {}
      /\ running \notin Range(mutexq')
      /\ mutexq' # <<>> => taken
  BY <1>1, <1>2, <1>3 DEF Safe, Placed, Owned, Queued
<1>5. /\ Stacked' /\ Placed' /\ Ended' /\ Collectable' /\ Suspended' /\ Owned'
      /\ Alive' = Alive
      /\ Queued' \cup {Active'} = Range(ready) \cup Range(condq') \cup Range(mutexq')
      /\ \A t \in Threads : PointOf(t)' = IF t = running THEN "user" ELSE PointOf(t)
  BY <1>1, <1>2, <1>3, <1>4, HandedOver DEF Parked
<1>6. Queued' \cup {Active'} = Queued \cup {running}
  BY <1>1, <1>3, <1>5 DEF Queued
<1>7. Joined' /\ Found'
  BY <1>1, <1>5, <1>6, JoinersWait DEF Parked
<1> QED
  BY <1>5, <1>7 DEF Safe

(* green_mutex_lock on a mutex that is taken. *)
LEMMA LockTakenSafe ==
  ASSUME Typed, Safe, MutexLock, taken, cpu.stk \notin holds, fault' = "none"
  PROVE  Safe'
<1> USE DEF queueVars, threadVars, localVars, clientVars
<1>1. /\ fault = "none" /\ cpu.at = "user" /\ cpu.stk \notin holds
      /\ mutexq' = Append(mutexq, running)
      /\ Dispatch(running, ready, "locked", "assert")
      /\ UNCHANGED <<taken, condq, threadVars, localVars, clientVars>>
  BY DEF MutexLock, At
<1>2. /\ running \in Threads /\ running \notin Queued /\ ready \in Seq(Threads)
      /\ mutexq \in Seq(Threads) /\ running \notin holds
  BY <1>1, Caller DEF TailPoints, Typed, TypeOK
<1>3. Range(mutexq') = Range(mutexq) \cup {running} /\ IsInjective(mutexq')
  BY <1>1, <1>2, AppendRange, AppendDistinct DEF Safe, Placed, Queued
<1>4. /\ IsInjective(ready) /\ IsInjective(condq')
      /\ Range(ready) \cap Range(condq') = {} /\ Range(ready) \cap Range(mutexq') = {}
      /\ Range(condq') \cap Range(mutexq') = {}
      /\ running \notin Range(ready) \cup Range(condq')
  BY <1>1, <1>2, <1>3 DEF Safe, Placed, Owned, Queued
<1>5. /\ Stacked' /\ Placed' /\ Ended' /\ Collectable' /\ Suspended' /\ Owned'
      /\ Alive' = Alive
      /\ Queued' \cup {Active'} = Range(ready) \cup Range(condq') \cup Range(mutexq')
      /\ \A t \in Threads : PointOf(t)' = IF t = running THEN "locked" ELSE PointOf(t)
  BY <1>1, <1>2, <1>3, <1>4, HandedOver DEF Parked
<1>6. Queued' \cup {Active'} = Queued \cup {running}
  BY <1>1, <1>3, <1>5 DEF Queued
<1>7. Joined' /\ Found'
  BY <1>1, <1>5, <1>6, JoinersWait DEF Parked
<1> QED
  BY <1>5, <1>7 DEF Safe

(* green_join of a thread that has not ended: the caller becomes its       *)
(* joiner.                                                                 *)
LEMMA JoinWaitsSafe ==
  ASSUME Typed, Safe, NEW t \in created \ (claimed \cup {cpu.stk}), NEW res \in BOOLEAN,
         Join(t, res), t \notin zombie, fault' = "none"
  PROVE  Safe'
<1> USE DEF queueVars, threadVars, localVars, clientVars
<1>1. /\ fault = "none" /\ cpu.at = "user" /\ t \in Workers
      /\ claimed' = claimed \cup {t}
      /\ target' = [target EXCEPT ![cpu.stk] = t]
      /\ join' = [join EXCEPT ![t] = running]
      /\ Dispatch(running, ready, "collect", "null")
      /\ UNCHANGED <<queueVars, retval, zombie, freed, result, next, created, holds>>
  BY DEF Join, At, Typed, TypeOK
<1>2. /\ running \in Threads /\ running \notin Queued /\ ready \in Seq(Threads)
      /\ cpu.stk = running /\ running \in Alive /\ Active = running
      /\ PointOf(running) = "user"
      /\ \A u \in Awaited : join[u] # running
      /\ join \in [Threads -> Threads \cup {NULL}]
      /\ target \in [Threads -> Workers \cup {NULL}]
      /\ Workers \subseteq Threads /\ Alive \subseteq Threads
  BY <1>1, Caller DEF TailPoints, Typed, TypeOK, Alive, Threads
<1>3. /\ \A u \in Threads : join'[u] = IF u = t THEN running ELSE join[u]
      /\ \A u \in Threads : target'[u] = IF u = running THEN t ELSE target[u]
  BY <1>1, <1>2
<1>4. /\ IsInjective(ready) /\ IsInjective(condq') /\ IsInjective(mutexq')
      /\ Range(ready) \cap Range(condq') = {} /\ Range(ready) \cap Range(mutexq') = {}
      /\ Range(condq') \cap Range(mutexq') = {}
      /\ running \notin Range(ready) \cup Range(condq') \cup Range(mutexq')
      /\ mutexq' # <<>> => taken
  BY <1>1, <1>2 DEF Safe, Placed, Owned, Queued
<1>5. /\ Stacked' /\ Placed' /\ Ended' /\ Collectable' /\ Suspended' /\ Owned'
      /\ Alive' = Alive
      /\ Queued' \cup {Active'} = Range(ready) \cup Range(condq') \cup Range(mutexq')
      /\ \A u \in Threads : PointOf(u)' = IF u = running THEN "collect" ELSE PointOf(u)
  BY <1>1, <1>2, <1>3, <1>4, HandedOver DEF Parked
<1>6. Queued' \cup {Active'} = Queued
  BY <1>1, <1>5 DEF Queued
<1>7. /\ t \in Alive /\ t # running /\ join[t] = NULL /\ running # NULL
      /\ PointOf(t) \in Parked
  <2>1. running # NULL
    BY <1>2, ConstantsAssumption DEF Threads
  <2>2. PointOf(t) = ctx[t].at /\ ctx[t].at \in Parked
    BY <1>1, <1>2 DEF PointOf, Safe, Stacked
  <2> QED
    BY <1>1, <1>2, <2>1, <2>2 DEF Alive, Safe, Joined
<1>8. Awaited' = Awaited \cup {t} /\ t \notin Awaited
  BY <1>2, <1>3, <1>5, <1>7 DEF Awaited, Parked
<1>9. Joiners' = Joiners \cup {running}
  BY <1>2, <1>3, <1>5, <1>8 DEF Joiners, Awaited
<1>10. Joined'
  <2>1. \A u \in Workers : u \notin claimed' => join'[u] = NULL
    BY <1>1, <1>2, <1>3 DEF Safe, Joined
  <2>2. ASSUME NEW u \in Awaited
        PROVE  /\ join'[u] \in Alive \ (Queued' \cup {Active'})
               /\ PointOf(join[u])' = "collect"
               /\ target'[join'[u]] = u
    <3>1. u # t /\ u \in Threads /\ join'[u] = join[u]
      BY <1>2, <1>3, <1>8 DEF Awaited
    <3>2. /\ join[u] \in Alive \ (Queued \cup {running})
          /\ PointOf(join[u]) = "collect" /\ target[join[u]] = u
      BY <1>2 DEF Safe, Joined
    <3>3. PICK j \in Threads : j = join[u]
      BY <1>2, <3>2
    <3>4. PointOf(j)' = "collect"
      BY <1>5, <3>2, <3>3
    <3>5. PointOf(join[u])' = "collect"
      BY <3>1, <3>3, <3>4 DEF PointOf
    <3> QED
      BY <1>2, <1>3, <1>6, <3>1, <3>2, <3>5
  <2>3. /\ join'[t] \in Alive \ (Queued' \cup {Active'})
        /\ PointOf(join[t])' = "collect"
        /\ target'[join'[t]] = t
    <3>1. PICK j \in Threads : j = running /\ j = join'[t]
      BY <1>1, <1>2, <1>3
    <3>2. PointOf(j)' = "collect"
      BY <1>5, <3>1
    <3>3. PointOf(join[t])' = "collect"
      BY <3>1, <3>2 DEF PointOf
    <3> QED
      BY <1>2, <1>3, <1>6, <3>1, <3>3
  <2> QED
    BY <1>5, <1>8, <2>1, <2>2, <2>3 DEF Joined
<1>11. Found'
  BY <1>2, <1>5, <1>6, <1>9 DEF Safe, Found
<1> QED
  BY <1>5, <1>10, <1>11 DEF Safe


(* The steps of the thread that runs, outside the end of green_thread and  *)
(* without a Dispatch: it goes on to another point.                        *)
LEMMA GoesOn ==
  ASSUME Typed, Safe, fault = "none", cpu.at \notin TailPoints,
         NEW point \in {"user", "collect", "exit", "wakeJoiner"},
         cpu' = [stk |-> running, at |-> point],
         UNCHANGED <<running, ctx, join, created, zombie>>
  PROVE  /\ Stacked' /\ Active' = running /\ Alive' = Alive
         /\ \A t \in Threads : PointOf(t)' = IF t = running THEN point ELSE PointOf(t)
         /\ Awaited' = Awaited /\ Joiners' = Joiners
<1>1. /\ running \in Threads /\ Active = running /\ PointOf(running) = cpu.at
      /\ \A t \in Threads : t # running => PointOf(t) = ctx[t].at
      /\ \A t \in Awaited : join[t] # running
      /\ cpu.at # "recheck"
  BY Caller DEF Safe, Stacked
<1>2. Alive' = Alive /\ Alive \subseteq Threads
  BY DEF Alive, Typed, TypeOK, Threads
<1>3. Stacked' /\ Active' = running
  BY DEF Safe, Stacked, Active
<1>4. \A t \in Threads : PointOf(t)' = IF t = running THEN point ELSE PointOf(t)
  BY <1>1 DEF PointOf
<1>5. Awaited' = Awaited
  <2>1. ASSUME NEW t \in Alive
        PROVE  PointOf(t)' \in {"saveResult", "becomeZombie", "pickNext"}
               <=> PointOf(t) \in {"saveResult", "becomeZombie", "pickNext"}
    BY <1>1, <1>2, <1>4 DEF TailPoints
  <2> QED
    BY <1>2, <2>1 DEF Awaited
<1> QED
  BY <1>2, <1>3, <1>4, <1>5 DEF Joiners

(* When moreover no queue changes, only the lock's owner is left to show.  *)
LEMMA QueuesStay ==
  ASSUME Typed, Safe, fault = "none", cpu.at \notin TailPoints,
         NEW point \in {"user", "collect", "exit", "wakeJoiner"},
         cpu' = [stk |-> running, at |-> point],
         UNCHANGED <<running, ready, condq, mutexq, ctx, join, created, zombie, retval>>,
         freed' \subseteq zombie, claimed \subseteq claimed',
         \A t \in Threads \ {running} : target'[t] = target[t] /\ result'[t] = result[t],
         point = "collect" => target'[running] \in zombie
  PROVE  /\ Stacked' /\ Placed' /\ Ended' /\ Joined' /\ Collectable' /\ Found'
         /\ Suspended' /\ Alive' = Alive
         /\ \A t \in Threads : PointOf(t)' = IF t = running THEN point ELSE PointOf(t)
         /\ Granted' = Granted \ {running}
<1>1. /\ running \in Threads /\ Active = running /\ running \notin Queued
      /\ running \in Alive /\ running \notin zombie /\ PointOf(running) = cpu.at
      /\ \A t \in Awaited : join[t] # running
  BY Caller
<1>2. /\ Stacked' /\ Active' = running /\ Alive' = Alive
      /\ \A t \in Threads : PointOf(t)' = IF t = running THEN point ELSE PointOf(t)
      /\ Awaited' = Awaited /\ Joiners' = Joiners
  BY GoesOn
<1>3. Alive \subseteq Threads /\ zombie \subseteq Threads /\ Queued' = Queued
      /\ Queued \subseteq Alive
  BY DEF Alive, Typed, TypeOK, Threads, Queued, Safe, Placed
<1>4. Placed'
  BY <1>1, <1>2, <1>3 DEF Safe, Placed
<1>5. Ended'
  BY <1>1, <1>3 DEF Safe, Ended
<1>6. Joined'
  <2>1. ASSUME NEW u \in Awaited
        PROVE  /\ join'[u] \in Alive \ (Queued \cup {running})
               /\ PointOf(join[u])' = "collect"
               /\ target'[join'[u]] = u
    BY <1>1, <1>2, <1>3, JoinersStay
  <2>2. \A t \in Workers : t \notin claimed' => join'[t] = NULL
    BY DEF Safe, Joined
  <2> QED
    BY <1>2, <1>3, <2>1, <2>2 DEF Joined
<1>7. Collectable'
  <2> SUFFICES ASSUME NEW t \in Range(ready) \cup {running}, PointOf(t)' = "collect"
               PROVE  target'[t] \in zombie
    BY <1>2 DEF Collectable
  <2>1. CASE t = running
    BY <1>1, <1>2, <2>1
  <2>2. CASE t # running
    <3>1. t \in Threads /\ PointOf(t) = "collect"
      BY <1>2, <1>3, <2>2 DEF Queued
    <3>2. target[t] \in zombie \/ Ending(target[t])
      BY <2>2, <3>1 DEF Safe, Collectable
    <3> QED
      BY <2>2, <3>1, <3>2 DEF Ending, TailPoints
  <2> QED
    BY <2>1, <2>2
<1>8. Found'
  BY <1>1, <1>2, <1>3 DEF Safe, Found
<1>9. Suspended'
  BY <1>1, <1>2, <1>3 DEF Safe, Suspended, Queued
<1>10. Granted' = Granted \ {running}
  BY <1>1, <1>2, <1>3 DEF Granted, Queued
<1> QED
  BY <1>2, <1>4, <1>5, <1>6, <1>7, <1>8, <1>9, <1>10

(* green_join of a thread that has ended, its end and the calls and        *)
(* returns that do not touch a lock or a queue.                            *)
LEMMA PlainSafe ==
  ASSUME Typed, Safe, fault' = "none",
         \/ Collect
         \/ Start
         \/ Exit
         \/ cpu.stk \notin holds /\ \E v \in Values \cup {NULL} : FunctionReturns(v)
         \/ \E t \in zombie, res \in BOOLEAN : Join(t, res)
  PROVE  Safe'
<1> USE DEF queueVars, threadVars, localVars, clientVars, At, Goto, StepTo
<1>1. /\ cpu \in Stacks
      /\ fault = "none" => running \in Threads
      /\ target \in [Threads -> Workers \cup {NULL}]
      /\ result \in [Threads -> Values \cup {NULL}]
  BY DEF Typed, TypeOK
<1>2. /\ fault = "none" /\ cpu.at \notin TailPoints /\ cpu.at # "locked"
      /\ UNCHANGED <<running, ready, condq, mutexq, ctx, join, created, zombie,
                     retval, taken, holds>>
  BY DEF Collect, Start, Exit, FunctionReturns, Join, TailPoints, Die
<1>3. /\ cpu.stk = running /\ PointOf(running) = cpu.at /\ running \notin Queued
      /\ running \in Alive /\ running \in Threads
  BY <1>2, Caller
<1> DEFINE Goes(point) ==
             /\ cpu' = [stk |-> running, at |-> point]
             /\ point = "collect" => target'[running] \in zombie
             /\ point = "wakeJoiner" => running \notin holds
             /\ claimed \subseteq claimed'
             /\ \A t \in Threads \ {running} : target'[t] = target[t] /\ result'[t] = result[t]
             /\ freed' \subseteq zombie
<1>4. freed \subseteq zombie
  BY <1>2 DEF Safe, Ended
<1>5. \A point : cpu' = [cpu EXCEPT !.at = point] => cpu' = [stk |-> running, at |-> point]
  BY <1>1, <1>3 DEF Stacks
<1>6. ASSUME Collect PROVE Goes("user")
  <2>1. target[running] \in zombie
    <3>1. Active = running /\ cpu.at = "collect"
      BY <1>2, <1>6, Caller DEF Collect
    <3>2. target[running] \in zombie \/ Ending(target[running])
      BY <1>3, <3>1 DEF Safe, Collectable
    <3> QED
      BY <3>1, <3>2 DEF Ending
  <2> QED
    BY <1>2, <1>3, <1>4, <1>5, <1>6, <2>1 DEF Collect, Die, Return
<1>7. ASSUME Start PROVE Goes("user")
  BY <1>4, <1>5, <1>7 DEF Start
<1>8. ASSUME Exit PROVE Goes("exit")
  BY <1>4, <1>5, <1>8 DEF Exit
<1>9. ASSUME NEW v \in Values \cup {NULL}, cpu.stk \notin holds, FunctionReturns(v)
      PROVE  Goes("wakeJoiner")
  BY <1>1, <1>3, <1>4, <1>5, <1>9 DEF FunctionReturns
<1>10. ASSUME NEW t \in zombie, NEW res \in BOOLEAN, Join(t, res)
       PROVE  Goes("collect")
  BY <1>1, <1>3, <1>4, <1>5, <1>10 DEF Join
<1>11. PICK point \in {"user", "collect", "exit", "wakeJoiner"} : Goes(point)
  <2>1. \/ Goes("user")
        \/ Goes("exit")
        \/ Goes("wakeJoiner")
        \/ Goes("collect")
    BY <1>6, <1>7, <1>8, <1>9, <1>10
  <2> HIDE DEF Goes
  <2> QED
    BY <2>1
<1>12. /\ Stacked' /\ Placed' /\ Ended' /\ Joined' /\ Collectable' /\ Found'
       /\ Suspended' /\ Alive' = Alive
       /\ \A t \in Threads : PointOf(t)' = IF t = running THEN point ELSE PointOf(t)
       /\ Granted' = Granted \ {running}
  BY <1>2, <1>11, QueuesStay
<1>13. Owned'
  <2>1. Owners' = Owners
    BY <1>2, <1>3, <1>12 DEF Owners, Granted
  <2>2. \A t \in holds : PointOf(t)' # "locked"
    BY <1>12 DEF Safe, Owned, Typed, TypeOK
  <2>3. cpu'.at \in TailPoints => cpu'.stk \notin holds
    BY <1>11 DEF TailPoints
  <2> QED
    BY <1>2, <1>12, <2>1, <2>2, <2>3 DEF Safe, Owned
<1> QED
  BY <1>12, <1>13 DEF Safe

(* A thread takes the lock: in green_mutex_lock because it is free, or on  *)
(* the way out of it because it was handed over.                           *)
LEMMA LockSafe ==
  ASSUME Typed, Safe, fault' = "none", (MutexLock /\ ~taken) \/ Locked
  PROVE  Safe'
<1> USE DEF queueVars, threadVars, localVars, clientVars, At, Goto, Return
<1>1. /\ fault = "none" /\ cpu.at \in {"user", "locked"} /\ cpu \in Stacks
      /\ UNCHANGED <<running, ready, condq, mutexq, ctx, join, created, zombie,
                     retval, freed, claimed, target, result>>
      /\ cpu' = [cpu EXCEPT !.at = "user"]
      /\ holds' = holds \cup {cpu.stk}
  BY DEF MutexLock, Locked, Typed, TypeOK
<1>2. /\ cpu.stk = running /\ PointOf(running) = cpu.at /\ running \notin Queued
      /\ running \in Alive /\ running \in Threads
  BY <1>1, Caller DEF TailPoints
<1>3. cpu' = [stk |-> running, at |-> "user"]
  BY <1>1, <1>2 DEF Stacks
<1>4. freed' \subseteq zombie
  BY <1>1 DEF Safe, Ended
<1>5. /\ Stacked' /\ Placed' /\ Ended' /\ Joined' /\ Collectable' /\ Found'
      /\ Suspended' /\ Alive' = Alive
      /\ \A t \in Threads : PointOf(t)' = IF t = running THEN "user" ELSE PointOf(t)
      /\ Granted' = Granted \ {running}
  BY <1>1, <1>3, <1>4, QueuesStay DEF TailPoints
<1>6. Owners' = {running} /\ taken'
  <2>1. CASE MutexLock /\ ~taken
    <3>1. Owners = {}
      BY <2>1 DEF Safe, Owned
    <3> QED
      BY <1>1, <1>2, <1>5, <2>1, <3>1 DEF MutexLock, Owners
  <2>2. CASE Locked
    <3>1. running \in Granted
      BY <1>2, <2>2 DEF Granted, Locked, Queued
    <3>2. Owners = {running} /\ taken
      BY <3>1 DEF Safe, Owned, Owners
    <3> QED
      BY <1>1, <1>2, <1>5, <2>2, <3>2 DEF Locked, Owners
  <2> QED
    BY <2>1, <2>2
<1>7. \A t \in holds' : PointOf(t)' # "locked"
  BY <1>1, <1>2, <1>5 DEF Safe, Owned, Typed, TypeOK
<1>8. Owned'
  BY <1>1, <1>2, <1>3, <1>5, <1>6, <1>7 DEF Safe, Owned, TailPoints
<1> QED
  BY <1>5, <1>8 DEF Safe

(* The thread that runs moves a thread from another queue to ready_queue.  *)
LEMMA Wakes ==
  ASSUME Typed, Safe, fault = "none", cpu.at = "user",
         cpu' = [stk |-> running, at |-> "user"],
         UNCHANGED <<running, ctx, join, created, zombie, retval, freed, claimed,
                     target, result>>,
         IsInjective(ready'), IsInjective(condq'), IsInjective(mutexq'),
         Range(condq') \subseteq Range(condq), Range(mutexq') \subseteq Range(mutexq),
         NEW h \in Range(condq) \cup Range(mutexq),
         Range(ready') = Range(ready) \cup {h},
         h \notin Range(condq') \cup Range(mutexq'),
         Queued \subseteq Queued'
  PROVE  /\ Stacked' /\ Placed' /\ Ended' /\ Joined' /\ Collectable' /\ Found'
         /\ Suspended' /\ Alive' = Alive
         /\ \A t \in Threads : PointOf(t)' = PointOf(t)
<1>1. /\ running \in Threads /\ Active = running /\ running \notin Queued
      /\ running \in Alive /\ PointOf(running) = "user"
      /\ \A t \in Awaited : join[t] # running
  BY Caller DEF TailPoints
<1>2. /\ Stacked' /\ Active' = running /\ Alive' = Alive
      /\ \A t \in Threads : PointOf(t)' = PointOf(t)
      /\ Awaited' = Awaited /\ Joiners' = Joiners
  BY <1>1, GoesOn DEF TailPoints
<1>3. Alive \subseteq Threads /\ Queued' = Queued /\ Queued \subseteq Alive
  BY DEF Alive, Typed, TypeOK, Threads, Queued, Safe, Placed
<1>4. Placed'
  BY <1>1, <1>2, <1>3 DEF Safe, Placed
<1>5. Ended'
  BY <1>1 DEF Safe, Ended
<1>6. Joined'
  <2>1. ASSUME NEW u \in Awaited PROVE PointOf(join[u])' = "collect"
    BY <1>2, <1>3, JoinersStay
  <2> QED
    BY <1>1, <1>2, <1>3, <2>1 DEF Safe, Joined
<1>7. PointOf(h) # "collect"
  BY DEF Safe, Suspended
<1>8. Collectable'
  <2> SUFFICES ASSUME NEW t \in Range(ready) \cup {h, running}, PointOf(t)' = "collect"
               PROVE  target[t] \in zombie
    BY <1>2 DEF Collectable
  <2>1. t \in Threads /\ PointOf(t) = "collect" /\ t # h
    BY <1>1, <1>2, <1>3, <1>7 DEF Queued
  <2>2. target[t] \in zombie \/ Ending(target[t])
    BY <1>1, <2>1 DEF Safe, Collectable
  <2> QED
    BY <2>2 DEF Ending
<1>9. Found'
  BY <1>1, <1>2, <1>3 DEF Safe, Found
<1>10. Suspended'
  BY <1>1, <1>2, <1>3 DEF Safe, Suspended, Queued
<1> QED
  BY <1>2, <1>4, <1>5, <1>6, <1>8, <1>9, <1>10

(* green_mutex_unlock hands the lock to the first that waits, or frees it. *)
LEMMA UnlockSafe ==
  ASSUME Typed, Safe, MutexUnlock, cpu.stk \in holds
  PROVE  Safe'
<1> USE DEF queueVars, threadVars, localVars, clientVars, At, Goto, Return
<1>1. /\ fault = "none" /\ cpu.at = "user" /\ cpu \in Stacks
      /\ UNCHANGED <<running, condq, ctx, join, created, zombie, retval, freed,
                     claimed, target, result>>
      /\ cpu' = [cpu EXCEPT !.at = "user"]
      /\ holds' = holds \ {cpu.stk}
      /\ ready \in Seq(Threads) /\ mutexq \in Seq(Threads) /\ holds \subseteq Threads
  BY DEF MutexUnlock, Typed, TypeOK
<1>2. /\ cpu.stk = running /\ PointOf(running) = "user" /\ running \notin Queued
      /\ running \in Alive /\ running \in Threads
  BY <1>1, Caller DEF TailPoints
<1>3. cpu' = [stk |-> running, at |-> "user"]
  BY <1>1, <1>2 DEF Stacks
<1>4. Owners = {running} /\ holds = {running} /\ Granted = {} /\ taken
  <2>1. running \in holds
    BY <1>2
  <2>2. Owners = {running} /\ taken
    BY <2>1 DEF Safe, Owned, Owners
  <2> QED
    BY <1>2, <2>1, <2>2 DEF Owners, Granted
<1>5. CASE mutexq # <<>>
  <2> DEFINE h == Head(mutexq)
  <2>1. /\ ready' = Append(ready, h) /\ mutexq' = Tail(mutexq) /\ taken' = taken
    BY <1>5 DEF MutexUnlock
  <2>2. /\ h \in Threads /\ Range(mutexq) = Range(mutexq') \cup {h}
        /\ IsInjective(mutexq') /\ h \notin Range(mutexq')
    BY <1>1, <1>5, <2>1, HeadTailRange, TailDistinct DEF Safe, Placed
  <2> HIDE DEF h
  <2>3. /\ Range(ready') = Range(ready) \cup {h} /\ IsInjective(ready')
        /\ h \notin Range(condq') /\ IsInjective(condq')
    BY <1>1, <2>1, <2>2, AppendRange, AppendDistinct DEF Safe, Placed
  <2>4. Queued \subseteq Queued'
    BY <1>1, <2>2, <2>3 DEF Queued
  <2>5. /\ Stacked' /\ Placed' /\ Ended' /\ Joined' /\ Collectable' /\ Found'
        /\ Suspended' /\ Alive' = Alive
        /\ \A t \in Threads : PointOf(t)' = PointOf(t)
    BY <1>1, <1>3, <2>2, <2>3, <2>4, Wakes
  <2>6. PointOf(h) = "locked" /\ h \in Alive /\ Alive \subseteq Threads
    BY <2>2 DEF Safe, Suspended, Placed, Queued, Alive, Typed, TypeOK, Threads
  <2>7. Granted' = {h}
    BY <1>4, <2>2, <2>5, <2>6 DEF Granted
  <2>8. Owned'
    BY <1>1, <1>2, <1>3, <1>4, <2>1, <2>7 DEF Owned, Owners, TailPoints
  <2> QED
    BY <2>5, <2>8 DEF Safe
<1>6. CASE mutexq = <<>>
  <2>1. UNCHANGED <<ready, mutexq>> /\ taken' = FALSE
    BY <1>6 DEF MutexUnlock
  <2>2. freed' \subseteq zombie
    BY <1>1 DEF Safe, Ended
  <2>3. /\ Stacked' /\ Placed' /\ Ended' /\ Joined' /\ Collectable' /\ Found'
        /\ Suspended' /\ Alive' = Alive
        /\ Granted' = Granted \ {running}
    BY <1>1, <1>3, <2>1, <2>2, QueuesStay DEF TailPoints
  <2>4. Owned'
    BY <1>1, <1>2, <1>3, <1>4, <1>6, <2>1, <2>3 DEF Owned, Owners, TailPoints
  <2> QED
    BY <2>3, <2>4 DEF Safe
<1> QED
  BY <1>5, <1>6

(* green_cond_signal makes the first waiter ready, or does nothing. *)
LEMMA SignalSafe ==
  ASSUME Typed, Safe, CondSignal
  PROVE  Safe'
<1> USE DEF queueVars, threadVars, localVars, clientVars, At, Goto, Return
<1>1. /\ fault = "none" /\ cpu.at = "user" /\ cpu \in Stacks
      /\ UNCHANGED <<running, taken, mutexq, holds, ctx, join, created, zombie,
                     retval, freed, claimed, target, result>>
      /\ ready \in Seq(Threads) /\ condq \in Seq(Threads)
      /\ holds \subseteq Threads
  BY DEF CondSignal, Typed, TypeOK
<1>2. /\ cpu.stk = running /\ PointOf(running) = "user" /\ running \notin Queued
      /\ running \in Alive /\ running \in Threads
  BY <1>1, Caller DEF TailPoints
<1>3. cpu' = [stk |-> running, at |-> "user"]
  BY <1>1, <1>2 DEF CondSignal, Stacks
<1>4. SUFFICES /\ Stacked' /\ Placed' /\ Ended' /\ Joined' /\ Collectable' /\ Found'
               /\ Suspended' /\ Alive' = Alive
               /\ \A t \in Threads : PointOf(t)' = PointOf(t)
  <2>1. Alive \subseteq Threads
    BY DEF Alive, Typed, TypeOK, Threads
  <2>2. Granted' = Granted
    BY <1>1, <1>4, <2>1 DEF Granted
  <2>3. Owned'
    BY <1>1, <1>3, <1>4, <2>2 DEF Safe, Owned, Owners, TailPoints
  <2> QED
    BY <1>4, <2>3 DEF Safe
<1>5. CASE condq # <<>>
  <2> DEFINE h == Head(condq)
  <2>1. /\ ready' = Append(ready, h) /\ condq' = Tail(condq)
    BY <1>5 DEF CondSignal
  <2>2. /\ h \in Threads /\ Range(condq) = Range(condq') \cup {h}
        /\ IsInjective(condq') /\ h \notin Range(condq')
    BY <1>1, <1>5, <2>1, HeadTailRange, TailDistinct DEF Safe, Placed
  <2> HIDE DEF h
  <2>3. /\ Range(ready') = Range(ready) \cup {h} /\ IsInjective(ready')
        /\ h \notin Range(mutexq') /\ IsInjective(mutexq')
    BY <1>1, <2>1, <2>2, AppendRange, AppendDistinct DEF Safe, Placed
  <2>4. Queued \subseteq Queued'
    BY <1>1, <2>2, <2>3 DEF Queued
  <2> QED
    BY <1>1, <1>3, <2>2, <2>3, <2>4, Wakes
<1>6. CASE condq = <<>>
  <2>1. UNCHANGED <<ready, condq>>
    BY <1>6 DEF CondSignal
  <2>2. freed' \subseteq zombie
    BY <1>1 DEF Safe, Ended
  <2> QED
    BY <1>1, <1>2, <1>3, <2>1, <2>2, QueuesStay DEF TailPoints
<1> QED
  BY <1>5, <1>6

(* green_create puts a thread nobody knew on ready_queue. *)
LEMMA CreateSafe ==
  ASSUME Typed, Safe, NEW t \in Workers \ created, Create(t)
  PROVE  Safe'
<1> USE DEF queueVars, threadVars, localVars, clientVars, At, Goto, Return
<1> DEFINE fresh == [stk |-> t, at |-> "start"]
<1>1. /\ fault = "none" /\ cpu.at = "user" /\ cpu \in Stacks
      /\ ctx \in [Threads -> Stacks] /\ join \in [Threads -> Threads \cup {NULL}]
      /\ retval \in [Threads -> Values \cup {NULL}]
      /\ UNCHANGED <<running, condq, mutexq, taken, claimed, target, result, holds>>
      /\ created' = created \cup {t} /\ zombie' = zombie \ {t} /\ freed' = freed \ {t}
      /\ ctx' = [ctx EXCEPT ![t] = fresh]
      /\ join' = [join EXCEPT ![t] = NULL] /\ retval' = [retval EXCEPT ![t] = NULL]
      /\ ready' = Append(ready, t) /\ cpu' = [cpu EXCEPT !.at = "user"]
      /\ ready \in Seq(Threads) /\ holds \subseteq Threads /\ claimed \subseteq created
      /\ t \in Threads /\ t # Main
  BY ConstantsAssumption DEF Create, Typed, TypeOK, Threads
<1>2. /\ cpu.stk = running /\ PointOf(running) = "user" /\ running \notin Queued
      /\ running \in Alive /\ running \in Threads /\ Active = running
      /\ \A u \in Awaited : join[u] # running
      /\ \A u \in Threads : u # running => PointOf(u) = ctx[u].at
  BY <1>1, Caller DEF TailPoints
<1>3. /\ cpu' = [stk |-> running, at |-> "user"] /\ Active' = running
      /\ zombie' = zombie /\ join' = join
      /\ t \notin Alive /\ Alive' = Alive \cup {t} /\ Alive \subseteq Threads
  <2>1. zombie' = zombie /\ join[t] = NULL
    BY <1>1 DEF Safe, Ended, Joined
  <2>2. join' = join
    BY <1>1, <2>1
  <2> QED
    BY <1>1, <1>2, <2>1, <2>2 DEF Stacks, Active, Alive, Threads, Typed, TypeOK, Safe, Ended
<1>4. Queued \subseteq Alive /\ t \notin Queued /\ t # running
  BY <1>2, <1>3 DEF Safe, Placed
<1>5. \A u \in Threads : ctx'[u] = IF u = t THEN fresh ELSE ctx[u]
  BY <1>1
<1>6. \A u \in Threads : PointOf(u)' = IF u = t THEN "start" ELSE PointOf(u)
  BY <1>1, <1>2, <1>3, <1>4, <1>5 DEF PointOf
<1>7. Stacked'
  BY <1>1, <1>3, <1>5 DEF Safe, Stacked, Parked
<1>8. Range(ready') = Range(ready) \cup {t} /\ IsInjective(ready')
  BY <1>1, <1>4, AppendRange, AppendDistinct DEF Safe, Placed, Queued
<1>9. Queued' = Queued \cup {t}
  BY <1>1, <1>8 DEF Queued
<1>10. Placed'
  BY <1>1, <1>2, <1>3, <1>4, <1>8, <1>9 DEF Safe, Placed, Queued
<1>11. Ended'
  <2>1. t \notin zombie
    BY <1>1 DEF Safe, Ended
  <2>2. \A u \in zombie : retval'[u] = retval[u]
    BY <1>1, <2>1
  <2> QED
    BY <1>1, <1>3, <2>2 DEF Safe, Ended
<1>12. Awaited' = Awaited /\ Joiners' = Joiners
  <2>1. join[t] = NULL
    BY <1>1 DEF Safe, Joined
  <2>2. Awaited' = Awaited
    BY <1>3, <1>6, <2>1 DEF Awaited
  <2> QED
    BY <1>3, <2>2 DEF Joiners
<1>13. Joined'
  <2>1. ASSUME NEW u \in Awaited
        PROVE  /\ join[u] \in Alive' \ (Queued' \cup {running})
               /\ PointOf(join[u])' = "collect"
               /\ target[join[u]] = u
    BY <1>1, <1>2, <1>3, <1>6, <1>9, JoinersStay
  <2> QED
    BY <1>1, <1>3, <1>12, <2>1 DEF Safe, Joined
<1>14. Collectable'
  <2> SUFFICES ASSUME NEW u \in Range(ready) \cup {t, running}, PointOf(u)' = "collect"
               PROVE  target[u] \in zombie
    BY <1>1, <1>3, <1>8 DEF Collectable
  <2>1. u # t /\ u \in Threads /\ PointOf(u) = "collect"
    BY <1>1, <1>2, <1>3, <1>4, <1>6 DEF Queued
  <2>2. target[u] \in zombie \/ Ending(target[u])
    BY <1>2, <2>1 DEF Safe, Collectable
  <2> QED
    BY <1>1, <2>2 DEF Ending
<1>15. Found'
  BY <1>2, <1>3, <1>9, <1>12 DEF Safe, Found
<1>16. Suspended'
  <2>1. \A u \in Range(condq) \cup Range(mutexq) : u \in Threads /\ u # t
    BY <1>3, <1>4 DEF Queued
  <2> QED
    BY <1>1, <1>6, <2>1 DEF Safe, Suspended
<1>17. Owned'
  <2>1. Granted' = Granted
    BY <1>1, <1>3, <1>6 DEF Granted
  <2>2. \A u \in holds : u \in Alive
    BY DEF Safe, Owned
  <2>3. \A u \in holds : PointOf(u)' # "locked"
    BY <1>1, <1>3, <1>6, <2>2 DEF Safe, Owned
  <2> QED
    BY <1>1, <1>3, <2>1, <2>2, <2>3 DEF Safe, Owned, Owners, TailPoints
<1> QED
  BY <1>7, <1>10, <1>11, <1>13, <1>14, <1>15, <1>16, <1>17 DEF Safe


-----------------------------------------------------------------------------
(* What the statements that end green_thread have in common. *)
LEMMA EndGoesOn ==
  ASSUME Typed, Safe, NEW from \in TailPoints \ {"setContext"}, NEW to \in TailPoints,
         StepTo(from, to), UNCHANGED <<condq, mutexq, taken, holds, created>>,
         zombie' \in {zombie, zombie \cup {cpu.stk}},
         IF to = "setContext" THEN running' = next'[cpu.stk] ELSE running' = running
  PROVE  /\ fault = "none" /\ cpu.at = from /\ cpu' = [stk |-> running, at |-> to]
         /\ cpu.stk = running /\ running \in Workers /\ running \in Threads
         /\ running \notin Queued /\ Alive \subseteq Threads
         /\ \A t \in Threads : PointOf(t) = IF t = running THEN from ELSE ctx[t].at
         /\ \A t \in Threads : PointOf(t)' = IF t = running THEN to ELSE PointOf(t)
         /\ Stacked' /\ Suspended' /\ Owned'
<1>1. /\ fault = "none" /\ cpu.at = from /\ cpu \in Stacks
      /\ ctx' = ctx /\ cpu' = [cpu EXCEPT !.at = to]
      /\ running \in Threads /\ Workers \subseteq Threads /\ Alive \subseteq Threads
      /\ holds \subseteq Threads
  BY DEF StepTo, At, Goto, Typed, TypeOK, Threads, Alive
<1>2. cpu.stk = running /\ running \in Workers
  BY <1>1 DEF Safe, Stacked, Typed, Sound
<1>3. cpu' = [stk |-> running, at |-> to]
  BY <1>1, <1>2 DEF Stacks
<1>4. running \notin Queued
  <2>1. CASE from = "setRunning"
    BY <1>1, <1>2, <2>1 DEF Safe, Ended, Placed, Alive
  <2>2. CASE from # "setRunning"
    BY <1>1, <2>2 DEF Safe, Placed, Active
  <2> QED
    BY <2>1, <2>2
<1>5. /\ \A t \in Threads : PointOf(t) = IF t = running THEN from ELSE ctx[t].at
      /\ \A t \in Threads : PointOf(t)' = IF t = running THEN to ELSE PointOf(t)
  BY <1>1, <1>2, <1>3 DEF PointOf
<1>6. Stacked'
  BY <1>1, <1>2, <1>3 DEF Safe, Stacked, TailPoints
<1>7. Suspended'
  BY <1>1, <1>4, <1>5 DEF Safe, Suspended, Placed, Queued
<1>8. Owned'
  <2>1. running \notin holds
    BY <1>1, <1>2 DEF Safe, Owned
  <2>2. Alive' \in {Alive, Alive \ {running}}
    BY <1>2 DEF Alive
  <2>3. Granted' = Granted
    BY <1>1, <1>5, <2>2 DEF Granted, TailPoints
  <2>4. \A t \in holds : PointOf(t)' # "locked"
    BY <1>1, <1>5, <2>1 DEF Safe, Owned
  <2> QED
    BY <1>3, <2>1, <2>2, <2>3, <2>4 DEF Safe, Owned, Owners
<1> QED
  BY <1>1, <1>2, <1>3, <1>4, <1>5, <1>6, <1>7, <1>8

(* The thread that ends makes its joiner ready. *)
LEMMA WakeJoinerSafe ==
  ASSUME Typed, Safe, WakeJoiner
  PROVE  Safe'
<1> USE DEF queueVars, threadVars, localVars, clientVars
<1> DEFINE s == running
           j == join[s]
<1>1. /\ StepTo("wakeJoiner", "saveResult")
      /\ UNCHANGED <<running, queueVars, threadVars, localVars, clientVars>>
      /\ ready \in Seq(Threads)
  BY DEF WakeJoiner, Typed, TypeOK
<1>2. /\ fault = "none" /\ cpu.at = "wakeJoiner" /\ cpu' = [stk |-> s, at |-> "saveResult"]
      /\ cpu.stk = s /\ s \in Workers /\ s \in Threads
      /\ s \notin Queued /\ Alive \subseteq Threads
      /\ \A t \in Threads : PointOf(t) = IF t = s THEN "wakeJoiner" ELSE ctx[t].at
      /\ \A t \in Threads : PointOf(t)' = IF t = s THEN "saveResult" ELSE PointOf(t)
      /\ Stacked' /\ Suspended' /\ Owned'
  BY <1>1, EndGoesOn DEF TailPoints
<1>3. /\ Active = s /\ Active' = s /\ s \in Alive /\ Alive' = Alive
      /\ \A t \in Awaited : join[t] # s
  BY <1>1, <1>2 DEF Active, Alive, Safe, Placed, Joined
<1>4. \A t \in Threads : t # s => ctx[t].at \in Parked
  BY DEF Safe, Stacked
<1>5. Awaited' = Awaited \ {s}
  BY <1>1, <1>2, <1>3, <1>4 DEF Awaited, Parked
<1>6. Ended'
  BY <1>1, <1>2 DEF Safe, Ended
<1>7. ASSUME NEW u \in Awaited
      PROVE  /\ join[u] \in Alive \ (Queued \cup {s})
             /\ PointOf(join[u])' = "collect"
             /\ target[join[u]] = u
  BY <1>1, <1>2, <1>3, JoinersStay
<1>8. \A t \in Range(ready) \cup {s} : PointOf(t)' = "collect" => target[t] \in zombie
  <2> SUFFICES ASSUME NEW t \in Range(ready) \cup {s}, PointOf(t)' = "collect"
               PROVE  target[t] \in zombie
    OBVIOUS
  <2>1. t \in Threads /\ PointOf(t) = "collect"
    BY <1>2 DEF Safe, Placed, Queued
  <2> QED
    BY <1>2, <1>3, <2>1 DEF Safe, Collectable, Ending
<1>9. CASE j = NULL
  <2>1. ready' = ready /\ s \notin Awaited
    BY <1>2, <1>9 DEF WakeJoiner, Awaited
  <2>2. Awaited' = Awaited /\ Joiners' = Joiners /\ Queued' = Queued
    BY <1>1, <1>5, <2>1 DEF Joiners, Queued
  <2>3. Placed'
    BY <1>1, <1>2, <1>3, <2>1, <2>2 DEF Safe, Placed
  <2>4. Joined'
    BY <1>1, <1>3, <1>7, <2>2 DEF Safe, Joined
  <2>5. Collectable' /\ Found'
    BY <1>1, <1>3, <1>8, <2>1, <2>2 DEF Safe, Collectable, Found
  <2> QED
    BY <1>2, <1>6, <2>3, <2>4, <2>5 DEF Safe
<1>10. CASE j # NULL
  <2>1. s \in Awaited
    BY <1>2, <1>3, <1>10 DEF Awaited
  <2>2. /\ j \in Alive \ (Queued \cup {s}) /\ j \in Threads
        /\ PointOf(j) = "collect" /\ target[j] = s
    BY <1>2, <1>3, <2>1 DEF Safe, Joined
  <2>3. /\ ready' = Append(ready, j)
        /\ Range(ready') = Range(ready) \cup {j} /\ IsInjective(ready')
    BY <1>1, <1>2, <1>10, <2>2, AppendRange, AppendDistinct
    DEF WakeJoiner, Safe, Placed, Queued
  <2> HIDE DEF j
  <2>4. Queued' = Queued \cup {j}
    BY <1>1, <2>3 DEF Queued
  <2>5. Placed'
    BY <1>1, <1>2, <1>3, <2>2, <2>3, <2>4 DEF Safe, Placed, Queued
  <2>6. Joined'
    <3>1. \A u \in Awaited \ {s} : join[u] # j
      BY <1>7, <2>2
    <3> QED
      BY <1>1, <1>3, <1>5, <1>7, <2>4, <3>1 DEF Safe, Joined
  <2>7. Collectable'
    <3>1. Ending(s)'
      BY <1>1, <1>2 DEF Ending
    <3>2. \A t \in Range(ready) \cup {s, j} :
            PointOf(t)' = "collect" => target[t] \in zombie \/ target[t] = s
      BY <1>8, <2>2
    <3> QED
      BY <1>1, <1>2, <1>3, <2>3, <3>2 DEF Collectable, Ending
  <2>8. Found'
    <3>1. Joiners \subseteq Joiners' \cup {j}
      BY <1>1, <1>5 DEF Joiners, j
    <3> QED
      BY <1>3, <2>4, <3>1 DEF Safe, Found
  <2> QED
    BY <1>2, <1>6, <2>5, <2>6, <2>7, <2>8 DEF Safe
<1> QED
  BY <1>9, <1>10

(* It stores its result. *)
LEMMA SaveResultSafe ==
  ASSUME Typed, Safe, SaveResult
  PROVE  Safe'
<1> USE DEF queueVars, threadVars, localVars, clientVars
<1> DEFINE s == running
<1>1. /\ StepTo("saveResult", "becomeZombie")
      /\ UNCHANGED <<running, ready, queueVars, join, zombie, freed, localVars, clientVars>>
      /\ retval' = [retval EXCEPT ![cpu.stk] = result[cpu.stk]]
      /\ retval \in [Threads -> Values \cup {NULL}]
  BY DEF SaveResult, Typed, TypeOK
<1>2. /\ fault = "none" /\ cpu.at = "saveResult"
      /\ cpu' = [stk |-> s, at |-> "becomeZombie"]
      /\ cpu.stk = s /\ s \in Workers /\ s \in Threads
      /\ s \notin Queued /\ Alive \subseteq Threads
      /\ \A t \in Threads : PointOf(t) = IF t = s THEN "saveResult" ELSE ctx[t].at
      /\ \A t \in Threads : PointOf(t)' = IF t = s THEN "becomeZombie" ELSE PointOf(t)
      /\ Stacked' /\ Suspended' /\ Owned'
  BY <1>1, EndGoesOn DEF TailPoints
<1>3. /\ Active = s /\ Active' = s /\ s \in Alive /\ Alive' = Alive /\ Queued' = Queued
      /\ \A t \in Awaited : join[t] # s
  BY <1>1, <1>2 DEF Active, Alive, Queued, Safe, Placed, Joined
<1>4. Awaited' = Awaited /\ Joiners' = Joiners
  <2>1. Awaited' = Awaited
    BY <1>1, <1>2, <1>3 DEF Awaited
  <2> QED
    BY <1>1, <2>1 DEF Joiners
<1>5. Placed'
  BY <1>1, <1>2, <1>3 DEF Safe, Placed
<1>6. Ended'
  <2>1. \A t \in zombie : retval'[t] = result[t]
    BY <1>1, <1>3 DEF Safe, Ended, Alive
  <2>2. retval'[s] = result[s]
    BY <1>1, <1>2
  <2> QED
    BY <1>1, <1>2, <2>1, <2>2 DEF Safe, Ended
<1>7. Joined'
  <2>1. ASSUME NEW u \in Awaited
        PROVE  /\ join[u] \in Alive \ (Queued \cup {s})
               /\ PointOf(join[u])' = "collect"
               /\ target[join[u]] = u
    BY <1>1, <1>2, <1>3, JoinersStay
  <2> QED
    BY <1>1, <1>3, <1>4, <2>1 DEF Safe, Joined
<1>8. Collectable'
  <2> SUFFICES ASSUME NEW t \in Range(ready) \cup {s}, PointOf(t)' = "collect"
               PROVE  target[t] \in zombie \/ target[t] = s
    BY <1>1, <1>2, <1>3 DEF Collectable, Ending
  <2>1. t \in Threads /\ PointOf(t) = "collect"
    BY <1>2 DEF Safe, Placed, Queued
  <2> QED
    BY <1>2, <1>3, <2>1 DEF Safe, Collectable, Ending
<1>9. Found'
  BY <1>3, <1>4 DEF Safe, Found
<1> QED
  BY <1>2, <1>5, <1>6, <1>7, <1>8, <1>9 DEF Safe

(* It becomes a zombie: whoever collects its result may do so now. *)
LEMMA BecomeZombieSafe ==
  ASSUME Typed, Safe, BecomeZombie
  PROVE  Safe'
<1> USE DEF queueVars, threadVars, localVars, clientVars
<1> DEFINE s == running
<1>1. /\ StepTo("becomeZombie", "pickNext")
      /\ UNCHANGED <<running, ready, queueVars, join, retval, freed, localVars, clientVars>>
      /\ zombie' = zombie \cup {cpu.stk}
  BY DEF BecomeZombie
<1>2. /\ fault = "none" /\ cpu.at = "becomeZombie"
      /\ cpu' = [stk |-> s, at |-> "pickNext"]
      /\ cpu.stk = s /\ s \in Workers /\ s \in Threads
      /\ s \notin Queued /\ Alive \subseteq Threads
      /\ \A t \in Threads : PointOf(t) = IF t = s THEN "becomeZombie" ELSE ctx[t].at
      /\ \A t \in Threads : PointOf(t)' = IF t = s THEN "pickNext" ELSE PointOf(t)
      /\ Stacked' /\ Suspended' /\ Owned'
  BY <1>1, EndGoesOn DEF TailPoints
<1>3. /\ Active = s /\ Active' = s /\ s \in Alive /\ Alive' = Alive \ {s}
      /\ Queued' = Queued /\ \A t \in Awaited : join[t] # s
  BY <1>1, <1>2 DEF Active, Alive, Queued, Safe, Placed, Joined
<1>4. Awaited' = Awaited /\ Joiners' = Joiners
  <2>1. Awaited' = Awaited
    BY <1>1, <1>2, <1>3 DEF Awaited
  <2> QED
    BY <1>1, <2>1 DEF Joiners
<1>5. Placed'
  BY <1>1, <1>2, <1>3 DEF Safe, Placed
<1>6. Ended'
  <2>1. s \in created
    BY <1>2, <1>3, ConstantsAssumption DEF Alive
  <2> QED
    BY <1>1, <1>2, <2>1 DEF Safe, Ended
<1>7. Joined'
  <2>1. ASSUME NEW u \in Awaited
        PROVE  /\ join[u] \in Alive \ (Queued \cup {s})
               /\ PointOf(join[u])' = "collect"
               /\ target[join[u]] = u
    BY <1>1, <1>2, <1>3, JoinersStay
  <2> QED
    BY <1>1, <1>3, <1>4, <2>1 DEF Safe, Joined
<1>8. Collectable'
  <2> SUFFICES ASSUME NEW t \in Range(ready) \cup {s}, PointOf(t)' = "collect"
               PROVE  target[t] \in zombie \/ target[t] = s
    BY <1>1, <1>2, <1>3 DEF Collectable
  <2>1. t \in Threads /\ PointOf(t) = "collect"
    BY <1>2 DEF Safe, Placed, Queued
  <2> QED
    BY <1>2, <1>3, <2>1 DEF Safe, Collectable, Ending
<1>9. Found'
  BY <1>3, <1>4 DEF Safe, Found
<1> QED
  BY <1>2, <1>5, <1>6, <1>7, <1>8, <1>9 DEF Safe

(* It takes the first ready thread as the next one. *)
LEMMA PickNextSafe ==
  ASSUME Typed, Safe, PickNext, fault' = "none"
  PROVE  Safe'
<1> USE DEF queueVars, threadVars, localVars, clientVars
<1> DEFINE s == running
           h == Head(ready)
<1>1. /\ StepTo("pickNext", "setRunning")
      /\ UNCHANGED <<running, queueVars, threadVars, target, slot, result, clientVars>>
      /\ next' = [next EXCEPT ![cpu.stk] = h]
      /\ ready' = Tail(ready) /\ ready # <<>> /\ ready \in Seq(Threads)
      /\ next \in [Threads -> Threads \cup {NULL}]
  BY DEF PickNext, Die, Typed, TypeOK
<1>2. /\ fault = "none" /\ cpu.at = "pickNext" /\ cpu' = [stk |-> s, at |-> "setRunning"]
      /\ cpu.stk = s /\ s \in Workers /\ s \in Threads
      /\ s \notin Queued /\ Alive \subseteq Threads
      /\ \A t \in Threads : PointOf(t) = IF t = s THEN "pickNext" ELSE ctx[t].at
      /\ \A t \in Threads : PointOf(t)' = IF t = s THEN "setRunning" ELSE PointOf(t)
      /\ Stacked' /\ Suspended' /\ Owned'
  BY <1>1, EndGoesOn DEF TailPoints
<1>3. /\ h \in Threads /\ Range(ready) = Range(ready') \cup {h}
      /\ IsInjective(ready') /\ h \notin Range(ready')
  BY <1>1, HeadTailRange, TailDistinct DEF Safe, Placed
<1>4. /\ Active = s /\ Active' = h /\ s \notin Alive /\ s \in zombie /\ Alive' = Alive
      /\ Queued' \cup {h} = Queued /\ \A t \in Awaited : join[t] # s
  BY <1>1, <1>2, <1>3 DEF Active, Alive, Queued, Safe, Placed, Joined, Ended
<1> HIDE DEF h
<1>5. Awaited' = Awaited /\ Joiners' = Joiners
  <2>1. Awaited' = Awaited
    BY <1>1, <1>2, <1>4 DEF Awaited
  <2> QED
    BY <1>1, <2>1 DEF Joiners
<1>6. Placed'
  BY <1>1, <1>2, <1>3, <1>4 DEF Safe, Placed, Queued
<1>7. Ended'
  BY <1>1, <1>2, <1>4 DEF Safe, Ended
<1>8. Joined'
  <2>1. ASSUME NEW u \in Awaited
        PROVE  /\ join[u] \in Alive \ Queued
               /\ PointOf(join[u])' = "collect"
               /\ target[join[u]] = u
    BY <1>1, <1>2, <1>4, JoinersStay
  <2> QED
    BY <1>1, <1>4, <1>5, <2>1 DEF Safe, Joined
<1>9. Collectable'
  <2> SUFFICES ASSUME NEW t \in Range(ready), PointOf(t)' = "collect"
               PROVE  target[t] \in zombie
    BY <1>1, <1>3, <1>4 DEF Collectable
  <2>1. t \in Threads /\ PointOf(t) = "collect"
    BY <1>2 DEF Safe, Placed, Queued
  <2> QED
    BY <1>2, <2>1 DEF Safe, Collectable, Ending
<1>10. Found'
  BY <1>4, <1>5 DEF Safe, Found
<1> QED
  BY <1>2, <1>6, <1>7, <1>8, <1>9, <1>10 DEF Safe

(* It makes it the running thread. *)
LEMMA SetRunningSafe ==
  ASSUME Typed, Safe, SetRunning
  PROVE  Safe'
<1> USE DEF queueVars, threadVars, localVars, clientVars
<1> DEFINE s == running
<1>1. /\ StepTo("setRunning", "setContext") /\ running' = next[cpu.stk]
      /\ UNCHANGED <<ready, queueVars, threadVars, localVars, clientVars>>
  BY DEF SetRunning
<1>2. /\ fault = "none" /\ cpu.at = "setRunning" /\ cpu' = [stk |-> s, at |-> "setContext"]
      /\ cpu.stk = s /\ s \in Workers /\ s \in Threads
      /\ s \notin Queued /\ Alive \subseteq Threads
      /\ \A t \in Threads : PointOf(t) = IF t = s THEN "setRunning" ELSE ctx[t].at
      /\ \A t \in Threads : PointOf(t)' = IF t = s THEN "setContext" ELSE PointOf(t)
      /\ Stacked' /\ Suspended' /\ Owned'
  BY <1>1, EndGoesOn DEF TailPoints
<1>3. Active' = Active /\ Alive' = Alive /\ Queued' = Queued /\ s \in zombie
  BY <1>1, <1>2 DEF Active, Alive, Queued, Safe, Ended
<1>4. s \notin Alive
  BY <1>3 DEF Alive
<1>5. Awaited' = Awaited /\ Joiners' = Joiners
  <2>1. Awaited' = Awaited
    BY <1>1, <1>2, <1>3, <1>4 DEF Awaited
  <2> QED
    BY <1>1, <2>1 DEF Joiners
<1>6. Placed'
  BY <1>1, <1>2, <1>3 DEF Safe, Placed
<1>7. Ended'
  BY <1>1, <1>2, <1>3 DEF Safe, Ended
<1>8. Joined'
  <2>1. ASSUME NEW u \in Awaited
        PROVE  /\ join[u] \in Alive \ (Queued \cup {Active})
               /\ PointOf(join[u])' = "collect"
               /\ target[join[u]] = u
    <3>1. \A t \in Alive : PointOf(t) = "collect" => PointOf(t)' = "collect"
      BY <1>2
    <3> QED
      BY <1>1, <1>2, <3>1, JoinersStay
  <2> QED
    BY <1>1, <1>3, <1>5, <2>1 DEF Safe, Joined
<1>9. Collectable'
  <2> SUFFICES ASSUME NEW t \in Range(ready) \cup {Active}, PointOf(t)' = "collect"
               PROVE  target[t] \in zombie
    BY <1>1, <1>3 DEF Collectable
  <2>1. t \in Threads /\ PointOf(t) = "collect"
    BY <1>2 DEF Safe, Placed, Queued
  <2> QED
    BY <1>2, <2>1 DEF Safe, Collectable, Ending
<1>10. Found'
  BY <1>3, <1>5 DEF Safe, Found
<1> QED
  BY <1>2, <1>6, <1>7, <1>8, <1>9, <1>10 DEF Safe

(* It leaves the processor to it. *)
LEMMA SetContextSafe ==
  ASSUME Typed, Safe, SetContext, fault' = "none"
  PROVE  Safe'
<1> USE DEF queueVars, threadVars, localVars, clientVars
<1> DEFINE t == running
<1>1. /\ fault = "none" /\ cpu.at = "setContext" /\ cpu' = ctx[next[cpu.stk]]
      /\ UNCHANGED <<running, ready, queueVars, threadVars, localVars, clientVars, ctx>>
      /\ t \in Threads /\ Alive \subseteq Threads
  BY DEF SetContext, Die, Load, At, Typed, TypeOK, Alive, Threads
<1>2. /\ next[cpu.stk] = t /\ Active = t /\ Active' = t
      /\ cpu'.stk = t /\ cpu'.at = ctx[t].at /\ cpu'.at \in Parked
      /\ cpu.stk \in zombie /\ cpu.stk \notin Alive
  BY <1>1 DEF Safe, Stacked, Ended, Active, Alive, Parked
<1>3. Alive' = Alive /\ Queued' = Queued /\ Queued \subseteq Alive /\ t \in Alive
  BY <1>1, <1>2 DEF Alive, Queued, Safe, Placed
<1>4. \A u \in Alive : PointOf(u)' = PointOf(u)
  BY <1>1, <1>2 DEF PointOf
<1>5. Stacked'
  BY <1>1, <1>2 DEF Safe, Stacked, Parked
<1>6. Awaited' = Awaited /\ Joiners' = Joiners
  <2>1. Awaited' = Awaited
    BY <1>1, <1>3, <1>4 DEF Awaited
  <2> QED
    BY <1>1, <2>1 DEF Joiners
<1>7. Placed'
  BY <1>1, <1>2, <1>3 DEF Safe, Placed, Parked
<1>8. Ended'
  BY <1>1, <1>2 DEF Safe, Ended, Parked
<1>9. Joined'
  <2>1. ASSUME NEW u \in Awaited
        PROVE  /\ join[u] \in Alive \ (Queued \cup {t})
               /\ PointOf(join[u])' = "collect"
               /\ target[join[u]] = u
    BY <1>1, <1>2, <1>4, JoinersStay
  <2> QED
    BY <1>1, <1>2, <1>3, <1>6, <2>1 DEF Safe, Joined
<1>10. Collectable'
  <2> SUFFICES ASSUME NEW u \in Range(ready) \cup {t}, PointOf(u)' = "collect"
               PROVE  target[u] \in zombie
    BY <1>1, <1>2 DEF Collectable
  <2>1. PointOf(u) = "collect"
    BY <1>3, <1>4 DEF Queued
  <2> QED
    BY <1>1, <1>2, <2>1 DEF Safe, Collectable, Ending
<1>11. Found'
  BY <1>2, <1>3, <1>6 DEF Safe, Found
<1>12. Suspended'
  BY <1>1, <1>3, <1>4 DEF Safe, Suspended, Queued
<1>13. Owned'
  <2>1. Granted' = Granted
    BY <1>1, <1>3, <1>4 DEF Granted
  <2>2. \A u \in holds : u \in Alive /\ PointOf(u)' # "locked"
    BY <1>4 DEF Safe, Owned
  <2> QED
    BY <1>1, <1>2, <1>3, <2>1, <2>2 DEF Safe, Owned, Owners, Parked, TailPoints
<1> QED
  BY <1>5, <1>7, <1>8, <1>9, <1>10, <1>11, <1>12, <1>13 DEF Safe

-----------------------------------------------------------------------------
(* Every step that does not kill the process keeps Safe. *)
LEMMA SafeStep ==
  ASSUME Typed, Safe, Disciplined, fault = "none", Next, fault' = "none"
  PROVE  Safe'
<1>1. ~CondWaitMutex
  BY DEF Disciplined, CondWaitMutex
<1>2. ~CondReacquire
  BY DEF CondReacquire, At, Safe, Stacked
<1>3. ASSUME NEW t \in created \ (claimed \cup {cpu.stk}), NEW res \in BOOLEAN, Join(t, res)
      PROVE  Safe'
  <2>1. CASE t \in zombie
    BY <1>3, <2>1, PlainSafe
  <2>2. CASE t \notin zombie
    BY <1>3, <2>2, JoinWaitsSafe
  <2> QED
    BY <2>1, <2>2
<1>4. ASSUME MutexLock, cpu.stk \notin holds PROVE Safe'
  <2>1. CASE taken
    BY <1>4, <2>1, LockTakenSafe
  <2>2. CASE ~taken
    BY <1>4, <2>2, LockSafe
  <2> QED
    BY <2>1, <2>2
<1>5. CASE Halted
  <2>1. UNCHANGED vars
    BY <1>5 DEF Halted
  <2> QED
    BY <2>1 DEF vars, queueVars, threadVars, localVars, clientVars, Safe, Stacked,
       Placed, Ended, Joined, Collectable, Found, Suspended, Owned, Owners, Granted,
       Joiners, Awaited, Active, Alive, Queued, PointOf, Ending
<1>6. CASE ThreadEnds
  BY <1>6, WakeJoinerSafe, SaveResultSafe, BecomeZombieSafe, PickNextSafe,
     SetRunningSafe, SetContextSafe DEF ThreadEnds
<1>7. CASE Library
  BY <1>2, <1>6, <1>7, PlainSafe, LockSafe DEF Library
<1>8. CASE Call
  BY <1>1, <1>3, <1>4, <1>8, CreateSafe, YieldSafe, UnlockSafe, CondWaitSafe,
     SignalSafe, PlainSafe DEF Call
<1>9. CASE TimerHandler
  BY <1>9, YieldSafe
<1>10. CASE Exit
  BY <1>10, PlainSafe
<1> QED
  BY <1>5, <1>7, <1>8, <1>9, <1>10 DEF Next

(* A Dispatch cannot die on a freed context, so if it dies its queue is    *)
(* empty.                                                                  *)
LEMMA DispatchDies ==
  ASSUME Typed, Safe, fault = "none", cpu.at = "user", NEW q \in Seq(Threads),
         Range(q) \subseteq Range(ready) \cup {running}, NEW point, NEW onEmpty,
         onEmpty \in {"assert", "null"},
         Dispatch(running, q, point, onEmpty), fault' # "none"
  PROVE  q = <<>> /\ fault' = onEmpty /\ UNCHANGED <<ctx, cpu>>
<1>1. /\ running \in Alive /\ running \notin freed
      /\ Range(ready) \subseteq Alive /\ \A t \in Alive : t \notin freed
  BY Caller DEF TailPoints, Safe, Placed, Queued, Alive, Ended
<1>2. q # <<>> => Head(q) \in Range(q)
  BY HeadTailRange
<1>3. q # <<>> => {running, Head(q)} \cap freed = {}
  BY <1>1, <1>2
<1> QED
  BY <1>3 DEF Dispatch, Die, Load

(* A call that dies finds ready_queue empty: with its caller, every thread *)
(* waits for the condition, the mutex or the end of another.               *)
LEMMA CallDies ==
  ASSUME Typed, Safe, fault = "none", cpu.at = "user",
         NEW point, NEW onEmpty \in {"assert", "null"},
         Dispatch(running, ready, point, onEmpty), fault' # "none",
         UNCHANGED <<created, zombie>>,
         Range(condq) \subseteq Range(condq'), Range(mutexq) \subseteq Range(mutexq'),
         Joiners \subseteq Joiners',
         running \in Range(condq') \cup Range(mutexq') \cup Joiners'
  PROVE  NoUseAfterFree' /\ DiesOnlyWhenStuck' /\ cpu' = cpu
<1>1. ready \in Seq(Threads)
  BY DEF Typed, TypeOK
<1>2. ready = <<>> /\ fault' = onEmpty /\ cpu' = cpu
  BY <1>1, DispatchDies
<1>3. Range(ready) = {}
  BY <1>2 DEF Range
<1>4. Alive' = Alive /\ Active = running
  BY Caller DEF TailPoints, Alive
<1>5. Alive \subseteq {running} \cup Range(condq) \cup Range(mutexq) \cup Joiners
  BY <1>3, <1>4 DEF Safe, Found, Queued
<1> QED
  BY <1>2, <1>4, <1>5 DEF NoUseAfterFree, DiesOnlyWhenStuck

(* The steps that may kill the process: a call that gives up the processor *)
(* and the end of green_thread.                                            *)
LEMMA DyingStep ==
  ASSUME Typed, ResultsWanted, Safe, Disciplined, fault = "none", Next, fault' # "none"
  PROVE  /\ NoUseAfterFree' /\ DiesOnlyWhenStuck'
         /\ holds' = holds /\ cpu' = cpu /\ cpu.at \in {"user", "pickNext"}
<1> USE DEF queueVars, threadVars, localVars, clientVars, At
<1>1. /\ ~CondWaitMutex
      /\ ~CondReacquire
  BY DEF Disciplined, CondWaitMutex, CondReacquire, Safe, Stacked
<1>2. cpu.at \notin TailPoints =>
        /\ running \in Threads /\ running \notin freed /\ cpu.stk = running
        /\ Active = running
  BY Caller
<1>3. /\ ready \in Seq(Threads) /\ condq \in Seq(Threads) /\ mutexq \in Seq(Threads)
      /\ join \in [Threads -> Threads \cup {NULL}]
  BY DEF Typed, TypeOK
<1>4. ~Yield /\ ~TimerHandler
  <2>1. SUFFICES ASSUME Yield \/ TimerHandler PROVE FALSE
    OBVIOUS
  <2>2. cpu.at = "user" /\ Dispatch(running, Append(ready, running), "user", "null")
    BY <2>1, ConstantsAssumption DEF Yield, TimerHandler, Disciplined, Preemptible
  <2>3. /\ Append(ready, running) \in Seq(Threads) /\ Append(ready, running) # <<>>
        /\ Range(Append(ready, running)) = Range(ready) \cup {running}
    BY <1>2, <1>3, <2>2, AppendRange DEF TailPoints
  <2> QED
    BY <2>2, <2>3, DispatchDies
<1>5. ~Collect
  <2>1. SUFFICES ASSUME Collect PROVE FALSE
    OBVIOUS
  <2>2. /\ target[cpu.stk] \in Workers /\ retval[target[cpu.stk]] # NULL
        /\ cpu.at = "collect" /\ ~slot[cpu.stk] /\ cpu.stk \in Threads
    BY <2>1 DEF Collect, Typed, TypeOK, Stacks, Sound
  <2>3. result[target[cpu.stk]] = NULL
    BY <2>2 DEF ResultsWanted, NoPlaceFor
  <2>4. target[running] \in zombie /\ cpu.stk = running
    <3>1. Active = running /\ cpu.stk = running /\ PointOf(running) = "collect"
      BY <2>2, Caller DEF TailPoints
    <3> QED
      BY <2>2, <3>1 DEF Safe, Collectable, Ending
  <2> QED
    BY <2>2, <2>3, <2>4 DEF Safe, Ended
<1>6. ~SetContext
  <2>1. SUFFICES ASSUME SetContext PROVE FALSE
    OBVIOUS
  <2>2. next[cpu.stk] \in Alive
    BY <2>1 DEF SetContext, Safe, Placed, Active
  <2>3. next[cpu.stk] \notin freed
    BY <2>2 DEF Alive, Safe, Ended
  <2> QED
    BY <2>1, <2>3 DEF SetContext, Load
<1>7. ASSUME NEW t \in created \ (claimed \cup {cpu.stk}), NEW res \in BOOLEAN, Join(t, res)
      PROVE  /\ NoUseAfterFree' /\ DiesOnlyWhenStuck'
             /\ holds' = holds /\ cpu' = cpu /\ cpu.at \in {"user", "pickNext"}
  <2>1. /\ cpu.at = "user" /\ t \in Workers /\ t \notin zombie
        /\ join' = [join EXCEPT ![t] = running]
        /\ Dispatch(running, ready, "collect", "null")
        /\ UNCHANGED <<queueVars, zombie, created, holds>>
    BY <1>7 DEF Join, Typed, TypeOK
  <2>2. UNCHANGED <<ctx, cpu>>
    BY <1>2, <1>3, <2>1, DispatchDies
  <2>3. /\ t \in Alive /\ t \in Threads /\ t # running /\ running # NULL
        /\ join[t] = NULL /\ Alive \subseteq Threads
    BY <1>2, <2>1, ConstantsAssumption
    DEF TailPoints, Alive, Threads, Safe, Joined, Typed, TypeOK
  <2>4. \A u \in Threads : join'[u] = IF u = t THEN running ELSE join[u]
    BY <1>2, <1>3, <2>1 DEF TailPoints
  <2>5. PointOf(t) \in Parked /\ \A u \in Threads : PointOf(u)' = PointOf(u)
    BY <1>2, <2>1, <2>2, <2>3 DEF PointOf, Safe, Stacked, TailPoints
  <2>6. Awaited' = Awaited \cup {t} /\ t \notin Awaited
    BY <2>1, <2>3, <2>4, <2>5 DEF Awaited, Alive, Parked
  <2>7. Joiners' = Joiners \cup {running}
    BY <2>3, <2>4, <2>6 DEF Joiners, Awaited
  <2> QED
    BY <2>1, <2>7, CallDies
<1>8. ASSUME UNCHANGED <<zombie, created, join, ctx, cpu>> PROVE Joiners' = Joiners
  BY <1>8 DEF Joiners, Awaited, Alive, PointOf
<1>9. CASE MutexLock
  <2>1. /\ cpu.at = "user" /\ mutexq' = Append(mutexq, running)
        /\ Dispatch(running, ready, "locked", "assert")
        /\ UNCHANGED <<condq, zombie, created, join, holds>>
    BY <1>9 DEF MutexLock
  <2>2. UNCHANGED <<ctx, cpu>>
    BY <1>2, <1>3, <2>1, DispatchDies
  <2>3. Range(mutexq') = Range(mutexq) \cup {running}
    BY <1>2, <1>3, <2>1, AppendRange DEF TailPoints
  <2> QED
    BY <1>8, <2>1, <2>2, <2>3, CallDies
<1>10. CASE CondWait
  <2>1. /\ cpu.at = "user" /\ condq' = Append(condq, running)
        /\ Dispatch(running, ready, "user", "assert")
        /\ UNCHANGED <<mutexq, zombie, created, join, holds>>
    BY <1>10 DEF CondWait
  <2>2. UNCHANGED <<ctx, cpu>>
    BY <1>2, <1>3, <2>1, DispatchDies
  <2>3. Range(condq') = Range(condq) \cup {running}
    BY <1>2, <1>3, <2>1, AppendRange DEF TailPoints
  <2> QED
    BY <1>8, <2>1, <2>2, <2>3, CallDies
<1>11. CASE PickNext
  <2>1. /\ cpu.at = "pickNext" /\ ready = <<>> /\ fault' = "null"
        /\ UNCHANGED <<ctx, cpu, condq, mutexq, zombie, created, join, holds>>
    BY <1>11 DEF PickNext, StepTo, Die
  <2>2. Active = running /\ running \notin Alive
    BY <2>1 DEF Active, Safe, Stacked, Ended, Alive
  <2>3. Alive \subseteq Range(condq) \cup Range(mutexq) \cup Joiners
    BY <2>1, <2>2 DEF Safe, Found, Queued, Range
  <2> QED
    BY <1>8, <2>1, <2>3 DEF NoUseAfterFree, DiesOnlyWhenStuck, Alive
<1>12. /\ \A t \in Workers : ~Create(t)
       /\ \A v \in Values \cup {NULL} : ~FunctionReturns(v)
       /\ ~Start /\ ~Locked /\ ~MutexUnlock /\ ~CondSignal /\ ~WakeJoiner
       /\ ~SaveResult /\ ~BecomeZombie /\ ~SetRunning /\ ~Exit
  BY DEF Create, FunctionReturns, Start, Locked, MutexUnlock, CondSignal, WakeJoiner,
         SaveResult, BecomeZombie, SetRunning, Exit, StepTo
<1>13. ~Halted
  BY DEF Halted, vars
<1> QED
  BY <1>1, <1>4, <1>5, <1>6, <1>7, <1>9, <1>10, <1>11, <1>12, <1>13
  DEF Next, Call, Library, ThreadEnds

-----------------------------------------------------------------------------
(* What Safe says about the lock and the collection of a result. *)
LEMMA SafeMeans ==
  ASSUME Typed, Safe, fault = "none"
  PROVE  /\ MutualExclusion /\ JoinAfterTermination /\ EveryThreadInOnePlace
         /\ LockHasOneOwner /\ RightStack
<1>1. MutualExclusion
  BY DEF Safe, Owned, Owners, MutualExclusion
<1>2. JoinAfterTermination
  <2> SUFFICES ASSUME cpu.at = "collect"
               PROVE  target[running] \in zombie /\ cpu.stk = running
    BY DEF JoinAfterTermination, Safe, Ended
  <2>1. Active = running /\ cpu.stk = running /\ PointOf(running) = "collect"
    BY Caller DEF TailPoints
  <2>2. target[running] \in zombie \/ Ending(target[running])
    BY <2>1 DEF Safe, Collectable
  <2> QED
    BY <2>1, <2>2 DEF Ending
<1>3. EveryThreadInOnePlace
  <2>1. Joiners \cap (Queued \cup {Active}) = {}
    BY DEF Safe, Joined, Joiners
  <2>2. \A t, u \in Awaited : join[t] = join[u] => t = u
    BY DEF Safe, Joined
  <2> QED
    BY <2>1, <2>2 DEF Safe, Placed, Found, Queued, EveryThreadInOnePlace
<1>4. LockHasOneOwner
  <2>1. holds \cap Granted = {}
    BY DEF Safe, Owned, Granted
  <2>2. Cardinality(Owners) = IF taken THEN 1 ELSE 0
    <3>1. CASE taken
      <4>1. PICK t \in Owners : \A u \in Owners : u = t
        BY <3>1 DEF Safe, Owned
      <4>2. Owners = {t}
        BY <4>1
      <4> QED
        BY <3>1, <4>2, FS_Singleton
    <3>2. CASE ~taken
      <4>1. Owners = {}
        BY <3>2 DEF Safe, Owned
      <4> QED
        BY <3>2, <4>1, FS_EmptySet
    <3> QED
      BY <3>1, <3>2
  <2> QED
    BY <2>1, <2>2 DEF Owners, LockHasOneOwner, Safe, Owned
<1>5. RightStack
  BY DEF Safe, Stacked, RightStack, Alive, Typed, TypeOK, Threads
<1> QED
  BY <1>1, <1>2, <1>3, <1>4, <1>5

(* The inductive invariant holds initially... *)
LEMMA IInvInit == Init => IInv
<1> SUFFICES ASSUME Init PROVE IInv
  OBVIOUS
<1>1. Typed /\ fault = "none"
  BY TypedInit, ConstantsAssumption DEF Init
<1> USE DEF Init, Threads
<1>2. /\ Alive = {Main} /\ Active = Main /\ Awaited = {}
      /\ Range(<<>>) = {} /\ IsInjective(<<>>) /\ Queued = {}
      /\ PointOf(Main) = "user"
  BY DEF Alive, Active, Awaited, Range, IsInjective, Queued, PointOf
<1>3. Stacked
  BY DEF Stacked, Parked
<1>4. Placed
  BY <1>2 DEF Placed
<1>5. Ended
  BY DEF Ended
<1>6. Joined /\ Collectable /\ Found /\ Suspended
  BY <1>2 DEF Joined, Collectable, Found, Suspended
<1>7. Owned
  BY <1>2 DEF Owned, Owners, Granted, TailPoints
<1>8. Safe
  BY <1>3, <1>4, <1>5, <1>6, <1>7 DEF Safe
<1>9. ResultsWanted
  BY DEF ResultsWanted
<1> HIDE DEF Init
<1> QED
  BY <1>1, <1>8, <1>9, SafeMeans DEF IInv, NoUseAfterFree, DiesOnlyWhenStuck

(* ... and is kept by every step: while the process lives by SafeStep, at  *)
(* its death by DyingStep, and a dead process does not move.               *)
LEMMA IInvStep ==
  ASSUME Disciplined, IInv, [Next]_vars
  PROVE  IInv'
<1>1. CASE UNCHANGED vars
  BY <1>1 DEF vars, queueVars, threadVars, localVars, clientVars, IInv, Typed, TypeOK,
     ResultsWanted, NoPlaceFor, Sound, Safe, Stacked, Placed, Ended, Joined, Collectable, Found, Suspended,
     Owned, Owners, Granted, Joiners, Awaited, Active, Alive, Queued, PointOf, Ending,
     NoUseAfterFree, DiesOnlyWhenStuck, MutualExclusion, JoinAfterTermination
<1>2. CASE Next /\ fault = "none"
  <2>1. Typed' /\ ResultsWanted'
    BY <1>2, TypedStep, ResultsWantedStep, ConstantsAssumption DEF IInv
  <2>2. CASE fault' = "none"
    <3>1. Safe'
      BY <1>2, <2>2, SafeStep DEF IInv
    <3> QED
      BY <2>1, <2>2, <3>1 DEF IInv, NoUseAfterFree, DiesOnlyWhenStuck
  <2>3. CASE fault' # "none"
    <3>1. /\ NoUseAfterFree' /\ DiesOnlyWhenStuck'
          /\ holds' = holds /\ cpu' = cpu /\ cpu.at \in {"user", "pickNext"}
      BY <1>2, <2>3, DyingStep DEF IInv
    <3>2. MutualExclusion' /\ JoinAfterTermination'
      BY <1>2, <3>1, SafeMeans DEF IInv, MutualExclusion, JoinAfterTermination
    <3> QED
      BY <2>1, <2>3, <3>1, <3>2 DEF IInv
  <2> QED
    BY <2>2, <2>3
<1>3. CASE Next /\ fault # "none"
  <2>1. UNCHANGED vars
    BY <1>3 DEF Next, Call, Library, ThreadEnds, Create, Yield, Join, Collect, MutexLock,
       Locked, MutexUnlock, CondWait, CondWaitMutex, CondReacquire, CondSignal, Start,
       FunctionReturns, WakeJoiner, SaveResult, BecomeZombie, PickNext, SetRunning,
       SetContext, TimerHandler, Exit, Halted, StepTo, At
  <2> QED
    BY <1>1, <2>1
<1> QED
  BY <1>1, <1>2, <1>3

(* IInv holds in every state the library reaches. *)
THEOREM IInvInvariant ==
  ASSUME Disciplined
  PROVE  Spec => []IInv
<1>1. IInv /\ [Next]_vars => IInv'
  BY IInvStep
<1> QED
  BY <1>1, IInvInit, PTL DEF Spec

-----------------------------------------------------------------------------
(* Two threads never hold the mutex at once, however many threads there    *)
(* are and wherever in their code the timer stops them.                    *)
THEOREM LockExcludes == Disciplined => (Spec => []MutualExclusion)
<1> SUFFICES ASSUME Disciplined PROVE Spec => []MutualExclusion
  OBVIOUS
<1>1. IInv => MutualExclusion
  BY SafeMeans DEF IInv
<1> QED
  BY <1>1, IInvInvariant, PTL

(* No thread is lost and none is queued twice: what green_join, the        *)
(* condition and the mutex suspend stays in one queue or with the thread   *)
(* it joins until that one ends, for any number of threads.                *)
THEOREM NobodyLost == Disciplined => (Spec => []EveryThreadInOnePlace)
<1> SUFFICES ASSUME Disciplined PROVE Spec => []EveryThreadInOnePlace
  OBVIOUS
<1>1. IInv => EveryThreadInOnePlace
  BY SafeMeans DEF IInv, EveryThreadInOnePlace
<1> QED
  BY <1>1, IInvInvariant, PTL

(* mutex->taken tells the truth about the lock in every state, also while  *)
(* the lock is on its way to a thread that green_mutex_unlock made ready.  *)
THEOREM LockIsOwned == Disciplined => (Spec => []LockHasOneOwner)
<1> SUFFICES ASSUME Disciplined PROVE Spec => []LockHasOneOwner
  OBVIOUS
<1>1. IInv => LockHasOneOwner
  BY SafeMeans DEF IInv, LockHasOneOwner
<1> QED
  BY <1>1, IInvInvariant, PTL

(* green_join goes on to the result only when the thread has stored it and *)
(* is a zombie, although green_thread wakes the joiner before it does so.  *)
THEOREM JoinWaits == Disciplined => (Spec => []JoinAfterTermination)
<1> SUFFICES ASSUME Disciplined PROVE Spec => []JoinAfterTermination
  OBVIOUS
<1>1. IInv => JoinAfterTermination
  BY SafeMeans DEF IInv
<1> QED
  BY <1>1, IInvInvariant, PTL

(* No context is used after green_join has freed it. *)
THEOREM FreedIsGone == Disciplined => (Spec => []NoUseAfterFree)
<1> SUFFICES ASSUME Disciplined PROVE Spec => []NoUseAfterFree
  OBVIOUS
<1>1. IInv => NoUseAfterFree
  BY DEF IInv
<1> QED
  BY <1>1, IInvInvariant, PTL

(* The process dies of a failed assert or of a NULL next thread only when  *)
(* no thread is left that could run.                                       *)
THEOREM DiesOfStarvation == Disciplined => (Spec => []DiesOnlyWhenStuck)
<1> SUFFICES ASSUME Disciplined PROVE Spec => []DiesOnlyWhenStuck
  OBVIOUS
<1>1. IInv => DiesOnlyWhenStuck
  BY DEF IInv
<1> QED
  BY <1>1, IInvInvariant, PTL

(* running is the thread whose stack executes, and every context leads to  *)
(* the stack of its own thread.                                            *)
THEOREM OwnStack == Disciplined => (Spec => []RightStack)
<1> SUFFICES ASSUME Disciplined PROVE Spec => []RightStack
  OBVIOUS
<1>1. IInv => RightStack
  BY SafeMeans DEF IInv, RightStack
<1> QED
  BY <1>1, IInvInvariant, PTL

(* A thread that is suspended for the mutex is in its queue or has been    *)
(* handed the lock.                                                        *)
LEMMA WaitersQueue ==
  ASSUME Typed, Safe
  PROVE  Waiting \subseteq Range(mutexq)
<1> SUFFICES ASSUME NEW w \in Waiting PROVE w \in Range(mutexq)
  OBVIOUS
<1>1. /\ w \in Alive /\ PointOf(w) = "locked"
      /\ w # Active /\ w \notin Range(ready)
  BY DEF Waiting, Resumed
<1>2. w \notin Range(condq)
  BY <1>1 DEF Safe, Suspended
<1>3. w \notin Joiners
  BY <1>1 DEF Safe, Joined, Joiners
<1> QED
  BY <1>1, <1>2, <1>3 DEF Safe, Found, Queued

(* A thread that asks for the mutex never takes it before those suspended  *)
(* for it: green_mutex_unlock gives it to the first of them without        *)
(* clearing taken in between.                                              *)
THEOREM WaitersFirst == Disciplined => (Spec => NoBarging)
<1> SUFFICES ASSUME Disciplined PROVE Spec => NoBarging
  OBVIOUS
<1>1. IInv /\ [Next]_vars => [Waiting # {} => holds' \ holds \subseteq Resumed]_vars
  <2> SUFFICES ASSUME IInv, Next, Waiting # {}, NEW t \in holds' \ holds
               PROVE  t \in Resumed
    OBVIOUS
  <2>1. holds' # holds
    OBVIOUS
  <2>2. fault = "none"
    BY <2>1 DEF Next, Call, Library, ThreadEnds, Create, Yield, Join, Collect, MutexLock,
       Locked, MutexUnlock, CondWait, CondWaitMutex, CondReacquire, CondSignal, Start,
       FunctionReturns, WakeJoiner, SaveResult, BecomeZombie, PickNext, SetRunning,
       SetContext, TimerHandler, Exit, Halted, StepTo, At, vars, clientVars
  <2>3. Typed /\ Safe /\ taken
    <3>1. Typed /\ Safe
      BY <2>2 DEF IInv
    <3>2. mutexq # <<>>
      BY <3>1, WaitersQueue DEF Range
    <3> QED
      BY <3>1, <3>2 DEF Safe, Owned
  <2>4. Locked
    <3> USE DEF clientVars
    <3>1. ~CondReacquire
      BY <2>3 DEF CondReacquire, At, Safe, Stacked
    <3>2. ~MutexLock /\ ~MutexUnlock /\ ~CondWaitMutex
      BY <2>1, <2>3 DEF MutexLock, MutexUnlock, CondWaitMutex
    <3>3. /\ \A u : ~Create(u) /\ \A res \in BOOLEAN : ~Join(u, res)
          /\ \A v \in Values \cup {NULL} : ~FunctionReturns(v)
          /\ ~Yield /\ ~CondWait /\ ~CondSignal /\ ~Start /\ ~Collect
      BY <2>1 DEF Create, Join, FunctionReturns, Yield, CondWait, CondSignal, Start, Collect
    <3>4. ~ThreadEnds
      BY <2>1 DEF ThreadEnds, WakeJoiner, SaveResult, BecomeZombie, PickNext, SetRunning,
         SetContext
    <3>5. ~TimerHandler /\ ~Exit /\ ~Halted
      BY <2>1 DEF TimerHandler, Exit, Halted, vars
    <3> QED
      BY <3>1, <3>2, <3>3, <3>4, <3>5 DEF Next, Call, Library
  <2>5. /\ t = running /\ PointOf(running) = "locked"
        /\ running \in Alive /\ running = Active
    BY <2>2, <2>3, <2>4, Caller DEF Locked, At, TailPoints
  <2> QED
    BY <2>5 DEF Resumed
<1> QED
  BY <1>1, IInvInvariant, PTL DEF NoBarging, Spec
=============================================================================
