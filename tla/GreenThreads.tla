---------------------------- MODULE GreenThreads ----------------------------
(***************************************************************************)
(* The green-thread library of seminar3/green.c under a most general       *)
(* client.  One processor runs the program: the record cpu names the stack *)
(* that executes and the point it has reached.  A library call runs with   *)
(* SIGVTALRM blocked from its first to its last line, so it is one step up *)
(* to the swapcontext that may end it; timer_handler preempts the code     *)
(* that runs with the signal unblocked.                                    *)
(*                                                                         *)
(* Queues of green_t linked by their next fields are sequences here; the   *)
(* module GreenQueue justifies that for calls that are not interrupted.    *)
(* An operator introduced as a slip is no part of the model: it is a bug   *)
(* the checked properties are shown to notice (mutants of PROJECT.json).   *)
(***************************************************************************)
EXTENDS Naturals, Sequences, FiniteSets, Functions

CONSTANTS
  Workers,    \* the threads green_create starts
  Main,       \* main_green, the thread of main()
  Values,     \* what a thread function may return besides NULL
  NULL,
  WaitWith,   \* what clients pass as green_cond_wait's mutex: "mutex", "null"
  Timer       \* where the timer may expire: "off", "client" (the client's code),
              \* "any" (also in green_thread after the thread function returned)

ASSUME ConstantsAssumption ==
  /\ Main \notin Workers
  /\ NULL \notin Workers \cup {Main} \cup Values
  /\ WaitWith \subseteq {"mutex", "null"}
  /\ Timer \in {"off", "client", "any"}

Threads == Workers \cup {Main}

VARIABLES
  running,    \* the library's idea of who runs
  ready,      \* ready_queue
  condq,      \* cond->susp_list of the condition variable
  taken,      \* mutex->taken
  mutexq,     \* mutex->susp
  join,       \* green_t.join
  retval,     \* green_t.retval
  zombie,     \* the threads whose zombie field is TRUE
  freed,      \* the threads whose context green_join has freed
  ctx,        \* green_t.context: the stack and the point saved in it
  cpu,        \* the stack that executes and the point it is at
  masked,     \* SIGVTALRM is blocked
  target,     \* green_join's argument thread, per stack
  slot,       \* whether green_join's argument res is non-NULL, per stack
  result,     \* green_thread's local result, per stack
  next,       \* green_thread's local next, per stack
  fault,      \* how the process died: a failed assert, a NULL or freed pointer
  created, claimed, holds   \* the client's history: threads created, threads
                            \* somebody joins, stacks in a critical section

queueVars == <<condq, taken, mutexq>>
threadVars == <<join, retval, zombie, freed>>
localVars == <<target, slot, result, next>>
clientVars == <<created, claimed, holds>>
vars == <<running, ready, queueVars, threadVars, ctx, cpu, masked, localVars,
          fault, clientVars>>

-----------------------------------------------------------------------------
(* The points of a stack.  At a point of Internal the signal is blocked;   *)
(* TailPoints are the steps of green_thread after its function returned.   *)

Internal == {"start", "collect", "locked", "recheck"}
TailPoints == {"wakeJoiner", "saveResult", "becomeZombie", "pickNext",
               "setRunning", "setContext"}
Points == {"user", "exit"} \cup Internal \cup TailPoints

Faults == {"none", "assert", "null", "useAfterFree"}

Init ==
  /\ running = Main
  /\ ready = <<>>
  /\ condq = <<>> /\ taken = FALSE /\ mutexq = <<>>
  /\ join = [t \in Threads |-> NULL]
  /\ retval = [t \in Threads |-> NULL]
  /\ zombie = {} /\ freed = {}
  /\ ctx = [t \in Threads |-> [stk |-> t, at |-> "start"]]
  /\ cpu = [stk |-> Main, at |-> "user"]
  /\ masked = FALSE
  /\ target = [t \in Threads |-> NULL]
  /\ slot = [t \in Threads |-> FALSE]
  /\ result = [t \in Threads |-> NULL]
  /\ next = [t \in Threads |-> NULL]
  /\ fault = "none"
  /\ created = {} /\ claimed = {} /\ holds = {}

At(point) == fault = "none" /\ cpu.at = point

Goto(point) == cpu' = [cpu EXCEPT !.at = point]

(* Back in the client with the signal unblocked. *)
Return == Goto("user") /\ masked' = FALSE

Die(how) ==
  /\ fault' = how
  /\ UNCHANGED <<ctx, cpu, masked>>

(* Continue from a saved context. *)
Load(c) ==
  /\ cpu' = c
  /\ masked' = (c.at \in Internal)
  /\ fault' = fault

(***************************************************************************)
(* The end of every call that gives up the processor: dequeue the next     *)
(* thread from the queue q, make it running and swapcontext to it, leaving *)
(* the caller to resume at the given point.  On an empty queue the call    *)
(* dies, on its assert if it has one and else on the NULL pointer.         *)
(***************************************************************************)
Dispatch(susp, q, point, onEmpty) ==
  \/ /\ q = <<>>
     /\ ready' = q
     /\ running' = IF onEmpty = "assert" THEN running ELSE NULL
     /\ Die(onEmpty)
  \/ /\ q # <<>>
     /\ ready' = Tail(q)
     /\ running' = Head(q)
     /\ \/ /\ {susp, Head(q)} \cap freed # {}
           /\ Die("useAfterFree")
        \/ /\ {susp, Head(q)} \cap freed = {}
           /\ ctx' = [ctx EXCEPT ![susp] = [stk |-> cpu.stk, at |-> point]]
           /\ Load(ctx'[Head(q)])

-----------------------------------------------------------------------------
(* The calls, whoever makes them: the library checks nothing of its        *)
(* callers.  What it asks of them is stated in Call.                       *)

Create(t) ==
  /\ At("user")
  /\ created' = created \cup {t}
  /\ ctx' = [ctx EXCEPT ![t] = [stk |-> t, at |-> "start"]]
  /\ join' = [join EXCEPT ![t] = NULL]
  /\ retval' = [retval EXCEPT ![t] = NULL]
  /\ zombie' = zombie \ {t} /\ freed' = freed \ {t}
  /\ ready' = Append(ready, t)
  /\ Return
  /\ UNCHANGED <<running, queueVars, localVars, fault, claimed, holds>>

(* Slip: the caller is not put on ready_queue. *)
YieldForgetsCaller ==
  /\ At("user")
  /\ Dispatch(running, ready, "user", "null")
  /\ UNCHANGED <<queueVars, threadVars, localVars, clientVars>>

Yield ==
  /\ At("user")
  /\ Dispatch(running, Append(ready, running), "user", "null")
  /\ UNCHANGED <<queueVars, threadVars, localVars, clientVars>>

(* Slip: the test of zombie is dropped, and with it the wait. *)
JoinDoesNotWait(t, res) ==
  /\ At("user")
  /\ claimed' = claimed \cup {t}
  /\ target' = [target EXCEPT ![cpu.stk] = t]
  /\ slot' = [slot EXCEPT ![cpu.stk] = res]
  /\ Goto("collect") /\ masked' = TRUE
  /\ UNCHANGED <<running, ready, queueVars, threadVars, ctx, result, next, fault,
                 created, holds>>

(* green_join up to its swapcontext; res says whether the caller gave a    *)
(* place for the result.                                                   *)
Join(t, res) ==
  /\ At("user")
  /\ claimed' = claimed \cup {t}
  /\ target' = [target EXCEPT ![cpu.stk] = t]
  /\ slot' = [slot EXCEPT ![cpu.stk] = res]
  /\ \/ /\ t \in zombie
        /\ Goto("collect") /\ masked' = TRUE
        /\ UNCHANGED <<running, ready, join, ctx, fault>>
     \/ /\ t \notin zombie
        /\ join' = [join EXCEPT ![t] = running]
        /\ Dispatch(running, ready, "collect", "null")
  /\ UNCHANGED <<queueVars, retval, zombie, freed, result, next, created, holds>>

(* The rest of green_join: collect the result and free the context.        *)
Collect ==
  LET t == target[cpu.stk] IN
  /\ At("collect")
  /\ \/ /\ retval[t] # NULL /\ ~slot[cpu.stk]
        /\ Die("null")
        /\ UNCHANGED freed
     \/ /\ retval[t] = NULL \/ slot[cpu.stk]
        /\ freed' = freed \cup {t}
        /\ Return
        /\ UNCHANGED <<ctx, fault>>
  /\ UNCHANGED <<running, ready, queueVars, join, retval, zombie, localVars,
                 clientVars>>

(* Slip: the test of taken is dropped. *)
MutexLockUnchecked ==
  /\ At("user")
  /\ taken' = TRUE
  /\ holds' = holds \cup {cpu.stk}
  /\ Return
  /\ UNCHANGED <<running, ready, mutexq, ctx, fault, condq, threadVars, localVars,
                 created, claimed>>

MutexLock ==
  /\ At("user")
  /\ \/ /\ taken
        /\ mutexq' = Append(mutexq, running)
        /\ Dispatch(running, ready, "locked", "assert")
        /\ UNCHANGED <<taken, holds>>
     \/ /\ ~taken
        /\ taken' = TRUE
        /\ holds' = holds \cup {cpu.stk}
        /\ Return
        /\ UNCHANGED <<running, ready, mutexq, ctx, fault>>
  /\ UNCHANGED <<condq, threadVars, localVars, created, claimed>>

(* A thread that was suspended for the lock, in green_mutex_lock or at the *)
(* end of green_cond_wait, returns without looking at mutex->taken again.  *)
Locked ==
  /\ At("locked")
  /\ holds' = holds \cup {cpu.stk}
  /\ Return
  /\ UNCHANGED <<running, ready, queueVars, threadVars, ctx, localVars, fault,
                 created, claimed>>

(* Slip: taken is reset also when the lock is handed over (FALSE), or not  *)
(* reset when nobody waits (TRUE).                                         *)
UnlockLeaving(value) ==
  /\ At("user")
  /\ taken' = value
  /\ \/ /\ mutexq # <<>>
        /\ ready' = Append(ready, Head(mutexq))
        /\ mutexq' = Tail(mutexq)
     \/ mutexq = <<>> /\ UNCHANGED <<ready, mutexq>>
  /\ holds' = holds \ {cpu.stk}
  /\ Return
  /\ UNCHANGED <<running, condq, threadVars, ctx, localVars, fault, created,
                 claimed>>

MutexUnlockAlwaysReleases == UnlockLeaving(FALSE)

MutexUnlockKeepsLock == UnlockLeaving(TRUE)

MutexUnlock ==
  /\ At("user")
  /\ \/ /\ mutexq # <<>>
        /\ ready' = Append(ready, Head(mutexq))
        /\ mutexq' = Tail(mutexq)
        /\ UNCHANGED taken
     \/ /\ mutexq = <<>>
        /\ taken' = FALSE
        /\ UNCHANGED <<ready, mutexq>>
  /\ holds' = holds \ {cpu.stk}
  /\ Return
  /\ UNCHANGED <<running, condq, threadVars, ctx, localVars, fault, created,
                 claimed>>

(* green_cond_wait(&cond, NULL). *)
CondWait ==
  /\ At("user")
  /\ "null" \in WaitWith
  /\ condq' = Append(condq, running)
  /\ Dispatch(running, ready, "user", "assert")
  /\ UNCHANGED <<taken, mutexq, threadVars, localVars, clientVars>>

(* green_cond_wait(&cond, &mutex) up to its first swapcontext: one waiter  *)
(* of the mutex becomes ready and the mutex's queue is reset.              *)
CondWaitMutex ==
  /\ At("user")
  /\ "mutex" \in WaitWith
  /\ condq' = Append(condq, running)
  /\ taken' = FALSE
  /\ mutexq' = <<>>
  /\ Dispatch(running,
              IF mutexq = <<>> THEN ready ELSE Append(ready, Head(mutexq)),
              "recheck", "assert")
  /\ holds' = holds \ {cpu.stk}
  /\ UNCHANGED <<threadVars, localVars, created, claimed>>

(* green_cond_wait after its first swapcontext: try to take the lock.      *)
CondReacquire ==
  /\ At("recheck")
  /\ \/ /\ taken
        /\ mutexq' = Append(mutexq, running)
        /\ Dispatch(running, ready, "locked", "null")
        /\ UNCHANGED <<taken, holds>>
     \/ /\ ~taken
        /\ taken' = TRUE
        /\ holds' = holds \cup {cpu.stk}
        /\ Return
        /\ UNCHANGED <<running, ready, mutexq, ctx, fault>>
  /\ UNCHANGED <<condq, threadVars, localVars, created, claimed>>

(* Slip: the thread that is dequeued is not put on ready_queue. *)
CondSignalLosesThread ==
  /\ At("user")
  /\ condq # <<>>
  /\ condq' = Tail(condq)
  /\ Return
  /\ UNCHANGED <<running, ready, taken, mutexq, threadVars, ctx, localVars, fault,
                 clientVars>>

(* green_cond_signal: on an empty list it returns before it unblocks the   *)
(* signal.                                                                 *)
CondSignal ==
  /\ At("user")
  /\ \/ /\ condq = <<>>
        /\ masked' = TRUE
        /\ UNCHANGED <<ready, condq, cpu>>
     \/ /\ condq # <<>>
        /\ ready' = Append(ready, Head(condq))
        /\ condq' = Tail(condq)
        /\ Return
  /\ UNCHANGED <<running, taken, mutexq, threadVars, ctx, localVars, fault,
                 clientVars>>

-----------------------------------------------------------------------------
(* green_thread.  It enters the thread function with the signal still      *)
(* blocked and does not block it again when the function returns, so each  *)
(* of the statements that end the thread is a step.                        *)

StepTo(from, to) == At(from) /\ Goto(to) /\ UNCHANGED <<ctx, masked, fault>>

Start ==
  /\ StepTo("start", "user")
  /\ UNCHANGED <<running, ready, queueVars, threadVars, localVars, clientVars>>

FunctionReturns(v) ==
  /\ cpu.stk \in Workers
  /\ StepTo("user", "wakeJoiner")
  /\ result' = [result EXCEPT ![cpu.stk] = v]
  /\ UNCHANGED <<running, ready, queueVars, threadVars, target, slot, next,
                 clientVars>>

(* Slip: nobody is woken. *)
WakeJoinerForgets ==
  /\ StepTo("wakeJoiner", "saveResult")
  /\ UNCHANGED <<running, ready, queueVars, threadVars, localVars, clientVars>>

WakeJoiner ==
  /\ StepTo("wakeJoiner", "saveResult")
  /\ ready' = IF join[cpu.stk] = NULL THEN ready
              ELSE Append(ready, join[cpu.stk])
  /\ UNCHANGED <<running, queueVars, threadVars, localVars, clientVars>>

(* Slip: the result is not stored. *)
SaveResultForgets ==
  /\ StepTo("saveResult", "becomeZombie")
  /\ UNCHANGED <<running, ready, queueVars, threadVars, localVars, clientVars>>

SaveResult ==
  /\ StepTo("saveResult", "becomeZombie")
  /\ retval' = [retval EXCEPT ![cpu.stk] = result[cpu.stk]]
  /\ UNCHANGED <<running, ready, queueVars, join, zombie, freed, localVars,
                 clientVars>>

BecomeZombie ==
  /\ StepTo("becomeZombie", "pickNext")
  /\ zombie' = zombie \cup {cpu.stk}
  /\ UNCHANGED <<running, ready, queueVars, join, retval, freed, localVars,
                 clientVars>>

(* With nobody ready, next is NULL and setcontext(next->context) faults;   *)
(* nothing that could run in between can prevent it.                       *)
PickNext ==
  /\ \/ /\ ready # <<>>
        /\ StepTo("pickNext", "setRunning")
        /\ next' = [next EXCEPT ![cpu.stk] = Head(ready)]
        /\ ready' = Tail(ready)
        /\ UNCHANGED running
     \/ /\ ready = <<>>
        /\ At("pickNext")
        /\ running' = NULL
        /\ Die("null")
        /\ UNCHANGED <<ready, next>>
  /\ UNCHANGED <<queueVars, threadVars, target, slot, result, clientVars>>

(* Slip: running is left as it is. *)
SetRunningForgets ==
  /\ StepTo("setRunning", "setContext")
  /\ UNCHANGED <<running, ready, queueVars, threadVars, localVars, clientVars>>

SetRunning ==
  /\ StepTo("setRunning", "setContext")
  /\ running' = next[cpu.stk]
  /\ UNCHANGED <<ready, queueVars, threadVars, localVars, clientVars>>

SetContext ==
  LET t == next[cpu.stk] IN
  /\ At("setContext")
  /\ \/ t \in freed /\ Die("useAfterFree")
     \/ t \notin freed /\ Load(ctx[t]) /\ UNCHANGED ctx
  /\ UNCHANGED <<running, ready, queueVars, threadVars, localVars, clientVars>>

ThreadEnds ==
  WakeJoiner \/ SaveResult \/ BecomeZombie \/ PickNext \/ SetRunning \/ SetContext

-----------------------------------------------------------------------------
(* The timer: timer_handler calls green_yield, and what was interrupted    *)
(* continues where it was once the thread runs again.                      *)

Preemptible ==
  CASE Timer = "off"    -> {}
    [] Timer = "client" -> {"user"}
    [] Timer = "any"    -> {"user"} \cup TailPoints

TimerHandler ==
  /\ fault = "none"
  /\ ~masked
  /\ cpu.at \in Preemptible
  /\ Dispatch(running, Append(ready, running), cpu.at, "null")
  /\ UNCHANGED <<queueVars, threadVars, localVars, clientVars>>

(* main returns once every thread has been joined that was created, which  *)
(* ends the process.                                                       *)
Exit ==
  /\ cpu.stk = Main
  /\ freed = created
  /\ StepTo("user", "exit")
  /\ UNCHANGED <<running, ready, queueVars, threadVars, localVars, clientVars>>

Over == fault # "none" \/ cpu.at = "exit"

Halted == Over /\ UNCHANGED vars

(* The steps the library takes by itself between a call and its return.    *)
Library == Start \/ Collect \/ Locked \/ CondReacquire \/ ThreadEnds

(* Whether a thread has given green_join no place for the result of t.     *)
NoPlaceFor(t) == \E u \in Threads : target[u] = t /\ ~slot[u]

(* The most general client.  It creates a thread once and joins it at most *)
(* once, with a place for the result unless the thread returns nothing,    *)
(* now or later; it locks a mutex it does not hold, unlocks or waits with  *)
(* one it holds, and holds none when a thread function returns.            *)
Call ==
  \/ \E t \in Workers \ created : Create(t)
  \/ \E t \in created \ (claimed \cup {cpu.stk}), res \in BOOLEAN :
       (res \/ result[t] = NULL) /\ Join(t, res)
  \/ cpu.stk \notin holds /\ MutexLock
  \/ cpu.stk \in holds /\ (MutexUnlock \/ CondWaitMutex)
  \/ Yield \/ CondWait \/ CondSignal
  \/ \E v \in Values \cup {NULL} :
       /\ cpu.stk \notin holds
       /\ v = NULL \/ ~NoPlaceFor(cpu.stk)
       /\ FunctionReturns(v)

Next == Call \/ Library \/ TimerHandler \/ Exit \/ Halted

Spec == Init /\ [][Next]_vars

-----------------------------------------------------------------------------
Stacks == [stk : Threads, at : Points]

(* Every variable has its type; running is NULL only in a dead process.    *)
TypeOK ==
  /\ running \in Threads \cup {NULL}
  /\ ready \in Seq(Threads) /\ condq \in Seq(Threads) /\ mutexq \in Seq(Threads)
  /\ taken \in BOOLEAN
  /\ join \in [Threads -> Threads \cup {NULL}]
  /\ retval \in [Threads -> Values \cup {NULL}]
  /\ result \in [Threads -> Values \cup {NULL}]
  /\ zombie \subseteq Workers /\ freed \subseteq Workers
  /\ ctx \in [Threads -> Stacks] /\ cpu \in Stacks
  /\ masked \in BOOLEAN
  /\ target \in [Threads -> Workers \cup {NULL}]
  /\ slot \in [Threads -> BOOLEAN]
  /\ next \in [Threads -> Threads \cup {NULL}]
  /\ fault \in Faults
  /\ created \subseteq Workers /\ claimed \subseteq created
  /\ holds \subseteq Threads

(* Where the stack of t is. *)
PointOf(t) == IF cpu.stk = t THEN cpu.at ELSE ctx[t].at

Alive == (created \cup {Main}) \ zombie

(* The thread that has the processor, or is about to be given it.          *)
Active == IF cpu.at \in {"setRunning", "setContext"} THEN next[cpu.stk]
          ELSE running

(* The threads whose joiner still waits for them. *)
Awaited ==
  {t \in Alive : join[t] # NULL
                 /\ PointOf(t) \notin {"saveResult", "becomeZombie", "pickNext"}}

Joiners == {join[t] : t \in Awaited}

(* No thread is lost or scheduled twice: while the process lives, a thread *)
(* that has been created and is not a zombie is on the processor, in       *)
(* ready_queue, on the condition, on the mutex or the joiner of a thread   *)
(* that has yet to end, in exactly one of these places, and once.          *)
EveryThreadInOnePlace ==
  fault = "none" /\ cpu.at # "exit" =>
    /\ Alive \subseteq {Active} \cup Range(ready) \cup Range(condq)
                       \cup Range(mutexq) \cup Joiners
    /\ IsInjective(ready) /\ IsInjective(condq) /\ IsInjective(mutexq)
    /\ \A t, u \in Awaited : join[t] = join[u] => t = u
    /\ Active \notin Range(ready) \cup Range(condq) \cup Range(mutexq) \cup Joiners
    /\ Range(ready) \cap (Range(condq) \cup Range(mutexq) \cup Joiners) = {}
    /\ Range(condq) \cap (Range(mutexq) \cup Joiners) = {}
    /\ Range(mutexq) \cap Joiners = {}

(* The threads that were handed the lock by green_mutex_unlock and have    *)
(* not run since.                                                          *)
Granted == {t \in Alive : PointOf(t) = "locked" /\ t \notin Range(mutexq)}

(* Two threads are never between green_mutex_lock, or green_cond_wait with *)
(* the mutex, and green_mutex_unlock.                                      *)
MutualExclusion == \A s, t \in holds : s = t

(* mutex->taken tells the truth: it is set exactly while one thread holds  *)
(* the lock or has been handed it, also when nobody runs in between, and   *)
(* nobody waits for a lock that is free.                                   *)
LockHasOneOwner ==
  fault = "none" =>
    /\ holds \cap Granted = {}
    /\ Cardinality(holds \cup Granted) = IF taken THEN 1 ELSE 0
    /\ mutexq # <<>> => taken

(* The threads suspended for the mutex that may run again, and those that  *)
(* wait for it still, wherever the library has put them.                   *)
Resumed ==
  {t \in Alive : PointOf(t) = "locked" /\ t \in Range(ready) \cup {Active}}

Waiting == {t \in Alive : PointOf(t) = "locked"} \ Resumed

(* While threads are suspended in green_mutex_lock, a thread that was not  *)
(* handed the lock does not take it before them.                           *)
NoBarging == [][Waiting # {} => holds' \ holds \subseteq Resumed]_vars

(* green_join returns after the thread has ended and its result has been   *)
(* stored, whichever of the two came first to the call or the end.         *)
JoinAfterTermination ==
  cpu.at = "collect" =>
    /\ target[cpu.stk] \in zombie
    /\ retval[target[cpu.stk]] = result[target[cpu.stk]]

(* A context freed by green_join is never saved into or resumed again.     *)
NoUseAfterFree == fault # "useAfterFree"

(* The process dies in green_join, green_cond_wait, green_mutex_lock or    *)
(* green_thread only for want of a thread that could run: then every       *)
(* thread waits for the condition, the mutex or the end of another.        *)
DiesOnlyWhenStuck ==
  fault # "none" =>
    Alive \subseteq Range(condq) \cup Range(mutexq) \cup Joiners

(* The library's running is the thread whose stack executes, and every     *)
(* other thread's context holds that thread's own stack.                   *)
RightStack ==
  fault = "none" =>
    /\ cpu.at # "setContext" => cpu.stk = running
    /\ \A t \in Alive \ {running} : ctx[t].stk = t
    /\ cpu.at = "setContext" => ctx[running].stk = running
=============================================================================
