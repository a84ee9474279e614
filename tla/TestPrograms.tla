---------------------------- MODULE TestPrograms ----------------------------
(* Two test programs of seminar3 as clients of the library: main creates   *)
(* the workers 0, 1, ..., joins them in the same order and returns.        *)
(*   test_mutex.c  the workers increment a shared counter under the mutex  *)
(*   test_green.c  the workers yield in a loop, but the last, which        *)
(*                 returns a number that main collects with green_join     *)
(* The timer may interrupt them between any two statements.                *)
EXTENDS GreenThreads

CONSTANTS
  Loops,       \* the iterations of each worker (10000 or 4 in the tests)
  Programs     \* the programs considered: "test_mutex", "test_green"

ASSUME ProgramsAssumption ==
  /\ IsFiniteSet(Workers) /\ Workers # {}
  /\ Workers = 0 .. Cardinality(Workers) - 1
  /\ Loops \in Nat
  /\ Programs \subseteq {"test_mutex", "test_green"}

VARIABLES
  program,
  line,        \* the statement each worker is at
  loop,        \* the iterations it has left
  shared,      \* test_mutex.c: the counter
  register,    \* what each worker has loaded of it
  retval_b     \* test_green.c: main's variable for the last worker's result

flowVars == <<program, line, loop>>
counterVars == <<shared, register>>
allVars == <<vars, flowVars, counterVars, retval_b>>

B == Cardinality(Workers) - 1

TestInit ==
  /\ Init
  /\ program \in Programs
  /\ line = [w \in Workers |-> IF program = "test_mutex" THEN "for" ELSE "while"]
  /\ loop = [w \in Workers |-> Loops]
  /\ shared = 0
  /\ register = [w \in Workers |-> 0]
  /\ retval_b = NULL

-----------------------------------------------------------------------------
(* A statement of the worker w, which makes a call of the library, or none *)
(* (Silent), and goes on at the statement `to'.                            *)
Statement(w, from, call, to) ==
  /\ At("user") /\ cpu.stk = w /\ line[w] = from
  /\ call
  /\ line' = [line EXCEPT ![w] = to]
  /\ UNCHANGED program

Silent == UNCHANGED vars

CountDown(w) == loop' = [loop EXCEPT ![w] = @ - 1]

(* Slip: the mutex is not unlocked. *)
EndLoopLocked(w) ==
  /\ Statement(w, "unlock", Silent, "for")
  /\ CountDown(w)
  /\ UNCHANGED counterVars

EndLoop(w) ==
  /\ Statement(w, "unlock", MutexUnlock, "for")
  /\ CountDown(w)
  /\ UNCHANGED counterVars

Increment(w) ==
  \/ /\ Statement(w, "for", Silent, IF loop[w] = 0 THEN "return" ELSE "lock")
     /\ UNCHANGED <<loop, counterVars>>
  \/ Statement(w, "lock", MutexLock, "load") /\ UNCHANGED <<loop, counterVars>>
  \/ /\ Statement(w, "load", Silent, "store")
     /\ register' = [register EXCEPT ![w] = shared]
     /\ UNCHANGED <<loop, shared>>
  \/ /\ Statement(w, "store", Silent, "unlock")
     /\ shared' = register[w] + 1
     /\ UNCHANGED <<loop, register>>
  \/ EndLoop(w)

(* while(loop > 0) { loop--; green_yield(); } *)
TestA(w) ==
  \/ loop[w] = 0 /\ Statement(w, "while", Silent, "return") /\ UNCHANGED loop
  \/ loop[w] > 0 /\ Statement(w, "while", Silent, "yield") /\ CountDown(w)
  \/ Statement(w, "yield", Yield, "while") /\ UNCHANGED loop

ReturnNull(w) ==
  Statement(w, "return", FunctionReturns(NULL), "returned") /\ UNCHANGED loop

TestB ==
  /\ \E v \in Values : Statement(B, "while", FunctionReturns(v), "returned")
  /\ UNCHANGED loop

Worker(w) ==
  /\ UNCHANGED retval_b
  /\ \/ program = "test_mutex" /\ Increment(w)
     \/ /\ UNCHANGED counterVars
        /\ \/ ReturnNull(w)
           \/ program = "test_green" /\ w # B /\ TestA(w)
           \/ program = "test_green" /\ w = B /\ TestB

(* green_join stores the result it has found in the place it was given.    *)
Receive ==
  retval_b' = IF cpu.at = "collect" /\ slot[Main] /\ retval[target[Main]] # NULL
              THEN retval[target[Main]] ELSE retval_b

main ==
  /\ cpu.stk = Main
  /\ \/ \E w \in Workers : created = 0 .. w - 1 /\ Create(w)
     \/ /\ created = Workers
        /\ \/ \E w \in Workers :
                claimed = 0 .. w - 1 /\ Join(w, program = "test_green" /\ w = B)
           \/ Exit

Step(t) ==
  /\ cpu.stk = t
  /\ \/ (Library \/ main) /\ Receive /\ UNCHANGED <<flowVars, counterVars>>
     \/ t \in Workers /\ Worker(t)

TestNext ==
  \/ \E t \in Threads : Step(t)
  \/ (TimerHandler \/ Halted) /\ UNCHANGED <<flowVars, counterVars, retval_b>>

(* A thread that gets the processor again and again executes: the timer    *)
(* counts the time the process itself has run.                             *)
TestSpec ==
  TestInit /\ [][TestNext]_allVars /\ \A t \in Threads : SF_allVars(Step(t))

-----------------------------------------------------------------------------
Done == cpu.at = "exit"

(* "retval = %d": main has the number test_B returned and has not kept     *)
(* NULL, whether test_B ended before or after main called green_join.      *)
ResultArrives == Done /\ program = "test_green" => retval_b \in Values

(* Both programs use the library as its most general client may, so that   *)
(* all that is proved of it holds of them: a worker never asks for a mutex *)
(* it has, releases one it lacks or returns with one, also when it was     *)
(* suspended in between, and main creates and joins each thread once, with *)
(* a place for the result that is not NULL.                                *)
UsesAsAgreed == Spec

(* "Total sum should be": every increment is made at once and none is      *)
(* lost, wherever the timer interrupts the workers (test_mutex.c prints    *)
(* the sum, it checks nothing).                                            *)
Counter == INSTANCE AtomicCounter WITH
  Incrementers <- Workers,
  Rounds <- Loops,
  total <- shared,
  left <- [w \in Workers |->
             IF program = "test_mutex"
             THEN loop[w] - (IF line[w] = "unlock" THEN 1 ELSE 0) ELSE 0]

ImplementsCounter == Counter!CounterSpec

(* The program gets to "Done with everything!" with all increments made:   *)
(* every worker gets the mutex as often as it asks for it, all threads end *)
(* and main joins them, wherever the timer interrupts the threads' own     *)
(* code.  It does not hold with the timer at the end of green_thread.      *)
Finishes == <>(Done /\ Counter!AllMade)
=============================================================================
