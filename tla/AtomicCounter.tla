---------------------------- MODULE AtomicCounter ----------------------------
(* What the programs with a shared counter promise, whatever the lock they *)
(* use: seminar3/test_mutex.c and locks-assignment/swap.c.                 *)
(* Each thread increments the counter a given number of times, and each    *)
(* increment is indivisible.                                               *)
EXTENDS Naturals

CONSTANTS Incrementers, Rounds

VARIABLES
  total,      \* the counter
  left        \* the increments each thread has still to make

counterVars == <<total, left>>

(* A thread makes all its increments, or is not started. *)
CounterInit == total = 0 /\ left \in [Incrementers -> {0, Rounds}]

Increment(t) ==
  /\ left[t] > 0
  /\ total' = total + 1
  /\ left' = [left EXCEPT ![t] = @ - 1]

CounterNext == \E t \in Incrementers : Increment(t)

CounterSpec == CounterInit /\ [][CounterNext]_counterVars

AllMade == \A t \in Incrementers : left[t] = 0
=============================================================================
