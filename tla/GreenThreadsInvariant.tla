------------------------ MODULE GreenThreadsInvariant ------------------------
(* The inductive invariant of GreenThreads from which GreenThreadsProofs   *)
(* derives the properties.  Typed and ResultsWanted hold whatever the      *)
(* clients and the timer do, Safe when clients wait without a mutex and    *)
(* the timer spares the end of green_thread.                               *)
EXTENDS GreenThreads

(* What a stack needs at the point it is at, or saved at. *)
Sound(c) ==
  /\ c.at \in TailPoints => c.stk \in Workers
  /\ c.at \in {"setRunning", "setContext"} => next[c.stk] \in Threads
  /\ c.at = "collect" => target[c.stk] \in Workers

Typed ==
  /\ TypeOK
  /\ fault = "none" => running \in Threads
  /\ Sound(cpu)
  /\ \A t \in Threads : Sound(ctx[t])

(* green_join has a place for every result that is not NULL. *)
ResultsWanted == \A t \in Workers : NoPlaceFor(t) => result[t] = NULL

-----------------------------------------------------------------------------
Disciplined == Timer # "any" /\ WaitWith \subseteq {"null"}

Parked == {"start", "user", "collect", "locked"}

Queued == Range(ready) \cup Range(condq) \cup Range(mutexq)

(* The processor executes the stack of running, and every context holds    *)
(* the stack of its own thread at a point the library parks threads at.    *)
Stacked ==
  /\ \A t \in Threads : ctx[t].stk = t /\ ctx[t].at \in Parked
  /\ cpu.at # "setContext" => cpu.stk = running
  /\ cpu.at = "setContext" => running = next[cpu.stk]
  /\ cpu.at # "recheck"

(* The queues hold living threads, each thread once. *)
Placed ==
  /\ IsInjective(ready) /\ IsInjective(condq) /\ IsInjective(mutexq)
  /\ Range(ready) \cap Range(condq) = {}
  /\ Range(ready) \cap Range(mutexq) = {}
  /\ Range(condq) \cap Range(mutexq) = {}
  /\ Queued \subseteq Alive
  /\ Active \notin Queued
  /\ cpu.at # "pickNext" => Active \in Alive

(* The threads that have ended: the one that is ending is among them from  *)
(* the store of zombie on.                                                 *)
Ended ==
  /\ zombie \subseteq created
  /\ freed \subseteq zombie
  /\ cpu.at \in {"pickNext", "setRunning", "setContext"} => cpu.stk \in zombie
  /\ \A t \in zombie : retval[t] = result[t]
  /\ cpu.at = "becomeZombie" => retval[cpu.stk] = result[cpu.stk]

(* A thread that waits for the end of another is nowhere else. *)
Joined ==
  /\ \A t \in Workers : t \notin claimed => join[t] = NULL
  /\ \A t \in Awaited :
       /\ join[t] \in Alive \ (Queued \cup {Active})
       /\ PointOf(join[t]) = "collect"
       /\ target[join[t]] = t

(* A thread that is about to collect the result of another finds it there, *)
(* or the other is just about to put it there.                             *)
Ending(t) == cpu.stk = t /\ cpu.at \in {"saveResult", "becomeZombie"}

Collectable ==
  \A t \in Range(ready) \cup {Active} :
    PointOf(t) = "collect" => target[t] \in zombie \/ Ending(target[t])

(* Every living thread is somewhere. *)
Found == Alive \subseteq {Active} \cup Queued \cup Joiners

(* Where the stacks of queued threads are. *)
Suspended ==
  /\ \A t \in Range(condq) : PointOf(t) = "user"
  /\ \A t \in Range(mutexq) : PointOf(t) = "locked"

Owners == holds \cup Granted

Owned ==
  /\ holds \subseteq Alive
  /\ cpu.at \in TailPoints => cpu.stk \notin holds
  /\ \A t \in holds : PointOf(t) # "locked"
  /\ \A s, t \in Owners : s = t
  /\ taken <=> Owners # {}
  /\ mutexq # <<>> => taken

Safe ==
  /\ Stacked /\ Placed /\ Ended /\ Joined /\ Collectable /\ Found /\ Suspended
  /\ Owned

IInv ==
  /\ Typed
  /\ ResultsWanted
  /\ fault = "none" => Safe
  /\ fault # "none" => MutualExclusion /\ JoinAfterTermination
  /\ NoUseAfterFree
  /\ DiesOnlyWhenStuck
=============================================================================
