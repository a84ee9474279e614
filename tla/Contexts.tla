------------------------------- MODULE Contexts -------------------------------
(* The programs of contexts-assignment, which switch by hand between       *)
(* contexts of one process.                                                *)
(*   yield.c   two processes push to a depth of MAX, yield to each other   *)
(*             there and pop; a context `done' runs at the end of both,    *)
(*             activated twice and continued where it was the second time  *)
(*   switch.c  main jumps once to a context it saved of itself             *)
(* A context remembers the stack that was saved in it and the position on  *)
(* it; cpu is the stack that executes and its position.                    *)
EXTENDS Naturals

CONSTANTS
  MAX,          \* the depth of the recursion
  Examples      \* the programs considered: "yield", "switch"

ASSUME ContextsAssumption == MAX \in Nat /\ Examples \subseteq {"yield", "switch"}

VARIABLES
  example,
  cpu,          \* [stk, at, i]: the stack, the point on it, push's argument i
  cntx,         \* cntx_one, cntx_two, cntx_done, cntx_main; one, two of switch.c
  running,      \* the process that executes, 1 or 2
  done          \* the processes p with donep = 1; of switch.c, {1} once done = 1

contextVars == <<example, cpu, cntx, running, done>>

Proc == [p \in {1, 2} |-> IF p = 1 THEN "one" ELSE "two"]

Position(stk, at) == [stk |-> stk, at |-> at, i |-> 1]

(* main has called makecontext for the three contexts, or is at its start. *)
CInit ==
  /\ example \in Examples
  /\ cpu = Position("main", IF example = "yield" THEN "start" ELSE "populate")
  /\ cntx = [c \in {"one", "two", "done", "main"} |->
               Position(c, IF c = "done" THEN "done" ELSE "push")]
  /\ running = 1
  /\ done = {}

At(at) == cpu.at = at /\ UNCHANGED example

Goto(at, i) == cpu' = [cpu EXCEPT !.at = at, !.i = i] /\ UNCHANGED cntx

(* swapcontext(&cntx[from], &cntx[to]), to return at the given point.      *)
Swapcontext(from, to, at) ==
  /\ cntx' = [cntx EXCEPT ![from] = [cpu EXCEPT !.at = at]]
  /\ cpu' = cntx'[to]

(* The function of a context returns, and its uc_link goes on.             *)
UcLink(to) == cpu' = cntx[to] /\ UNCHANGED cntx

-----------------------------------------------------------------------------
(* yield.c *)

LetsGo == At("start") /\ Swapcontext("main", "one", "folks") /\ UNCHANGED <<running, done>>

Folks == At("folks") /\ Goto("end", 1) /\ UNCHANGED <<running, done>>

Push ==
  /\ At("push")
  /\ IF cpu.i < MAX THEN Goto("push", cpu.i + 1) ELSE Goto("yield", cpu.i)
  /\ UNCHANGED <<running, done>>

(* Slip: the context of the process that goes on is overwritten. *)
YieldToSelf ==
  /\ At("yield")
  /\ Swapcontext(Proc[3 - running], Proc[running], "return")
  /\ running' = 3 - running
  /\ UNCHANGED done

Yield ==
  /\ At("yield")
  /\ Swapcontext(Proc[running], Proc[3 - running], "return")
  /\ running' = 3 - running
  /\ UNCHANGED done

(* push(p, i) returns, into the pop of its caller or out of the context.   *)
Pop ==
  /\ At("return")
  /\ IF cpu.i > 1 THEN Goto("return", cpu.i - 1) ELSE UcLink("done")
  /\ UNCHANGED <<running, done>>

(* Slip: running is not changed, so that the wrong process is marked.      *)
DoneKeepsRunning ==
  /\ At("done")
  /\ done' = done \cup {running}
  /\ IF 3 - running \in done THEN Goto("terminating", 1)
     ELSE Swapcontext("done", Proc[3 - running], "done")
  /\ UNCHANGED running

(* One turn of done's loop: mark the process that ended and switch to the  *)
(* other, or leave when both have.                                         *)
Done ==
  /\ At("done")
  /\ done' = done \cup {running}
  /\ IF 3 - running \in done THEN Goto("terminating", 1) /\ UNCHANGED running
     ELSE Swapcontext("done", Proc[3 - running], "done") /\ running' = 3 - running

DoneTerminates == At("terminating") /\ UcLink("main") /\ UNCHANGED <<running, done>>

-----------------------------------------------------------------------------
(* switch.c; context two is saved and nobody resumes it.                   *)

Getcontext ==
  /\ At("populate")
  /\ cntx' = [cntx EXCEPT !["one"] = [cpu EXCEPT !.at = "hello"]]
  /\ cpu' = [cpu EXCEPT !.at = "hello"]
  /\ UNCHANGED <<running, done>>

Hello ==
  /\ At("hello")
  /\ IF done = {} THEN done' = {1} /\ Swapcontext("two", "one", "complete")
     ELSE Goto("end", 1) /\ UNCHANGED done
  /\ UNCHANGED running

CNext ==
  \/ LetsGo \/ Folks \/ Push \/ Yield \/ Pop \/ Done \/ DoneTerminates
  \/ Getcontext \/ Hello
  \/ cpu.at = "end" /\ UNCHANGED contextVars

(* The process executes until it ends. *)
CSpec == CInit /\ [][CNext]_contextVars /\ WF_contextVars(CNext)

-----------------------------------------------------------------------------
Depth == IF MAX > 1 THEN MAX ELSE 1

(* While a process of yield.c executes, running is its number; the other   *)
(* one is parked on its own stack, not begun or at the top of its pushes,  *)
(* or has ended for good.  done's context is main's only way back, and     *)
(* main goes on when both processes have ended.                            *)
RightContext ==
  example = "yield" =>
    /\ \A p \in {1, 2} : cpu.stk = Proc[p] => running = p /\ p \notin done
    /\ \A p \in {1, 2} \ done : LET c == cntx[Proc[p]] IN
         cpu.stk # Proc[p] =>
           /\ c.stk = Proc[p]
           /\ <<c.at, c.i>> \in {<<"push", 1>>, <<"return", Depth>>}
    /\ cpu.stk # "main" => cntx["main"] = Position("main", "folks")
    /\ cpu.at \in {"terminating", "folks", "end"} => done = {1, 2}

(* Both programs end: the pushes are all popped and main regains control,  *)
(* and switch.c jumps back only once.                                      *)
ContextsEnd == <>(cpu = Position("main", "end"))
=============================================================================
