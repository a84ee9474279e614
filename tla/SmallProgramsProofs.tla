------------------------- MODULE SmallProgramsProofs -------------------------
(* The programs of contexts-assignment for any depth of the recursion, and *)
(* those of hellodolly-assignment: what holds in each reachable state.     *)
EXTENDS SmallPrograms, TLAPS

-----------------------------------------------------------------------------
(* yield.c *)

Stacks == {"one", "two", "done", "main"}

Points == {"start", "folks", "end", "push", "yield", "return", "done", "terminating",
           "populate", "hello", "complete"}

Positions == [stk : Stacks, at : Points, i : 1 .. Depth]

(* The process p has not begun, or is where it will return from its yield. *)
Fresh(p) == cntx[Proc[p]] = Position(Proc[p], "push")

Parked(p) == cntx[Proc[p]] = [stk |-> Proc[p], at |-> "return", i |-> Depth]

Ways == cntx["done"] = Position("done", "done") /\ cntx["main"] = Position("main", "folks")

(* The program goes through these phases.                                  *)
Start ==
  /\ cpu = Position("main", "start") /\ cntx["done"] = Position("done", "done")
  /\ running = 1 /\ done = {} /\ Fresh(1) /\ Fresh(2)

Descending ==
  /\ cpu.stk = Proc[running] /\ cpu.at \in {"push", "yield"} /\ done = {} /\ Ways
  /\ cpu.at = "yield" => cpu.i = Depth
  /\ Fresh(3 - running) \/ Parked(3 - running)

Returning ==
  /\ cpu.stk = Proc[running] /\ cpu.at = "return" /\ running \notin done /\ Ways
  /\ Parked(1) /\ Parked(2)

Ending ==
  /\ cpu = Position("done", "done") /\ running \notin done /\ Ways
  /\ Parked(1) /\ Parked(2)

Ended ==
  /\ done = {1, 2}
  /\ \/ cpu = Position("done", "terminating") /\ Ways
     \/ cpu.stk = "main" /\ cpu.at \in {"folks", "end"}

ContextInv ==
  /\ cpu \in Positions /\ cntx \in [Stacks -> Positions]
  /\ running \in {1, 2} /\ done \subseteq {1, 2}
  /\ example \in {"yield", "switch"}
  /\ example = "yield" => Start \/ Descending \/ Returning \/ Ending \/ Ended
  /\ example = "switch" =>
       \/ cpu.at \in {"populate", "end"}
       \/ cpu.at = "hello" /\ cntx["one"].at = "hello"

(* The depth the recursion reaches is a number, and not 0. *)
LEMMA DepthIsPositive ==
  /\ Depth \in Nat \ {0} /\ MAX \in Nat
  /\ \A i \in 1 .. Depth : IF i < MAX THEN i + 1 \in 1 .. Depth ELSE i = Depth
  /\ \A stk \in Stacks, pt \in Points : Position(stk, pt) \in Positions
<1>1. /\ Depth \in Nat \ {0} /\ MAX \in Nat
      /\ \A i \in 1 .. Depth : IF i < MAX THEN i + 1 \in 1 .. Depth ELSE i = Depth
  BY ContextsAssumption DEF Depth
<1> QED
  BY <1>1 DEF Position, Positions

(* Both programs start in the invariant. *)
LEMMA ContextInit == CInit => ContextInv
<1> SUFFICES ASSUME CInit PROVE ContextInv
  OBVIOUS
<1>1. /\ cpu \in Positions /\ cntx \in [Stacks -> Positions]
      /\ example \in {"yield", "switch"}
  BY ContextsAssumption, DepthIsPositive DEF CInit, Stacks, Points
<1>2. Proc[1] = "one" /\ Proc[2] = "two"
  BY DEF Proc
<1> QED
  BY <1>1, <1>2 DEF CInit, ContextInv, Start, Fresh, Position

(* The point the processor is at tells the phase. *)
LEMMA PhaseOf ==
  ASSUME ContextInv
  PROVE  /\ cpu.at = "start" => example = "yield" /\ Start
         /\ cpu.at \in {"push", "yield"} => example = "yield" /\ Descending
         /\ cpu.at = "return" => example = "yield" /\ Returning
         /\ cpu.at = "done" => example = "yield" /\ Ending
         /\ cpu.at \in {"terminating", "folks"} => example = "yield" /\ Ended
         /\ cpu.at = "terminating" => Ways
         /\ cpu.at = "folks" => cpu.stk = "main"
         /\ cpu.at \in {"populate", "hello"} => example = "switch"
<1>1. Start => cpu.at = "start"
  BY DEF Start, Position
<1>2. Descending => cpu.at \in {"push", "yield"}
  BY DEF Descending
<1>3. Returning => cpu.at = "return"
  BY DEF Returning
<1>4. Ending => cpu.at = "done"
  BY DEF Ending, Position
<1>5. Ended => \/ cpu.at = "terminating" /\ Ways
               \/ cpu.at \in {"folks", "end"} /\ cpu.stk = "main"
  BY DEF Ended, Position
<1> QED
  BY <1>1, <1>2, <1>3, <1>4, <1>5 DEF ContextInv

(* The processor goes on at another point of the same stack. *)
LEMMA Moved ==
  ASSUME cpu \in Positions, NEW pt \in Points, NEW i \in 1 .. Depth, Goto(pt, i)
  PROVE  /\ cpu' = [stk |-> cpu.stk, at |-> pt, i |-> i]
         /\ cpu' \in Positions /\ cntx' = cntx
<1>1. cpu' = [cpu EXCEPT !.at = pt, !.i = i] /\ cntx' = cntx
  BY DEF Goto
<1> QED
  BY <1>1 DEF Positions

(* It goes on in another context and leaves what it did in its own. *)
LEMMA Switched ==
  ASSUME cpu \in Positions, cntx \in [Stacks -> Positions], NEW from \in Stacks,
         NEW to \in Stacks \ {from}, NEW pt \in Points, Swapcontext(from, to, pt)
  PROVE  /\ cntx'[from] = [stk |-> cpu.stk, at |-> pt, i |-> cpu.i]
         /\ \A c \in Stacks \ {from} : cntx'[c] = cntx[c]
         /\ cpu' = cntx[to]
         /\ cpu' \in Positions /\ cntx' \in [Stacks -> Positions]
<1>1. /\ cntx' = [cntx EXCEPT ![from] = [cpu EXCEPT !.at = pt]]
      /\ cpu' = cntx'[to]
  BY DEF Swapcontext
<1>2. [cpu EXCEPT !.at = pt] = [stk |-> cpu.stk, at |-> pt, i |-> cpu.i]
  BY DEF Positions
<1>3. [cpu EXCEPT !.at = pt] \in Positions
  BY <1>2 DEF Positions
<1> QED
  BY <1>1, <1>2, <1>3

(* Every step of both programs keeps it. *)
LEMMA ContextStep ==
  ASSUME ContextInv, CNext
  PROVE  ContextInv'
<1> DEFINE p == running
           q == 3 - running
<1>1. /\ (p = 1 /\ q = 2) \/ (p = 2 /\ q = 1)
      /\ Proc[1] = "one" /\ Proc[2] = "two"
      /\ Proc[p] \in Stacks \ {"done", "main"} /\ Proc[q] \in Stacks \ {Proc[p], "done", "main"}
      /\ {"done", "main", "one", "two"} \subseteq Stacks
  BY DEF Proc, ContextInv, Stacks
<1>2. /\ cpu \in Positions /\ cntx \in [Stacks -> Positions]
      /\ \A stk \in Stacks, pt \in Points : Position(stk, pt) \in Positions
      /\ 1 \in 1 .. Depth /\ cpu.i \in 1 .. Depth
      /\ \A i \in 1 .. Depth : IF i < MAX THEN i + 1 \in 1 .. Depth ELSE i = Depth
      /\ \A i \in 1 .. Depth : i > 1 => i - 1 \in 1 .. Depth
  <2>1. cpu.i \in 1 .. Depth
    BY DEF ContextInv, Positions
  <2> QED
    BY <2>1, DepthIsPositive DEF ContextInv
<1>3. CASE LetsGo
  <2>1. example = "yield" /\ Start
    BY PhaseOf, <1>3 DEF LetsGo, At
  <2>2. Swapcontext("main", "one", "folks") /\ UNCHANGED <<running, done, example>>
    BY <1>3 DEF LetsGo, At
  <2>3. cpu.stk = "main" /\ cpu.i = 1
    BY <2>1 DEF Start, Position
  <2>4. /\ cntx'["main"] = Position("main", "folks")
        /\ \A c \in Stacks \ {"main"} : cntx'[c] = cntx[c]
        /\ cpu' = cntx["one"]
        /\ cpu' \in Positions /\ cntx' \in [Stacks -> Positions]
    BY <1>1, <1>2, <2>2, <2>3, Switched DEF Points, Position
  <2>5. cpu' = Position("one", "push")
    BY <1>1, <2>1, <2>4 DEF Start, Fresh
  <2>6. Descending'
    BY <1>1, <2>1, <2>2, <2>4, <2>5 DEF Start, Descending, Ways, Fresh, Position
  <2> QED
    BY <2>1, <2>2, <2>4, <2>6 DEF ContextInv
<1>4. CASE Folks
  <2>1. example = "yield" /\ Ended /\ cpu.stk = "main"
    BY PhaseOf, <1>4 DEF Folks, At
  <2>2. cpu' = [stk |-> "main", at |-> "end", i |-> 1] /\ cntx' = cntx
    BY <1>2, <1>4, <2>1, Moved DEF Folks, Points
  <2>3. cpu' \in Positions
    BY <1>2, <1>4, Moved DEF Folks, Points
  <2> QED
    BY <1>2, <1>4, <2>1, <2>2, <2>3 DEF ContextInv, Folks, At, Ended
<1>5. CASE Push
  <2>1. example = "yield" /\ Descending
    BY PhaseOf, <1>5 DEF Push, At
  <2>2. /\ cntx' = cntx /\ cpu'.stk = cpu.stk /\ cpu' \in Positions
        /\ cpu'.at \in {"push", "yield"} /\ (cpu'.at = "yield" => cpu'.i = Depth)
    <3>1. CASE cpu.i < MAX
      <4>1. Goto("push", cpu.i + 1) /\ cpu.i + 1 \in 1 .. Depth
        BY <1>2, <1>5, <3>1 DEF Push
      <4> QED
        BY <1>2, <4>1, Moved DEF Points
    <3>2. CASE ~(cpu.i < MAX)
      <4>1. Goto("yield", cpu.i) /\ cpu.i = Depth
        BY <1>2, <1>5, <3>2 DEF Push
      <4> QED
        BY <1>2, <4>1, Moved DEF Points
    <3> QED
      BY <3>1, <3>2
  <2>3. Descending'
    BY <1>5, <2>1, <2>2 DEF Descending, Push, Ways, Fresh, Parked
  <2> QED
    BY <1>2, <1>5, <2>1, <2>2, <2>3 DEF ContextInv, Push, At
<1>6. CASE Yield
  <2>1. example = "yield" /\ Descending /\ cpu.i = Depth
    BY PhaseOf, <1>6 DEF Yield, At, Descending
  <2>2. /\ Swapcontext(Proc[p], Proc[q], "return")
        /\ running' = q /\ UNCHANGED <<done, example>>
    BY <1>6 DEF Yield, At
  <2>3. /\ cntx'[Proc[p]] = [stk |-> Proc[p], at |-> "return", i |-> Depth]
        /\ \A c \in Stacks \ {Proc[p]} : cntx'[c] = cntx[c]
        /\ cpu' = cntx[Proc[q]]
        /\ cpu' \in Positions /\ cntx' \in [Stacks -> Positions]
    <3>1. cpu.stk = Proc[p]
      BY <2>1 DEF Descending
    <3> HIDE DEF p, q
    <3> QED
      BY <1>1, <1>2, <2>1, <2>2, <3>1, Switched DEF Points
  <2>4. Ways' /\ cntx'[Proc[q]] = cntx[Proc[q]]
    BY <1>1, <2>1, <2>3 DEF Ways, Descending
  <2>5. CASE Fresh(q)
    <3>1. cpu' = Position(Proc[q], "push")
      BY <2>3, <2>5 DEF Fresh
    <3>2. Descending'
      BY <1>1, <2>1, <2>2, <2>3, <2>4, <3>1 DEF Descending, Position, Parked
    <3> QED
      BY <1>1, <2>1, <2>2, <2>3, <3>2 DEF ContextInv
  <2>6. CASE Parked(q)
    <3>1. /\ cpu' = [stk |-> Proc[q], at |-> "return", i |-> Depth]
          /\ cntx'[Proc[q]] = [stk |-> Proc[q], at |-> "return", i |-> Depth]
      BY <2>3, <2>4, <2>6 DEF Parked
    <3>2. Parked(1)' /\ Parked(2)'
      BY <1>1, <2>3, <3>1 DEF Parked
    <3>3. Returning'
      BY <2>1, <2>2, <2>4, <3>1, <3>2 DEF Returning, Descending
    <3> QED
      BY <1>1, <2>1, <2>2, <2>3, <3>3 DEF ContextInv
  <2> QED
    BY <2>1, <2>5, <2>6 DEF Descending
<1>7. CASE Pop
  <2>1. example = "yield" /\ Returning
    BY PhaseOf, <1>7 DEF Pop, At
  <2>2. cntx' = cntx /\ UNCHANGED <<running, done, example>>
    BY <1>7 DEF Pop, Goto, UcLink, At
  <2>3. CASE cpu.i > 1
    <3>1. cpu'.stk = cpu.stk /\ cpu'.at = "return" /\ cpu' \in Positions
      <4>1. Goto("return", cpu.i - 1) /\ cpu.i - 1 \in 1 .. Depth
        BY <1>2, <1>7, <2>3 DEF Pop
      <4> QED
        BY <1>2, <4>1, Moved DEF Points
    <3>2. Returning'
      BY <2>1, <2>2, <3>1 DEF Returning, Ways, Parked
    <3> QED
      BY <1>2, <2>1, <2>2, <3>1, <3>2 DEF ContextInv
  <2>4. CASE ~(cpu.i > 1)
    <3>1. cpu' = Position("done", "done")
      BY <1>7, <2>1, <2>4 DEF Pop, UcLink, Returning, Ways
    <3>2. Ending'
      BY <2>1, <2>2, <3>1 DEF Returning, Ending, Ways, Parked
    <3> QED
      BY <1>1, <1>2, <2>1, <2>2, <3>1, <3>2 DEF ContextInv, Points
  <2> QED
    BY <2>3, <2>4
<1>8. CASE Done
  <2>1. example = "yield" /\ Ending
    BY PhaseOf, <1>8 DEF Done, At
  <2>2. done' = done \cup {running} /\ example' = example
    BY <1>8 DEF Done, At
  <2>3. CASE 3 - running \in done
    <3>1. done' = {1, 2}
      BY <1>1, <2>2, <2>3 DEF ContextInv
    <3>2. cpu' = Position("done", "terminating") /\ UNCHANGED <<cntx, running>>
      BY <1>8, <2>1, <2>3 DEF Done, Goto, Ending, Position
    <3>3. Ended'
      BY <2>1, <3>1, <3>2 DEF Ended, Ending, Ways
    <3> QED
      BY <1>1, <1>2, <2>1, <2>2, <3>1, <3>2, <3>3 DEF ContextInv, Points
  <2>4. CASE 3 - running \notin done
    <3>1. /\ cpu' = [stk |-> Proc[3 - running], at |-> "return", i |-> Depth]
          /\ cntx' = [cntx EXCEPT !["done"] = Position("done", "done")]
          /\ running' = 3 - running
      BY <1>1, <1>2, <1>8, <2>1, <2>4 DEF Done, Swapcontext, Ending, Parked, Position, Stacks
    <3>2. cntx' = cntx
      BY <1>2, <2>1, <3>1 DEF Ending, Ways, Stacks
    <3>3. running' \notin done'
      BY <1>1, <2>2, <2>4, <3>1
    <3>4. Returning'
      BY <2>1, <3>1, <3>2, <3>3 DEF Returning, Ending, Ways, Parked
    <3>5. cpu' \in Positions
      BY <1>1, <1>2, <3>1, DepthIsPositive DEF Positions, Points
    <3>6. done' \subseteq {1, 2}
      BY <1>1, <2>2 DEF ContextInv
    <3> QED
      BY <1>1, <1>2, <2>1, <2>2, <3>1, <3>2, <3>4, <3>5, <3>6 DEF ContextInv
  <2> QED
    BY <2>3, <2>4
<1>9. CASE DoneTerminates
  <2>1. example = "yield" /\ Ended /\ Ways
    BY PhaseOf, <1>9 DEF DoneTerminates, At
  <2>2. cpu' = Position("main", "folks") /\ UNCHANGED <<cntx, running, done, example>>
    BY <1>9, <2>1 DEF DoneTerminates, At, UcLink, Ways
  <2>3. Ended'
    BY <2>1, <2>2 DEF Ended, Position
  <2> QED
    BY <1>1, <1>2, <2>1, <2>2, <2>3 DEF ContextInv, Points
<1>10. CASE Getcontext
  <2>1. example = "switch" /\ UNCHANGED <<running, done, example>>
    BY PhaseOf, <1>10 DEF Getcontext, At
  <2>2. /\ cpu' = [cpu EXCEPT !.at = "hello"]
        /\ cntx' = [cntx EXCEPT !["one"] = [cpu EXCEPT !.at = "hello"]]
    BY <1>10 DEF Getcontext
  <2>3. [cpu EXCEPT !.at = "hello"] \in Positions /\ [cpu EXCEPT !.at = "hello"].at = "hello"
    BY <1>2 DEF Positions, Points
  <2>4. /\ cpu' \in Positions /\ cntx' \in [Stacks -> Positions]
        /\ cpu'.at = "hello" /\ cntx'["one"].at = "hello"
    BY <1>1, <1>2, <2>2, <2>3
  <2> QED
    BY <2>1, <2>4 DEF ContextInv
<1>12. CASE Hello
  <2>1. example = "switch" /\ UNCHANGED <<running, example>> /\ cntx["one"].at = "hello"
    BY PhaseOf, <1>12 DEF Hello, At, ContextInv
  <2>2. CASE done = {}
    <3>1. done' = {1} /\ Swapcontext("two", "one", "complete")
      BY <1>12, <2>2 DEF Hello
    <3>2. /\ cpu' = cntx["one"] /\ cntx'["one"] = cntx["one"]
          /\ cpu' \in Positions /\ cntx' \in [Stacks -> Positions]
      BY <1>1, <1>2, <3>1, Switched DEF Points
    <3> QED
      BY <2>1, <3>1, <3>2 DEF ContextInv
  <2>3. CASE done # {}
    <3>1. done' = done /\ Goto("end", 1)
      BY <1>12, <2>3 DEF Hello
    <3>2. cpu'.at = "end" /\ cpu' \in Positions /\ cntx' = cntx
      BY <1>2, <3>1, Moved DEF Points
    <3> QED
      BY <1>2, <2>1, <3>1, <3>2 DEF ContextInv
  <2> QED
    BY <2>2, <2>3
<1>11. CASE UNCHANGED contextVars
  BY <1>11 DEF ContextInv, contextVars, Start, Descending, Returning, Ending, Ended, Fresh,
     Parked, Ways
<1> QED
  BY <1>3, <1>4, <1>5, <1>6, <1>7, <1>8, <1>9, <1>10, <1>11, <1>12 DEF CNext

(* yield.c hands its contexts over as it should for any depth of the       *)
(* recursion: running is the process that executes, the other is parked or *)
(* has ended, and main goes on when both have.                             *)
THEOREM ContextsAreRight == SmallSpec => []RightContext
<1>1. SmallInit => ContextInv
  BY ContextInit DEF SmallInit
<1>2. ContextInv /\ [SmallNext]_smallVars => ContextInv'
  <2>1. ContextInv /\ UNCHANGED contextVars => ContextInv'
    BY DEF ContextInv, contextVars, Start, Descending, Returning, Ending, Ended, Fresh,
       Parked, Ways
  <2> QED
    BY <2>1, ContextStep DEF SmallNext, smallVars
<1>3. ContextInv => RightContext
  <2> SUFFICES ASSUME ContextInv, example = "yield" PROVE RightContext
    BY DEF RightContext
  <2>1. /\ Proc[1] = "one" /\ Proc[2] = "two" /\ running \in {1, 2}
        /\ (running = 1 /\ 3 - running = 2) \/ (running = 2 /\ 3 - running = 1)
    BY DEF Proc, ContextInv
  <2>2. CASE Start
    BY <2>1, <2>2 DEF RightContext, Start, Fresh, Position
  <2>3. CASE Descending
    BY <2>1, <2>3 DEF RightContext, Descending, Fresh, Parked, Ways, Position
  <2>4. CASE Returning
    BY <2>1, <2>4 DEF RightContext, Returning, Parked, Ways
  <2>5. CASE Ending
    BY <2>1, <2>5 DEF RightContext, Ending, Parked, Ways, Position
  <2>6. CASE Ended
    BY <2>1, <2>6 DEF RightContext, Ended, Ways, Position
  <2> QED
    BY <2>2, <2>3, <2>4, <2>5, <2>6 DEF ContextInv
<1> QED
  BY <1>1, <1>2, <1>3, PTL DEF SmallSpec

-----------------------------------------------------------------------------
(* The programs of hellodolly-assignment *)

Statements == {"fork", "print", "wait", "were done", "open", "dup2", "exec", "exit"}

States == {"none", "running", "zombie", "gone"}

ProcessTypes ==
  /\ command \in {"fork", "dolly", "orphan", "transform", "jango"}
  /\ at \in [Procs -> Statements]
  /\ state \in [Procs -> States]
  /\ parent \in [Procs -> {"shell", "mom", "reaper"}]
  /\ stdout \in [Procs -> {"terminal", "quotes.txt"}]
  /\ fd \in {"quotes.txt", "none"}

(* A running mother is the one who collects her child, which there is only *)
(* after fork, and a program in which she tells at once tells before she   *)
(* waits.                                                                  *)
Motherhood ==
  /\ state["mom"] # "none" /\ parent["mom"] = "shell"
  /\ state["child"] \in {"running", "zombie"} /\ state["mom"] = "running"
       => parent["child"] = "mom"
  /\ at["mom"] = "fork" => state["child"] = "none" /\ state["mom"] = "running"
  /\ at["mom"] = "print" => command \in {"fork", "dolly", "orphan"}

(* The child of jango.c writes once, after dup2, and its mother never;     *)
(* elsewhere nothing is opened and file descriptor 1 stays the terminal.   *)
Writes ==
  /\ stdout["mom"] = "terminal" /\ Redirected
  /\ command # "jango" =>
       /\ at["child"] \notin {"open", "dup2"}
       /\ fd = "none" /\ stdout["child"] = "terminal"
  /\ command = "jango" =>
       /\ at["mom"] \in {"fork", "wait", "exit"}
       /\ at["mom"] = "fork" => at["child"] = "fork"
       /\ at["child"] \in {"fork", "open", "dup2", "exec", "exit"}
       /\ at["child"] # "exit" => written = {}
       /\ at["child"] \in {"fork", "open"} => fd = "none"
       /\ stdout["child"] = IF at["child"] \in {"exec", "exit"} /\ fd = "quotes.txt"
                             THEN "quotes.txt" ELSE "terminal"

ProcessInv == ProcessTypes /\ Motherhood /\ MomIsLast /\ Writes

(* The programs start in the invariant. *)
LEMMA ProcessInit == PInit => ProcessInv
BY CommandsAssumption DEF PInit, ProcessInv, ProcessTypes, Motherhood, MomIsLast, Writes, Redirected,
   Procs, Statements, States

(* The child has begun and both go on, or fork failed and mom goes on.     *)
LEMMA Forked ==
  ASSUME ProcessTypes, Fork
  PROVE  /\ at["mom"] = "fork" /\ state["mom"] = "running" /\ UNCHANGED <<command, fd, written>>
         /\ at' \in [Procs -> Statements] /\ at'["mom"] = MomGoes
         /\ \/ /\ at'["child"] = ChildGoes
               /\ state' = [state EXCEPT !["child"] = "running"]
               /\ parent' = [parent EXCEPT !["child"] = "mom"]
               /\ stdout' = [stdout EXCEPT !["child"] = stdout["mom"]]
            \/ at'["child"] = at["child"] /\ UNCHANGED <<state, parent, stdout>>
<1>1. MomGoes \in Statements /\ ChildGoes \in Statements
  BY DEF MomGoes, ChildGoes, Statements
<1>2. at \in [Procs -> Statements]
  BY DEF ProcessTypes
<1>3. CASE at' = [mom |-> MomGoes, child |-> ChildGoes]
  BY <1>1, <1>3 DEF Fork, From, Go, Procs
<1>4. CASE Go("mom", MomGoes)
  <2>1. at' = [at EXCEPT !["mom"] = MomGoes]
    BY <1>4 DEF Go
  <2> HIDE DEF MomGoes
  <2>2. at' \in [Procs -> Statements] /\ at'["mom"] = MomGoes /\ at'["child"] = at["child"]
    BY <1>1, <1>2, <2>1 DEF Procs
  <2>3. at' # [mom |-> MomGoes, child |-> ChildGoes] \/ at'["child"] = ChildGoes
    OBVIOUS
  <2> QED
    BY <2>2, <2>3 DEF Fork, From
<1> QED
  BY <1>3, <1>4 DEF Fork

(* The types are kept. *)
LEMMA ProcessTypesKept == ASSUME ProcessTypes, PNext PROVE ProcessTypes'
<1>1. \A p \in Procs : \A to \in Statements : Go(p, to) => at' \in [Procs -> Statements]
  BY DEF ProcessTypes, Go
<1>2. /\ {"wait", "exit", "were done", "dup2", "exec"} \subseteq Statements
      /\ AfterWait \in Statements
      /\ {"mom", "child"} = Procs
  BY DEF Statements, AfterWait, Procs
<1>3. \A p \in Procs : /\ [state EXCEPT ![p] = "running"] \in [Procs -> States]
                        /\ [state EXCEPT ![p] = "zombie"] \in [Procs -> States]
                        /\ [state EXCEPT ![p] = "gone"] \in [Procs -> States]
  BY DEF ProcessTypes, States
<1>4. ASSUME NEW p \in Procs, Say(p) PROVE ProcessTypes'
  <2>1. at' \in [Procs -> Statements]
    BY <1>1, <1>2, <1>4 DEF Say, AfterPrint
  <2> QED
    BY <1>4, <2>1 DEF Say, From, ProcessTypes
<1>5. ASSUME NEW p \in Procs, Wait(p) PROVE ProcessTypes'
  <2>1. at' \in [Procs -> Statements]
    BY <1>1, <1>2, <1>5 DEF Wait
  <2>2. state' \in [Procs -> States]
    BY <1>3, <1>5 DEF Wait, Children, ProcessTypes
  <2> QED
    BY <1>5, <2>1, <2>2 DEF Wait, From, ProcessTypes
<1>6. ASSUME NEW p \in Procs, Exit(p) PROVE ProcessTypes'
  <2>1. state' \in [Procs -> States]
    BY <1>3, <1>6 DEF Exit
  <2>2. parent' \in [Procs -> {"shell", "mom", "reaper"}]
    BY <1>6 DEF Exit, ProcessTypes
  <2> QED
    BY <1>6, <2>1, <2>2 DEF Exit, From, ProcessTypes
<1>7. ASSUME Fork PROVE ProcessTypes'
  <2>1. CASE UNCHANGED <<state, parent, stdout>>
    BY <1>7, <2>1, Forked DEF ProcessTypes
  <2>2. CASE /\ state' = [state EXCEPT !["child"] = "running"]
             /\ parent' = [parent EXCEPT !["child"] = "mom"]
             /\ stdout' = [stdout EXCEPT !["child"] = stdout["mom"]]
    <3>1. state' \in [Procs -> States]
      BY <1>2, <1>3, <2>2
    <3>2. /\ parent' \in [Procs -> {"shell", "mom", "reaper"}]
          /\ stdout' \in [Procs -> {"terminal", "quotes.txt"}]
      BY <1>2, <2>2 DEF ProcessTypes
    <3> QED
      BY <1>7, <3>1, <3>2, Forked DEF ProcessTypes
  <2> QED
    BY <1>7, <2>1, <2>2, Forked
<1>8. ASSUME WereDone \/ Open \/ Dup2 \/ Exec PROVE ProcessTypes'
  <2>1. at' \in [Procs -> Statements]
    BY <1>1, <1>2, <1>8 DEF WereDone, Open, Dup2, Exec
  <2>2. stdout' \in [Procs -> {"terminal", "quotes.txt"}]
    BY <1>8 DEF WereDone, Open, Dup2, Exec, ProcessTypes
  <2> QED
    BY <1>8, <2>1, <2>2 DEF WereDone, Open, Dup2, Exec, From, ProcessTypes
<1>9. ASSUME NEW p \in Procs, Reap(p) PROVE ProcessTypes'
  <2>1. state' \in [Procs -> States]
    BY <1>3, <1>9 DEF Reap
  <2> QED
    BY <1>9, <2>1 DEF Reap, ProcessTypes
<1>10. UNCHANGED processVars => ProcessTypes'
  BY DEF processVars, ProcessTypes
<1> QED
  BY <1>4, <1>5, <1>6, <1>7, <1>8, <1>9, <1>10 DEF PNext, Statement

(* A mother keeps her child, and ends after it where she waits. *)
LEMMA MotherhoodKept ==
  ASSUME ProcessTypes, Motherhood, MomIsLast, PNext
  PROVE  Motherhood' /\ MomIsLast'
<1>1. \A p \in Procs : Say(p) => Motherhood' /\ MomIsLast'
  BY DEF Say, AfterPrint, From, Go, Motherhood, MomIsLast, ProcessTypes, Procs
<1>2. \A p \in Procs : Wait(p) => Motherhood' /\ MomIsLast'
  <2> SUFFICES ASSUME NEW p \in Procs, Wait(p) PROVE Motherhood' /\ MomIsLast'
    OBVIOUS
  <2>1. Children("child") = {} /\ Children("mom") \subseteq {"child"}
    BY DEF Children, Procs, Motherhood, ProcessTypes
  <2>2. CASE p = "mom"
    <3>1. /\ at' = [at EXCEPT !["mom"] = AfterWait] /\ AfterWait \in {"were done", "exit"}
          /\ state["mom"] = "running" /\ at["mom"] = "wait" /\ UNCHANGED <<command, parent>>
      BY <2>2 DEF Wait, From, Go, AfterWait
    <3>2. \/ state["child"] \notin {"running", "zombie"} /\ state' = state
          \/ state' = [state EXCEPT !["child"] = "gone"]
      <4>1. \/ Children("mom") = {} /\ state' = state
            \/ \E q \in Children("mom") :
                 state[q] = "zombie" /\ state' = [state EXCEPT ![q] = "gone"]
        BY <2>2 DEF Wait
      <4>2. Children("mom") = {} => state["child"] \notin {"running", "zombie"}
        BY <3>1 DEF Children, Motherhood, Procs
      <4> QED
        BY <2>1, <4>1, <4>2
    <3>3. /\ state'["mom"] = "running" /\ state'["child"] \in {"none", "gone"}
          /\ at'["mom"] \in {"were done", "exit"}
      BY <3>1, <3>2 DEF ProcessTypes, Procs, States
    <3> QED
      BY <3>1, <3>3 DEF Motherhood, MomIsLast
  <2>3. CASE p = "child"
    BY <2>1, <2>3 DEF Wait, From, Go, Motherhood, MomIsLast, ProcessTypes, Procs
  <2> QED
    BY <2>2, <2>3 DEF Procs
<1>3. \A p \in Procs : Exit(p) => Motherhood' /\ MomIsLast'
  BY DEF Exit, From, Motherhood, MomIsLast, ProcessTypes, Procs
<1>4. Fork => Motherhood' /\ MomIsLast'
  <2> SUFFICES ASSUME Fork PROVE Motherhood' /\ MomIsLast'
    OBVIOUS
  <2>1. /\ at'["mom"] \in {"print", "wait"} /\ command' = command
        /\ at'["mom"] = "print" => command \in {"fork", "dolly", "orphan"}
    BY Forked DEF MomGoes
  <2>2. /\ state'["mom"] = "running" /\ parent'["mom"] = "shell"
        /\ parent'["child"] = "mom" \/ state'["child"] = "none"
    BY Forked DEF Motherhood, ProcessTypes, Procs
  <2> QED
    BY <2>1, <2>2 DEF Motherhood, MomIsLast
<1>5. WereDone \/ Open \/ Dup2 \/ Exec => Motherhood' /\ MomIsLast'
  BY DEF WereDone, Open, Dup2, Exec, From, Go, Motherhood, MomIsLast, ProcessTypes, Procs
<1>6. \A p \in Procs : Reap(p) => Motherhood' /\ MomIsLast'
  BY DEF Reap, Motherhood, MomIsLast, ProcessTypes, Procs
<1>7. UNCHANGED processVars => Motherhood' /\ MomIsLast'
  BY DEF processVars, Motherhood, MomIsLast
<1> QED
  BY <1>1, <1>2, <1>3, <1>4, <1>5, <1>6, <1>7 DEF PNext, Statement

(* What a process writes goes to its file descriptor 1. *)
LEMMA Written ==
  ASSUME NEW p \in Procs, NEW text \in {"mom", "child", "were done", "new image", "failure"},
         Write(p, text)
  PROVE  \A w \in written' : w \in written \/ w.to = stdout[p]
<1> SUFFICES ASSUME NEW w \in written', w \notin written PROVE w.to = stdout[p]
  OBVIOUS
<1>1. w = [text |-> text, to |-> stdout[p]]
  BY Zenon DEF Write
<1> QED
  BY <1>1

(* All that is written goes where it should. *)
LEMMA WritesKept ==
  ASSUME ProcessTypes, Motherhood, Writes, PNext
  PROVE  Writes'
<1>1. \A p \in Procs : Say(p) => Writes'
  <2> SUFFICES ASSUME NEW p \in Procs, Say(p) PROVE Writes'
    OBVIOUS
  <2>1. command # "jango"
    BY DEF Say, From, Writes, Motherhood, Procs
  <2>2. /\ at' = [at EXCEPT ![p] = AfterPrint(p)] /\ UNCHANGED <<command, stdout, fd>>
        /\ AfterPrint(p) \in {"wait", "exit"}
    BY DEF Say, From, Go, AfterPrint
  <2>3. at'["child"] \notin {"open", "dup2"}
    BY <2>1, <2>2 DEF Writes, ProcessTypes, Procs
  <2>4. \A w \in written' : w \in written \/ w.to = stdout[p]
    BY Written DEF Say, Procs
  <2>5. Redirected'
    BY <2>1, <2>2, <2>4 DEF Redirected, Writes, Procs
  <2> QED
    BY <2>1, <2>2, <2>3, <2>5 DEF Writes
<1>2. \A p \in Procs : Wait(p) => Writes'
  BY DEF Wait, From, Go, AfterWait, Writes, Redirected, ProcessTypes, Procs
<1>3. \A p \in Procs : Exit(p) => Writes'
  BY DEF Exit, From, Writes, Redirected
<1>4. Fork => Writes'
  <2> SUFFICES ASSUME Fork PROVE Writes'
    OBVIOUS
  <2>1. /\ at["mom"] = "fork" /\ UNCHANGED <<command, fd, written>> /\ at'["mom"] = MomGoes
        /\ \/ at'["child"] = ChildGoes /\ stdout' = [stdout EXCEPT !["child"] = stdout["mom"]]
           \/ at'["child"] = at["child"] /\ stdout' = stdout
    BY Forked
  <2>2. stdout'["mom"] = "terminal" /\ Redirected'
    BY <2>1 DEF Writes, Redirected, ProcessTypes, Procs
  <2>3. stdout'["child"] = stdout["child"] \/ stdout'["child"] = "terminal"
    BY <2>1 DEF Writes, ProcessTypes, Procs
  <2>4. command # "jango" => at'["child"] \notin {"open", "dup2"}
    BY <2>1 DEF ChildGoes, Writes
  <2>5. command = "jango" =>
          /\ at'["mom"] = "wait" /\ at'["child"] \in {"fork", "open"}
          /\ written = {} /\ fd = "none" /\ stdout["child"] = "terminal"
    BY <2>1 DEF MomGoes, ChildGoes, Writes
  <2> QED
    BY <2>1, <2>2, <2>3, <2>4, <2>5 DEF Writes
<1>5. WereDone => Writes'
  <2> SUFFICES ASSUME WereDone PROVE Writes'
    OBVIOUS
  <2>1. /\ at["mom"] = "were done" /\ at' = [at EXCEPT !["mom"] = "exit"]
        /\ UNCHANGED <<command, stdout, fd>>
    BY DEF WereDone, From, Go
  <2>2. command # "jango" /\ at'["child"] = at["child"]
    BY <2>1 DEF Writes, ProcessTypes, Procs
  <2>3. \A w \in written' : w \in written \/ w.to = stdout["mom"]
    BY Written DEF WereDone, Procs
  <2>4. Redirected'
    BY <2>1, <2>2, <2>3 DEF Redirected, Writes
  <2> QED
    BY <2>1, <2>2, <2>4 DEF Writes
<1>6. Open => Writes'
  BY DEF Open, From, Go, Writes, Redirected, ProcessTypes, Procs
<1>7. Dup2 => Writes'
  BY DEF Dup2, From, Go, Writes, Redirected, ProcessTypes, Procs
<1>8. Exec => Writes'
  <2> SUFFICES ASSUME Exec PROVE Writes'
    OBVIOUS
  <2>1. /\ at["child"] = "exec" /\ UNCHANGED <<command, stdout, fd>>
        /\ at'["child"] = "exit" /\ at'["mom"] = at["mom"]
    BY DEF Exec, From, Go, ProcessTypes, Procs
  <2>2. \A w \in written' : w \in written \/ w.to = stdout["child"]
    BY Written DEF Exec, Procs
  <2>3. Redirected'
    BY <2>1, <2>2 DEF Redirected, Writes
  <2> QED
    BY <2>1, <2>3 DEF Writes
<1>9. \A p \in Procs : Reap(p) => Writes'
  BY DEF Reap, Writes, Redirected
<1>10. UNCHANGED processVars => Writes'
  BY DEF processVars, Writes, Redirected
<1> QED
  BY <1>1, <1>2, <1>3, <1>4, <1>5, <1>6, <1>7, <1>8, <1>9, <1>10 DEF PNext, Statement

(* Each reachable state of the two processes has the invariant. *)
LEMMA ProcessInvariant == SmallSpec => []ProcessInv
<1>1. SmallInit => ProcessInv
  BY ProcessInit DEF SmallInit
<1>2. ProcessInv /\ [SmallNext]_smallVars => ProcessInv'
  <2>1. ProcessInv /\ UNCHANGED processVars => ProcessInv'
    BY DEF ProcessInv, processVars, ProcessTypes, Motherhood, MomIsLast, Writes, Redirected
  <2>2. ProcessInv /\ PNext => ProcessInv'
    BY ProcessTypesKept, MotherhoodKept, WritesKept DEF ProcessInv
  <2> QED
    BY <2>1, <2>2 DEF SmallNext, smallVars
<1> QED
  BY <1>1, <1>2, PTL DEF SmallSpec

(* A mother that waits ends after her child, in whatever order the two get *)
(* to the wait and to the end.                                             *)
THEOREM WaitIsForTheChild == SmallSpec => []MomIsLast
<1>1. ProcessInv => MomIsLast
  BY DEF ProcessInv
<1> QED
  BY <1>1, ProcessInvariant, PTL

(* The output of jango.c's child goes to quotes.txt if it could be opened, *)
(* and everything else that is written to the terminal.                    *)
THEOREM OutputIsRedirected == SmallSpec => []Redirected
<1>1. ProcessInv => Redirected
  BY DEF ProcessInv, Writes
<1> QED
  BY <1>1, ProcessInvariant, PTL
=============================================================================
