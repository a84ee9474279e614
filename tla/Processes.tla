------------------------------ MODULE Processes ------------------------------
(* The programs of hellodolly-assignment: a process (mom) forks another    *)
(* (child), which may transform itself with exec, and waits for it.        *)
(*   fork.c       both call wait                                           *)
(*   dolly.c      mom waits                                                *)
(*   orphan.c     nobody waits                                             *)
(*   transform.c  the child becomes ls; mom waits and tells                *)
(*   jango.c      the child sends its output to quotes.txt and becomes     *)
(*                boba; mom waits                                          *)
(* The kernel's part is modelled from how the programs use it: fork, open  *)
(* and exec may fail, wait returns at once in a process without children,  *)
(* and an orphan is adopted by a reaper.                                   *)
CONSTANT Commands           \* the programs considered

ASSUME CommandsAssumption ==
  Commands \subseteq {"fork", "dolly", "orphan", "transform", "jango"}

VARIABLES
  command,
  at,         \* the statement each process is at
  state,      \* "none", "running", "zombie" or "gone"
  parent,     \* whose wait collects the process
  stdout,     \* file descriptor 1 of each process
  fd,         \* the child's fd in jango.c: "quotes.txt", or "none" if open failed
  written     \* what has been written, by whom and where to

processVars == <<command, at, state, parent, stdout, fd, written>>

Procs == {"mom", "child"}

PInit ==
  /\ command \in Commands
  /\ at = [p \in Procs |-> "fork"]
  /\ state = [p \in Procs |-> IF p = "mom" THEN "running" ELSE "none"]
  /\ parent = [p \in Procs |-> "shell"]
  /\ stdout = [p \in Procs |-> "terminal"]
  /\ fd = "none"
  /\ written = {}

From(p, point) == state[p] = "running" /\ at[p] = point /\ UNCHANGED command

Go(p, to) == at' = [at EXCEPT ![p] = to]

Write(p, text) == written' = written \cup {[text |-> text, to |-> stdout[p]]}

-----------------------------------------------------------------------------
(* The branches after fork: where mother and child go on.                  *)

MomGoes == IF command \in {"fork", "dolly", "orphan"} THEN "print" ELSE "wait"

ChildGoes ==
  CASE command = "jango" -> "open"
    [] command = "transform" -> "exec"
    [] OTHER -> "print"

(* A fork that fails returns -1, which all programs take for the mother's. *)
Fork ==
  /\ From("mom", "fork")
  /\ \/ /\ at' = [mom |-> MomGoes, child |-> ChildGoes]
        /\ state' = [state EXCEPT !["child"] = "running"]
        /\ parent' = [parent EXCEPT !["child"] = "mom"]
        /\ stdout' = [stdout EXCEPT !["child"] = stdout["mom"]]
     \/ Go("mom", MomGoes) /\ UNCHANGED <<state, parent, stdout>>
  /\ UNCHANGED <<fd, written>>

(* Both wait in fork.c, mom in dolly.c and nobody in orphan.c. *)
AfterPrint(p) ==
  IF command = "fork" \/ (command = "dolly" /\ p = "mom") THEN "wait" ELSE "exit"

Say(p) ==
  /\ From(p, "print")
  /\ Write(p, p)
  /\ Go(p, AfterPrint(p))
  /\ UNCHANGED <<state, parent, stdout, fd>>

Children(p) == {q \in Procs : parent[q] = p /\ state[q] \in {"running", "zombie"}}

AfterWait == IF command = "transform" THEN "were done" ELSE "exit"

(* Slip: mom does not wait. *)
WaitSkipped(p) ==
  /\ From(p, "wait")
  /\ Go(p, AfterWait)
  /\ UNCHANGED <<state, parent, stdout, fd, written>>

Wait(p) ==
  /\ From(p, "wait")
  /\ \/ Children(p) = {} /\ UNCHANGED state
     \/ \E q \in Children(p) :
          state[q] = "zombie" /\ state' = [state EXCEPT ![q] = "gone"]
  /\ Go(p, AfterWait)
  /\ UNCHANGED <<parent, stdout, fd, written>>

WereDone ==
  /\ From("mom", "were done")
  /\ Write("mom", "were done")
  /\ Go("mom", "exit")
  /\ UNCHANGED <<state, parent, stdout, fd>>

-----------------------------------------------------------------------------
(* The child of jango.c and transform.c. *)

Open ==
  /\ From("child", "open")
  /\ fd' \in {"quotes.txt", "none"}
  /\ Go("child", "dup2")
  /\ UNCHANGED <<state, parent, stdout, written>>

(* Slip: dup2(1, fd), which makes the file another name of the terminal. *)
Dup2Reversed ==
  /\ From("child", "dup2")
  /\ Go("child", "exec")
  /\ UNCHANGED <<state, parent, stdout, fd, written>>

(* dup2 of no file changes nothing; close releases the copy. *)
Dup2 ==
  /\ From("child", "dup2")
  /\ stdout' = IF fd = "none" THEN stdout ELSE [stdout EXCEPT !["child"] = fd]
  /\ Go("child", "exec")
  /\ UNCHANGED <<state, parent, fd, written>>

(* boba, or ls, or what the child prints when there is no such program.    *)
Exec ==
  /\ From("child", "exec")
  /\ \/ Write("child", "new image") \/ Write("child", "failure")
  /\ Go("child", "exit")
  /\ UNCHANGED <<state, parent, stdout, fd>>

-----------------------------------------------------------------------------
(* main has returned, and the kernel does the rest: the process is a       *)
(* zombie until its parent waits, and its children are adopted.            *)
Exit(p) ==
  /\ From(p, "exit")
  /\ state' = [state EXCEPT ![p] = "zombie"]
  /\ parent' = [q \in Procs |-> IF parent[q] = p THEN "reaper" ELSE parent[q]]
  /\ UNCHANGED <<at, stdout, fd, written>>

(* The shell and the reaper wait for whatever ends.                        *)
Reap(p) ==
  /\ state[p] = "zombie" /\ parent[p] \in {"shell", "reaper"}
  /\ state' = [state EXCEPT ![p] = "gone"]
  /\ UNCHANGED <<command, at, parent, stdout, fd, written>>

Statement(p) ==
  \/ Say(p) \/ Wait(p) \/ Exit(p)
  \/ p = "mom" /\ (Fork \/ WereDone)
  \/ p = "child" /\ (Open \/ Dup2 \/ Exec)

Collected == \A p \in Procs : state[p] \in {"none", "gone"}

PNext ==
  \/ \E p \in Procs : Statement(p) \/ Reap(p)
  \/ Collected /\ UNCHANGED processVars

-----------------------------------------------------------------------------
(* "wait corresponds to green_join": a mother that waits does not end, nor *)
(* tell that it is done, before its child has ended, whichever comes first *)
(* to the wait or the end.                                                 *)
MomIsLast ==
  command # "orphan" /\ state["child"] # "none"
    /\ (state["mom"] # "running" \/ at["mom"] \in {"were done", "exit"})
  => state["child"] = "gone"

(* "direct all output to file descriptor 1": what boba writes, and what    *)
(* the child says if there is no boba, goes to quotes.txt.  If the file    *)
(* could not be opened it goes to the terminal, as all other output does.  *)
Redirected ==
  \A w \in written :
    w.to = IF command = "jango" /\ fd = "quotes.txt" THEN "quotes.txt" ELSE "terminal"
=============================================================================
