---------------------------- MODULE SmallPrograms ----------------------------
(* A program of contexts-assignment and one of hellodolly-assignment,      *)
(* started side by side from one shell: they share nothing, and the        *)
(* scheduler interleaves them.  Fairness: the first one executes.          *)
EXTENDS Contexts, Processes

smallVars == <<contextVars, processVars>>

SmallInit == CInit /\ PInit

SmallNext ==
  \/ CNext /\ UNCHANGED processVars
  \/ PNext /\ UNCHANGED contextVars

SmallSpec == SmallInit /\ [][SmallNext]_smallVars /\ WF_contextVars(CNext)
=============================================================================
