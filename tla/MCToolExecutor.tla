--------------------------- MODULE MCToolExecutor ---------------------------
(***************************************************************************)
(* The way to an external write: the deliberation of a run within its      *)
(* budget, the context it plans and writes from, and the executor with two *)
(* grants over two keys.  They share no state in the models; a behaviour   *)
(* follows one of them.                                                    *)
(***************************************************************************)
EXTENDS ToolExecutor, ActionPlanning, TLC

CONSTANTS e1, e2, g1, g2, k1, k2

VARIABLE part

WritesInit ==
  /\ part \in {"executor", "context", "deliberation"}
  /\ Init /\ PlanningInit

ExecutorPart ==
  /\ part = "executor" /\ Next
  /\ UNCHANGED <<part, planningVars>>

ContextPart ==
  /\ part = "context" /\ ContextNext
  /\ UNCHANGED <<part, vars, deliberationVars>>

DeliberationPart ==
  /\ part = "deliberation" /\ DeliberationNext
  /\ UNCHANGED <<part, vars, contextVars>>

WritesNext == ExecutorPart \/ ContextPart \/ DeliberationPart

WritesSpec == WritesInit /\ [][WritesNext]_<<part, vars, planningVars>>

\* Two executions with one grant each.
ContendedGrants == g1 :> e1 @@ g2 :> e2

KeySymmetry == Permutations(Keys)

mcTextSize == <<<<1, 3>>, <<1>>>>
mcOverlap == <<1, 0>>
mcRevisions == <<2, 1>>
mcRoles == <<"evidence", "linear_research">>

=============================================================================
