--------------------------- MODULE ActionPlanning ---------------------------
(***************************************************************************)
(* How an Action Run plans: the rounds it may spend its model calls on     *)
(* (Deliberation) and the context it plans and writes from                 *)
(* (MeetingContext).  They share no state; their steps alternate freely.   *)
(***************************************************************************)
EXTENDS MeetingContext, Deliberation

planningVars == <<contextVars, deliberationVars>>

PlanningInit == ContextInit /\ DeliberationInit

PlanningNext ==
  \/ ContextNext /\ UNCHANGED deliberationVars
  \/ DeliberationNext /\ UNCHANGED contextVars

PlanningSpec == PlanningInit /\ [][PlanningNext]_planningVars

\* A run plans within its budgets: the model calls of its rounds are accounted for over
\* every pause, and the context it plans from fits, whatever the meeting adds to it.
PlanningSafe == CallsAccounted /\ ContextBounded

=============================================================================
