----------------------------- MODULE MCProtocols -----------------------------
(***************************************************************************)
(* The components that talk to a peer and must come to an end: the Action  *)
(* Run scheduler, the projector's queue of sessions, the Fast Turn, the    *)
(* RPC peer of a plugin and the meeting panel.  They share no state in the *)
(* models and are checked in one run; a behaviour follows one of them.     *)
(***************************************************************************)
EXTENDS FairSessionQueue, ActionScheduler, FastTurn, RpcPeer, MeetingPanel

CONSTANTS s1, s2, s3, x1, x2, w1, w2

VARIABLE part

protocolVars == <<part, vars, schedulerVars, turnVars, rpcVars, panelVars>>

ProtocolsInit ==
  /\ part \in {"queue", "scheduler", "turn", "rpc", "panel"}
  /\ Init /\ SchedulerInit /\ TurnInit /\ RpcInit /\ PanelInit

Queue(A) ==
  /\ part = "queue" /\ A
  /\ UNCHANGED <<part, schedulerVars, turnVars, rpcVars, panelVars>>

Scheduler(A) ==
  /\ part = "scheduler" /\ A
  /\ UNCHANGED <<part, vars, turnVars, rpcVars, panelVars>>

Turn(A) ==
  /\ part = "turn" /\ A
  /\ UNCHANGED <<part, vars, schedulerVars, rpcVars, panelVars>>

Rpc(A) ==
  /\ part = "rpc" /\ A
  /\ UNCHANGED <<part, vars, schedulerVars, turnVars, panelVars>>

Panel(A) ==
  /\ part = "panel" /\ A
  /\ UNCHANGED <<part, vars, schedulerVars, turnVars, rpcVars>>

ProtocolsNext ==
  \/ Queue(Next) \/ Scheduler(SchedulerNext) \/ Turn(TurnNext)
  \/ Rpc(RpcNext) \/ Panel(PanelNext)

\* The fairness each component states of its own steps.  As a behaviour follows one
\* component, one condition of each can be joined in a disjunction.
ProtocolsFairness ==
  /\ WF_protocolVars(\/ Queue(Get) \/ Scheduler(\E w \in Workers : Take(w))
                     \/ Turn(TurnStep)
                     \/ Rpc(RpcStep) \/ Panel(PluginStep))
  /\ WF_protocolVars(Turn(~accepting /\ TurnCrash) \/ Panel(HostStep))
  /\ \A w \in Workers : WF_protocolVars(Scheduler(WorkerStep(w)))
  /\ \A x \in Ids : WF_protocolVars(Scheduler(Wake(x)))

\* What is answered is answered by the one who was asked: a call of either RPC peer by
\* its own handler, and a question handed over by exactly one Action Run.
AnswersSafe == OwnAnswer /\ HandoffAtomic

ProtocolsSpec == ProtocolsInit /\ [][ProtocolsNext]_protocolVars /\ ProtocolsFairness

=============================================================================
