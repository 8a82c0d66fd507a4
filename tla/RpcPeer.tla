-------------------------------- MODULE RpcPeer --------------------------------
(***************************************************************************)
(* The JSON-RPC connection of the Host (JsonRpcPeer, plugins/rpc.py) to a  *)
(* plugin process (PluginRuntime of the SDK): each side calls the other    *)
(* over a pipe that keeps the order, while its read loop goes on reading.  *)
(* The Host's calls have a timeout; the plugin's capability calls, made    *)
(* while it serves a call of the Host, have none.  Either end may close or *)
(* die at any point, with messages still in the pipes.                     *)
(***************************************************************************)
EXTENDS Naturals, Sequences, FiniteSets

CONSTANTS
  Calls,       \* calls of the Host; each asks for one capability at most
  MaxPending   \* max_pending_requests

VARIABLES
  hostEnd,     \* JsonRpcPeer: "open", "closing" (aclose waits for its writer) or "closed"
  pluginEnd,   \* PluginRuntime: "open" or "closed"
  call,        \* what the caller of request has: "idle", "waiting", "answered", "timed_out", "failed"
  pending,     \* _pending of the Host
  task,        \* the plugin's task for the call: "none", "running", "done", "cancelled"
  capability,  \* the capability call of that task: "none", "waiting", "answered", "failed"
  inbound,     \* the Host's handler of it: "none", "running", "done", "cancelled"
  toPlugin,    \* messages in the plugin's stdin: <<kind, call>>
  toHost       \* messages in its stdout

rpcVars == <<hostEnd, pluginEnd, call, pending, task, capability, inbound, toPlugin, toHost>>

RpcInit ==
  /\ hostEnd = "open" /\ pluginEnd = "open"
  /\ call = [c \in Calls |-> "idle"] /\ pending = {}
  /\ task = [c \in Calls |-> "none"] /\ capability = [c \in Calls |-> "none"]
  /\ inbound = [c \in Calls |-> "none"]
  /\ toPlugin = <<>> /\ toHost = <<>>

\* JsonRpcPeer._send and _require_available: nothing is written after aclose began.
HostSends(kind, c) == toPlugin' = IF hostEnd = "open" THEN Append(toPlugin, <<kind, c>>) ELSE toPlugin

\* PluginRuntime._send
PluginSends(kind, c) == toHost' = IF pluginEnd = "open" THEN Append(toHost, <<kind, c>>) ELSE toHost

-----------------------------------------------------------------------------
\* The Host calls the plugin; a closed peer and a full table refuse.
Request(c) ==
  /\ call[c] = "idle"
  /\ IF hostEnd = "open" /\ Cardinality(pending) < MaxPending
     THEN /\ call' = [call EXCEPT ![c] = "waiting"] /\ pending' = pending \cup {c}
          /\ HostSends("request", c)
     ELSE call' = [call EXCEPT ![c] = "failed"] /\ UNCHANGED <<pending, toPlugin>>
  /\ UNCHANGED <<hostEnd, pluginEnd, task, capability, inbound, toHost>>

\* The timeout of request: the call is forgotten, and the plugin is told.
RequestTimesOut(c) ==
  /\ call[c] = "waiting"
  /\ call' = [call EXCEPT ![c] = "timed_out"] /\ pending' = pending \ {c}
  /\ HostSends("cancel", c)
  /\ UNCHANGED <<hostEnd, pluginEnd, task, capability, inbound, toHost>>

\* PluginRuntime._accept makes a task of a request; it has no handler for rpc.cancel.
PluginAccepts(c) == task' = [task EXCEPT ![c] = "running"]

\* PluginRuntime._accept_response
CapabilityAnswered(c) ==
  capability' = [capability EXCEPT ![c] = IF @ = "waiting" THEN "answered" ELSE @]

\* One round of PluginRuntime.run.
PluginReads ==
  /\ pluginEnd = "open" /\ toPlugin # <<>>
  /\ toPlugin' = Tail(toPlugin)
  /\ LET kind == Head(toPlugin)[1]
         c == Head(toPlugin)[2]
     IN /\ IF kind = "request" THEN PluginAccepts(c) ELSE UNCHANGED task
        /\ IF kind = "response" THEN CapabilityAnswered(c) ELSE UNCHANGED capability
  /\ UNCHANGED <<hostEnd, pluginEnd, call, pending, inbound, toHost>>

\* PluginRuntime.capability, called by the handler of c.
AskCapability(c) ==
  /\ pluginEnd = "open" /\ task[c] = "running" /\ capability[c] = "none"
  /\ capability' = [capability EXCEPT ![c] = "waiting"]
  /\ PluginSends("request", c)
  /\ UNCHANGED <<hostEnd, pluginEnd, call, pending, task, inbound, toPlugin>>

\* PluginRuntime._dispatch: the handler returns or raises; both are answered.
TaskEnds(c) ==
  /\ task[c] = "running" /\ capability[c] # "waiting"
  /\ task' = [task EXCEPT ![c] = "done"]
  /\ PluginSends("response", c)
  /\ UNCHANGED <<hostEnd, pluginEnd, call, pending, capability, inbound, toPlugin>>

-----------------------------------------------------------------------------
\* JsonRpcPeer._accept_request
AcceptRequest(c) == inbound' = [inbound EXCEPT ![c] = "running"]

\* Mutant: an answer settles the call that waits longest.
AcceptResponseInOrder(c) ==
  LET d == IF pending = {} THEN c ELSE CHOOSE e \in pending : \A f \in pending : e <= f
  IN /\ call' = [call EXCEPT ![d] = IF d \in pending THEN "answered" ELSE @]
     /\ pending' = pending \ {d}

\* JsonRpcPeer._accept_response: an answer nobody waits for is dropped.
AcceptResponse(c) ==
  /\ call' = [call EXCEPT ![c] = IF c \in pending THEN "answered" ELSE @]
  /\ pending' = pending \ {c}

\* One round of JsonRpcPeer._read_loop; the reader runs on until aclose has cancelled it.
HostReads ==
  /\ hostEnd # "closed" /\ toHost # <<>>
  /\ toHost' = Tail(toHost)
  /\ LET c == Head(toHost)[2]
     IN IF Head(toHost)[1] = "request" THEN AcceptRequest(c) /\ UNCHANGED <<call, pending>>
                                       ELSE AcceptResponse(c) /\ UNCHANGED inbound
  /\ UNCHANGED <<hostEnd, pluginEnd, task, capability, toPlugin>>

\* Mutant: a handler that raises is not answered.
HandlerEndsSilently(c) ==
  /\ inbound[c] = "running"
  /\ inbound' = [inbound EXCEPT ![c] = "done"]
  /\ HostSends("response", c) \/ UNCHANGED toPlugin
  /\ UNCHANGED <<hostEnd, pluginEnd, call, pending, task, capability, toHost>>

\* JsonRpcPeer._run_handler: the result or its error is sent.
HandlerEnds(c) ==
  /\ inbound[c] = "running"
  /\ inbound' = [inbound EXCEPT ![c] = "done"]
  /\ HostSends("response", c)
  /\ UNCHANGED <<hostEnd, pluginEnd, call, pending, task, capability, toHost>>

-----------------------------------------------------------------------------
\* _fail_pending
FailPending ==
  /\ call' = [c \in Calls |-> IF c \in pending THEN "failed" ELSE call[c]]
  /\ pending' = {}

\* _cancel_inbound
CancelInbound == inbound' = [c \in Calls |-> IF inbound[c] = "running" THEN "cancelled" ELSE inbound[c]]

\* The end of the plugin's output: the read loop ends the connection.
ReaderEnds ==
  /\ hostEnd = "open"
  /\ pluginEnd = "closed" /\ toHost = <<>>
  /\ hostEnd' = "closed"
  /\ FailPending /\ CancelInbound
  /\ UNCHANGED <<pluginEnd, task, capability, toPlugin, toHost>>

\* A line that is no valid message ends it as well.
ReaderFails ==
  /\ hostEnd = "open" /\ pluginEnd = "open"
  /\ hostEnd' = "closed"
  /\ FailPending /\ CancelInbound
  /\ UNCHANGED <<pluginEnd, task, capability, toPlugin, toHost>>

\* aclose: the writer is closed and waited for.
Close ==
  /\ hostEnd = "open"
  /\ hostEnd' = "closing"
  /\ UNCHANGED <<pluginEnd, call, pending, task, capability, inbound, toPlugin, toHost>>

CloseDone ==
  /\ hostEnd = "closing"
  /\ hostEnd' = "closed"
  /\ FailPending /\ CancelInbound
  /\ UNCHANGED <<pluginEnd, task, capability, toPlugin, toHost>>

\* The wait raises (a broken pipe) or is cut off by the supervisor's timeout.
CloseFails ==
  /\ hostEnd = "closing"
  /\ hostEnd' = "closed"
  /\ UNCHANGED <<pluginEnd, call, pending, task, capability, inbound, toPlugin, toHost>>

\* PluginRuntime.aclose: the waiting calls fail, the tasks are cancelled.
PluginClosed ==
  /\ pluginEnd' = "closed"
  /\ capability' = [c \in Calls |-> IF capability[c] = "waiting" THEN "failed" ELSE capability[c]]
  /\ task' = [c \in Calls |-> IF task[c] = "running" THEN "cancelled" ELSE task[c]]
  /\ UNCHANGED <<hostEnd, call, pending, inbound, toPlugin, toHost>>

\* The plugin has read all its input, and the Host has closed it.
PluginEof == pluginEnd = "open" /\ hostEnd # "open" /\ toPlugin = <<>> /\ PluginClosed

\* The container dies.
PluginDies == pluginEnd = "open" /\ PluginClosed

RpcStep ==
  \/ PluginReads \/ HostReads \/ ReaderEnds \/ CloseDone \/ CloseFails \/ PluginEof
  \/ (\E c \in Calls : RequestTimesOut(c) \/ TaskEnds(c) \/ HandlerEnds(c))

RpcNext ==
  \/ RpcStep \/ ReaderFails \/ Close \/ PluginDies
  \/ (\E c \in Calls : Request(c) \/ AskCapability(c))

\* The loops and the tasks of both ends go on, and handlers return.
RpcFairness == WF_rpcVars(RpcStep)

RpcSpec == RpcInit /\ [][RpcNext]_rpcVars /\ RpcFairness

-----------------------------------------------------------------------------
\* A caller has the answer of its own call only, however late answers of timed out calls
\* come in, and a capability call the answer of its own handler.
OwnAnswer ==
  \A c \in Calls : /\ call[c] = "answered" => task[c] = "done"
                   /\ capability[c] = "answered" => inbound[c] = "done"

\* Nobody waits for ever: a call of the Host ends, and so does a capability call, which
\* has no timeout, also when one end closes or dies while the other one waits for it.
CallsEnd ==
  \A c \in Calls : /\ call[c] = "waiting" ~> call[c] # "waiting"
                   /\ capability[c] = "waiting" ~> capability[c] # "waiting"

\* A closed peer has no caller waiting and no handler running.
ClosedIsQuiet == hostEnd = "closed" => \A c \in Calls : call[c] # "waiting" /\ inbound[c] # "running"
=============================================================================
