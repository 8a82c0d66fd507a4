----------------------------- MODULE PluginHost -----------------------------
(***************************************************************************)
(* One plugin version under the Host: PluginSupervisor (process, lock,     *)
(* generation, session scopes), the event dispatcher of PluginHostRuntime  *)
(* and the durable rows of PluginRepository.                               *)
(*                                                                         *)
(* Everything runs on one event loop.  What holds managed.lock across      *)
(* awaits is the variable op (launch, restore, open, backoff, stop) or a   *)
(* delivery whose event.batch is out (job[m].pc = "sent"); an action that  *)
(* needs the lock has LockFree in its guard.                               *)
(***************************************************************************)
EXTENDS Integers, Sequences, FiniteSets, FiniteSetsExt, Functions

CONSTANTS
  Sessions,     \* MediaSessions
  NoSession,
  BatchSize,    \* settings.media_event_projector_batch_size
  MaxRestarts,  \* settings.plugin_crash_loop_max_restarts
  MaxEvents,    \* bound: the events of each session
  MaxFaults,    \* bound: deaths, refused or unanswered RPCs, Host restarts
  MaxToggles    \* bound: enable and disable requests

ASSUME HostAssumption ==
  /\ NoSession \notin Sessions
  /\ BatchSize \in Nat \ {0}
  /\ MaxEvents \in [Sessions -> Nat]
  /\ {MaxRestarts, MaxFaults, MaxToggles} \subseteq Nat

VARIABLES
  inst,        \* the installation row: "enabled" or "disabled"
  row,         \* binding rows: [delivered, ack] per session that has one
  log,         \* per session, for each media event: is its type subscribed?
  boot,        \* PluginHostRuntime.start: "booting", "up" or "failed"
  enabling,    \* an enable that awaits container_runtime.available()
  disabling,   \* a disable whose first transaction is committed
  status, gen, want, crashes,   \* managed.status, generation, desired_enabled, crash_times
  owned,       \* managed.process: "none", "up" or "down" (exited)
  loose,       \* running containers that no managed.process refers to
  watched,     \* the monitor and heartbeat tasks of the process exist
  op, at,      \* what holds the lock; the session whose session.open is out
  sessions,    \* managed.sessions: [gen, ack] per session
  todo,        \* the bindings _restore_logical_sessions has still to open
  scopes,      \* _scope_index; a scope is <<session, generation>>
  hostScopes,  \* _scope_maps, what the plugin's capability calls resolve
  job,         \* the delivery that holds a session's cursor lock
  seen, kept,  \* the plugin's sequence in memory and in its saved state
  got,         \* the events the plugin has taken in
  faults, toggles

dbVars == <<inst, row, log>>
reqVars == <<boot, enabling, disabling, toggles>>
supVars == <<status, gen, want, crashes, owned, loose, watched>>
lockVars == <<op, at, todo>>
scopeVars == <<sessions, scopes, hostScopes>>
pluginVars == <<seen, kept, got>>
vars == <<dbVars, reqVars, supVars, lockVars, scopeVars, pluginVars, job, faults>>

Live == {"ready", "degraded"}

Statuses == Live \cup {"disabled", "starting", "crashed", "quarantined", "incompatible"}

NoneBound == <<>>

NoJob == [pc |-> "idle", fore |-> FALSE, events |-> {}, through |-> 0, more |-> FALSE]

Bound(f) == DOMAIN f

Bind(f, m, b) == [n \in Bound(f) \cup {m} |-> IF n = m THEN b ELSE f[n]]

Scoped(m) == \E s \in hostScopes : s[1] = m

LockFree == op = "free" /\ \A m \in Sessions : job[m].pc # "sent"

Fault == faults < MaxFaults /\ faults' = faults + 1

\* _invalidate_scopes: the scope of every binding in managed.sessions.
Invalidated(set) == set \ {<<m, sessions[m].gen>> : m \in Bound(sessions)}

TypeOK ==
  /\ inst \in {"enabled", "disabled"} /\ boot \in {"booting", "up", "failed"}
  /\ Bound(row) \subseteq Sessions
  /\ \A m \in Bound(row) : row[m].ack \in 0..Len(log[m]) /\ row[m].delivered \in 0..Len(log[m])
  /\ \A m \in Sessions : Len(log[m]) <= MaxEvents[m] /\ got[m] \subseteq 1..Len(log[m])
  /\ {enabling, disabling, want, watched} \subseteq BOOLEAN
  /\ status \in Statuses /\ owned \in {"none", "up", "down"}
  /\ {gen, crashes, loose} \subseteq Nat
  /\ op \in {"free", "start", "restore", "open", "backoff", "stop"}
  /\ at \in Sessions \cup {NoSession}
  /\ Bound(sessions) \subseteq Sessions /\ Bound(todo) \subseteq Sessions
  /\ \A m \in Bound(sessions) : sessions[m].ack \in 0..Len(log[m]) /\ sessions[m].gen \in 0..gen
  /\ {scopes, hostScopes} \subseteq SUBSET (Sessions \X (0..gen))
  /\ \A m \in Sessions : job[m].pc \in {"idle", "send", "sent", "ack"}
  /\ faults \in 0..MaxFaults /\ toggles \in 0..MaxToggles

-----------------------------------------------------------------------------
(* PluginHostRuntime.enable_plugin and PluginSupervisor.enable / _launch.  *)

\* The Host before any plugin was enabled.
Init ==
  /\ inst = "disabled" /\ row = NoneBound /\ log = [m \in Sessions |-> <<>>]
  /\ boot = "up" /\ enabling = FALSE /\ disabling = FALSE
  /\ status = "disabled" /\ gen = 0 /\ want = TRUE /\ crashes = 0
  /\ owned = "none" /\ loose = 0 /\ watched = FALSE
  /\ op = "free" /\ at = NoSession /\ sessions = NoneBound /\ todo = NoneBound
  /\ scopes = {} /\ hostScopes = {} /\ job = [m \in Sessions |-> NoJob]
  /\ seen = [m \in Sessions |-> 0] /\ kept = seen /\ got = [m \in Sessions |-> {}]
  /\ faults = 0 /\ toggles = 0

EnableRequest ==
  /\ boot # "booting" /\ ~enabling /\ toggles < MaxToggles
  /\ inst' = "enabled" /\ enabling' = TRUE /\ toggles' = toggles + 1
  /\ UNCHANGED <<row, log, boot, disabling, supVars, lockVars, scopeVars, pluginVars, job, faults>>

\* No container runtime: only the health row says degraded.
EnableUnavailable ==
  /\ enabling /\ Fault
  /\ enabling' = FALSE /\ boot' = IF boot = "booting" THEN "up" ELSE boot
  /\ UNCHANGED <<dbVars, disabling, toggles, supVars, lockVars, scopeVars, pluginVars, job>>

\* _load_persisted_sessions, the first time a Host process launches the plugin.
Loaded ==
  IF gen = 0 /\ sessions = NoneBound
  THEN [m \in Bound(row) |-> [gen |-> 0, ack |-> row[m].ack]]
  ELSE sessions

EnableLaunch ==
  /\ enabling /\ LockFree /\ owned = "none" /\ status # "quarantined"
  /\ enabling' = FALSE /\ want' = TRUE
  /\ sessions' = Loaded /\ status' = "starting" /\ op' = "start"
  /\ UNCHANGED <<dbVars, boot, disabling, toggles, gen, crashes, owned, loose, watched, at, todo,
                 scopes, hostScopes, pluginVars, job, faults>>

\* A process object exists, or the plugin is quarantined: nothing is launched.
EnableNothing ==
  /\ enabling /\ LockFree /\ (owned # "none" \/ status = "quarantined")
  /\ enabling' = FALSE /\ want' = TRUE
  /\ UNCHANGED <<dbVars, boot, disabling, toggles, status, gen, crashes, owned, loose, watched,
                 lockVars, scopeVars, pluginVars, job, faults>>

\* The container runs and plugin.initialize names this plugin: a new generation.
StartOk ==
  /\ op = "start"
  /\ owned' = "up" /\ gen' = gen + 1 /\ hostScopes' = {}
  /\ todo' = sessions /\ sessions' = NoneBound /\ op' = "restore"
  /\ UNCHANGED <<dbVars, reqVars, status, want, crashes, loose, watched, at, scopes, pluginVars,
                 job, faults>>

\* start() of the Host gives up at the first plugin that raises: no dispatcher.
BootFails == boot' = IF boot = "booting" THEN "failed" ELSE boot

\* runtime.start raises: no container.
StartRaises ==
  /\ op = "start" /\ Fault
  /\ op' = "free" /\ BootFails
  /\ UNCHANGED <<dbVars, enabling, disabling, toggles, supVars, at, todo, scopeVars, pluginVars,
                 job>>

\* plugin.initialize times out or fails: the container is left running.
InitializeRaises ==
  /\ op = "start" /\ Fault
  /\ op' = "free" /\ BootFails /\ hostScopes' = {} /\ loose' = loose + 1
  /\ UNCHANGED <<dbVars, enabling, disabling, toggles, status, gen, want, crashes, owned, watched,
                 at, todo, sessions, scopes, pluginVars, job>>

\* The plugin answers with another identity or protocol: it is stopped.
InitializeRefused ==
  /\ op = "start" /\ Fault
  /\ op' = "free" /\ BootFails /\ hostScopes' = {} /\ status' = "incompatible"
  /\ UNCHANGED <<dbVars, enabling, disabling, toggles, gen, want, crashes, owned, loose, watched,
                 at, todo, sessions, scopes, pluginVars, job>>

-----------------------------------------------------------------------------
(* session.open, for a restored binding and for a new one.                 *)

\* _new_binding and _set_scope(active=True), before the RPC.
Opening(m) ==
  /\ at' = m
  /\ scopes' = scopes \cup {<<m, gen>>} /\ hostScopes' = hostScopes \cup {<<m, gen>>}

RestoreNext(m) ==
  /\ op = "restore" /\ at = NoSession /\ m \in Bound(todo)
  /\ Opening(m)
  /\ UNCHANGED <<dbVars, reqVars, supVars, op, todo, sessions, pluginVars, job, faults>>

OpenSession(m) ==
  /\ boot # "booting" /\ inst = "enabled" /\ LockFree /\ status \in Live /\ owned # "none"
  /\ m \in Bound(sessions) => sessions[m].gen # gen
  /\ op' = "open" /\ Opening(m)
  /\ UNCHANGED <<dbVars, reqVars, supVars, todo, sessions, pluginVars, job, faults>>

\* A new binding starts at 0, a restored one at the acknowledgement in memory.
After == IF op = "restore" THEN todo[at].ack ELSE 0

\* What the plugin takes as its sequence: after_sequence, or what it had saved.
Resumes(m) == {After, Max({After, kept[m]})}

Opened ==
  /\ at # NoSession /\ owned = "up"
  /\ \E n \in Resumes(at) : seen' = [seen EXCEPT ![at] = n]
  /\ sessions' = Bind(sessions, at, [gen |-> gen, ack |-> After])
  /\ row' = IF at \in Bound(row) THEN row ELSE Bind(row, at, [delivered |-> 0, ack |-> 0])
  /\ todo' = Restrict(todo, Bound(todo) \ {at})
  /\ op' = IF op = "open" THEN "free" ELSE op
  /\ at' = NoSession
  /\ UNCHANGED <<inst, log, reqVars, supVars, scopes, hostScopes, kept, got, job, faults>>

\* Mutant: the scope of a failed session.open stays.
OpenFailsKeeps ==
  /\ at # NoSession /\ Fault
  /\ todo' = NoneBound /\ op' = "free" /\ at' = NoSession
  /\ IF op = "restore" THEN BootFails ELSE UNCHANGED boot
  /\ UNCHANGED <<dbVars, enabling, disabling, toggles, supVars, scopeVars, pluginVars, job>>

\* The RPC fails: the scope is withdrawn; a restore ends here, with the process
\* kept, the status starting and the bindings not yet restored forgotten.
OpenFails ==
  /\ at # NoSession
  /\ \/ Fault
     \/ owned = "down" /\ UNCHANGED faults
  /\ scopes' = scopes \ {<<at, gen>>} /\ hostScopes' = hostScopes \ {<<at, gen>>}
  /\ todo' = NoneBound /\ op' = "free" /\ at' = NoSession
  /\ IF op = "restore" THEN BootFails ELSE UNCHANGED boot
  /\ UNCHANGED <<dbVars, enabling, disabling, toggles, supVars, sessions, pluginVars, job>>

LaunchDone ==
  /\ op = "restore" /\ at = NoSession /\ todo = NoneBound
  /\ status' = "ready" /\ watched' = TRUE /\ op' = "free"
  /\ boot' = IF boot = "booting" THEN "up" ELSE boot
  /\ UNCHANGED <<dbVars, enabling, disabling, toggles, gen, want, crashes, owned, loose, at, todo,
                 scopeVars, pluginVars, job, faults>>

-----------------------------------------------------------------------------
(* Death, crash handling, heartbeat and disable.                           *)

ProcessDies ==
  /\ owned = "up" /\ Fault
  /\ owned' = "down"
  /\ UNCHANGED <<dbVars, reqVars, status, gen, want, crashes, loose, watched, lockVars, scopeVars,
                 pluginVars, job>>

\* Mutant: _handle_crash without _invalidate_scopes.
CrashKeepsScopes ==
  /\ watched /\ owned = "down" /\ want /\ LockFree
  /\ owned' = "none" /\ watched' = FALSE /\ crashes' = crashes + 1
  /\ IF crashes' > MaxRestarts
     THEN status' = "quarantined" /\ UNCHANGED op
     ELSE status' = "crashed" /\ op' = "backoff"
  /\ UNCHANGED <<dbVars, reqVars, gen, want, loose, at, todo, scopeVars, pluginVars, job, faults>>

\* _monitor_exit and _handle_crash up to the backoff; the window may have
\* dropped any number of older crashes.
CrashHandled ==
  /\ watched /\ owned = "down" /\ want /\ LockFree
  /\ owned' = "none" /\ watched' = FALSE
  /\ scopes' = Invalidated(scopes) /\ hostScopes' = Invalidated(hostScopes)
  /\ \E n \in 1..(crashes + 1) :
       /\ crashes' = n
       /\ IF n > MaxRestarts
          THEN status' = "quarantined" /\ UNCHANGED op
          ELSE status' = "crashed" /\ op' = "backoff"
  /\ UNCHANGED <<dbVars, reqVars, gen, want, loose, at, todo, sessions, pluginVars, job, faults>>

BackoffEnds ==
  /\ op = "backoff"
  /\ status' = "starting" /\ op' = "start"
  /\ UNCHANGED <<dbVars, reqVars, gen, want, crashes, owned, loose, watched, at, todo, scopeVars,
                 pluginVars, job, faults>>

\* heartbeat_once, its answer and the transition under the lock.
Heartbeat ==
  /\ watched /\ LockFree
  /\ \/ owned = "up" /\ status' = "ready" /\ UNCHANGED faults
     \/ owned = "up" /\ status' = "degraded" /\ Fault
     \/ owned = "down" /\ status' = "degraded" /\ UNCHANGED faults
  /\ status' # status
  /\ UNCHANGED <<dbVars, reqVars, gen, want, crashes, owned, loose, watched, lockVars, scopeVars,
                 pluginVars, job>>

DisableRequest ==
  /\ boot # "booting" /\ ~disabling /\ toggles < MaxToggles
  /\ inst' = "disabled" /\ disabling' = TRUE /\ toggles' = toggles + 1
  /\ UNCHANGED <<row, log, boot, enabling, supVars, lockVars, scopeVars, pluginVars, job, faults>>

DisableBegin ==
  /\ disabling /\ LockFree
  /\ want' = FALSE /\ op' = "stop"
  /\ UNCHANGED <<dbVars, reqVars, status, gen, crashes, owned, loose, watched, at, todo, scopeVars,
                 pluginVars, job, faults>>

\* _drain_and_stop, the transition and the second transaction of disable_plugin.
DisableEnd ==
  /\ op = "stop"
  /\ owned' = "none" /\ watched' = FALSE /\ status' = "disabled" /\ op' = "free"
  /\ scopes' = Invalidated(scopes) /\ hostScopes' = Invalidated(hostScopes)
  /\ inst' = "disabled" /\ disabling' = FALSE
  /\ UNCHANGED <<row, log, boot, enabling, toggles, gen, want, crashes, loose, at, todo, sessions,
                 pluginVars, job, faults>>

\* The Host process ends, with or without stop(); containers end with their
\* stdin; start() enables the plugin again if its row says so.
HostRestart ==
  /\ Fault
  /\ boot' = IF inst = "enabled" THEN "booting" ELSE "up"
  /\ enabling' = (inst = "enabled") /\ disabling' = FALSE
  /\ status' = "disabled" /\ gen' = 0 /\ want' = TRUE /\ crashes' = 0
  /\ owned' = "none" /\ loose' = 0 /\ watched' = FALSE
  /\ op' = "free" /\ at' = NoSession /\ sessions' = NoneBound /\ todo' = NoneBound
  /\ scopes' = {} /\ hostScopes' = {} /\ job' = [m \in Sessions |-> NoJob]
  /\ UNCHANGED <<dbVars, toggles, pluginVars>>

-----------------------------------------------------------------------------
(* Delivery: one job per session holds the cursor lock.                    *)

\* The projector appends an event, of a subscribed type or not.
NewEvent(m, sub) ==
  /\ Len(log[m]) < MaxEvents[m]
  /\ log' = [log EXCEPT ![m] = Append(@, sub)]
  /\ UNCHANGED <<inst, row, reqVars, supVars, lockVars, scopeVars, pluginVars, job, faults>>

\* list_media_events: the next events after the cursor.
Raw(m, cursor) == {i \in (cursor + 1)..(cursor + BatchSize) : i <= Len(log[m])}

Subscribed(m, raw) == {i \in raw : log[m][i]}

\* Mutant: the sequence of the next event instead of the last one.
ThroughNext(m, raw) == Max(raw) + 1

\* delivered_through: the last subscribed event, or the last one of all.
Through(m, raw) ==
  Max(IF Subscribed(m, raw) # {} THEN Subscribed(m, raw) ELSE raw)

\* One round of _deliver_event_batches, as far as advance_binding_delivery.
Round(m, cursor, fore) ==
  LET raw == Raw(m, cursor)
  IN [pc |-> "send", fore |-> fore, events |-> Subscribed(m, raw), through |-> Through(m, raw),
      more |-> Through(m, raw) < Max(raw) \/ Cardinality(raw) = BatchSize]

\* advance_binding_delivery.
Advanced(r, n) == [r EXCEPT !.delivered = Max({@, n})]

\* Mutant: the cursor is what was sent, not what was acknowledged.
JobBeginSent(m, fore) ==
  /\ job[m].pc = "idle" /\ Scoped(m) /\ m \in Bound(row)
  /\ IF fore THEN boot # "booting" ELSE boot = "up" /\ status \in Live
  /\ Raw(m, row[m].delivered) # {}
  /\ job' = [job EXCEPT ![m] = Round(m, row[m].delivered, fore)]
  /\ row' = [row EXCEPT ![m] = Advanced(@, job'[m].through)]
  /\ UNCHANGED <<inst, log, reqVars, supVars, lockVars, scopeVars, pluginVars, faults>>

\* A pass of the dispatcher, or the catch-up of a page that opens the session.
JobBegin(m, fore) ==
  /\ job[m].pc = "idle" /\ Scoped(m) /\ m \in Bound(row)
  /\ IF fore THEN boot # "booting" ELSE boot = "up" /\ status \in Live
  /\ Raw(m, row[m].ack) # {}
  /\ job' = [job EXCEPT ![m] = Round(m, row[m].ack, fore)]
  /\ row' = [row EXCEPT ![m] = Advanced(@, job'[m].through)]
  /\ UNCHANGED <<inst, log, reqVars, supVars, lockVars, scopeVars, pluginVars, faults>>

\* _deliver_background_events logs what is raised and leaves the cursor alone.
JobEnds(m) == job' = [job EXCEPT ![m] = NoJob]

\* Mutant: memory takes the newest event for acknowledged.
AckMemoryNewest(m, n) ==
  /\ sessions' = [sessions EXCEPT ![m].ack = Len(log[m])]
  /\ scopes' = scopes \cup {<<m, sessions[m].gen>>}
  /\ job' = [job EXCEPT ![m].pc = "ack", ![m].through = n]

\* An acknowledgement in memory: managed.sessions and _scope_index, whatever the status is.
AckMemory(m, n) ==
  /\ sessions' = [sessions EXCEPT ![m].ack = n]
  /\ scopes' = scopes \cup {<<m, sessions[m].gen>>}
  /\ job' = [job EXCEPT ![m].pc = "ack", ![m].through = n]

CanDeliver(m) == owned # "none" /\ status \in Live /\ m \in Bound(sessions)

JobSend(m) ==
  /\ job[m].pc = "send" /\ LockFree /\ job[m].events # {}
  /\ IF CanDeliver(m) THEN job' = [job EXCEPT ![m].pc = "sent"] ELSE JobEnds(m)
  /\ UNCHANGED <<dbVars, reqVars, supVars, lockVars, scopeVars, pluginVars, faults>>

\* acknowledge_through: nothing of the batch is subscribed.
JobSkip(m) ==
  /\ job[m].pc = "send" /\ LockFree /\ job[m].events = {}
  /\ IF m \in Bound(sessions) /\ job[m].through >= sessions[m].ack
     THEN AckMemory(m, job[m].through)
     ELSE JobEnds(m) /\ UNCHANGED <<sessions, scopes>>
  /\ UNCHANGED <<dbVars, reqVars, supVars, lockVars, hostScopes, pluginVars, faults>>

\* The plugin takes in what is new to it and saves its sequence.
Received(m) ==
  /\ got' = [got EXCEPT ![m] = @ \cup {i \in job[m].events : i > seen[m]}]
  /\ seen' = [seen EXCEPT ![m] = Max({@} \cup job[m].events)]
  /\ kept' = [kept EXCEPT ![m] = Max({@, seen'[m]})]

\* deliver_events refuses an answer below the binding or above the batch.
Fits(m, n) == sessions[m].ack <= n /\ n <= Max(job[m].events)

JobReply(m) ==
  /\ job[m].pc = "sent" /\ owned = "up"
  /\ Received(m)
  /\ IF Fits(m, seen'[m])
     THEN AckMemory(m, seen'[m])
     ELSE JobEnds(m) /\ UNCHANGED <<sessions, scopes>>
  /\ UNCHANGED <<dbVars, reqVars, supVars, lockVars, hostScopes, faults>>

\* Mutant: a lost answer counts as an acknowledgement.
JobLostAcks(m) ==
  /\ job[m].pc = "sent" /\ Fault
  /\ job' = [job EXCEPT ![m].pc = "ack"]
  /\ UNCHANGED <<dbVars, reqVars, supVars, lockVars, scopeVars, pluginVars>>

\* A timeout, an error or a dead process; the plugin may have taken the batch in.
JobLost(m) ==
  /\ job[m].pc = "sent"
  /\ \/ owned = "up" /\ Fault /\ Received(m)
     \/ owned = "up" /\ Fault /\ UNCHANGED pluginVars
     \/ owned = "down" /\ UNCHANGED <<faults, pluginVars>>
  /\ JobEnds(m)
  /\ UNCHANGED <<dbVars, reqVars, supVars, lockVars, scopeVars>>

\* acknowledge_binding refuses what was never marked delivered.
Acknowledged(r, n) == IF n <= r.delivered THEN [r EXCEPT !.ack = Max({@, n})] ELSE r

\* A catch-up goes on with the next batch, a pass of the dispatcher ends.
Again(m) ==
  LET n == job[m].through
  IN job[m].fore /\ job[m].more /\ row[m].ack < n /\ n <= row[m].delivered /\ Raw(m, n) # {}

JobAck(m) ==
  /\ job[m].pc = "ack"
  /\ job' = [job EXCEPT ![m] = IF Again(m) THEN Round(m, @.through, TRUE) ELSE NoJob]
  /\ LET r == Acknowledged(row[m], job[m].through)
     IN row' = [row EXCEPT ![m] = IF Again(m) THEN Advanced(r, job'[m].through) ELSE r]
  /\ UNCHANGED <<inst, log, reqVars, supVars, lockVars, scopeVars, pluginVars, faults>>

\* The dispatcher cancels a job whose session is no longer a target.
JobCancel(m) ==
  /\ job[m].pc \in {"send", "ack"} /\ ~job[m].fore
  /\ ~Scoped(m) \/ status \notin Live
  /\ boot = "up"
  /\ JobEnds(m)
  /\ UNCHANGED <<dbVars, reqVars, supVars, lockVars, scopeVars, pluginVars, faults>>

-----------------------------------------------------------------------------
Lifecycle ==
  \/ EnableRequest \/ EnableUnavailable \/ EnableLaunch \/ EnableNothing
  \/ StartOk \/ StartRaises \/ InitializeRaises \/ InitializeRefused
  \/ Opened \/ OpenFails \/ LaunchDone
  \/ ProcessDies \/ CrashHandled \/ BackoffEnds \/ Heartbeat
  \/ DisableRequest \/ DisableBegin \/ DisableEnd \/ HostRestart

Delivery(m) ==
  \/ JobSend(m) \/ JobSkip(m) \/ JobReply(m) \/ JobLost(m) \/ JobAck(m) \/ JobCancel(m)

Next ==
  \/ Lifecycle
  \/ \E m \in Sessions :
       \/ RestoreNext(m) \/ OpenSession(m) \/ Delivery(m)
       \/ \E b \in BOOLEAN : NewEvent(m, b) \/ JobBegin(m, b)

Spec == Init /\ [][Next]_vars

\* The dispatcher polls and awaited calls answer or time out: weak fairness.
\* asyncio.Lock wakes its waiters in the order they came: strong fairness for
\* the steps that need the lock.
Fairness ==
  /\ SF_vars(EnableLaunch \/ EnableNothing) /\ SF_vars(CrashHandled) /\ SF_vars(DisableBegin)
  /\ WF_vars(StartOk \/ LaunchDone \/ Opened \/ OpenFails)
  /\ WF_vars(BackoffEnds) /\ WF_vars(DisableEnd)
  /\ \A m \in Sessions :
       /\ SF_vars(JobSend(m) \/ JobSkip(m))
       /\ WF_vars(RestoreNext(m)) /\ WF_vars(JobBegin(m, FALSE))
       /\ WF_vars(JobReply(m) \/ JobLost(m)) /\ WF_vars(JobAck(m))

FairSpec == Spec /\ Fairness

-----------------------------------------------------------------------------
(* Properties.                                                             *)

\* No silent skip: the durable acknowledgement of a binding never passes an
\* event of a subscribed type that the plugin has not taken in, across lost
\* answers, cancelled passes, restored bindings and Host restarts
\* (_deliver_event_batches, acknowledge_through, acknowledge_binding).
NoEventLost ==
  \A m \in Bound(row) : \A i \in 1..row[m].ack : log[m][i] => i \in got[m]

\* A retry is never refused: the batch read from the durable cursor reaches at
\* least as far as what the plugin has seen and what memory has acknowledged,
\* so the bounds check of deliver_events, "cannot move backwards" of
\* acknowledge_through and "was not delivered" of acknowledge_binding never
\* wedge a session.
RetryAccepted ==
  \A m \in Sessions :
    /\ job[m].pc = "sent" /\ owned = "up" => Fits(m, Max({seen[m]} \cup job[m].events))
    /\ job[m].pc = "send" /\ job[m].events = {} /\ m \in Bound(sessions)
         => sessions[m].ack <= job[m].through
    /\ job[m].pc = "ack" => job[m].through <= row[m].delivered

\* The plugin's capability calls resolve scopes of the current generation only,
\* and while it is ready exactly those of its bindings, all of which
\* validate_scope accepts: a restart leaves no old authority behind
\* (_set_scope, _invalidate_scopes, _set_binding_scope, _configure_peer).
ScopesCurrent ==
  /\ \A s \in hostScopes : s[2] = gen
  /\ op = "free" /\ status \in Live =>
       /\ hostScopes = {<<m, gen>> : m \in Bound(sessions)}
       /\ hostScopes \subseteq scopes
       /\ \A m \in Bound(sessions) : sessions[m].gen = gen

\* A disabled or quarantined plugin keeps no process, no monitor and no scope
\* (_drain_and_stop, _handle_crash), whatever was in flight.
QuietWhenStopped ==
  op = "free" /\ status \in {"disabled", "quarantined"} =>
    owned = "none" /\ ~watched /\ hostScopes = {}

\* A session that stays open at a running plugin under a running dispatcher
\* catches up with its events (_dispatch_events_loop retries from the cursor).
CatchesUp ==
  \A m \in Sessions :
    <>[](boot = "up" /\ status \in Live /\ Scoped(m) /\ m \in Bound(sessions))
      => <>[](m \in Bound(row) /\ row[m].ack = Len(log[m]))

\* One process per enabled plugin version.
OneContainer == loose + (IF owned = "up" THEN 1 ELSE 0) <= 1

\* Deliveries, restarts, restores and crashes leave no event lost, no retry refused,
\* no authority of an earlier generation and no process of a stopped plugin.
HostSafe == TypeOK /\ NoEventLost /\ RetryAccepted /\ ScopesCurrent /\ QuietWhenStopped

=============================================================================
